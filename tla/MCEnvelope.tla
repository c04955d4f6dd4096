----------------------------- MODULE MCEnvelope -----------------------------
(* Small instances of Envelope: the .cfg files give the constants.         *)
EXTENDS Envelope
=============================================================================
