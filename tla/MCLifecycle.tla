---------------------------- MODULE MCLifecycle ----------------------------
(* Small instances of Lifecycle: the .cfg files give the constants.       *)
EXTENDS Lifecycle
=============================================================================
