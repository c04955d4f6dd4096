---------------------------- MODULE MCDecoding ----------------------------
(* A small instance of Decoding: the .cfg file gives the constants.       *)
EXTENDS Decoding
===========================================================================
