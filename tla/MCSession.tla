----------------------------- MODULE MCSession -----------------------------
(* A small instance of Session: the .cfg file gives the constants.         *)
EXTENDS Session
=============================================================================
