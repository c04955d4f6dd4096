---------------------------- MODULE MCDisplays ----------------------------
(* Small instances of Displays: the .cfg files give the constants.         *)
EXTENDS Displays
=============================================================================
