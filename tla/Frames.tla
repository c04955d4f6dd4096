------------------------------- MODULE Frames -------------------------------
(***************************************************************************)
(* The overlapping analysis frames that main cuts out of the decoded       *)
(* samples.  Audio is measured in units of one pipe page (2048 16-bit      *)
(* samples, 4096 bytes): a frame of FFT_SIZE samples is FrameUnits of      *)
(* them, and a unit is named by its position in ssamps_l.                  *)
(***************************************************************************)
EXTENDS Integers, Sequences

CONSTANTS
  Hop,         \* units in half a frame: FFT_SIZE_DIV2 samples
  SkipUnits    \* units skipped before the first frame: 16384*10 samples

ASSUME FramesAssumption ==
  /\ Hop \in Nat \ {0}
  /\ SkipUnits \in Nat

\* FFT_SIZE: a frame is two halves.
FrameUnits == 2 * Hop

\* Unit at which the k-th frame (k = 1, 2, ...) starts: the play loop writes
\* two frames per turn, half a frame apart.
StartOf(k) == SkipUnits + (k - 1) * Hop

\* FrameUnits consecutive units from position "from".
UnitsFrom(from) == [i \in 1..FrameUnits |-> from + i - 1]

\* The k-th frame.
Window(k) == UnitsFrom(StartOf(k))

\* raw_pcm before the first read: valloc, then bzero.
Silence == [i \in 1..FrameUnits |-> -1]
=============================================================================
