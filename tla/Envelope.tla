------------------------------ MODULE Envelope ------------------------------
(***************************************************************************)
(* env_proc (env_proc.c): the envelope of one frame.  It follows the       *)
(* magnitude of the samples upwards at once and downwards by one per       *)
(* sample.  Each call starts from zero, although a frame repeats the       *)
(* second half of the frame before (see AudioPipe).  Samples are integers  *)
(* that a float holds exactly.  The header of the file speaks of peaks     *)
(* joined by linear interpolation (env_proc.c:6-7); there is none in the   *)
(* code, and this module is the code.                                      *)
(***************************************************************************)
EXTENDS Integers

CONSTANTS
  Half,   \* FFT_SIZE_DIV2
  Peak    \* a sample is in -Peak .. Peak - 1

ASSUME EnvelopeAssumption ==
  /\ Half \in Nat \ {0}
  /\ Peak \in Nat \ {0}

FFT_SIZE == 2 * Half

Index == 0..(FFT_SIZE - 1)
Sample == (-Peak)..(Peak - 1)

VARIABLES
  ts_in,   \* the frame
  env_ts,
  i,       \* sample the loop is at
  pc,      \* "idle" between calls
  sent,    \* the envelope sent by the last call
  again    \* FALSE until a call has sent one

vars == <<ts_in, env_ts, i, pc, sent, again>>

\* env_ts after bzero.
Zero == [k \in Index |-> 0]

Init ==
  /\ ts_in \in [Index -> Sample]
  /\ env_ts = Zero
  /\ i = 1
  /\ pc = "loop"
  /\ sent = Zero
  /\ again = FALSE

\* fabs of a sample.
Abs(x) == IF x < 0 THEN -x ELSE x

\* Broken variant: fabs forgotten.
MagnitudeSigned(k) == ts_in[k]

Magnitude(k) == Abs(ts_in[k])

\* Broken variant: the envelope falls twice as fast.
FallsFaster(e) == e - 2

\* The envelope after e, when the next sample does not reach above it.
Falls(e) == e - 1

\* One turn of the loop.
Follow ==
  /\ pc = "loop"
  /\ i < FFT_SIZE
  /\ env_ts' = [env_ts EXCEPT ![i] =
                  IF Magnitude(i) > env_ts[i - 1] THEN Magnitude(i)
                                                  ELSE Falls(env_ts[i - 1])]
  /\ i' = i + 1
  /\ UNCHANGED <<ts_in, pc, sent, again>>

\* The write to env_sock, free, and the return to fft_thread.
Return ==
  /\ pc = "loop"
  /\ i = FFT_SIZE
  /\ sent' = env_ts
  /\ again' = TRUE
  /\ pc' = "idle"
  /\ UNCHANGED <<ts_in, env_ts, i>>

\* Broken variant: env_ts is not cleared.
CallStale ==
  /\ pc = "idle"
  /\ \E fresh \in [Half..(FFT_SIZE - 1) -> Sample] :
       ts_in' = [k \in Index |-> IF k < Half THEN ts_in[k + Half] ELSE fresh[k]]
  /\ env_ts' = [env_ts EXCEPT ![0] = env_ts[FFT_SIZE - 1]]
  /\ i' = 1
  /\ pc' = "loop"
  /\ UNCHANGED <<sent, again>>

\* fft_thread calls with the next frame, and valloc and bzero succeed.
Call ==
  /\ pc = "idle"
  /\ \E fresh \in [Half..(FFT_SIZE - 1) -> Sample] :
       ts_in' = [k \in Index |-> IF k < Half THEN ts_in[k + Half] ELSE fresh[k]]
  /\ env_ts' = Zero
  /\ i' = 1
  /\ pc' = "loop"
  /\ UNCHANGED <<sent, again>>

Next == Follow \/ Return \/ Call

Spec == Init /\ [][Next]_vars
-----------------------------------------------------------------------------
(* Properties.                                                             *)

TypeOK ==
  /\ ts_in \in [Index -> Sample]
  /\ env_ts \in [Index -> (-1)..Peak]
  /\ i \in 1..FFT_SIZE
  /\ pc \in {"loop", "idle"}
  /\ sent \in [Index -> (-1)..Peak]
  /\ again \in BOOLEAN

\* Height of the peak at p: sample 0 is not looked at, the envelope starts at
\* zero there.
PeakAt(p) == IF p = 0 THEN 0 ELSE Abs(ts_in[p])

\* Every peak is held: after k - p samples the envelope is at most that much,
\* and one, below the peak at p (env_proc.c:53-62).
PeaksHeld ==
  \A k \in 0..(i - 1) : \A p \in 0..k : env_ts[k] >= PeakAt(p) - (k - p) - 1

\* Where a frame repeats the one before, its envelope may have forgotten
\* peaks, but never shows more than the earlier one, give or take one
\* (env_proc.c:50, dcomposer.c:447, 466).
RestartOnlyForgets ==
  again /\ pc = "loop" =>
    \A k \in 0..(i - 1) : k < Half => env_ts[k] <= sent[k + Half] + 1
=============================================================================
