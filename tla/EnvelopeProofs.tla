--------------------------- MODULE EnvelopeProofs ---------------------------
(***************************************************************************)
(* Proofs about Envelope, for frames of any size and samples of any width. *)
(***************************************************************************)
EXTENDS Envelope, TLAPS

\* What the envelope sent last still says about the frame being followed, or
\* about the next one: all peaks of the part the two frames share are in it.
SentHoldsPeaks ==
  again =>
    \A k, p \in 0..(Half - 1) : p <= k =>
      LET sample == IF pc = "loop" THEN ts_in[p] ELSE ts_in[p + Half]
      IN  sent[k + Half] >= Abs(sample) - (k - p) - 1

\* Each value of the envelope comes from a peak, by falling one per sample.
FromPeaks ==
  \A k \in 0..(i - 1) : \E p \in 0..k : env_ts[k] = PeakAt(p) - (k - p)

\* A call that is over has followed the frame to its end.
CallOver == pc = "idle" => i = FFT_SIZE

\* The envelope starts from zero.
StartsFromZero == env_ts[0] = 0

IInv ==
  /\ TypeOK /\ StartsFromZero /\ CallOver
  /\ PeaksHeld /\ FromPeaks
  /\ SentHoldsPeaks

LEMMA Sizes ==
  /\ Half \in Nat /\ Half >= 1
  /\ FFT_SIZE \in Nat /\ FFT_SIZE >= 2
  /\ \A k \in 0..(Half - 1) : k \in Index /\ k + Half \in Index
  /\ 0 \in Index
BY EnvelopeAssumption DEF FFT_SIZE, Index

LEMMA AbsBounds ==
  ASSUME NEW x \in Sample
  PROVE  Abs(x) \in 0..Peak
BY EnvelopeAssumption DEF Sample, Abs

\* No peak is higher than the largest magnitude of a sample.
LEMMA PeakRange ==
  ASSUME TypeOK, NEW p \in Index
  PROVE  PeakAt(p) \in 0..Peak
<1>1. ts_in[p] \in Sample
  BY DEF TypeOK
<1> QED  BY <1>1, AbsBounds, EnvelopeAssumption DEF PeakAt

LEMMA ZeroIsAnEnvelope == Zero \in [Index -> (-1)..Peak]
BY EnvelopeAssumption DEF Zero

LEMMA InitEstablishesIInv ==
  ASSUME Init
  PROVE  IInv
<1>1. TypeOK
  <2>1. ts_in \in [Index -> Sample] /\ i \in 1..FFT_SIZE /\ pc \in {"loop", "idle"}
    BY Sizes DEF Init
  <2>2. env_ts \in [Index -> (-1)..Peak] /\ sent \in [Index -> (-1)..Peak]
    BY ZeroIsAnEnvelope DEF Init
  <2>3. again \in BOOLEAN
    BY DEF Init
  <2> QED  BY <2>1, <2>2, <2>3 DEF TypeOK
<1>2. StartsFromZero /\ CallOver /\ SentHoldsPeaks
  BY Sizes DEF Init, StartsFromZero, CallOver, SentHoldsPeaks, Zero
<1>3. PeaksHeld /\ FromPeaks
  BY Sizes DEF Init, PeaksHeld, FromPeaks, Zero, PeakAt
<1> QED  BY <1>1, <1>2, <1>3 DEF IInv

\* One turn of the loop.
LEMMA FollowKeepsIInv ==
  ASSUME IInv, Follow
  PROVE  IInv'
<1> DEFINE x == Abs(ts_in[i])
           e == env_ts[i - 1]
           new == IF x > e THEN x ELSE e - 1
<1>1. /\ i \in 1..(FFT_SIZE - 1) /\ i \in Index /\ i - 1 \in Index
      /\ x \in 0..Peak /\ e \in (-1)..Peak
  <2>1. i \in 1..(FFT_SIZE - 1) /\ i \in Index /\ i - 1 \in Index
    BY Sizes DEF IInv, TypeOK, Follow, Index
  <2>2. ts_in[i] \in Sample /\ e \in (-1)..Peak
    BY <2>1 DEF IInv, TypeOK
  <2> QED  BY <2>1, <2>2, AbsBounds
<1>2. new \in (-1)..Peak /\ new >= x - 1 /\ new >= e - 1
  BY <1>1, EnvelopeAssumption
<1> HIDE DEF new, x, e
<1>3. /\ env_ts' = [env_ts EXCEPT ![i] = new]
      /\ i' = i + 1
      /\ pc = "loop"
      /\ UNCHANGED <<ts_in, pc, sent, again>>
  BY DEF Follow, Magnitude, Falls, new, x, e
<1>4. /\ env_ts'[i] = new
      /\ \A k \in 0..(i - 1) : env_ts'[k] = env_ts[k]
  BY <1>1, <1>3, Sizes DEF IInv, TypeOK, Index
<1>5. TypeOK'
  <2>1. env_ts' \in [Index -> (-1)..Peak]
    BY <1>2, <1>3 DEF IInv, TypeOK
  <2>2. i' \in 1..FFT_SIZE
    BY <1>1, <1>3, Sizes
  <2> QED  BY <2>1, <2>2, <1>3 DEF IInv, TypeOK
<1>6. StartsFromZero' /\ CallOver' /\ SentHoldsPeaks'
  BY <1>1, <1>3, <1>4 DEF IInv, StartsFromZero, CallOver, SentHoldsPeaks
<1>7. PeaksHeld'
  <2> SUFFICES ASSUME NEW k \in 0..i, NEW p \in 0..k
               PROVE  env_ts'[k] >= PeakAt(p) - (k - p) - 1
    BY <1>1, <1>3 DEF PeaksHeld, PeakAt
  <2>1. CASE k < i
    <3>1. k \in 0..(i - 1)
      BY <2>1, <1>1
    <3> QED  BY <3>1, <1>4 DEF IInv, PeaksHeld
  <2>2. CASE k = i /\ p = i
    BY <2>2, <1>1, <1>2, <1>4 DEF PeakAt, x
  <2>3. CASE k = i /\ p < i
    <3>1. i - 1 \in 0..(i - 1) /\ p \in 0..(i - 1)
      BY <2>3, <1>1
    <3>2. e >= PeakAt(p) - ((i - 1) - p) - 1
      BY <3>1 DEF IInv, PeaksHeld, e
    <3>3. PeakAt(p) \in 0..Peak
      <4>1. p \in Index
        BY <3>1, <1>1, Sizes DEF Index
      <4> QED  BY <4>1, PeakRange DEF IInv
    <3> QED  BY <2>3, <3>2, <3>3, <1>1, <1>2, <1>4, EnvelopeAssumption
  <2> QED  BY <2>1, <2>2, <2>3, <1>1
<1>8. FromPeaks'
  <2> SUFFICES ASSUME NEW k \in 0..i
               PROVE  \E p \in 0..k : env_ts'[k] = PeakAt(p) - (k - p)
    BY <1>1, <1>3 DEF FromPeaks, PeakAt
  <2>1. CASE k < i
    <3>1. k \in 0..(i - 1)
      BY <2>1, <1>1
    <3> QED  BY <3>1, <1>4 DEF IInv, FromPeaks
  <2>2. CASE k = i /\ x > e
    <3>1. env_ts'[i] = PeakAt(i) - (i - i)
      BY <2>2, <1>1, <1>4 DEF PeakAt, new, x
    <3> QED  BY <2>2, <3>1, <1>1
  <2>3. CASE k = i /\ ~ (x > e)
    <3>1. PICK p \in 0..(i - 1) : e = PeakAt(p) - ((i - 1) - p)
      BY <1>1 DEF IInv, FromPeaks, e
    <3>2. PeakAt(p) \in 0..Peak
      <4>1. p \in Index
        BY <3>1, <1>1, Sizes DEF Index
      <4> QED  BY <4>1, PeakRange DEF IInv
    <3>3. env_ts'[i] = PeakAt(p) - (i - p)
      BY <2>3, <3>1, <3>2, <1>1, <1>4, EnvelopeAssumption DEF new
    <3> QED  BY <2>3, <3>1, <3>3, <1>1
  <2> QED  BY <2>1, <2>2, <2>3, <1>1
<1> QED  BY <1>5, <1>6, <1>7, <1>8 DEF IInv

\* The end of a call.
LEMMA ReturnKeepsIInv ==
  ASSUME IInv, Return
  PROVE  IInv'
<1>1. TypeOK' /\ StartsFromZero' /\ CallOver' /\ PeaksHeld' /\ FromPeaks'
  BY DEF IInv, Return, TypeOK, StartsFromZero, CallOver, PeaksHeld,
         FromPeaks, PeakAt
<1>2. SentHoldsPeaks'
  <2> SUFFICES ASSUME NEW k \in 0..(Half - 1), NEW p \in 0..(Half - 1), p <= k
               PROVE  env_ts[k + Half] >= Abs(ts_in[p + Half]) - (k - p) - 1
    BY DEF Return, SentHoldsPeaks
  <2>1. k + Half \in 0..(i - 1) /\ p + Half \in 0..(k + Half) /\ p + Half # 0
    BY Sizes DEF Return, FFT_SIZE
  <2>2. env_ts[k + Half] >= PeakAt(p + Half) - ((k + Half) - (p + Half)) - 1
    BY <2>1 DEF IInv, PeaksHeld
  <2>3. (k + Half) - (p + Half) = k - p
    BY Sizes
  <2> QED  BY <2>1, <2>2, <2>3 DEF PeakAt
<1> QED  BY <1>1, <1>2 DEF IInv

\* The next call: the first half of its frame is the second half of the last.
LEMMA CallKeepsIInv ==
  ASSUME IInv, Call
  PROVE  IInv'
<1>1. PICK fresh \in [Half..(FFT_SIZE - 1) -> Sample] :
        ts_in' = [k \in Index |-> IF k < Half THEN ts_in[k + Half] ELSE fresh[k]]
  BY DEF Call
<1>2. ts_in' \in [Index -> Sample]
  <2> SUFFICES ASSUME NEW k \in Index
               PROVE  (IF k < Half THEN ts_in[k + Half] ELSE fresh[k]) \in Sample
    BY <1>1
  <2>1. CASE k < Half
    <3>1. k + Half \in Index
      BY <2>1, Sizes DEF Index
    <3> QED  BY <2>1, <3>1 DEF IInv, TypeOK
  <2>2. CASE ~ (k < Half)
    <3>1. k \in Half..(FFT_SIZE - 1)
      BY <2>2, Sizes DEF Index
    <3> QED  BY <2>2, <3>1
  <2> QED  BY <2>1, <2>2
<1>3. TypeOK'
  BY <1>2, Sizes, ZeroIsAnEnvelope DEF IInv, TypeOK, Call
<1>4. StartsFromZero' /\ CallOver'
  BY Sizes DEF Call, StartsFromZero, CallOver, Zero
<1>5. PeaksHeld' /\ FromPeaks'
  BY Sizes DEF Call, PeaksHeld, FromPeaks, PeakAt, Zero
<1>6. SentHoldsPeaks'
  <2> SUFFICES ASSUME again, NEW k \in 0..(Half - 1), NEW p \in 0..(Half - 1), p <= k
               PROVE  sent[k + Half] >= Abs(ts_in'[p]) - (k - p) - 1
    BY DEF Call, SentHoldsPeaks
  <2>1. ts_in'[p] = ts_in[p + Half]
    BY <1>1, Sizes
  <2> QED  BY <2>1 DEF IInv, Call, SentHoldsPeaks
<1> QED  BY <1>3, <1>4, <1>5, <1>6 DEF IInv

LEMMA NextPreservesIInv ==
  ASSUME IInv, [Next]_vars
  PROVE  IInv'
<1>1. CASE UNCHANGED vars
  BY <1>1 DEF vars, IInv, TypeOK, StartsFromZero, CallOver, PeaksHeld,
              FromPeaks, SentHoldsPeaks, PeakAt
<1> QED
  BY <1>1, FollowKeepsIInv, ReturnKeepsIInv, CallKeepsIInv DEF Next

\* A peak shown by the envelope of the frame at hand was shown by the one
\* before, where both frames have it.
LEMMA ForgetsOnly ==
  ASSUME IInv
  PROVE  RestartOnlyForgets
<1> SUFFICES ASSUME again, pc = "loop", NEW k \in 0..(i - 1), k < Half
             PROVE  env_ts[k] <= sent[k + Half] + 1
  BY DEF RestartOnlyForgets
<1>1. k \in 0..(Half - 1) /\ k \in Index /\ sent[k + Half] \in (-1)..Peak
  BY Sizes DEF IInv, TypeOK
<1>2. PICK p \in 0..k : env_ts[k] = PeakAt(p) - (k - p)
  BY DEF IInv, FromPeaks
<1>3. CASE p = 0
  BY <1>1, <1>2, <1>3, EnvelopeAssumption DEF PeakAt
<1>4. CASE p # 0
  <2>1. p \in 0..(Half - 1) /\ p <= k /\ p \in Index
    BY <1>1, <1>2, Sizes
  <2>2. sent[k + Half] >= Abs(ts_in[p]) - (k - p) - 1
    BY <1>1, <2>1 DEF IInv, SentHoldsPeaks
  <2>3. Abs(ts_in[p]) \in 0..Peak
    BY <2>1, AbsBounds DEF IInv, TypeOK
  <2> QED  BY <1>1, <1>2, <1>4, <2>1, <2>2, <2>3, EnvelopeAssumption DEF PeakAt
<1> QED  BY <1>3, <1>4

\* The invariant holds in every state.
THEOREM Invariant == Spec => []IInv
<1>1. Init => IInv
  BY InitEstablishesIInv
<1>2. IInv /\ [Next]_vars => IInv'
  BY NextPreservesIInv
<1> QED  BY <1>1, <1>2, PTL DEF Spec

\* Every variable has its type: an envelope lies between -1 and the largest
\* magnitude of a sample.
THEOREM TypeCorrect == Spec => []TypeOK
<1>1. IInv => TypeOK
  BY DEF IInv
<1> QED  BY <1>1, Invariant, PTL

\* Every peak is held, up to one, falling by one per sample
\* (env_proc.c:53-62).
THEOREM EnvelopeIsPeaks == Spec => []PeaksHeld
<1>1. IInv => PeaksHeld
  BY DEF IInv
<1> QED  BY <1>1, Invariant, PTL

\* Starting each call from zero forgets peaks of the frame before, and does
\* nothing else.
THEOREM RestartForgets == Spec => []RestartOnlyForgets
<1>1. IInv => RestartOnlyForgets
  BY ForgetsOnly
<1> QED  BY <1>1, Invariant, PTL
=============================================================================
