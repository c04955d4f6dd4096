--------------------------- MODULE DecodingProofs ---------------------------
(***************************************************************************)
(* Theorems about Decoding, for arrays, chunks and files of any size.      *)
(***************************************************************************)
EXTENDS Decoding, TLAPS

\* Samples ssamps_l holds.
Held == IF pc \in {"play", "over"} THEN num_samp ELSE curr_idx

\* What each place of main says about the counters: all that was delivered is
\* held, except in "store", where pcm_l still has the last of it.
Counters ==
  /\ pc \in {"fread", "decode", "count"} => curr_idx = delivered
  /\ pc \in {"fread", "decode", "store"} => fpos <= chunks
  /\ pc = "store" =>
       /\ num_samp \in Nat
       /\ num_samp <= PcmSize
       /\ delivered = curr_idx + num_samp
       /\ \A i \in 0..(PcmSize - 1) : i < num_samp => pcm_l[i] = curr_idx + i + 1
  /\ pc \in {"play", "over"} => num_samp = delivered

\* ssamps_l has the beginning of the song, and silence after it.
Samples ==
  pc # "undefined" =>
    \A k \in 0..(Capacity - 1) : ssamps_l[k] = IF k < Held THEN k + 1 ELSE 0

Inv == TypeOK /\ Counters /\ Samples /\ LongestSong

LEMMA InitInv == Init => Inv
<1> SUFFICES ASSUME Init PROVE Inv
  OBVIOUS
<1> USE DecodingAssumption DEF Init
<1>1. TypeOK
  BY DEF TypeOK
<1>2. Counters
  BY DEF Counters
<1>3. Samples
  BY DEF Samples, Held
<1>4. LongestSong
  BY DEF LongestSong
<1> QED
  BY <1>1, <1>2, <1>3, <1>4 DEF Inv

\* The loop test leaves the samples alone and moves the file on.
LEMMA FreadKeeps == Inv /\ Fread => Inv'
<1> SUFFICES ASSUME Inv, Fread PROVE Inv'
  OBVIOUS
<1> USE DecodingAssumption DEF Inv, Fread, file, decoder
<1>1. TypeOK'
  BY DEF TypeOK, Full, Counters
<1>2. Counters'
  BY DEF TypeOK, Counters, Full
<1>3. Samples'
  BY DEF Samples, Held
<1>4. LongestSong'
  BY DEF LongestSong, Counters, TypeOK, Full
<1> QED
  BY <1>1, <1>2, <1>3, <1>4

\* What the decoder delivers goes to pcm_l, unless it does not fit.
LEMMA HipDecodeKeeps == Inv /\ HipDecode => Inv'
<1> SUFFICES ASSUME Inv, HipDecode PROVE Inv'
  OBVIOUS
<1> USE DecodingAssumption DEF Inv, file, decoder
<1>1. CASE num_samp' = -1 /\ pc' = "count" /\ UNCHANGED <<pcm_l, decoder>>
  <2> USE <1>1 DEF HipDecode
  <2>1. TypeOK'
    BY DEF TypeOK
  <2>2. Counters'
    BY DEF Counters
  <2>3. Samples'
    BY DEF Samples, Held
  <2>4. LongestSong'
    BY DEF LongestSong
  <2> QED
    BY <2>1, <2>2, <2>3, <2>4
<1>2. CASE \E n \in 0..MaxOut :
             /\ num_samp' = n
             /\ delivered' = delivered + n
             /\ biggest' = IF n > biggest THEN n ELSE biggest
             /\ pc' = IF n > PcmSize THEN "undefined" ELSE "store"
             /\ pcm_l' = [i \in DOMAIN pcm_l |->
                            IF i < n THEN delivered + i + 1 ELSE pcm_l[i]]
  <2>1. PICK n \in 0..MaxOut :
          /\ num_samp' = n
          /\ delivered' = delivered + n
          /\ biggest' = IF n > biggest THEN n ELSE biggest
          /\ pc' = IF n > PcmSize THEN "undefined" ELSE "store"
          /\ pcm_l' = [i \in DOMAIN pcm_l |->
                         IF i < n THEN delivered + i + 1 ELSE pcm_l[i]]
    BY <1>2
  <2>2. /\ pc = "decode"
        /\ UNCHANGED <<chunks, tail, fpos, curr_idx, ssamps_l>>
    BY DEF HipDecode
  <2>3. pcm_l' \in [0..(PcmSize - 1) -> Nat]
    BY <2>1 DEF TypeOK
  <2>4. TypeOK'
    BY <2>1, <2>2, <2>3 DEF TypeOK
  <2>5. Counters'
    BY <2>1, <2>2 DEF Counters, TypeOK
  <2>6. Samples'
    BY <2>1, <2>2 DEF Samples, Held
  <2>7. LongestSong'
    BY <2>1, <2>2 DEF LongestSong, TypeOK
  <2> QED
    BY <2>4, <2>5, <2>6, <2>7
<1> QED
  BY <1>1, <1>2 DEF HipDecode

\* pcm_l goes behind what ssamps_l holds, unless it does not fit.
LEMMA StoreKeeps == Inv /\ Store => Inv'
<1> SUFFICES ASSUME Inv, Store PROVE Inv'
  OBVIOUS
<1> USE DecodingAssumption DEF Inv, file, decoder
<1>1. CASE curr_idx + num_samp > Capacity
  <2>1. /\ pc = "store" /\ pc' = "undefined"
        /\ UNCHANGED <<chunks, tail, fpos, num_samp, curr_idx, pcm_l, ssamps_l,
                       delivered, biggest>>
    BY <1>1 DEF Store
  <2>2. TypeOK' /\ Counters' /\ Samples'
    BY <2>1 DEF TypeOK, Counters, Samples
  <2>3. LongestSong'
    BY <1>1, <2>1 DEF LongestSong, Counters, TypeOK
  <2> QED
    BY <2>2, <2>3
<1>2. CASE ~(curr_idx + num_samp > Capacity)
  <2>1. /\ pc = "store" /\ pc' = "fread"
        /\ ssamps_l' = [k \in DOMAIN ssamps_l |->
                          IF k >= curr_idx /\ k < curr_idx + num_samp
                          THEN pcm_l[k - curr_idx] ELSE ssamps_l[k]]
        /\ curr_idx' = curr_idx + num_samp
        /\ UNCHANGED <<chunks, tail, fpos, num_samp, pcm_l, delivered, biggest>>
    BY <1>2 DEF Store, Stored
  <2>2. num_samp \in Nat /\ num_samp <= PcmSize /\ curr_idx \in Nat
    BY <2>1 DEF Counters, TypeOK
  <2>3. ASSUME NEW k \in 0..(Capacity - 1)
        PROVE  ssamps_l'[k] = IF k < curr_idx + num_samp THEN k + 1 ELSE 0
    <3>1. DOMAIN ssamps_l = 0..(Capacity - 1)
      BY DEF TypeOK
    <3>2. CASE k >= curr_idx /\ k < curr_idx + num_samp
      <4>1. k - curr_idx \in 0..(PcmSize - 1) /\ k - curr_idx < num_samp
        BY <2>2, <3>2
      <4>2. pcm_l[k - curr_idx] = curr_idx + (k - curr_idx) + 1
        BY <2>1, <4>1 DEF Counters
      <4> QED
        BY <2>1, <2>2, <3>1, <3>2, <4>2
    <3>3. CASE ~(k >= curr_idx /\ k < curr_idx + num_samp)
      <4>1. ssamps_l[k] = IF k < curr_idx THEN k + 1 ELSE 0
        BY <2>1 DEF Samples, Held
      <4> QED
        BY <2>1, <2>2, <3>1, <3>3, <4>1
    <3> QED
      BY <3>2, <3>3
  <2>4. ssamps_l' \in [0..(Capacity - 1) -> Nat]
    <3>1. \A k \in 0..(Capacity - 1) : ssamps_l'[k] \in Nat
      BY <2>2, <2>3
    <3> QED
      BY <2>1, <3>1 DEF TypeOK
  <2>5. TypeOK'
    BY <2>1, <2>2, <2>4 DEF TypeOK
  <2>6. Counters'
    BY <2>1, <2>2 DEF Counters
  <2>7. Samples'
    BY <2>1, <2>3 DEF Samples, Held
  <2>8. LongestSong'
    BY <2>1 DEF LongestSong
  <2> QED
    BY <2>5, <2>6, <2>7, <2>8
<1> QED
  BY <1>1, <1>2

\* The counters change their meaning together.
LEMMA RewindKeeps == Inv /\ Rewind => Inv'
<1> SUFFICES ASSUME Inv, Rewind PROVE Inv'
  OBVIOUS
<1> USE DecodingAssumption DEF Inv, Rewind, Count, file, decoder
<1>1. TypeOK'
  BY DEF TypeOK
<1>2. Counters' /\ LongestSong'
  BY DEF Counters, LongestSong
<1>3. Samples'
  BY DEF Samples, Held
<1> QED
  BY <1>1, <1>2, <1>3

\* A turn starts before the end of the song, so it reads past it by less than
\* a frame and a half.
LEMMA TurnKeeps == Inv /\ Turn => Inv'
<1> SUFFICES ASSUME Inv, Turn PROVE Inv'
  OBVIOUS
<1> USE DecodingAssumption DEF Inv, Turn, More, file, decoder
<1>1. TypeOK'
  BY DEF TypeOK
<1>2. Counters'
  BY DEF Counters
<1>3. Samples'
  BY DEF Samples, Held
<1>4. LongestSong'
  BY DEF LongestSong, Counters, TypeOK
<1> QED
  BY <1>1, <1>2, <1>3, <1>4

LEMMA SongOverKeeps == Inv /\ SongOver => Inv'
  BY DEF Inv, SongOver, file, decoder, TypeOK, Counters, Samples, Held, LongestSong

LEMMA NextInv == Inv /\ [Next]_vars => Inv'
<1> SUFFICES ASSUME Inv, [Next]_vars PROVE Inv'
  OBVIOUS
<1>1. CASE UNCHANGED vars
  BY <1>1 DEF vars, file, decoder, Inv, TypeOK, Counters, Samples, Held,
              LongestSong
<1> QED
  BY <1>1, FreadKeeps, HipDecodeKeeps, StoreKeeps, RewindKeeps, TurnKeeps,
     SongOverKeeps DEF Next, Gone

LEMMA Invariant == Spec => []Inv
  BY InitInv, NextInv, PTL DEF Spec

\* Every variable of main's decoding keeps its type, for arrays of any size
\* (dcomposer.c:332-432).
THEOREM TypeCorrect == Spec => []TypeOK
<1>1. Inv => TypeOK
  BY DEF Inv
<1> QED
  BY Invariant, <1>1, PTL

\* What is stored when playing starts is what was decoded, in order and without
\* a gap, however long the file is, whatever the decoder makes of its chunks and
\* wherever reading it fails (dcomposer.c:403-432).
THEOREM StoresTheSong == Spec => []StoresWhatWasDecoded
<1>1. Inv => StoresWhatWasDecoded
  BY DEF Inv, StoresWhatWasDecoded, Counters, Samples, Held
<1> QED
  BY Invariant, <1>1, PTL

\* With songs and chunks that fit, frame and a half included, main stays inside
\* its arrays (dcomposer.c:332-359, 409-424, 447, 466).
THEOREM StaysInside == Spec => []LongestSong
<1>1. Inv => LongestSong
  BY DEF Inv
<1> QED
  BY Invariant, <1>1, PTL
=============================================================================
