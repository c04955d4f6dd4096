------------------------------ MODULE Decoding ------------------------------
(***************************************************************************)
(* How main decodes the song into ssamps_l and then steps through it       *)
(* (dcomposer.c).  The file is read in chunks of 8192 bytes; what the      *)
(* decoder makes of one is any number of samples, or an error.  A sample   *)
(* is named by its place in the song, from 1; 0 is silence.  The two       *)
(* channels of a sample are mixed when it is stored; both have its place.  *)
(* What follows an access outside an array is not modelled: pc is          *)
(* "undefined".                                                            *)
(***************************************************************************)
EXTENDS Integers

CONSTANTS
  MaxChunks,   \* bound on the number of whole chunks in a file
  MaxOut,      \* bound on the samples decoded from one chunk
  PcmSize,     \* 65536: samples pcm_l holds
  Capacity,    \* 20e6: samples ssamps_l holds
  Skip,        \* 16384*10: where playing starts
  Hop          \* FFT_SIZE_DIV2

ASSUME DecodingAssumption ==
  /\ MaxChunks \in Nat /\ MaxOut \in Nat /\ Skip \in Nat
  /\ PcmSize \in Nat \ {0} /\ Capacity \in Nat \ {0} /\ Hop \in Nat \ {0}

VARIABLES
  chunks,      \* whole chunks in the file
  tail,        \* whether a shorter chunk follows them
  fpos,        \* chunks fread has taken
  pc,
  num_samp,
  curr_idx,
  pcm_l,
  ssamps_l,
  delivered,   \* samples the decoder has delivered
  biggest      \* most samples it has delivered at once

file == <<chunks, tail>>
decoder == <<delivered, biggest>>
vars == <<file, fpos, pc, num_samp, curr_idx, pcm_l, ssamps_l, decoder>>

Init ==
  /\ chunks \in 0..MaxChunks
  /\ tail \in BOOLEAN
  /\ fpos = 0
  /\ pc = "fread"
  /\ num_samp = 0
  /\ curr_idx = 0
  /\ pcm_l = [i \in 0..(PcmSize - 1) |-> 0]
  /\ ssamps_l = [i \in 0..(Capacity - 1) |-> 0]
  /\ delivered = 0
  /\ biggest = 0

\* Broken variant: the loop goes on as long as fread does not fail.
FullOrNot == TRUE

\* fread finds a whole chunk.
Full == fpos < chunks

\* The loop's test.  A shorter chunk is taken from the file, but ends the loop.
\* So does a read that fails in the middle of the file.
Fread ==
  /\ pc = "fread"
  /\ \/ Full /\ fpos' = fpos + 1 /\ pc' = "decode"
     \/ ~Full /\ fpos' = fpos + (IF tail THEN 1 ELSE 0) /\ pc' = "count"
     \/ UNCHANGED fpos /\ pc' = "count"
  /\ UNCHANGED <<file, num_samp, curr_idx, pcm_l, ssamps_l, decoder>>

\* hip_decode: any number of samples, none at first, or a negative result.
HipDecode ==
  /\ pc = "decode"
  /\ \/ /\ num_samp' = -1
        /\ pc' = "count"
        /\ UNCHANGED <<pcm_l, decoder>>
     \/ \E n \in 0..MaxOut :
          /\ num_samp' = n
          /\ delivered' = delivered + n
          /\ biggest' = IF n > biggest THEN n ELSE biggest
          /\ pc' = IF n > PcmSize THEN "undefined" ELSE "store"
          /\ pcm_l' = [i \in DOMAIN pcm_l |->
                         IF i < n THEN delivered + i + 1 ELSE pcm_l[i]]
  /\ UNCHANGED <<file, fpos, curr_idx, ssamps_l>>

\* Broken variant: the next chunk goes where a full buffer would have ended.
Buffered == PcmSize

\* How far curr_idx moves on.
Stored == num_samp

\* The loop over num_samp: half of each channel.
Store ==
  /\ pc = "store"
  /\ IF curr_idx + num_samp > Capacity
     THEN pc' = "undefined" /\ UNCHANGED <<ssamps_l, curr_idx>>
     ELSE /\ ssamps_l' = [k \in DOMAIN ssamps_l |->
                            IF k >= curr_idx /\ k < curr_idx + num_samp
                            THEN pcm_l[k - curr_idx] ELSE ssamps_l[k]]
          /\ curr_idx' = curr_idx + Stored
          /\ pc' = "fread"
  /\ UNCHANGED <<file, fpos, num_samp, pcm_l, decoder>>

\* Broken variant: num_samp stays what the decoder returned last.
CountLast == num_samp

\* Samples to play.
Count == curr_idx

\* Between the two loops.
Rewind ==
  /\ pc = "count"
  /\ num_samp' = Count
  /\ curr_idx' = Skip
  /\ pc' = "play"
  /\ UNCHANGED <<file, fpos, pcm_l, ssamps_l, decoder>>

\* Broken variant: one turn more.
MoreOrSame == curr_idx <= num_samp + Hop

More == curr_idx < num_samp

\* A turn of the play loop: the half frames for the card lie within the two
\* frames for the FIFO.
Turn ==
  /\ pc = "play"
  /\ More
  /\ IF curr_idx + 3 * Hop > Capacity
     THEN pc' = "undefined" /\ UNCHANGED curr_idx
     ELSE curr_idx' = curr_idx + 2 * Hop /\ UNCHANGED pc
  /\ UNCHANGED <<file, fpos, num_samp, pcm_l, ssamps_l, decoder>>

SongOver ==
  /\ pc = "play"
  /\ ~More
  /\ pc' = "over"
  /\ UNCHANGED <<file, fpos, num_samp, curr_idx, pcm_l, ssamps_l, decoder>>

Gone == pc \in {"over", "undefined"} /\ UNCHANGED vars

Next ==
  \/ Fread \/ HipDecode \/ Store
  \/ Rewind \/ Turn \/ SongOver \/ Gone

Spec == Init /\ [][Next]_vars
-----------------------------------------------------------------------------
(* Properties.                                                             *)

TypeOK ==
  /\ chunks \in 0..MaxChunks /\ tail \in BOOLEAN
  /\ fpos \in 0..(chunks + 1)
  /\ pc \in {"fread", "decode", "store", "count", "play", "over", "undefined"}
  /\ num_samp \in Nat \cup {-1}
  /\ curr_idx \in Nat
  /\ pcm_l \in [0..(PcmSize - 1) -> Nat]
  /\ ssamps_l \in [0..(Capacity - 1) -> Nat]
  /\ delivered \in Nat /\ biggest \in Nat

\* When playing starts, what is stored is the song as far as it was decoded, in
\* order and without a gap, whether the file ended or the decoder or a read
\* failed, and silence after it (dcomposer.c:403-432).
StoresWhatWasDecoded ==
  pc \in {"play", "over"} =>
    /\ num_samp = delivered
    /\ \A k \in 0..(Capacity - 1) :
         ssamps_l[k] = IF k < delivered THEN k + 1 ELSE 0

\* Main leaves its arrays only with a song that, with the frame and a half that
\* the last turn may read past its end, does not fit into ssamps_l, or with a
\* chunk of more samples than pcm_l holds (dcomposer.c:332-359, 409-424,
\* 447, 466).
LongestSong ==
  pc = "undefined" => delivered + 3 * Hop > Capacity + 1 \/ biggest > PcmSize
=============================================================================
