---------------------------- MODULE FrameChannel ----------------------------
(***************************************************************************)
(* What the acquisition FIFO promises the analysis: whole frames, each     *)
(* exactly once, in the order they were cut from the audio, at most Depth  *)
(* of them waiting.  Either end may stop; nothing is delivered after that. *)
(***************************************************************************)
EXTENDS Frames

CONSTANT Depth    \* frames the channel holds, at least one

VARIABLES
  sent,       \* frames the producer has put into the channel
  received,   \* frames the consumer has taken out
  last,       \* the frame the consumer holds
  open        \* FALSE once an end has stopped

chan == <<sent, received, last, open>>

Init ==
  /\ sent = 0
  /\ received = 0
  /\ last = Silence
  /\ open = TRUE

\* A producer may go on filling the channel after the consumer has gone.
Publish ==
  /\ sent - received < Depth
  /\ sent' = sent + 1
  /\ UNCHANGED <<received, last, open>>

Deliver ==
  /\ open
  /\ received < sent
  /\ received' = received + 1
  /\ last' = Window(received')
  /\ UNCHANGED <<sent, open>>

Stop ==
  /\ open
  /\ open' = FALSE
  /\ UNCHANGED <<sent, received, last>>

Next == Publish \/ Deliver \/ Stop

Safety == Init /\ [][Next]_chan

\* A waiting frame is delivered unless the channel stops.
Spec == Safety /\ WF_chan(Deliver)
=============================================================================
