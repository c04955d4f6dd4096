------------------------------- MODULE Screen -------------------------------
(***************************************************************************)
(* What the displays promise the viewer: frames are analysed one after the *)
(* other, the graphs show some of them, always a later one, and the        *)
(* envelope shows each in turn.  Once the session is over what was under   *)
(* way may still be shown.                                                 *)
(***************************************************************************)
EXTENDS Integers

CONSTANT MaxFrames   \* bound on the number of frames analysed

VARIABLES
  frame,    \* frames analysed
  graph,    \* the frame the graphs show, 0 before the first
  env,      \* the frame whose envelope is shown
  over

screen == <<frame, graph, env, over>>

Init == frame = 0 /\ graph = 0 /\ env = 0 /\ over = FALSE

Analyse ==
  /\ ~over
  /\ frame < MaxFrames
  /\ frame' = frame + 1
  /\ UNCHANGED <<graph, env, over>>

\* A silent frame is passed over.
ShowGraphs ==
  /\ graph' \in (graph + 1)..frame
  /\ UNCHANGED <<frame, env, over>>

ShowEnvelope ==
  /\ env < frame
  /\ env' = env + 1
  /\ UNCHANGED <<frame, graph, over>>

End == ~over /\ over' = TRUE /\ UNCHANGED <<frame, graph, env>>

Next == Analyse \/ ShowGraphs \/ ShowEnvelope \/ End

Safety == Init /\ [][Next]_screen

\* Every envelope is shown unless the session ends.
Spec == Safety /\ WF_screen(~over /\ ShowEnvelope)
=============================================================================
