------------------------------ MODULE Session ------------------------------
(***************************************************************************)
(* The whole of a session in which no call fails: main's play loop and the *)
(* FIFO (AudioPipe), the sockets, the GUI and the spectrogram thread       *)
(* (Displays).  The two meet in fft_thread, which reads the one and writes *)
(* the others, and in the end of the process.  A GUI that is slow holds    *)
(* up fft_thread; the FIFO fills; main blocks, and with it the sound.      *)
(***************************************************************************)
EXTENDS Integers, Sequences

CONSTANTS
  Hop, SkipUnits, PipeUnits, MaxUnits,   \* see AudioPipe
  SockUnits, Rows, MaxFrames             \* see Displays

ASSUME SessionAssumption ==
  /\ Hop \in Nat \ {0} /\ SkipUnits \in Nat
  /\ PipeUnits \in Nat \ {0} /\ PipeUnits % (2 * Hop) = 0
  /\ MaxUnits \in Nat
  /\ SockUnits \in Nat \ {0} /\ Rows \in Nat \ {0}
  /\ MaxFrames \in Nat /\ MaxFrames > MaxUnits   \* enough for every song

VARIABLES
  numSamp, curr, pcM, copied, pipe, raw, offered, published,
  frame, pcF, sent, temp_mat, lwork, s, ps,
  wire, pcG, got, shown, shut, buf, img, whole

vars ==
  <<numSamp, curr, pcM, copied, pipe, raw, offered, published, frame, pcF, sent,
    temp_mat, lwork, s, ps, wire, pcG, got, shown, shut, buf, img, whole>>

\* The acquisition path, with a card that takes all it is offered: of fft_thread
\* it knows the read and "the rest".
A == INSTANCE AudioPipe WITH
  taken <- offered,
  analysed <- frame,
  pcF <- IF pcF = "read" THEN "read" ELSE "analyse"

\* The displays: of main they know that it has not returned.
D == INSTANCE Displays WITH open <- pcM # "exited"

mainVars == <<numSamp, curr, pcM, copied, offered, published>>
audioVars == <<mainVars, pipe, raw>>
displayVars ==
  <<frame, pcF, sent, temp_mat, lwork, s, ps,
    wire, pcG, got, shown, shut, buf, img, whole>>

Init == pcM = "play1" /\ pcF = "read" /\ A!Init /\ D!Init
-----------------------------------------------------------------------------
\* Main plays and writes; in the end it returns, and the sockets are closed.
Main == UNCHANGED displayVars /\ A!Main

\* fft_thread reads a frame.
ReadFrame == UNCHANGED mainVars /\ D!ReadFrame /\ A!ReadFrame

\* fft_thread analyses the frame and writes the results, until it is back at
\* its read.
Analyse ==
  /\ pcF # "read"
  /\ UNCHANGED mainVars
  /\ D!Fft
  /\ IF pcF' = "read" THEN A!Analyse ELSE UNCHANGED <<pipe, raw>>

Fft == ReadFrame \/ Analyse

Gui == UNCHANGED audioVars /\ D!Gui

Waterfall == UNCHANGED audioVars /\ D!Waterfall

Over == shut = {"env", "gui"} /\ UNCHANGED vars

Next == Main \/ Fft \/ Gui \/ Waterfall \/ Over

\* The fairness of the parts: each thread runs when it is not blocked.
Spec ==
  /\ Init /\ [][Next]_vars
  /\ WF_vars(Main) /\ WF_vars(Fft) /\ WF_vars(Gui) /\ WF_vars(Waterfall)
-----------------------------------------------------------------------------
(* Properties.                                                             *)

\* Frames on the screen, 0 before the first.
EnvelopeSeen == shown["envelope"][1][1]
GraphSeen == shown["ts"][1][1]

\* Nothing is seen before its half frame was offered to the card, and the envelope
\* is behind what was offered by no more than the FIFO, the frame being written, the
\* frame being analysed and what the socket and the GUI hold (dcomposer.c:435-466,
\* fft_thread.c:331, env_proc.c:73).
ScreenFollowsSound ==
  /\ EnvelopeSeen <= offered
  /\ GraphSeen <= offered
  /\ offered - EnvelopeSeen <=
       (PipeUnits \div (2 * Hop)) + 1 + ((SockUnits + 1) \div 2) + 1

\* What the acquisition path takes for granted holds here: fft_thread, blocking
\* writes and all, comes back for the next frame, and the song ends
\* (fft_thread.c:328-552).
ImplementsAudio == A!Spec

\* What the displays take for granted holds here: fft_thread gets another frame
\* or the process ends, however full the FIFO gets (dcomposer.c:432-491).
ImplementsDisplays == D!Spec
=============================================================================
