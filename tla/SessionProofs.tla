--------------------------- MODULE SessionProofs ---------------------------
(***************************************************************************)
(* Theorems about Session.  Each step of the whole is a step of the        *)
(* acquisition path and a step of the displays, or leaves them alone; what *)
(* AudioPipeProofs, DisplaysProofs and StreamsProofs prove of the parts    *)
(* then holds of the whole.                                                *)
(***************************************************************************)
EXTENDS Session, TLAPS

\* The two parts as Session has them, with what is proved of each.
AP == INSTANCE AudioPipeProofs WITH
  taken <- offered,
  analysed <- frame,
  pcF <- IF pcF = "read" THEN "read" ELSE "analyse"

DP == INSTANCE StreamsProofs WITH open <- pcM # "exited"

\* A step of fft_thread between its reads disturbs neither the FIFO nor the
\* count of frames.
LEMMA AnalyseIsAnalysis ==
  ASSUME Analyse
  PROVE  [A!Next]_(A!vars)
<1>1. frame' = frame
  BY DEF Analyse, D!Fft, D!ReadFrame, D!Decompose, D!SendEnvelope, D!Fill,
         D!SendToGui, D!SendToSpctrgm, D!analysis
<1>2. CASE pcF' = "read"
  BY <1>2 DEF Analyse, A!Next, A!Fft
<1>3. CASE pcF' # "read"
  BY <1>1, <1>3 DEF Analyse, A!vars, mainVars
<1> QED  BY <1>2, <1>3

LEMMA StepOfAudio ==
  ASSUME [Next]_vars
  PROVE  [A!Next]_(A!vars)
<1>1. CASE Main
  BY <1>1 DEF Main, A!Next
<1>2. CASE ReadFrame
  BY <1>2 DEF ReadFrame, A!Next, A!Fft
<1>3. CASE Analyse
  BY <1>3, AnalyseIsAnalysis
<1>4. CASE Gui \/ Waterfall \/ Over \/ UNCHANGED vars
  <2>1. UNCHANGED <<audioVars, frame, pcF>>
    BY <1>4
    DEF Gui, Waterfall, Over, vars, audioVars, mainVars, D!Gui, D!Waterfall,
        D!HandlerStarts, D!BinRead, D!BinReadGets, D!BinReadEnds, D!fftVars, D!analysis
  <2> QED  BY <2>1 DEF audioVars, mainVars, A!vars
<1> QED  BY <1>1, <1>2, <1>3, <1>4 DEF Next, Fft

\* Main's steps either leave the displays' half alone or end the process.
LEMMA MainOrEnd ==
  ASSUME Main
  PROVE  D!ProcessEnds \/ UNCHANGED D!vars
<1>1. UNCHANGED displayVars /\ A!Main
  BY DEF Main
<1>2. UNCHANGED <<D!fftVars, wire, D!guiVars, D!spctrgmVars>>
  BY <1>1 DEF displayVars, D!fftVars, D!analysis, D!guiVars, D!spctrgmVars
<1>3. pcM # "exited"
  BY <1>1
  DEF A!Main, A!PlayFirstHalf, A!PlaySecondHalf, A!Play, A!LoopEnds, A!WriteFirst,
      A!WriteSecond, A!Release
<1>4. CASE pcM' = "exited"
  BY <1>2, <1>3, <1>4 DEF D!ProcessEnds
<1>5. CASE pcM' # "exited"
  BY <1>2, <1>3, <1>5 DEF D!vars
<1> QED  BY <1>4, <1>5

LEMMA StepOfDisplays ==
  ASSUME [Next]_vars
  PROVE  [D!Next]_(D!vars)
<1>1. CASE Main
  BY <1>1, MainOrEnd DEF D!Next
<1>2. CASE ReadFrame
  BY <1>2 DEF ReadFrame, D!Next, D!Fft
<1>3. CASE Analyse
  BY <1>3 DEF Analyse, D!Next
<1>4. CASE Gui
  BY <1>4 DEF Gui, D!Next
<1>5. CASE Waterfall
  BY <1>5 DEF Waterfall, D!Next
<1>6. CASE Over \/ UNCHANGED vars
  <2>1. UNCHANGED vars
    BY <1>6 DEF Over
  <2> QED
    BY <2>1 DEF vars, D!vars, D!fftVars, D!analysis, D!guiVars, D!spctrgmVars
<1> QED  BY <1>1, <1>2, <1>3, <1>4, <1>5, <1>6 DEF Next, Fft

\* In a session main and fft_thread do to the FIFO what AudioPipe says, however
\* the sockets and the GUI hold fft_thread up (dcomposer.c:432-491,
\* fft_thread.c:328-552).
THEOREM RefinesAudio == Spec => A!Safety
<1>1. Init => A!Init
  BY DEF Init
<1> QED  BY <1>1, StepOfAudio, PTL DEF Spec, A!Safety

\* In a session fft_thread, the GUI and the spectrogram thread do to the sockets
\* what Displays says, wherever main is when it returns (fft_thread.c:328-552,
\* dcomposer.c:432-491).
THEOREM RefinesDisplays == Spec => D!Safety
<1>1. Init => D!Init
  BY DEF Init
<1> QED  BY <1>1, StepOfDisplays, PTL DEF Spec, D!Safety

-----------------------------------------------------------------------------
(* The specifications the proofs of the parts are about are those Session  *)
(* is composed of.                                                         *)

LEMMA SameAudio ==
  /\ A!Init => AP!Init
  /\ A!Next => AP!Next
  /\ UNCHANGED A!vars => UNCHANGED AP!vars
<1>1. A!Init => AP!Init
  BY DEF A!Init, AP!Init, A!Silence, AP!Silence, A!FrameUnits, AP!FrameUnits
<1>2. A!Main => AP!Main
  BY Zenon DEF
      A!Main, AP!Main, A!Play, AP!Play, A!PlayFirstHalf,
      AP!PlayFirstHalf, A!PlaySecondHalf, AP!PlaySecondHalf, A!LoopEnds,
      AP!LoopEnds, A!Copy, AP!Copy, A!WriteFirst, AP!WriteFirst,
      A!WriteSecond, AP!WriteSecond, A!Release, AP!Release, A!From,
      AP!From, A!Asked, AP!Asked, A!Room, AP!Room, A!UnitsFrom,
      AP!UnitsFrom, A!FrameUnits, AP!FrameUnits, A!fftVars, AP!fftVars
<1>3. A!Fft => AP!Fft
  BY Zenon DEF
      A!Fft, AP!Fft, A!ReadFrame, AP!ReadFrame, A!Available,
      AP!Available, A!Analyse, AP!Analyse, A!AnalysisFails,
      AP!AnalysisFails, A!ProcessExits, AP!ProcessExits, A!FrameUnits,
      AP!FrameUnits, A!mainVars, AP!mainVars, A!fftVars, AP!fftVars
<1>4. UNCHANGED A!vars => UNCHANGED AP!vars
  BY DEF A!vars, AP!vars
<1> QED
  BY <1>1, <1>2, <1>3, <1>4 DEF A!Next, AP!Next, A!Gone, AP!Gone

LEMMA SameDisplays ==
  /\ D!Init => DP!Init
  /\ D!Next => DP!Next
  /\ UNCHANGED D!vars => UNCHANGED DP!vars
<1>1. D!Init => DP!Init
  BY DEF D!Init, DP!Init, D!Zeroed, DP!Zeroed, D!Sockets, DP!Sockets,
         D!Vectors, DP!Vectors
<1>2. UNCHANGED D!vars => UNCHANGED DP!vars
  BY DEF
      D!vars, DP!vars, D!fftVars, DP!fftVars, D!analysis, DP!analysis,
      D!guiVars, DP!guiVars, D!spctrgmVars, DP!spctrgmVars
<1>3. D!Fft => DP!Fft
  BY Zenon DEF
      D!Fft, DP!Fft, D!ReadFrame, DP!ReadFrame, D!Decompose,
      DP!Decompose, D!SendEnvelope, DP!SendEnvelope, D!Fill, DP!Fill,
      D!SendToGui, DP!SendToGui, D!SendToSpctrgm, DP!SendToSpctrgm,
      D!Send, DP!Send, D!Envelope, DP!Envelope, D!Zeroed, DP!Zeroed,
      D!Leftover, DP!Leftover, D!SingularValues, DP!SingularValues,
      D!Best, DP!Best, D!Decomposed, DP!Decomposed, D!analysis,
      DP!analysis, D!guiVars, DP!guiVars, D!spctrgmVars, DP!spctrgmVars
<1>4. D!Gui => DP!Gui
  BY Zenon DEF
      D!Gui, DP!Gui, D!HandlerStarts, DP!HandlerStarts, D!Readable,
      DP!Readable, D!BinRead, DP!BinRead, D!BinReadGets, DP!BinReadGets,
      D!BinReadEnds, DP!BinReadEnds, D!SocketOf, DP!SocketOf, D!Wanted,
      DP!Wanted, D!NextVector, DP!NextVector, D!Vectors, DP!Vectors,
      D!fftVars, DP!fftVars, D!analysis, DP!analysis, D!spctrgmVars,
      DP!spctrgmVars
<1>5. D!Waterfall => DP!Waterfall
  BY Zenon DEF
      D!Waterfall, DP!Waterfall, D!Drawn, DP!Drawn, D!Scrolled,
      DP!Scrolled, D!Filled, DP!Filled, D!fftVars, DP!fftVars,
      D!analysis, DP!analysis, D!guiVars, DP!guiVars
<1>6. D!ProcessEnds => DP!ProcessEnds
  BY DEF
      D!ProcessEnds, DP!ProcessEnds, D!fftVars, DP!fftVars, D!analysis,
      DP!analysis, D!guiVars, DP!guiVars, D!spctrgmVars, DP!spctrgmVars
<1> QED
  BY <1>1, <1>2, <1>3, <1>4, <1>5, <1>6
  DEF D!Next, DP!Next, D!Over, DP!Over

\* In a session the acquisition path and the displays are those of the proofs.
LEMMA PartsBehave == Spec => AP!Safety /\ DP!Safety
<1>1. A!Init /\ D!Init => AP!Init /\ DP!Init
  BY SameAudio, SameDisplays
<1>2. [A!Next]_(A!vars) => [AP!Next]_(AP!vars)
  BY SameAudio
<1>3. [D!Next]_(D!vars) => [DP!Next]_(DP!vars)
  BY SameDisplays
<1> QED
  BY <1>1, <1>2, <1>3, RefinesAudio, RefinesDisplays, PTL
  DEF A!Safety, AP!Safety, D!Safety, DP!Safety

\* A number with a divisor is as large.
LEMMA MultipleIsAsLarge ==
  ASSUME NEW f \in Nat \ {0}, NEW p \in Nat \ {0}, p % f = 0
  PROVE  p >= f
<1>1. SUFFICES ASSUME p < f PROVE FALSE
  OBVIOUS
<1>2. p % f = p
  BY <1>1
<1> QED  BY <1>2

\* The FIFO of a session is one AudioPipeProofs is about.
LEMMA FifoHoldsWholeFrames == AP!WholeFrames
<1>1. 2 * Hop \in Nat \ {0} /\ PipeUnits \in Nat \ {0} /\ PipeUnits % (2 * Hop) = 0
  BY SessionAssumption
<1>2. PipeUnits >= 2 * Hop
  BY ONLY <1>1, MultipleIsAsLarge
<1> QED  BY ONLY <1>1, <1>2 DEF AP!WholeFrames, AP!FrameUnits
-----------------------------------------------------------------------------
(* What holds of the whole.                                                *)

\* The screen follows the sound, however main, fft_thread, the GUI and the
\* spectrogram thread take turns: the frames read follow the card, the envelope
\* follows the frames read, and the two lags add up (dcomposer.c:435-466,
\* fft_thread.c:331, env_proc.c:73).
THEOREM ScreenAndSound == Spec => []ScreenFollowsSound
<1>1. ASSUME AP!TypeOK, AP!DisplayInStep, DP!EnvelopeKeepsUp
      PROVE  ScreenFollowsSound
  <2>1. offered \in Nat /\ frame \in Nat /\ Hop \in Nat \ {0} /\ PipeUnits \in Nat /\ SockUnits \in Nat
    BY <1>1, SessionAssumption DEF AP!TypeOK
  <2>2. /\ frame <= offered
        /\ offered - frame <= (PipeUnits \div (2 * Hop)) + 1
    BY <1>1 DEF AP!DisplayInStep, AP!FrameUnits
  <2>3. /\ EnvelopeSeen \in 0..frame /\ GraphSeen \in 0..frame
        /\ frame - EnvelopeSeen <= ((SockUnits + 1) \div 2) + 1
    BY <1>1 DEF DP!EnvelopeKeepsUp, EnvelopeSeen, GraphSeen
  <2>4. EnvelopeSeen <= offered /\ GraphSeen <= offered
    BY <2>1, <2>2, <2>3
  <2> DEFINE fifo == PipeUnits \div (2 * Hop)
             socket == (SockUnits + 1) \div 2
  <2>5. fifo \in Int /\ socket \in Int
    BY <2>1
  <2>6. /\ offered - frame <= fifo + 1
        /\ frame - EnvelopeSeen <= socket + 1
    BY <2>2, <2>3
  <2> HIDE DEF fifo, socket
  <2>7. offered - EnvelopeSeen <= fifo + 1 + socket + 1
    BY <2>1, <2>3, <2>5, <2>6
  <2> QED  BY <2>4, <2>7 DEF ScreenFollowsSound, fifo, socket
<1>2. Spec => [](AP!TypeOK /\ AP!DisplayInStep)
  BY SessionAssumption, FifoHoldsWholeFrames, PartsBehave,
     AP!TypeCorrect, AP!AnalysisKeepsStep, PTL
<1>3. Spec => []DP!EnvelopeKeepsUp
  BY SessionAssumption, PartsBehave, DP!KeepsUp, PTL
<1> QED  BY <1>1, <1>2, <1>3, PTL

\* What is seen is what was played: each frame analysed is the next one of the
\* song, whole; between two handlers the GUI's graphs show one of those frames,
\* and the envelope one of theirs (fft_thread.c:331-367, 473-537,
\* test_server.tcl:184-223).
THEOREM WholeFramesSeen == Spec => []AP!AnalysesNextFrame /\ []DP!GraphsShowOneFrame
<1>1. Spec => []AP!AnalysesNextFrame
  BY SessionAssumption, PartsBehave, AP!AnalysisInOrder, PTL
<1>2. Spec => []DP!GraphsShowOneFrame
  BY SessionAssumption, PartsBehave, DP!OneFrameShown, PTL
<1> QED  BY <1>1, <1>2

\* The whole implements what its two halves promise: the FIFO is a channel of
\* frames and the screen shows the frames in order (dcomposer.c:447, 466,
\* fft_thread.c:331, env_display.tcl:44-58, test_server.tcl:184-223).
THEOREM Promises == Spec => AP!Channel!Safety /\ DP!Promise!Safety
<1>1. Spec => AP!Channel!Safety
  BY SessionAssumption, FifoHoldsWholeFrames, PartsBehave, AP!Refinement, PTL
<1>2. Spec => DP!Promise!Safety
  BY SessionAssumption, PartsBehave, DP!ScreenPromise, PTL
<1> QED  BY <1>1, <1>2
=============================================================================
