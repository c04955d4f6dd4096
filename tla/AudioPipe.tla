----------------------------- MODULE AudioPipe -----------------------------
(***************************************************************************)
(* The acquisition path: main's play loop (dcomposer.c) hands each half    *)
(* frame to the sound card and writes an overlapping frame to the FIFO     *)
(* .acq2proc; fft_thread (fft_thread.c) reads frames back and analyses     *)
(* them.  The kernel's FIFO is modelled as Linux runs it: a write copies   *)
(* whatever fits while it holds the pipe's lock and sleeps for the rest; a *)
(* read takes what is there, up to the count it asked for.                 *)
(*                                                                         *)
(* Unit of audio: one pipe page (see Frames).  Sample values are left out: *)
(* a unit stands for its position in ssamps_l.                             *)
(***************************************************************************)
EXTENDS Frames

CONSTANTS
  PipeUnits,   \* capacity of the FIFO: 16 on a default Linux kernel
  MaxUnits     \* bound on the length of the decoded song

ASSUME PipeAssumption ==
  /\ PipeUnits \in Nat \ {0}
  /\ MaxUnits \in Nat

VARIABLES
  numSamp,    \* units decoded, the last one perhaps partly filled
  curr,       \* curr_idx
  pcM,        \* where main is in the play loop
  copied,     \* units of main's current frame already in the FIFO
  pipe,       \* contents of the FIFO
  pcF,        \* where fft_thread is in its loop
  raw,        \* raw_pcm
  offered,    \* half frames handed to snd_pcm_writei so far
  taken,      \* those of them that the card took whole
  published,  \* frames whose write has returned
  analysed    \* frames whose read has returned

mainVars == <<numSamp, curr, pcM, copied, offered, taken, published>>
fftVars == <<pcF, raw, analysed>>
vars ==
  <<numSamp, curr, pcM, copied, pipe, pcF, raw, offered, taken, published, analysed>>

MainStates == {"play1", "write1", "play2", "write2", "release", "exited"}
FftStates == {"read", "analyse", "terminating"}
-----------------------------------------------------------------------------
(* Main.                                                                   *)

\* The decoder has left numSamp units in ssamps_l; main is at the head of
\* the play loop, fft_thread at the head of its own.
Init ==
  /\ numSamp \in 0..MaxUnits
  /\ curr = SkipUnits
  /\ pcM = "play1"
  /\ copied = 0
  /\ pipe = <<>>
  /\ pcF = "read"
  /\ raw = Silence
  /\ offered = 0
  /\ taken = 0
  /\ published = 0
  /\ analysed = 0

\* snd_pcm_writei takes half a frame; or it takes less, which is only printed,
\* or fails and snd_pcm_recover puts the stream back in order: the loop goes on
\* and what the card did not take is lost to it.  When recovering fails too the
\* loop is left.
Play(here, next) ==
  /\ pcM = here
  /\ \/ /\ pcM' = next
        /\ offered' = offered + 1
        /\ taken' \in {taken, taken + 1}
     \/ /\ pcM' = "release"
        /\ UNCHANGED <<offered, taken>>
  /\ UNCHANGED <<numSamp, curr, copied, pipe, published, fftVars>>

\* Broken variant: the loop test lets one more turn through.
PlayOneTooMany == curr <= numSamp /\ Play("play1", "write1")

PlayFirstHalf == curr < numSamp /\ Play("play1", "write1")

PlaySecondHalf == Play("play2", "write2")

LoopEnds ==
  /\ pcM = "play1"
  /\ curr >= numSamp
  /\ pcM' = "release"
  /\ UNCHANGED <<numSamp, curr, copied, offered, taken, published, pipe, fftVars>>

\* Broken variants: the second write repeats the first frame, or skips half
\* a frame.
FromSameFrame == curr
FromNextTurn == IF pcM = "write2" THEN curr + FrameUnits ELSE curr

\* Where the frame being written starts: the second write of a turn is half
\* a frame further on.
From == IF pcM = "write2" THEN curr + Hop ELSE curr

\* Broken variant: the write asks for the half frame the card was given.
AskedForHalf == Hop

\* Units write(acq_pipe, ...) is asked for.
Asked == FrameUnits

Room == PipeUnits - Len(pipe)

\* Broken variant: the FIFO is opened O_NONBLOCK; the -1 of a write that finds
\* no room goes unnoticed, and the frame is lost.
CopyOrLose(next, step) ==
  LET fits == FrameUnits <= Room
  IN  /\ pipe' = IF fits THEN pipe \o UnitsFrom(From) ELSE pipe
      /\ published' = IF fits THEN published + 1 ELSE published
      /\ pcM' = next
      /\ curr' = curr + step
      /\ UNCHANGED <<numSamp, copied, offered, taken, fftVars>>

\* One uninterrupted stretch of write(acq_pipe, ...): the kernel copies what
\* fits.  When the frame is through, the call returns and main moves on.
Copy(next, step) ==
  LET left == Asked - copied
      n == IF left <= Room THEN left ELSE Room
  IN  /\ n > 0
      /\ pipe' = pipe \o SubSeq(UnitsFrom(From), copied + 1, copied + n)
      /\ IF n = left
         THEN /\ copied' = 0
              /\ published' = published + 1
              /\ pcM' = next
              /\ curr' = curr + step
         ELSE /\ copied' = copied + n
              /\ UNCHANGED <<published, pcM, curr>>
      /\ UNCHANGED <<numSamp, offered, taken, fftVars>>

\* Broken variant: the second half of the turn is not played.
WriteFirstThenSecond == pcM = "write1" /\ Copy("write2", 0)

WriteFirst == pcM = "write1" /\ Copy("play2", 0)

\* Broken variant: the loop advances by half a frame.
WriteSecondHalfStep == pcM = "write2" /\ Copy("play1", Hop)

\* The loop's increment follows the second write.
WriteSecond == pcM = "write2" /\ Copy("play1", FrameUnits)

\* hip_decode_exit, lame_close, snd_pcm_close, dlclose, and main returns:
\* the process is gone, fft_thread with it.
Release ==
  /\ pcM = "release"
  /\ pcM' = "exited"
  /\ UNCHANGED <<numSamp, curr, copied, offered, taken, published, pipe, fftVars>>
-----------------------------------------------------------------------------
(* fft_thread.                                                             *)

\* Broken variant: the read asks for FFT_SIZE floats, twice what raw_pcm holds.
AvailableAsFloats == IF Len(pipe) < 2 * FrameUnits THEN Len(pipe) ELSE 2 * FrameUnits

\* What one read(acq_pipe, ...) finds: all there is, up to a frame.
Available == IF Len(pipe) < FrameUnits THEN Len(pipe) ELSE FrameUnits

\* Broken variant: the count that read returns is not looked at.
ReadUnchecked ==
  /\ pcF = "read"
  /\ pcM # "exited"
  /\ pipe # <<>>
  /\ pipe' = SubSeq(pipe, Available + 1, Len(pipe))
  /\ raw' = SubSeq(pipe, 1, Available) \o SubSeq(raw, Available + 1, FrameUnits)
  /\ pcF' = "analyse"
  /\ analysed' = analysed + 1
  /\ UNCHANGED mainVars

\* A read that returns fewer bytes than a frame ends the session.
ReadFrame ==
  /\ pcF = "read"
  /\ pcM # "exited"
  /\ pipe # <<>>
  /\ pipe' = SubSeq(pipe, Available + 1, Len(pipe))
  /\ raw' = SubSeq(pipe, 1, Available) \o SubSeq(raw, Available + 1, FrameUnits)
  /\ IF Available < FrameUnits
     THEN pcF' = "terminating" /\ UNCHANGED analysed
     ELSE pcF' = "analyse" /\ analysed' = analysed + 1
  /\ UNCHANGED mainVars

\* Broken variant: the loop waits until main has nothing more to say.
AnalyseWhenDrained ==
  /\ pcF = "analyse"
  /\ pipe = <<>>
  /\ pcM # "exited"
  /\ pcF' = "read"
  /\ UNCHANGED <<mainVars, pipe, raw, analysed>>

\* The rest of the loop body, up to the next read.
Analyse ==
  /\ pcF = "analyse"
  /\ pcM # "exited"
  /\ pcF' = "read"
  /\ UNCHANGED <<mainVars, pipe, raw, analysed>>

\* One of the body's failing branches: the thread calls terminate_all or
\* exit and does not come back to its loop.
AnalysisFails ==
  /\ pcF = "analyse"
  /\ pcM # "exited"
  /\ pcF' = "terminating"
  /\ UNCHANGED <<mainVars, pipe, raw, analysed>>

\* What the failing branch ends in.
ProcessExits ==
  /\ pcF = "terminating"
  /\ pcM # "exited"
  /\ pcM' = "exited"
  /\ UNCHANGED <<numSamp, curr, copied, offered, taken, published, pipe, fftVars>>
-----------------------------------------------------------------------------
\* The process is gone: nothing happens any more.
Gone == pcM = "exited" /\ UNCHANGED vars

Main ==
  \/ PlayFirstHalf \/ PlaySecondHalf \/ LoopEnds
  \/ WriteFirst \/ WriteSecond \/ Release

Fft == ReadFrame \/ Analyse \/ AnalysisFails \/ ProcessExits

Next == Main \/ Fft \/ Gone

Safety == Init /\ [][Next]_vars

\* Main and fft_thread are real-time threads (SCHED_RR) that the scheduler
\* runs whenever they are not blocked; nothing makes a branch fail.
Spec == Safety /\ WF_vars(Main) /\ WF_vars(ReadFrame \/ Analyse)
-----------------------------------------------------------------------------
(* Properties.                                                             *)

TypeOK ==
  /\ numSamp \in 0..MaxUnits
  /\ curr \in Nat
  /\ pcM \in MainStates
  /\ copied \in 0..(FrameUnits - 1)
  /\ pipe \in Seq(Nat)
  /\ Len(pipe) <= PipeUnits
  /\ pcF \in FftStates
  /\ raw \in [1..FrameUnits -> Nat \cup {-1}]
  /\ offered \in Nat
  /\ taken \in 0..offered
  /\ published \in Nat
  /\ analysed \in Nat

\* What fft_thread analyses is the next frame of the song, whole: no frame
\* is skipped, repeated or mixed with another (fft_thread.c:331-367).
AnalysesNextFrame == pcF = "analyse" => raw = Window(analysed)

\* A FIFO that holds a whole number of frames never gives a short read, so
\* the error branch of fft_thread.c:331-335 is not taken for lack of data.
NoShortRead == pcF = "read" /\ pipe # <<>> => Available = FrameUnits

\* The analysis is behind what the card was offered by what the FIFO holds and
\* the frame being written, and never ahead of it: frame k is written only
\* after half frame k has been offered, whether or not the card took it
\* (dcomposer.c:435, 447, 453, 466).
DisplayInStep ==
  /\ analysed <= offered
  /\ offered - analysed <= (PipeUnits \div FrameUnits) + 1

\* A frame starts with the half frame that was offered to the card last.
FrameFollowsSound ==
  pcM \in {"write1", "write2"} => From = StartOf(offered)

\* Frames run past the decoded samples by less than a frame and a half: the
\* zeroed part of ssamps_l they read (dcomposer.c:447, 466).
OverhangBounded ==
  \A i \in 1..Len(pipe) : pipe[i] < numSamp + FrameUnits + Hop - 1

\* The song ends: main gets through the play loop unless the analysis fails.
SongEnds == <>(pcM = "exited" \/ pcF = "terminating")

\* The FIFO is the channel FrameChannel describes.
Channel == INSTANCE FrameChannel WITH
  Depth <- PipeUnits \div FrameUnits,
  sent <- published,
  received <- analysed,
  last <- raw,
  open <- ~(pcM = "exited" \/ pcF = "terminating")

ImplementsChannel == Channel!Spec
=============================================================================
