----------------------------- MODULE Lifecycle -----------------------------
(***************************************************************************)
(* How DCOMPOSR starts and how it ends: main (dcomposer.c) brings up the   *)
(* spectrogram thread and fft_thread one after the other, connects to the  *)
(* GUI (exe/test_server.tcl), opens the sound device and the decoder, and  *)
(* plays; any thread may call terminate_all when a call fails, and SIGINT  *)
(* runs terminate_all in whichever thread the kernel picks.                *)
(*                                                                         *)
(* The frames in the FIFO are only counted here (see AudioPipe).  A call   *)
(* that touches something already released has undefined behaviour: it may *)
(* end the process or go on.                                               *)
(***************************************************************************)
EXTENDS Integers

CONSTANTS
  PipeFrames,  \* frames the FIFO holds
  MaxInt,      \* bound: how often the user presses Ctrl-C
  Faults       \* which calls may fail, out of FaultKinds

FaultKinds == {"display",   \* the X display cannot be opened
               "argb",      \* it has no visual with an alpha channel
               "calls",     \* a socket, memory or thread call returns an error
               "audio",     \* the sound device fails
               "file",      \* there is no file of the name given
               "gui"}       \* the GUI is closed

ASSUME LifecycleAssumption ==
  /\ PipeFrames \in Nat \ {0}
  /\ MaxInt \in Nat
  /\ Faults \subseteq FaultKinds

Threads == {"main", "spctrgm", "fft"}

\* threads[0] and threads[1]; main is not in the table.
SlotOf == [t \in {"spctrgm", "fft"} |-> IF t = "spctrgm" THEN 0 ELSE 1]

VARIABLES
  pc,           \* where each thread is
  kill,         \* i of each thread's terminate_all
  thread_cnt,
  thread_active,
  env_sock, spctrgm_sd,     \* descriptors; zero, standard input, until opened
  closed,                   \* descriptors terminate_all has closed
  spctrgm_thrd_running,
  listening,    \* the spectrogram server accepts connections
  handle,       \* the sound device
  hip,          \* the decoder; lame_started is hip # "none"
  queued,       \* frames in the FIFO
  cancelled,    \* threads with a cancellation on its way
  inHandler,    \* threads in sig_handler, where SIGINT is masked
  ints,         \* SIGINTs so far
  heapLocked,   \* the allocator's lock is held by code that will not go on
  gui,          \* the GUI process
  proc          \* how the process fares

table == <<thread_cnt, thread_active>>
sockets == <<env_sock, spctrgm_sd, closed, spctrgm_thrd_running, listening>>
audio == <<handle, hip, queued>>
signals == <<cancelled, inHandler, ints, heapLocked>>
world == <<gui, proc>>
vars == <<pc, kill, table, sockets, audio, signals, world>>

Init ==
  /\ pc = [t \in Threads |-> IF t = "main" THEN "createSpctrgm" ELSE "idle"]
  /\ kill = [t \in Threads |-> 0]
  /\ thread_cnt = 0
  /\ thread_active = [s \in 0..1 |-> 0]
  /\ env_sock = "stdin" /\ spctrgm_sd = "stdin"
  /\ closed = {}
  /\ spctrgm_thrd_running = 0
  /\ listening = FALSE
  /\ handle = "null"
  /\ hip = "none"
  /\ queued = 0
  /\ cancelled = {} /\ inHandler = {}
  /\ ints = 0
  /\ heapLocked = FALSE
  /\ gui = "starting"
  /\ proc = "running"

\* Thread t goes on to "there".
Goto(t, there) == pc' = [pc EXCEPT ![t] = there]

At(t, here) == proc = "running" /\ pc[t] = here

\* A step of t that only moves it along.
Pass(t, here, next) ==
  /\ At(t, here)
  /\ Goto(t, next)
  /\ UNCHANGED <<kill, table, sockets, audio, signals, world>>

\* A call at "here" returns an error and t enters terminate_all.
Fails(t, here, fault) == fault \in Faults /\ Pass(t, here, "tFree")

\* The process ends.
Ends(how) ==
  /\ proc' = how
  /\ UNCHANGED <<pc, kill, table, sockets, audio, signals, gui>>

\* A call at "here" returns an error and t calls exit.
Exits(t, here, fault) == fault \in Faults /\ At(t, here) /\ Ends("exited")
-----------------------------------------------------------------------------
(* The GUI: test_server.tcl serves the envelope port, starts DCOMPOSR, and *)
(* only then serves port 2022.                                             *)

GuiListens ==
  /\ proc = "running"
  /\ gui = "starting"
  /\ gui' = "listening"
  /\ UNCHANGED <<pc, kill, table, sockets, audio, signals, proc>>

GuiCloses ==
  /\ proc = "running"
  /\ "gui" \in Faults
  /\ gui # "dead"
  /\ gui' = "dead"
  /\ UNCHANGED <<pc, kill, table, sockets, audio, signals, proc>>
-----------------------------------------------------------------------------
(* Main.                                                                   *)

\* Broken variant: threads[thread_cnt++] is created, and main's own increment
\* is still there.
CreateCounts(t, here, next) ==
  /\ At("main", here)
  /\ pc' = [pc EXCEPT !["main"] = next, ![t] = "setup"]
  /\ thread_cnt' = thread_cnt + 1
  /\ UNCHANGED <<kill, thread_active, sockets, audio, signals, world>>

\* pthread_create, with the address of thread_cnt as the argument.
Create(t, here, next) ==
  \/ /\ At("main", here)
     /\ pc' = [pc EXCEPT !["main"] = next, ![t] = "setup"]
     /\ UNCHANGED <<kill, table, sockets, audio, signals, world>>
  \/ Exits("main", here, "calls")

CreateSpctrgm == Create("spctrgm", "createSpctrgm", "waitSpctrgm")

CreateFft == Create("fft", "createFft", "waitFft")

\* Broken variant: main does not wait for the thread.
WaitNoLonger(here, next) ==
  /\ At("main", here)
  /\ thread_cnt' = thread_cnt + 1
  /\ Goto("main", next)
  /\ UNCHANGED <<kill, thread_active, sockets, audio, signals, world>>

\* The polling loop on thread_active, left once the new thread has set it.
Wait(here, next) ==
  /\ At("main", here)
  /\ thread_active[thread_cnt] # 0
  /\ thread_cnt' = thread_cnt + 1
  /\ Goto("main", next)
  /\ UNCHANGED <<kill, thread_active, sockets, audio, signals, world>>

WaitSpctrgm == Wait("waitSpctrgm", "createFft")

WaitFft == Wait("waitFft", "envSocket")

\* snd_output_stdio_attach, which ends the process when it fails, and socket.
EnvSocket ==
  \/ /\ At("main", "envSocket")
     /\ env_sock' = "env"
     /\ Goto("main", "envConnect")
     /\ UNCHANGED <<kill, table, spctrgm_sd, closed, spctrgm_thrd_running,
                    listening, audio, signals, world>>
  \/ Fails("main", "envSocket", "calls")
  \/ Exits("main", "envSocket", "calls")

EnvConnect ==
  \/ gui # "dead" /\ Pass("main", "envConnect", "openPcm")
  \/ gui = "dead" /\ Pass("main", "envConnect", "tFree")
  \/ Exits("main", "envConnect", "calls")

OpenPcm ==
  \/ /\ At("main", "openPcm")
     /\ handle' = "open"
     /\ Goto("main", "initDecoder")
     /\ UNCHANGED <<kill, table, sockets, hip, queued, signals, world>>
  \/ Exits("main", "openPcm", "audio")

\* With a file to play the decoder is set up; without one main goes straight
\* to snd_pcm_close.  A file that cannot be opened is taken for an open one,
\* and fread is given NULL.
InitDecoder ==
  \/ /\ At("main", "initDecoder")
     /\ hip' = "live"
     /\ Goto("main", "decode")
     /\ UNCHANGED <<kill, table, sockets, handle, queued, signals, world>>
  \/ Pass("main", "initDecoder", "mPcm")
  \/ Exits("main", "initDecoder", "audio")
  \/ "file" \in Faults /\ At("main", "initDecoder") /\ Ends("killed")

\* The decode loop, with a decoder that another thread's terminate_all may
\* have freed.
Decode ==
  \/ Pass("main", "decode", "play")
  \/ hip = "freed" /\ At("main", "decode") /\ Ends("undefined")

\* One half frame for the sound device, which another thread's terminate_all
\* may have closed.
Play ==
  \/ Pass("main", "play", "write")
  \/ ("audio" \in Faults \/ handle = "closed") /\ Pass("main", "play", "mFree")
  \/ handle = "closed" /\ At("main", "play") /\ Ends("undefined")

\* The play loop is done.
SongOver == Pass("main", "play", "mFree")

\* The frame goes into the FIFO, which main itself keeps open for reading:
\* with no reader left the write waits for ever.
Publish ==
  /\ At("main", "write")
  /\ queued < PipeFrames
  /\ queued' = queued + 1
  /\ Goto("main", "play")
  /\ UNCHANGED <<kill, table, sockets, handle, hip, signals, world>>

Return == At("main", "mReturn") /\ Ends("exited")
-----------------------------------------------------------------------------
(* The spectrogram thread.                                                 *)

SpctrgmSetup ==
  \/ Pass("spctrgm", "setup", "bind")
  \/ "display" \in Faults /\ Pass("spctrgm", "setup", "gone")
  \/ Exits("spctrgm", "setup", "argb")
  \/ Fails("spctrgm", "setup", "calls")

Bind ==
  \/ /\ At("spctrgm", "bind")
     /\ spctrgm_thrd_running' = 1
     /\ Goto("spctrgm", "listen")
     /\ UNCHANGED <<kill, table, env_sock, spctrgm_sd, closed, listening, audio,
                    signals, world>>
  \/ Fails("spctrgm", "bind", "calls")

Listen ==
  \/ /\ At("spctrgm", "listen")
     /\ listening' = TRUE
     /\ Goto("spctrgm", "ready")
     /\ UNCHANGED <<kill, table, env_sock, spctrgm_sd, closed,
                    spctrgm_thrd_running, audio, signals, world>>
  \/ Fails("spctrgm", "listen", "calls")

\* thread_active[*arg] = 1, where *arg is main's thread_cnt.
MarkActive(t, next) ==
  /\ At(t, "ready")
  /\ thread_active' = [thread_active EXCEPT ![thread_cnt] = 1]
  /\ Goto(t, next)
  /\ UNCHANGED <<kill, thread_cnt, sockets, audio, signals, world>>

SpctrgmReady == MarkActive("spctrgm", "serve")

\* The accept and read loops; an accept that fails ends in terminate_all.
AcceptFails == Fails("spctrgm", "serve", "calls")
-----------------------------------------------------------------------------
(* fft_thread.                                                             *)

FftSetup ==
  \/ Pass("fft", "setup", "connectGui")
  \/ Fails("fft", "setup", "calls")

\* A GUI that has not reached its "socket -server" yet refuses.
ConnectGui ==
  \/ gui = "listening" /\ Pass("fft", "connectGui", "spctrgmSocket")
  \/ gui # "listening" /\ Pass("fft", "connectGui", "tFree")
  \/ Exits("fft", "connectGui", "calls")

SpctrgmSocket ==
  \/ /\ At("fft", "spctrgmSocket")
     /\ spctrgm_sd' = "spctrgm"
     /\ Goto("fft", "connectSpctrgm")
     /\ UNCHANGED <<kill, table, env_sock, closed, spctrgm_thrd_running,
                    listening, audio, signals, world>>
  \/ Fails("fft", "spctrgmSocket", "calls")

ConnectSpctrgm ==
  \/ listening /\ Pass("fft", "connectSpctrgm", "alloc")
  \/ (~listening \/ "calls" \in Faults) /\ Pass("fft", "connectSpctrgm", "tFree")
  \/ Exits("fft", "connectSpctrgm", "calls")

\* The buffers and the FFT plan.
Allocate ==
  \/ Pass("fft", "alloc", "ready")
  \/ Fails("fft", "alloc", "calls")

\* Broken variant: fft_thread does not report itself.
FftReadySilently == Pass("fft", "ready", "read")

FftReady == MarkActive("fft", "read")

\* Broken variant: the first frame is analysed before it is read.
ReadNothing == Pass("fft", "read", "envelope")

ReadFrame ==
  /\ At("fft", "read")
  /\ queued > 0
  /\ queued' = queued - 1
  /\ Goto("fft", "envelope")
  /\ UNCHANGED <<kill, table, sockets, handle, hip, signals, world>>

\* Only a short read is noticed, of a frame main is still writing: the -1 of
\* a failed read is compared as an unsigned number.
ReadFails ==
  /\ queued = 0
  /\ pc["main"] = "write"
  /\ Fails("fft", "read", "calls")

\* A write to the GUI: once that is gone SIGPIPE kills the process.  Errors
\* of write are compared as unsigned numbers and never noticed.
Send(here, next) ==
  \/ gui # "dead" /\ Pass("fft", here, next)
  \/ gui = "dead" /\ At("fft", here) /\ Ends("killed")

\* env_proc, which also needs memory.
SendEnvelope ==
  \/ Send("envelope", "display")
  \/ Fails("fft", "envelope", "calls")

\* The spectrum goes to the GUI and to the spectrogram thread; a frame found
\* silent goes to neither.  Nobody closes the connection of a spectrogram
\* thread that is gone, and once it is full the write never returns; one that
\* was never accepted goes with the server socket, and the write kills.
SendSpectrum ==
  \/ Send("display", "waterfall")
  \/ Pass("fft", "display", "read")
  \/ Pass("fft", "waterfall", "read")
  \/ /\ pc["spctrgm"] \in {"gone", "stuck"}
     /\ Pass("fft", "waterfall", "stuck")
  \/ pc["spctrgm"] = "gone" /\ At("fft", "waterfall") /\ Ends("killed")
-----------------------------------------------------------------------------
(* Releasing: terminate_all in any thread, and the end of main.            *)

\* hip_decode_exit and lame_close.  lame_started stays set.
FreeDecoder(t, here, next) ==
  /\ At(t, here)
  /\ \/ /\ hip' = IF hip = "live" THEN "freed" ELSE hip
        /\ Goto(t, next)
        /\ UNCHANGED <<kill, table, sockets, handle, queued, signals, world>>
     \/ hip = "freed" /\ Ends("undefined")

\* Broken variant: a device that was never opened is passed over.
ClosePcmIfOpen(t, here, next) ==
  /\ At(t, here)
  /\ \/ /\ handle' = IF handle = "open" THEN "closed" ELSE handle
        /\ Goto(t, next)
        /\ UNCHANGED <<kill, table, sockets, hip, queued, signals, world>>
     \/ handle = "closed" /\ Ends("undefined")

\* snd_pcm_close, which aborts the process when it is given NULL, and dlclose.
ClosePcm(t, here, next) ==
  /\ At(t, here)
  /\ \/ /\ handle # "null"
        /\ handle' = "closed"
        /\ Goto(t, next)
        /\ UNCHANGED <<kill, table, sockets, hip, queued, signals, world>>
     \/ handle = "null" /\ Ends("aborted")
     \/ handle = "closed" /\ Ends("undefined")

CloseSpctrgm(t) ==
  /\ At(t, "tSpctrgm")
  /\ closed' = IF spctrgm_thrd_running = 1 THEN closed \cup {spctrgm_sd} ELSE closed
  /\ Goto(t, "tEnv")
  /\ UNCHANGED <<kill, table, env_sock, spctrgm_sd, spctrgm_thrd_running, listening,
                 audio, signals, world>>

CloseEnv(t) ==
  /\ At(t, "tEnv")
  /\ closed' = closed \cup {env_sock}
  /\ kill' = [kill EXCEPT ![t] = 0]
  /\ Goto(t, "tCancel")
  /\ UNCHANGED <<table, env_sock, spctrgm_sd, spctrgm_thrd_running, listening,
                 audio, signals, world>>

\* Broken variant: the last thread of the table is left out.
KillEndShort == thread_cnt - 1

\* The bound of the loop over threads[].
KillEnd == thread_cnt

\* One turn of the loop.  A thread that cancels itself, asynchronously, is
\* gone on the spot; the descriptor of a detached thread that has ended may
\* be anything.
CancelNext(t) ==
  /\ At(t, "tCancel")
  /\ kill[t] < KillEnd
  /\ \E victim \in DOMAIN SlotOf :
       /\ SlotOf[victim] = kill[t]
       /\ \/ /\ victim = t
             /\ Goto(t, "gone")
             /\ listening' = (listening /\ t # "spctrgm")
             /\ UNCHANGED <<kill, cancelled, proc>>
          \/ /\ victim # t
             /\ kill' = [kill EXCEPT ![t] = @ + 1]
             /\ cancelled' = cancelled \cup {victim}
             /\ UNCHANGED <<pc, listening, proc>>
          \/ /\ pc[victim] = "gone"
             /\ proc' = "undefined"
             /\ UNCHANGED <<pc, kill, listening, cancelled>>
  /\ UNCHANGED <<table, env_sock, spctrgm_sd, closed, spctrgm_thrd_running, audio,
                 inHandler, ints, heapLocked, gui>>

CancelDone(t) ==
  /\ kill[t] >= KillEnd
  /\ Pass(t, "tCancel", "tPkill")

\* system("pkill test_server.tcl"), and a second of sleep.
KillGui(t) ==
  /\ At(t, "tPkill")
  /\ gui' = "dead"
  /\ Goto(t, "tExit")
  /\ UNCHANGED <<kill, table, sockets, audio, signals, proc>>

\* Broken variant: the signal handler returns to what it interrupted.
ExitReturns(t) == Pass(t, "tExit", "play")

Exit(t) == At(t, "tExit") /\ Ends("exited")

TerminateAll(t) ==
  \/ FreeDecoder(t, "tFree", "tPcm") \/ ClosePcm(t, "tPcm", "tSpctrgm")
  \/ CloseSpctrgm(t) \/ CloseEnv(t) \/ CancelNext(t) \/ CancelDone(t)
  \/ KillGui(t) \/ Exit(t)

\* Broken variant: main, having released everything, calls terminate_all.
ReleaseAndTerminate ==
  FreeDecoder("main", "mFree", "mPcm") \/ ClosePcm("main", "mPcm", "tFree")

\* The end of main.
Release == FreeDecoder("main", "mFree", "mPcm") \/ ClosePcm("main", "mPcm", "mReturn")

\* Where calls take memory or give it back.
HeapPlaces ==
  {"createSpctrgm", "createFft", "envSocket", "openPcm", "initDecoder", "decode",
   "mFree", "mPcm", "setup", "alloc", "serve", "envelope", "tFree", "tPcm"}

\* A thread dropped in the middle of such a call may hold the lock for good.
\* A terminate_all that finds no decoder frees nothing at its start.
Drops(t) ==
  heapLocked' \in IF pc[t] \in HeapPlaces /\ (pc[t] = "tFree" => hip # "none")
                  THEN {heapLocked, TRUE}
                  ELSE {heapLocked}

\* Whoever then needs memory may wait for ever, in terminate_all as anywhere
\* (snd_pcm_close needs it even to say that it was given NULL).
Hangs(t) ==
  /\ heapLocked
  /\ pc[t] = "tFree" => hip # "none"
  /\ \E here \in HeapPlaces : Pass(t, here, "stuck")

\* A cancellation reaches its thread, wherever it is; the clean-up handler of
\* the spectrogram thread closes its server socket.
Cancelled(t) ==
  /\ proc = "running"
  /\ t \in cancelled
  /\ cancelled' = cancelled \ {t}
  /\ Goto(t, "gone")
  /\ Drops(t)
  /\ listening' = (listening /\ t # "spctrgm")
  /\ UNCHANGED <<kill, table, env_sock, spctrgm_sd, closed, spctrgm_thrd_running,
                 audio, inHandler, ints, world>>

\* SIGINT goes to main unless main is already in the handler, then to any
\* other thread that is not.
Interrupt(t) ==
  /\ proc = "running"
  /\ ints < MaxInt
  /\ pc[t] \notin {"idle", "gone"}
  /\ t \notin inHandler
  /\ t # "main" => "main" \in inHandler
  /\ ints' = ints + 1
  /\ inHandler' = inHandler \cup {t}
  /\ Goto(t, "tFree")
  /\ Drops(t)
  /\ UNCHANGED <<kill, table, sockets, audio, cancelled, world>>
-----------------------------------------------------------------------------
Main ==
  \/ CreateSpctrgm \/ WaitSpctrgm \/ CreateFft \/ WaitFft \/ EnvSocket
  \/ EnvConnect \/ OpenPcm \/ InitDecoder \/ Decode \/ Play \/ SongOver
  \/ Publish \/ Release \/ Return \/ TerminateAll("main")

SpctrgmRuns ==
  \/ SpctrgmSetup \/ Bind \/ Listen \/ SpctrgmReady
  \/ TerminateAll("spctrgm")

Spctrgm == SpctrgmRuns \/ AcceptFails

FftRuns ==
  \/ FftSetup \/ ConnectGui \/ SpctrgmSocket \/ ConnectSpctrgm \/ Allocate
  \/ FftReady \/ ReadFrame \/ SendEnvelope \/ SendSpectrum \/ TerminateAll("fft")

Fft == FftRuns \/ ReadFails

Gone == proc # "running" /\ UNCHANGED vars

Next ==
  \/ Main \/ Spctrgm \/ Fft
  \/ GuiListens \/ GuiCloses
  \/ \E t \in {"spctrgm", "fft"} : Cancelled(t)
  \/ \E t \in Threads : Interrupt(t) \/ Hangs(t)
  \/ Gone

Safety == Init /\ [][Next]_vars

\* Each thread runs when it can, cancellations arrive, and the GUI gets to
\* its event loop.  The user need not press Ctrl-C, and a thread that waits in
\* accept or in read need not see the call fail.
Spec ==
  /\ Safety
  /\ WF_vars(Main) /\ WF_vars(SpctrgmRuns) /\ WF_vars(FftRuns)
  /\ WF_vars(GuiListens)
  /\ \A t \in {"spctrgm", "fft"} : WF_vars(Cancelled(t))
-----------------------------------------------------------------------------
(* Properties.                                                             *)

Places ==
  {"idle", "gone", "stuck", "setup", "ready",
   "createSpctrgm", "waitSpctrgm", "createFft", "waitFft", "envSocket", "envConnect",
   "openPcm", "initDecoder", "decode", "play", "write",
   "mFree", "mPcm", "mReturn",
   "bind", "listen", "serve",
   "connectGui", "spctrgmSocket", "connectSpctrgm", "alloc", "read", "envelope",
   "display", "waterfall",
   "tFree", "tPcm", "tSpctrgm", "tEnv", "tCancel", "tPkill", "tExit"}

Terminating == {"tFree", "tPcm", "tSpctrgm", "tEnv", "tCancel", "tPkill", "tExit"}

\* A thread that has run into terminate_all, or does not come back.
Lost(t) == pc[t] \in Terminating \cup {"gone", "stuck"}

TypeOK ==
  /\ pc \in [Threads -> Places]
  /\ kill \in [Threads -> 0..2]
  /\ thread_cnt \in 0..2
  /\ thread_active \in [0..1 -> 0..1]
  /\ env_sock \in {"stdin", "env"}
  /\ spctrgm_sd \in {"stdin", "spctrgm"}
  /\ closed \subseteq {"stdin", "env", "spctrgm"}
  /\ spctrgm_thrd_running \in 0..1
  /\ listening \in BOOLEAN
  /\ handle \in {"null", "open", "closed"}
  /\ hip \in {"none", "live", "freed"}
  /\ queued \in 0..PipeFrames
  /\ cancelled \subseteq {"spctrgm", "fft"}
  /\ inHandler \subseteq Threads
  /\ ints \in 0..MaxInt
  /\ heapLocked \in BOOLEAN
  /\ gui \in {"starting", "listening", "dead"}
  /\ proc \in {"running", "exited", "aborted", "killed", "undefined"}

\* The threads read their slot number through a pointer to main's own
\* counter: it still is their number when they mark themselves active
\* (spectrogram.c:414, fft_thread.c:323, dcomposer.c:224-262).
SlotIsMine ==
  \A t \in DOMAIN SlotOf :
    pc[t] \in {"setup", "ready"} => thread_cnt = SlotOf[t]

\* When fft_thread connects to the spectrogram server that server is
\* listening: its thread may have failed by then, but is not gone
\* (fft_thread.c:254, dcomposer.c:224-249, 512).
SpectrogramReachable == pc["fft"] = "connectSpctrgm" => listening

\* The first envelope is written only after main has connected the socket:
\* fft_thread is alive long before that, but waits for a frame
\* (env_proc.c:73, dcomposer.c:294-311).
EnvelopeConnected ==
  pc["fft"] \in {"envelope", "display", "waterfall"} => env_sock = "env" /\ handle # "null"

\* terminate_all closes spctrgm_sd and env_sock whatever they hold, and they
\* are zero until opened, but standard input is never closed: a terminate_all
\* that comes too early dies in snd_pcm_close first (dcomposer.c:512-522).
StdinSpared == "stdin" \notin closed

\* Only main gets to the end of terminate_all: the other threads cancel
\* themselves on the way (dcomposer.c:524-542).
OnlyMainEndsInOrder ==
  \A t \in Threads : pc[t] \in {"tPkill", "tExit"} => t = "main"

\* While main decodes or plays the sound device is open, unless another
\* thread has run terminate_all (dcomposer.c:435, 453, 512).
DeviceOpenWhilePlaying ==
  pc["main"] \in {"decode", "play", "write", "mFree"} =>
    handle = "open" \/ \E t \in DOMAIN SlotOf : Lost(t)

\* When main returns it has released the decoder, if there was one, and the
\* sound device, and nothing is released a second time unless somebody has
\* pressed Ctrl-C or another thread has run terminate_all
\* (dcomposer.c:482-491, 506-512).
ReleasedOnce ==
  /\ pc["main"] = "mReturn" => hip # "live" /\ handle = "closed"
  /\ proc = "undefined" => ints > 0 \/ \E t \in DOMAIN SlotOf : Lost(t)

\* A spectrogram thread that returned before it marked itself active: main
\* polls for it without a limit (spectrogram.c:177-181, dcomposer.c:224-230).
PollsForNobody == pc["main"] = "waitSpctrgm" /\ pc["spctrgm"] = "gone"

\* A thread whose step waits for the allocator's lock, which nobody will give
\* back: a SIGINT came, or a cancellation, in the middle of a call that takes
\* or gives back memory, and terminate_all does the same
\* (dcomposer.c:332-392, 409, 482-488, 495-512).
HangsOnHeap(t) == heapLocked /\ pc[t] = "stuck"

\* Start-up comes to an end, with a decoder or with the end of the process,
\* unless the thread main waits for is gone, or main hangs.  (The others hang
\* only after a SIGINT has sent main to terminate_all.)
StartupSettles ==
  <>(proc # "running" \/ hip # "none" \/ PollsForNobody \/ HangsOnHeap("main"))

\* Once main is in terminate_all, by Ctrl-C or by a failure, the process ends,
\* whatever the other threads do, unless main hangs on the allocator's lock
\* (dcomposer.c:495-542).
InterruptEnds == pc["main"] = "tFree" ~> proc # "running" \/ HangsOnHeap("main")

\* What terminate_all announces last, "Ending the process"
\* (dcomposer.c:541), for every thread that calls it.
TerminateAllEnds ==
  \A t \in Threads : pc[t] = "tFree" ~> proc # "running"
=============================================================================
