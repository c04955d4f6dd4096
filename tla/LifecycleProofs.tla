-------------------------- MODULE LifecycleProofs --------------------------
(***************************************************************************)
(* Proofs about Lifecycle, for every FIFO, any number of Ctrl-C and any    *)
(* set of calls that may fail.                                             *)
(***************************************************************************)
EXTENDS Lifecycle, TLAPS

\* Places of main after the handshake with both threads, after the envelope
\* socket is there, and after the sound device has been opened.
DevicePlaces ==
  {"initDecoder", "decode", "play", "write", "mFree", "mPcm", "mReturn"}
EnvPlaces == {"envConnect", "openPcm"} \cup DevicePlaces
BothUpPlaces == {"envSocket"} \cup EnvPlaces

\* Places of a thread that has not marked itself active.
SpctrgmSetupPlaces == {"setup", "bind", "listen", "ready"}
FftSetupPlaces ==
  {"setup", "connectGui", "spctrgmSocket", "connectSpctrgm", "alloc", "ready"}

\* Where main is tells how many threads are up.
MainKnows ==
  /\ pc["main"] = "createSpctrgm" => thread_cnt = 0 /\ pc["spctrgm"] = "idle"
  /\ pc["main"] \in {"createSpctrgm", "waitSpctrgm", "createFft"} => pc["fft"] = "idle"
  /\ pc["main"] = "waitSpctrgm" => thread_cnt = 0
  /\ pc["main"] \in {"createFft", "waitFft"} => thread_cnt = 1
  /\ pc["main"] \in BothUpPlaces => thread_cnt = 2

\* A thread is in its set-up only while thread_cnt is its slot, and a slot is
\* marked only by its own thread.
Handshake ==
  /\ pc["spctrgm"] \in SpctrgmSetupPlaces => thread_cnt = 0
  /\ pc["fft"] \in FftSetupPlaces => thread_cnt = 1
  /\ pc["fft"] # "idle" => thread_cnt >= 1
  /\ thread_active[0] = 1 => pc["spctrgm"] \notin SpctrgmSetupPlaces \cup {"idle"}
  /\ thread_active[1] = 1 => pc["fft"] \notin FftSetupPlaces \cup {"idle"}
  /\ thread_cnt >= 1 => thread_active[0] = 1
  /\ thread_cnt = 2 => thread_active[1] = 1

\* What each socket variable holds once the thread that opens it is past it.
SocketsOpened ==
  /\ pc["spctrgm"] = "ready" \/ thread_active[0] = 1 =>
       listening \/ pc["spctrgm"] = "gone"
  /\ pc["fft"] \in {"connectSpctrgm", "alloc", "ready"} \/ thread_active[1] = 1 =>
       spctrgm_sd = "spctrgm"
  /\ pc["main"] \in EnvPlaces => env_sock = "env"

\* The sound device is opened only when everything else is up, and no frame
\* is there before it.
DeviceLast ==
  /\ pc["main"] \in DevicePlaces => handle # "null"
  /\ handle # "null" => thread_cnt = 2 /\ env_sock = "env"
  /\ queued > 0 \/ pc["fft"] \in {"envelope", "display", "waterfall"} =>
       handle # "null"

\* How far terminate_all gets: past snd_pcm_close only when there is a device,
\* and not past the thread's own slot.
Progress ==
  /\ \A t \in Threads :
       pc[t] \in {"tSpctrgm", "tEnv", "tCancel", "tPkill", "tExit"} => handle # "null"
  /\ \A t \in {"spctrgm", "fft"} :
       /\ pc[t] \notin {"tPkill", "tExit"}
       /\ pc[t] = "tCancel" => kill[t] <= SlotOf[t]
       /\ t \in cancelled => pc[t] # "idle"
  /\ "stdin" \notin closed
  /\ cancelled # {} => handle # "null"
  /\ thread_active[0] = 1 /\ pc["spctrgm"] = "gone" => handle # "null"

IInv ==
  /\ TypeOK
  /\ MainKnows /\ Handshake /\ SocketsOpened /\ DeviceLast /\ Progress
-----------------------------------------------------------------------------
LEMMA InitEstablishesIInv ==
  ASSUME Init
  PROVE  IInv
<1> USE LifecycleAssumption
    DEF Init, Threads, SlotOf, DevicePlaces, EnvPlaces, BothUpPlaces,
        SpctrgmSetupPlaces, FftSetupPlaces
<1>1. TypeOK
  <2>1. pc \in [Threads -> Places]
    BY DEF Places
  <2>2. kill \in [Threads -> 0..2] /\ thread_active \in [0..1 -> 0..1]
    OBVIOUS
  <2>3. queued \in 0..PipeFrames /\ ints \in 0..MaxInt
    OBVIOUS
  <2>4. /\ thread_cnt \in 0..2
        /\ env_sock \in {"stdin", "env"} /\ spctrgm_sd \in {"stdin", "spctrgm"}
        /\ spctrgm_thrd_running \in 0..1
        /\ handle \in {"null", "open", "closed"} /\ hip \in {"none", "live", "freed"}
        /\ gui \in {"starting", "listening", "dead"} /\ proc = "running"
    OBVIOUS
  <2>5. /\ closed \subseteq {"stdin", "env", "spctrgm"}
        /\ cancelled \subseteq {"spctrgm", "fft"} /\ inHandler \subseteq Threads
    OBVIOUS
  <2>6. listening \in BOOLEAN /\ heapLocked \in BOOLEAN
    BY Zenon
  <2> HIDE DEF Init
  <2> QED  BY <2>1, <2>2, <2>3, <2>4, <2>5, <2>6 DEF TypeOK
<1>2. MainKnows /\ Handshake
  BY DEF MainKnows, Handshake
<1>3. SocketsOpened /\ DeviceLast
  BY DEF SocketsOpened, DeviceLast
<1>4. Progress
  BY DEF Progress
<1> QED  BY <1>1, <1>2, <1>3, <1>4 DEF IInv

\* The end of the process changes nothing the invariant speaks of.
LEMMA EndsKeepsIInv ==
  ASSUME IInv, NEW how \in {"exited", "aborted", "killed", "undefined"}, Ends(how)
  PROVE  IInv'
<1>1. TypeOK'
  BY DEF IInv, TypeOK, Ends, table, sockets, audio, signals
<1>2. MainKnows' /\ Handshake' /\ SocketsOpened' /\ DeviceLast' /\ Progress'
  BY DEF IInv, Ends, table, sockets, audio, signals, MainKnows, Handshake,
         SocketsOpened, DeviceLast, Progress
<1> QED  BY <1>1, <1>2 DEF IInv

LEMMA ExitsKeepsIInv ==
  ASSUME IInv, NEW t, NEW here, NEW fault, Exits(t, here, fault)
  PROVE  IInv'
BY EndsKeepsIInv DEF Exits

\* Where everybody is after one thread has moved.
LEMMA GotoMoves ==
  ASSUME TypeOK, NEW t \in Threads, NEW there \in Places, Goto(t, there)
  PROVE  /\ pc' \in [Threads -> Places]
         /\ pc'[t] = there
         /\ \A u \in Threads : u # t => pc'[u] = pc[u]
BY DEF TypeOK, Goto

LEMMA MainMoves ==
  ASSUME TypeOK, NEW there \in Places, Goto("main", there)
  PROVE  /\ pc' \in [Threads -> Places]
         /\ pc'["main"] = there
         /\ pc'["spctrgm"] = pc["spctrgm"] /\ pc'["fft"] = pc["fft"]
BY GotoMoves DEF Threads

LEMMA SpctrgmMoves ==
  ASSUME TypeOK, NEW there \in Places, Goto("spctrgm", there)
  PROVE  /\ pc' \in [Threads -> Places]
         /\ pc'["spctrgm"] = there
         /\ pc'["main"] = pc["main"] /\ pc'["fft"] = pc["fft"]
BY GotoMoves DEF Threads

LEMMA FftMoves ==
  ASSUME TypeOK, NEW there \in Places, Goto("fft", there)
  PROVE  /\ pc' \in [Threads -> Places]
         /\ pc'["fft"] = there
         /\ pc'["main"] = pc["main"] /\ pc'["spctrgm"] = pc["spctrgm"]
BY GotoMoves DEF Threads

\* Steps of main that change nothing else.
LEMMA MainPasses ==
  ASSUME IInv, NEW here, NEW next, Pass("main", here, next),
         \/ next = "tFree"
         \/ here = "envConnect" /\ next = "openPcm"
         \/ here \in DevicePlaces /\ next \in DevicePlaces
         \/ here = "tCancel" /\ next = "tPkill"
  PROVE  IInv'
<1> USE DEF Threads, SlotOf, DevicePlaces, EnvPlaces, BothUpPlaces
<1>1. /\ pc["main"] = here
      /\ pc' \in [Threads -> Places]
      /\ pc'["main"] = next
      /\ pc'["spctrgm"] = pc["spctrgm"] /\ pc'["fft"] = pc["fft"]
      /\ UNCHANGED <<kill, table, sockets, audio, signals, world>>
  BY MainMoves DEF Pass, At, IInv, Places
<1>2. TypeOK'
  BY <1>1 DEF IInv, TypeOK, table, sockets, audio, signals, world
<1>3. MainKnows'
  BY <1>1 DEF IInv, MainKnows, table, sockets, audio, signals, world
<1>4. Handshake'
  BY <1>1 DEF IInv, Handshake, table, sockets, audio, signals, world
<1>5. SocketsOpened'
  BY <1>1 DEF IInv, SocketsOpened, table, sockets, audio, signals, world
<1>6. DeviceLast'
  BY <1>1 DEF IInv, DeviceLast, table, sockets, audio, signals, world
<1>7. Progress'
  BY <1>1 DEF IInv, Progress, table, sockets, audio, signals, world
<1> QED  BY <1>2, <1>3, <1>4, <1>5, <1>6, <1>7 DEF IInv

\* Steps of the spectrogram thread that change nothing else.
LEMMA SpctrgmPasses ==
  ASSUME IInv, NEW here, NEW next, Pass("spctrgm", here, next), here \notin {"idle", "gone"},
         \/ next = "tFree"
         \/ here = "setup" /\ next \in {"bind", "gone"}
  PROVE  IInv'
<1> USE DEF Threads, SlotOf, SpctrgmSetupPlaces
<1>1. /\ pc["spctrgm"] = here
      /\ pc' \in [Threads -> Places]
      /\ pc'["spctrgm"] = next
      /\ pc'["main"] = pc["main"] /\ pc'["fft"] = pc["fft"]
      /\ UNCHANGED <<kill, table, sockets, audio, signals, world>>
  BY SpctrgmMoves DEF Pass, At, IInv, Places
<1>2. TypeOK'
  BY <1>1 DEF IInv, TypeOK, table, sockets, audio, signals, world
<1>3. MainKnows'
  BY <1>1 DEF IInv, MainKnows, table, sockets, audio, signals, world
<1>4. Handshake'
  BY <1>1 DEF IInv, Handshake, table, sockets, audio, signals, world
<1>5. SocketsOpened'
  BY <1>1 DEF IInv, SocketsOpened, table, sockets, audio, signals, world
<1>6. DeviceLast'
  BY <1>1 DEF IInv, DeviceLast, table, sockets, audio, signals, world
<1>7. Progress'
  BY <1>1 DEF IInv, Handshake, Progress, table, sockets, audio, signals, world
<1> QED  BY <1>2, <1>3, <1>4, <1>5, <1>6, <1>7 DEF IInv

\* Steps of fft_thread that change nothing else.
LEMMA FftPasses ==
  ASSUME IInv, NEW here, NEW next, Pass("fft", here, next), here # "idle",
         \/ next = "tFree"
         \/ here = "setup" /\ next = "connectGui"
         \/ here = "connectGui" /\ next = "spctrgmSocket"
         \/ here = "connectSpctrgm" /\ next = "alloc"
         \/ here = "alloc" /\ next = "ready"
         \/ here = "envelope" /\ next = "display"
         \/ here = "display" /\ next \in {"waterfall", "read"}
         \/ here = "waterfall" /\ next \in {"read", "stuck"}
  PROVE  IInv'
<1> USE DEF Threads, SlotOf, FftSetupPlaces, EnvPlaces, DevicePlaces
<1>1. /\ pc["fft"] = here
      /\ pc' \in [Threads -> Places]
      /\ pc'["fft"] = next
      /\ pc'["main"] = pc["main"] /\ pc'["spctrgm"] = pc["spctrgm"]
      /\ UNCHANGED <<kill, table, sockets, audio, signals, world>>
  BY FftMoves DEF Pass, At, IInv, Places
<1>2. TypeOK'
  BY <1>1 DEF IInv, TypeOK, table, sockets, audio, signals, world
<1>3. MainKnows'
  BY <1>1 DEF IInv, MainKnows, table, sockets, audio, signals, world
<1>4. Handshake'
  BY <1>1 DEF IInv, Handshake, table, sockets, audio, signals, world
<1>5. SocketsOpened'
  BY <1>1 DEF IInv, SocketsOpened, table, sockets, audio, signals, world
<1>6. DeviceLast'
  BY <1>1 DEF IInv, DeviceLast, table, sockets, audio, signals, world
<1>7. Progress'
  BY <1>1 DEF IInv, Progress, table, sockets, audio, signals, world
<1> QED  BY <1>2, <1>3, <1>4, <1>5, <1>6, <1>7 DEF IInv

\* One step of main.
LEMMA MainKeepsIInv ==
  ASSUME IInv, Main, ~ TerminateAll("main"), ~ Release
  PROVE  IInv'
<1> USE DEF Threads, SlotOf, DevicePlaces, EnvPlaces, BothUpPlaces,
            SpctrgmSetupPlaces, FftSetupPlaces
<1>1. CASE CreateSpctrgm
  <2>1. CASE Exits("main", "createSpctrgm", "calls")
    BY <2>1, ExitsKeepsIInv
  <2>2. CASE ~ Exits("main", "createSpctrgm", "calls")
    <3>1. /\ pc["main"] = "createSpctrgm"
          /\ pc' \in [Threads -> Places]
          /\ pc'["main"] = "waitSpctrgm" /\ pc'["spctrgm"] = "setup"
          /\ pc'["fft"] = pc["fft"]
          /\ UNCHANGED <<kill, table, sockets, audio, signals, world>>
      BY <1>1, <2>2 DEF CreateSpctrgm, Create, At, IInv, TypeOK, Places
    <3>2. TypeOK'
      BY <3>1 DEF IInv, TypeOK, table, sockets, audio, signals, world
    <3>3. MainKnows'
      BY <3>1 DEF IInv, MainKnows, table, sockets, audio, signals, world
    <3>4. Handshake'
      BY <3>1 DEF IInv, MainKnows, Handshake, table, sockets, audio, signals, world
    <3>5. SocketsOpened'
      BY <3>1 DEF IInv, MainKnows, Handshake, SocketsOpened, table, sockets, audio, signals, world
    <3>6. DeviceLast'
      BY <3>1 DEF IInv, DeviceLast, table, sockets, audio, signals, world
    <3>7. Progress'
      BY <3>1 DEF IInv, Progress, table, sockets, audio, signals, world
    <3> QED  BY <3>2, <3>3, <3>4, <3>5, <3>6, <3>7 DEF IInv
  <2> QED  BY <2>1, <2>2
<1>2. CASE CreateFft
  <2>1. CASE Exits("main", "createFft", "calls")
    BY <2>1, ExitsKeepsIInv
  <2>2. CASE ~ Exits("main", "createFft", "calls")
    <3>1. /\ pc["main"] = "createFft"
          /\ pc' \in [Threads -> Places]
          /\ pc'["main"] = "waitFft" /\ pc'["fft"] = "setup"
          /\ pc'["spctrgm"] = pc["spctrgm"]
          /\ UNCHANGED <<kill, table, sockets, audio, signals, world>>
      BY <1>2, <2>2 DEF CreateFft, Create, At, IInv, TypeOK, Places
    <3>2. TypeOK'
      BY <3>1 DEF IInv, TypeOK, table, sockets, audio, signals, world
    <3>3. MainKnows'
      BY <3>1 DEF IInv, MainKnows, table, sockets, audio, signals, world
    <3>4. Handshake'
      BY <3>1 DEF IInv, MainKnows, Handshake, table, sockets, audio, signals, world
    <3>5. SocketsOpened'
      BY <3>1 DEF IInv, SocketsOpened, table, sockets, audio, signals, world
    <3>6. DeviceLast'
      BY <3>1 DEF IInv, DeviceLast, table, sockets, audio, signals, world
    <3>7. Progress'
      BY <3>1 DEF IInv, Progress, table, sockets, audio, signals, world
    <3> QED  BY <3>2, <3>3, <3>4, <3>5, <3>6, <3>7 DEF IInv
  <2> QED  BY <2>1, <2>2
<1>3. CASE WaitSpctrgm
  <2>1. /\ pc["main"] = "waitSpctrgm"
        /\ pc' \in [Threads -> Places]
        /\ pc'["main"] = "createFft"
        /\ pc'["spctrgm"] = pc["spctrgm"] /\ pc'["fft"] = pc["fft"]
        /\ thread_active[thread_cnt] # 0
        /\ thread_cnt' = thread_cnt + 1
        /\ UNCHANGED <<kill, thread_active, sockets, audio, signals, world>>
    BY <1>3, MainMoves DEF WaitSpctrgm, Wait, At, IInv, Places
  <2>2. TypeOK'
    BY <2>1 DEF IInv, MainKnows, TypeOK, sockets, audio, signals, world
  <2>3. MainKnows'
    BY <2>1 DEF IInv, MainKnows, sockets, audio, signals, world
  <2>4. Handshake'
    BY <2>1 DEF IInv, MainKnows, TypeOK, Handshake, sockets, audio, signals, world
  <2>5. SocketsOpened'
    BY <2>1 DEF IInv, SocketsOpened, sockets, audio, signals, world
  <2>6. DeviceLast'
    BY <2>1 DEF IInv, MainKnows, DeviceLast, sockets, audio, signals, world
  <2>7. Progress'
    BY <2>1 DEF IInv, Progress, sockets, audio, signals, world
  <2> QED  BY <2>2, <2>3, <2>4, <2>5, <2>6, <2>7 DEF IInv
<1>4. CASE WaitFft
  <2>1. /\ pc["main"] = "waitFft"
        /\ pc' \in [Threads -> Places]
        /\ pc'["main"] = "envSocket"
        /\ pc'["spctrgm"] = pc["spctrgm"] /\ pc'["fft"] = pc["fft"]
        /\ thread_active[thread_cnt] # 0
        /\ thread_cnt' = thread_cnt + 1
        /\ UNCHANGED <<kill, thread_active, sockets, audio, signals, world>>
    BY <1>4, MainMoves DEF WaitFft, Wait, At, IInv, Places
  <2>2. TypeOK'
    BY <2>1 DEF IInv, MainKnows, TypeOK, sockets, audio, signals, world
  <2>3. MainKnows'
    BY <2>1 DEF IInv, MainKnows, sockets, audio, signals, world
  <2>4. Handshake'
    BY <2>1 DEF IInv, MainKnows, TypeOK, Handshake, sockets, audio, signals, world
  <2>5. SocketsOpened'
    BY <2>1 DEF IInv, SocketsOpened, sockets, audio, signals, world
  <2>6. DeviceLast'
    BY <2>1 DEF IInv, MainKnows, DeviceLast, sockets, audio, signals, world
  <2>7. Progress'
    BY <2>1 DEF IInv, Progress, sockets, audio, signals, world
  <2> QED  BY <2>2, <2>3, <2>4, <2>5, <2>6, <2>7 DEF IInv
<1>5. CASE EnvSocket
  <2>1. CASE Fails("main", "envSocket", "calls") \/ Exits("main", "envSocket", "calls")
    BY <2>1, MainPasses, ExitsKeepsIInv DEF Fails
  <2>2. CASE ~ (Fails("main", "envSocket", "calls") \/ Exits("main", "envSocket", "calls"))
    <3>1. /\ pc["main"] = "envSocket"
          /\ pc' \in [Threads -> Places]
          /\ pc'["main"] = "envConnect"
          /\ pc'["spctrgm"] = pc["spctrgm"] /\ pc'["fft"] = pc["fft"]
          /\ env_sock' = "env"
          /\ UNCHANGED <<kill, table, spctrgm_sd, closed, spctrgm_thrd_running,
                          listening, audio, signals, world>>
      BY <1>5, <2>2, MainMoves DEF EnvSocket, At, IInv, Places
    <3>2. TypeOK'
      BY <3>1 DEF IInv, TypeOK, table, audio, signals, world
    <3>3. MainKnows'
      BY <3>1 DEF IInv, MainKnows, table, audio, signals, world
    <3>4. Handshake'
      BY <3>1 DEF IInv, Handshake, table, audio, signals, world
    <3>5. SocketsOpened'
      BY <3>1 DEF IInv, SocketsOpened, table, audio, signals, world
    <3>6. DeviceLast'
      BY <3>1 DEF IInv, DeviceLast, table, audio, signals, world
    <3>7. Progress'
      BY <3>1 DEF IInv, Progress, table, audio, signals, world
    <3> QED  BY <3>2, <3>3, <3>4, <3>5, <3>6, <3>7 DEF IInv
  <2> QED  BY <2>1, <2>2
<1>6. CASE EnvConnect
  BY <1>6, MainPasses, ExitsKeepsIInv DEF EnvConnect
<1>7. CASE OpenPcm
  <2>1. CASE Exits("main", "openPcm", "audio")
    BY <2>1, ExitsKeepsIInv
  <2>2. CASE ~ Exits("main", "openPcm", "audio")
    <3>1. /\ pc["main"] = "openPcm"
          /\ pc' \in [Threads -> Places]
          /\ pc'["main"] = "initDecoder"
          /\ pc'["spctrgm"] = pc["spctrgm"] /\ pc'["fft"] = pc["fft"]
          /\ handle' = "open"
          /\ UNCHANGED <<kill, table, sockets, hip, queued, signals, world>>
      BY <1>7, <2>2, MainMoves DEF OpenPcm, At, IInv, Places
    <3>2. TypeOK'
      BY <3>1 DEF IInv, TypeOK, table, sockets, signals, world
    <3>3. MainKnows'
      BY <3>1 DEF IInv, MainKnows, table, sockets, signals, world
    <3>4. Handshake'
      BY <3>1 DEF IInv, Handshake, table, sockets, signals, world
    <3>5. SocketsOpened'
      BY <3>1 DEF IInv, SocketsOpened, table, sockets, signals, world
    <3>6. DeviceLast'
      BY <3>1 DEF IInv, MainKnows, SocketsOpened, DeviceLast, table, sockets, signals, world
    <3>7. Progress'
      BY <3>1 DEF IInv, Progress, table, sockets, signals, world
    <3> QED  BY <3>2, <3>3, <3>4, <3>5, <3>6, <3>7 DEF IInv
  <2> QED  BY <2>1, <2>2
<1>8. CASE InitDecoder
  <2>1. CASE \/ Exits("main", "initDecoder", "audio")
             \/ Pass("main", "initDecoder", "mPcm")
             \/ Ends("killed")
    BY <2>1, ExitsKeepsIInv, EndsKeepsIInv, MainPasses
  <2>2. CASE ~ (\/ Exits("main", "initDecoder", "audio")
                \/ Pass("main", "initDecoder", "mPcm")
                \/ Ends("killed"))
    <3>1. /\ pc["main"] = "initDecoder"
          /\ pc' \in [Threads -> Places]
          /\ pc'["main"] = "decode"
          /\ pc'["spctrgm"] = pc["spctrgm"] /\ pc'["fft"] = pc["fft"]
          /\ hip' = "live"
          /\ UNCHANGED <<kill, table, sockets, handle, queued, signals, world>>
      BY <1>8, <2>2, MainMoves DEF InitDecoder, At, IInv, Places
    <3>2. TypeOK'
      BY <3>1 DEF IInv, TypeOK, table, sockets, signals, world
    <3>3. MainKnows'
      BY <3>1 DEF IInv, MainKnows, table, sockets, signals, world
    <3>4. Handshake'
      BY <3>1 DEF IInv, Handshake, table, sockets, signals, world
    <3>5. SocketsOpened'
      BY <3>1 DEF IInv, SocketsOpened, table, sockets, signals, world
    <3>6. DeviceLast'
      BY <3>1 DEF IInv, DeviceLast, table, sockets, signals, world
    <3>7. Progress'
      BY <3>1 DEF IInv, Progress, table, sockets, signals, world
    <3> QED  BY <3>2, <3>3, <3>4, <3>5, <3>6, <3>7 DEF IInv
  <2> QED  BY <2>1, <2>2
<1>9. CASE Decode
  BY <1>9, MainPasses, EndsKeepsIInv DEF Decode
<1>10. CASE Play \/ SongOver
  BY <1>10, MainPasses, EndsKeepsIInv DEF Play, SongOver
<1>11. CASE Publish
  <2>1. /\ pc["main"] = "write"
        /\ pc' \in [Threads -> Places]
        /\ pc'["main"] = "play"
        /\ pc'["spctrgm"] = pc["spctrgm"] /\ pc'["fft"] = pc["fft"]
        /\ queued < PipeFrames
        /\ queued' = queued + 1
        /\ UNCHANGED <<kill, table, sockets, handle, hip, signals, world>>
    BY <1>11, MainMoves DEF Publish, At, IInv, Places
  <2>2. TypeOK'
    BY <2>1, LifecycleAssumption DEF IInv, TypeOK, table, sockets, signals, world
  <2>3. MainKnows'
    BY <2>1 DEF IInv, MainKnows, table, sockets, signals, world
  <2>4. Handshake'
    BY <2>1 DEF IInv, Handshake, table, sockets, signals, world
  <2>5. SocketsOpened'
    BY <2>1 DEF IInv, SocketsOpened, table, sockets, signals, world
  <2>6. DeviceLast'
    BY <2>1 DEF IInv, DeviceLast, table, sockets, signals, world
  <2>7. Progress'
    BY <2>1 DEF IInv, Progress, table, sockets, signals, world
  <2> QED  BY <2>2, <2>3, <2>4, <2>5, <2>6, <2>7 DEF IInv
<1>12. CASE Return
  BY <1>12, EndsKeepsIInv DEF Return
<1> QED
  BY <1>1, <1>2, <1>3, <1>4, <1>5, <1>6, <1>7, <1>8, <1>9, <1>10, <1>11, <1>12
  DEF Main

\* One step of the spectrogram thread.
LEMMA SpctrgmKeepsIInv ==
  ASSUME IInv, Spctrgm, ~ TerminateAll("spctrgm")
  PROVE  IInv'
<1> USE DEF Threads, SlotOf, DevicePlaces, EnvPlaces, BothUpPlaces,
            SpctrgmSetupPlaces, FftSetupPlaces
<1>1. CASE SpctrgmSetup
  BY <1>1, SpctrgmPasses, ExitsKeepsIInv DEF SpctrgmSetup, Fails
<1>2. CASE Bind
  <2>1. CASE Fails("spctrgm", "bind", "calls")
    BY <2>1, SpctrgmPasses DEF Fails
  <2>2. CASE ~ Fails("spctrgm", "bind", "calls")
    <3>1. /\ pc["spctrgm"] = "bind"
          /\ pc' \in [Threads -> Places]
          /\ pc'["spctrgm"] = "listen"
          /\ pc'["main"] = pc["main"] /\ pc'["fft"] = pc["fft"]
          /\ spctrgm_thrd_running' = 1
          /\ UNCHANGED <<kill, table, env_sock, spctrgm_sd, closed, listening, audio,
                          signals, world>>
      BY <1>2, <2>2, SpctrgmMoves DEF Bind, At, IInv, Places
    <3>2. TypeOK'
      BY <3>1 DEF IInv, TypeOK, table, audio, signals, world
    <3>3. MainKnows'
      BY <3>1 DEF IInv, MainKnows, table, audio, signals, world
    <3>4. Handshake'
      BY <3>1 DEF IInv, Handshake, table, audio, signals, world
    <3>5. SocketsOpened'
      BY <3>1 DEF IInv, SocketsOpened, table, audio, signals, world
    <3>6. DeviceLast'
      BY <3>1 DEF IInv, DeviceLast, table, audio, signals, world
    <3>7. Progress'
      BY <3>1 DEF IInv, Progress, table, audio, signals, world
    <3> QED  BY <3>2, <3>3, <3>4, <3>5, <3>6, <3>7 DEF IInv
  <2> QED  BY <2>1, <2>2
<1>3. CASE Listen
  <2>1. CASE Fails("spctrgm", "listen", "calls")
    BY <2>1, SpctrgmPasses DEF Fails
  <2>2. CASE ~ Fails("spctrgm", "listen", "calls")
    <3>1. /\ pc["spctrgm"] = "listen"
          /\ pc' \in [Threads -> Places]
          /\ pc'["spctrgm"] = "ready"
          /\ pc'["main"] = pc["main"] /\ pc'["fft"] = pc["fft"]
          /\ listening'
          /\ UNCHANGED <<kill, table, env_sock, spctrgm_sd, closed,
                          spctrgm_thrd_running, audio, signals, world>>
      BY <1>3, <2>2, SpctrgmMoves DEF Listen, At, IInv, Places
    <3>2. TypeOK'
      BY <3>1 DEF IInv, TypeOK, table, audio, signals, world
    <3>3. MainKnows'
      BY <3>1 DEF IInv, MainKnows, table, audio, signals, world
    <3>4. Handshake'
      BY <3>1 DEF IInv, Handshake, table, audio, signals, world
    <3>5. SocketsOpened'
      BY <3>1 DEF IInv, SocketsOpened, table, audio, signals, world
    <3>6. DeviceLast'
      BY <3>1 DEF IInv, DeviceLast, table, audio, signals, world
    <3>7. Progress'
      BY <3>1 DEF IInv, Progress, table, audio, signals, world
    <3> QED  BY <3>2, <3>3, <3>4, <3>5, <3>6, <3>7 DEF IInv
  <2> QED  BY <2>1, <2>2
<1>4. CASE SpctrgmReady
  <2>1. /\ pc["spctrgm"] = "ready"
        /\ pc' \in [Threads -> Places]
        /\ pc'["spctrgm"] = "serve"
        /\ pc'["main"] = pc["main"] /\ pc'["fft"] = pc["fft"]
        /\ thread_active' = [thread_active EXCEPT ![thread_cnt] = 1]
        /\ UNCHANGED <<kill, thread_cnt, sockets, audio, signals, world>>
    BY <1>4, SpctrgmMoves DEF SpctrgmReady, MarkActive, At, IInv, Places
  <2>2. TypeOK'
    BY <2>1 DEF IInv, Handshake, TypeOK, sockets, audio, signals, world
  <2>3. MainKnows'
    BY <2>1 DEF IInv, MainKnows, sockets, audio, signals, world
  <2>4. Handshake'
    BY <2>1 DEF IInv, Handshake, sockets, audio, signals, world
  <2>5. SocketsOpened'
    BY <2>1 DEF IInv, Handshake, TypeOK, SocketsOpened, sockets, audio, signals, world
  <2>6. DeviceLast'
    BY <2>1 DEF IInv, DeviceLast, sockets, audio, signals, world
  <2>7. Progress'
    BY <2>1 DEF IInv, Progress, sockets, audio, signals, world
  <2> QED  BY <2>2, <2>3, <2>4, <2>5, <2>6, <2>7 DEF IInv
<1>5. CASE AcceptFails
  BY <1>5, SpctrgmPasses DEF AcceptFails, Fails
<1> QED  BY <1>1, <1>2, <1>3, <1>4, <1>5 DEF Spctrgm, SpctrgmRuns

\* One step of fft_thread.
LEMMA FftKeepsIInv ==
  ASSUME IInv, Fft, ~ TerminateAll("fft")
  PROVE  IInv'
<1> USE DEF Threads, SlotOf, DevicePlaces, EnvPlaces, BothUpPlaces,
            SpctrgmSetupPlaces, FftSetupPlaces
<1>1. CASE FftSetup \/ ConnectGui \/ ConnectSpctrgm \/ Allocate
  BY <1>1, FftPasses, ExitsKeepsIInv
  DEF FftSetup, ConnectGui, ConnectSpctrgm, Allocate, Fails
<1>2. CASE SpctrgmSocket
  <2>1. CASE Fails("fft", "spctrgmSocket", "calls")
    BY <2>1, FftPasses DEF Fails
  <2>2. CASE ~ Fails("fft", "spctrgmSocket", "calls")
    <3>1. /\ pc["fft"] = "spctrgmSocket"
          /\ pc' \in [Threads -> Places]
          /\ pc'["fft"] = "connectSpctrgm"
          /\ pc'["main"] = pc["main"] /\ pc'["spctrgm"] = pc["spctrgm"]
          /\ spctrgm_sd' = "spctrgm"
          /\ UNCHANGED <<kill, table, env_sock, closed, spctrgm_thrd_running,
                          listening, audio, signals, world>>
      BY <1>2, <2>2, FftMoves DEF SpctrgmSocket, At, IInv, Places
    <3>2. TypeOK'
      BY <3>1 DEF IInv, TypeOK, table, audio, signals, world
    <3>3. MainKnows'
      BY <3>1 DEF IInv, MainKnows, table, audio, signals, world
    <3>4. Handshake'
      BY <3>1 DEF IInv, Handshake, table, audio, signals, world
    <3>5. SocketsOpened'
      BY <3>1 DEF IInv, SocketsOpened, table, audio, signals, world
    <3>6. DeviceLast'
      BY <3>1 DEF IInv, DeviceLast, table, audio, signals, world
    <3>7. Progress'
      BY <3>1 DEF IInv, Progress, table, audio, signals, world
    <3> QED  BY <3>2, <3>3, <3>4, <3>5, <3>6, <3>7 DEF IInv
  <2> QED  BY <2>1, <2>2
<1>3. CASE FftReady
  <2>1. /\ pc["fft"] = "ready"
        /\ pc' \in [Threads -> Places]
        /\ pc'["fft"] = "read"
        /\ pc'["main"] = pc["main"] /\ pc'["spctrgm"] = pc["spctrgm"]
        /\ thread_active' = [thread_active EXCEPT ![thread_cnt] = 1]
        /\ UNCHANGED <<kill, thread_cnt, sockets, audio, signals, world>>
    BY <1>3, FftMoves DEF FftReady, MarkActive, At, IInv, Places
  <2>2. TypeOK'
    BY <2>1 DEF IInv, Handshake, TypeOK, sockets, audio, signals, world
  <2>3. MainKnows'
    BY <2>1 DEF IInv, MainKnows, sockets, audio, signals, world
  <2>4. Handshake'
    BY <2>1 DEF IInv, Handshake, sockets, audio, signals, world
  <2>5. SocketsOpened'
    BY <2>1 DEF IInv, Handshake, TypeOK, SocketsOpened, sockets, audio, signals, world
  <2>6. DeviceLast'
    BY <2>1 DEF IInv, DeviceLast, sockets, audio, signals, world
  <2>7. Progress'
    BY <2>1 DEF IInv, Handshake, TypeOK, Progress, sockets, audio, signals, world
  <2> QED  BY <2>2, <2>3, <2>4, <2>5, <2>6, <2>7 DEF IInv
<1>4. CASE ReadFrame
  <2>1. /\ pc["fft"] = "read"
        /\ pc' \in [Threads -> Places]
        /\ pc'["fft"] = "envelope"
        /\ pc'["main"] = pc["main"] /\ pc'["spctrgm"] = pc["spctrgm"]
        /\ queued > 0
        /\ queued' = queued - 1
        /\ UNCHANGED <<kill, table, sockets, handle, hip, signals, world>>
    BY <1>4, FftMoves DEF ReadFrame, At, IInv, Places
  <2>2. TypeOK'
    BY LifecycleAssumption, <2>1 DEF IInv, DeviceLast, TypeOK, table, sockets, signals, world
  <2>3. MainKnows'
    BY <2>1 DEF IInv, MainKnows, table, sockets, signals, world
  <2>4. Handshake'
    BY <2>1 DEF IInv, Handshake, table, sockets, signals, world
  <2>5. SocketsOpened'
    BY <2>1 DEF IInv, SocketsOpened, table, sockets, signals, world
  <2>6. DeviceLast'
    BY <2>1 DEF IInv, DeviceLast, table, sockets, signals, world
  <2>7. Progress'
    BY <2>1 DEF IInv, Progress, table, sockets, signals, world
  <2> QED  BY <2>2, <2>3, <2>4, <2>5, <2>6, <2>7 DEF IInv
<1>5. CASE SendEnvelope \/ SendSpectrum \/ ReadFails
  BY <1>5, FftPasses, EndsKeepsIInv
  DEF SendEnvelope, SendSpectrum, ReadFails, Send, Fails
<1> QED  BY <1>1, <1>2, <1>3, <1>4, <1>5 DEF Fft, FftRuns

\* A thread that leaves its usual path, for terminate_all or for good, leaves
\* what the others rely on in place.
LEMMA LeavesPath ==
  ASSUME IInv, NEW t \in Threads, NEW there \in Terminating \cup {"gone", "stuck"},
         pc[t] # "idle",
         pc[t] = "gone" => there = "gone",
         pc' \in [Threads -> Places],
         pc'[t] = there,
         \A u \in Threads : u # t => pc'[u] = pc[u],
         UNCHANGED <<table, env_sock, spctrgm_sd, queued>>,
         listening' = listening \/ (t = "spctrgm" /\ there = "gone"),
         handle' # "null" <=> handle # "null"
  PROVE  MainKnows' /\ Handshake' /\ SocketsOpened' /\ DeviceLast'
<1> USE DEF Threads, SlotOf, DevicePlaces, EnvPlaces, BothUpPlaces,
            SpctrgmSetupPlaces, FftSetupPlaces, Terminating, table
<1>1. MainKnows'
  <2>1. CASE t = "main"
    BY <2>1 DEF IInv, MainKnows
  <2>2. CASE t = "spctrgm"
    BY <2>2 DEF IInv, MainKnows
  <2>3. CASE t = "fft"
    BY <2>3 DEF IInv, MainKnows
  <2> QED  BY <2>1, <2>2, <2>3
<1>2. Handshake'
  <2>1. CASE t = "main"
    BY <2>1 DEF IInv, Handshake
  <2>2. CASE t = "spctrgm"
    BY <2>2 DEF IInv, Handshake
  <2>3. CASE t = "fft"
    BY <2>3 DEF IInv, Handshake
  <2> QED  BY <2>1, <2>2, <2>3
<1>3. SocketsOpened'
  <2>1. CASE t = "main"
    BY <2>1 DEF IInv, SocketsOpened
  <2>2. CASE t = "spctrgm"
    BY <2>2 DEF IInv, SocketsOpened
  <2>3. CASE t = "fft"
    BY <2>3 DEF IInv, SocketsOpened
  <2> QED  BY <2>1, <2>2, <2>3
<1>4. DeviceLast'
  <2>1. CASE t = "main"
    BY <2>1 DEF IInv, DeviceLast
  <2>2. CASE t = "spctrgm"
    BY <2>2 DEF IInv, DeviceLast
  <2>3. CASE t = "fft"
    BY <2>3 DEF IInv, DeviceLast
  <2> QED  BY <2>1, <2>2, <2>3
<1> QED  BY <1>1, <1>2, <1>3, <1>4

\* One step of terminate_all.
LEMMA TerminateKeepsIInv ==
  ASSUME IInv, NEW t \in Threads, TerminateAll(t)
  PROVE  IInv'
<1> USE DEF Threads, SlotOf, Terminating
<1>1. CASE FreeDecoder(t, "tFree", "tPcm")
  <2>1. CASE Ends("undefined")
    BY <2>1, EndsKeepsIInv
  <2>2. CASE ~ Ends("undefined")
    <3>1. /\ pc[t] = "tFree"
          /\ pc' \in [Threads -> Places]
          /\ pc'[t] = "tPcm"
          /\ \A u \in Threads : u # t => pc'[u] = pc[u]
          /\ hip' = IF hip = "live" THEN "freed" ELSE hip
          /\ UNCHANGED <<kill, table, sockets, handle, queued, signals, world>>
      BY <1>1, <2>2, GotoMoves DEF FreeDecoder, At, IInv, Places
    <3>2. MainKnows' /\ Handshake' /\ SocketsOpened' /\ DeviceLast'
      BY <3>1, LeavesPath DEF sockets
    <3>3. TypeOK'
      BY <3>1 DEF IInv, TypeOK, table, sockets, signals, world
    <3>4. Progress'
      BY <3>1 DEF IInv, Progress, table, sockets, signals, world
    <3> QED  BY <3>2, <3>3, <3>4 DEF IInv
  <2> QED  BY <2>1, <2>2
<1>2. CASE ClosePcm(t, "tPcm", "tSpctrgm")
  <2>1. CASE Ends("undefined") \/ Ends("aborted")
    BY <2>1, EndsKeepsIInv
  <2>2. CASE ~ (Ends("undefined") \/ Ends("aborted"))
    <3>1. /\ pc[t] = "tPcm"
          /\ pc' \in [Threads -> Places]
          /\ pc'[t] = "tSpctrgm"
          /\ \A u \in Threads : u # t => pc'[u] = pc[u]
          /\ handle # "null" /\ handle' = "closed"
          /\ UNCHANGED <<kill, table, sockets, hip, queued, signals, world>>
      BY <1>2, <2>2, GotoMoves DEF ClosePcm, At, IInv, Places
    <3>2. MainKnows' /\ Handshake' /\ SocketsOpened' /\ DeviceLast'
      BY <3>1, LeavesPath DEF sockets
    <3>3. TypeOK'
      BY <3>1 DEF IInv, TypeOK, table, sockets, signals, world
    <3>4. Progress'
      BY <3>1 DEF IInv, Progress, table, sockets, signals, world
    <3> QED  BY <3>2, <3>3, <3>4 DEF IInv
  <2> QED  BY <2>1, <2>2
<1>3. CASE CloseSpctrgm(t)
  <2>1. /\ pc[t] = "tSpctrgm"
        /\ pc' \in [Threads -> Places]
        /\ pc'[t] = "tEnv"
        /\ \A u \in Threads : u # t => pc'[u] = pc[u]
        /\ closed' = closed \/ closed' = closed \cup {spctrgm_sd}
        /\ UNCHANGED <<kill, table, env_sock, spctrgm_sd, spctrgm_thrd_running,
                       listening, audio, signals, world>>
    BY <1>3, GotoMoves DEF CloseSpctrgm, At, IInv, Places
  <2>2. MainKnows' /\ Handshake' /\ SocketsOpened' /\ DeviceLast'
    BY <2>1, LeavesPath DEF audio
  <2>3. TypeOK'
    <3>1. TypeOK
      BY DEF IInv
    <3>2. closed' \subseteq {"stdin", "env", "spctrgm"}
      BY <2>1, <3>1 DEF TypeOK
    <3> QED  BY ONLY <2>1, <3>1, <3>2 DEF TypeOK, table, audio, signals, world
  <2>4. spctrgm_sd # "stdin"
    BY <2>1 DEF IInv, TypeOK, Progress, DeviceLast, Handshake, SocketsOpened
  <2>5. Progress'
    BY <2>1, <2>4 DEF IInv, Progress, table, audio, signals, world
  <2> QED  BY <2>2, <2>3, <2>5 DEF IInv
<1>4. CASE CloseEnv(t)
  <2>1. /\ pc[t] = "tEnv"
        /\ pc' \in [Threads -> Places]
        /\ pc'[t] = "tCancel"
        /\ \A u \in Threads : u # t => pc'[u] = pc[u]
        /\ closed' = closed \cup {env_sock}
        /\ kill' = [kill EXCEPT ![t] = 0]
        /\ UNCHANGED <<table, env_sock, spctrgm_sd, spctrgm_thrd_running, listening,
                       audio, signals, world>>
    BY <1>4, GotoMoves DEF CloseEnv, At, IInv, Places
  <2>2. MainKnows' /\ Handshake' /\ SocketsOpened' /\ DeviceLast'
    BY <2>1, LeavesPath DEF audio
  <2>3. TypeOK'
    BY <2>1 DEF IInv, TypeOK, table, audio, signals, world
  <2>4. env_sock # "stdin"
    BY <2>1 DEF IInv, Progress, DeviceLast
  <2>5. /\ kill' \in [Threads -> 0..2] /\ kill'[t] = 0
        /\ \A u \in Threads : u # t => kill'[u] = kill[u]
    BY <2>1 DEF IInv, TypeOK
  <2>6. Progress'
    BY <2>1, <2>4, <2>5 DEF IInv, Progress, table, audio, signals, world
  <2> QED  BY <2>2, <2>3, <2>6 DEF IInv
<1>5. CASE CancelNext(t)
  <2>1. /\ pc[t] = "tCancel" /\ kill[t] < thread_cnt
        /\ UNCHANGED <<table, env_sock, spctrgm_sd, closed, spctrgm_thrd_running, audio,
                       inHandler, ints, heapLocked, gui>>
    BY <1>5 DEF CancelNext, KillEnd, At
  <2>2. PICK victim \in {"spctrgm", "fft"} :
          /\ SlotOf[victim] = kill[t]
          /\ \/ /\ victim = t
                /\ Goto(t, "gone")
                /\ listening' = (listening /\ t # "spctrgm")
                /\ UNCHANGED <<kill, cancelled, proc>>
             \/ /\ victim # t
                /\ kill' = [kill EXCEPT ![t] = @ + 1]
                /\ cancelled' = cancelled \cup {victim}
                /\ UNCHANGED <<pc, listening, proc>>
             \/ /\ pc[victim] = "gone"
                /\ proc' = "undefined"
                /\ UNCHANGED <<pc, kill, listening, cancelled>>
    BY <1>5 DEF CancelNext
  <2>3. CASE victim = t /\ Goto(t, "gone") /\ UNCHANGED <<kill, cancelled, proc>>
             /\ listening' = (listening /\ t # "spctrgm")
    <3>1. /\ pc' \in [Threads -> Places]
          /\ pc'[t] = "gone"
          /\ \A u \in Threads : u # t => pc'[u] = pc[u]
      BY <2>3, GotoMoves DEF IInv, Places
    <3>2. listening' = listening \/ t = "spctrgm"
      BY <2>3 DEF IInv, TypeOK
    <3>3. MainKnows' /\ Handshake' /\ SocketsOpened' /\ DeviceLast'
      BY <2>1, <3>1, <3>2, LeavesPath DEF audio
    <3>4. TypeOK'
      BY <2>1, <2>3, <3>1 DEF IInv, TypeOK, table, audio
    <3>5. Progress'
      BY <2>1, <2>3, <3>1 DEF IInv, Progress, table, audio
    <3> QED  BY <3>3, <3>4, <3>5 DEF IInv
  <2>4. CASE victim # t /\ kill' = [kill EXCEPT ![t] = @ + 1]
             /\ cancelled' = cancelled \cup {victim}
             /\ UNCHANGED <<pc, listening, proc>>
    <3>1. MainKnows' /\ Handshake' /\ SocketsOpened' /\ DeviceLast'
      BY <2>1, <2>4
      DEF IInv, MainKnows, Handshake, SocketsOpened, DeviceLast, table, audio
    <3>2. /\ kill' \in [Threads -> 0..2] /\ kill'[t] = kill[t] + 1
          /\ \A u \in Threads : u # t => kill'[u] = kill[u]
      BY <2>1, <2>4 DEF IInv, TypeOK
    <3>3. TypeOK'
      BY <2>1, <2>4, <3>2 DEF IInv, TypeOK, table, audio
    <3>4. pc["spctrgm"] # "idle" /\ pc["fft"] # "idle"
      BY <2>1 DEF IInv, Progress, DeviceLast, Handshake
    <3>5. t \in {"spctrgm", "fft"} => kill'[t] <= SlotOf[t]
      BY <2>1, <2>2, <2>4, <3>2 DEF IInv, Progress
    <3>6. Progress'
      BY <2>1, <2>4, <3>2, <3>4, <3>5 DEF IInv, Progress, table, audio
    <3> QED  BY <3>1, <3>3, <3>6 DEF IInv
  <2>5. CASE proc' = "undefined" /\ UNCHANGED <<pc, kill, listening, cancelled>>
    BY <2>1, <2>5, EndsKeepsIInv DEF Ends, sockets, signals
  <2> QED  BY <2>2, <2>3, <2>4, <2>5
<1>6. CASE CancelDone(t)
  <2>1. pc[t] = "tCancel" /\ kill[t] >= thread_cnt /\ Pass(t, "tCancel", "tPkill")
    BY <1>6 DEF CancelDone, KillEnd, Pass, At
  <2>2. thread_cnt = 2
    BY <2>1 DEF IInv, Progress, DeviceLast
  <2>3. t \in {"spctrgm", "fft"} => kill[t] <= 1
    BY <2>1 DEF IInv, TypeOK, Progress
  <2>4. t = "main"
    BY <2>1, <2>2, <2>3 DEF IInv, TypeOK
  <2> QED  BY <2>1, <2>4, MainPasses
<1>7. CASE KillGui(t)
  <2>1. /\ pc[t] = "tPkill"
        /\ pc' \in [Threads -> Places]
        /\ pc'[t] = "tExit"
        /\ \A u \in Threads : u # t => pc'[u] = pc[u]
        /\ gui' = "dead"
        /\ UNCHANGED <<kill, table, sockets, audio, signals, proc>>
    BY <1>7, GotoMoves DEF KillGui, At, IInv, Places
  <2>2. t = "main"
    BY <2>1 DEF IInv, Progress
  <2>3. MainKnows' /\ Handshake' /\ SocketsOpened' /\ DeviceLast'
    BY <2>1, LeavesPath DEF audio, sockets
  <2>4. TypeOK'
    BY <2>1 DEF IInv, TypeOK, table, sockets, audio, signals
  <2>5. Progress'
    BY <2>1, <2>2 DEF IInv, Progress, table, sockets, audio, signals
  <2> QED  BY <2>3, <2>4, <2>5 DEF IInv
<1>8. CASE Exit(t)
  BY <1>8, EndsKeepsIInv DEF Exit
<1> QED
  BY <1>1, <1>2, <1>3, <1>4, <1>5, <1>6, <1>7, <1>8 DEF TerminateAll

\* The end of main.
LEMMA ReleaseKeepsIInv ==
  ASSUME IInv, Release
  PROVE  IInv'
<1> USE DEF Threads, SlotOf, DevicePlaces, EnvPlaces, BothUpPlaces
<1>1. CASE Ends("undefined") \/ Ends("aborted")
  BY <1>1, EndsKeepsIInv
<1>2. CASE ~ (Ends("undefined") \/ Ends("aborted"))
  <2>1. /\ pc["main"] \in DevicePlaces
        /\ pc' \in [Threads -> Places]
        /\ pc'["main"] \in {"mPcm", "mReturn"}
        /\ pc'["spctrgm"] = pc["spctrgm"] /\ pc'["fft"] = pc["fft"]
        /\ hip' \in {hip, "freed"}
        /\ handle' = handle \/ (handle # "null" /\ handle' = "closed")
        /\ UNCHANGED <<kill, table, sockets, queued, signals, world>>
    BY <1>2, MainMoves DEF Release, FreeDecoder, ClosePcm, At, IInv, Places
  <2>2. TypeOK'
    BY <2>1 DEF IInv, TypeOK, table, sockets, signals, world
  <2>3. MainKnows'
    BY <2>1 DEF IInv, MainKnows, table, sockets, signals, world
  <2>4. Handshake'
    BY <2>1 DEF IInv, Handshake, table, sockets, signals, world
  <2>5. SocketsOpened'
    BY <2>1 DEF IInv, SocketsOpened, table, sockets, signals, world
  <2>6. DeviceLast'
    BY <2>1 DEF IInv, DeviceLast, table, sockets, signals, world
  <2>7. Progress'
    BY <2>1 DEF IInv, Progress, table, sockets, signals, world
  <2> QED  BY <2>2, <2>3, <2>4, <2>5, <2>6, <2>7 DEF IInv
<1> QED  BY <1>1, <1>2

LEMMA DropsType ==
  ASSUME heapLocked \in BOOLEAN, NEW t, Drops(t)
  PROVE  heapLocked' \in BOOLEAN
<1>1. heapLocked' \in {heapLocked, TRUE}
  BY DEF Drops
<1> QED  BY <1>1, Zenon

LEMMA CancelledKeepsIInv ==
  ASSUME IInv, NEW t \in {"spctrgm", "fft"}, Cancelled(t)
  PROVE  IInv'
<1> USE DEF Threads, SlotOf
<1>1. /\ t \in cancelled
      /\ pc' \in [Threads -> Places]
      /\ pc'[t] = "gone"
      /\ \A u \in Threads : u # t => pc'[u] = pc[u]
      /\ cancelled' = cancelled \ {t}
      /\ heapLocked' \in BOOLEAN
      /\ listening' = (listening /\ t # "spctrgm")
      /\ UNCHANGED <<kill, table, env_sock, spctrgm_sd, closed, spctrgm_thrd_running,
                     audio, inHandler, ints, world>>
  <2>1. TypeOK /\ t \in Threads /\ "gone" \in Places
    BY DEF IInv, Places
  <2>2. Goto(t, "gone")
    BY DEF Cancelled
  <2>3. /\ pc' \in [Threads -> Places]
        /\ pc'[t] = "gone"
        /\ \A u \in Threads : u # t => pc'[u] = pc[u]
    BY ONLY <2>1, <2>2, GotoMoves
  <2>4. heapLocked' \in BOOLEAN
    BY <2>1, DropsType DEF Cancelled, TypeOK
  <2> QED  BY <2>3, <2>4 DEF Cancelled
<1>2. pc[t] # "idle"
  BY <1>1 DEF IInv, Progress
<1>3. listening' = listening \/ t = "spctrgm"
  BY <1>1 DEF IInv, TypeOK
<1>4. MainKnows' /\ Handshake' /\ SocketsOpened' /\ DeviceLast'
  BY <1>1, <1>2, <1>3, LeavesPath DEF audio
<1>5. TypeOK'
  BY <1>1 DEF IInv, TypeOK, table, audio, world
<1>6. Progress'
  BY <1>1 DEF IInv, Progress, table, audio, world
<1> QED  BY <1>4, <1>5, <1>6 DEF IInv

LEMMA InterruptKeepsIInv ==
  ASSUME IInv, NEW t \in Threads, Interrupt(t)
  PROVE  IInv'
<1> USE DEF Threads, SlotOf
<1>1. /\ pc[t] \notin {"idle", "gone"}
      /\ ints < MaxInt /\ ints' = ints + 1
      /\ inHandler' = inHandler \cup {t}
      /\ UNCHANGED <<kill, table, sockets, audio, cancelled, world>>
  BY DEF Interrupt
<1>2. /\ pc' \in [Threads -> Places]
      /\ pc'[t] = "tFree"
      /\ \A u \in Threads : u # t => pc'[u] = pc[u]
  <2>1. TypeOK /\ Goto(t, "tFree") /\ "tFree" \in Places
    BY DEF IInv, Interrupt, Places
  <2> QED  BY ONLY <2>1, GotoMoves, t \in Threads
<1>3. heapLocked' \in BOOLEAN
  BY DropsType DEF Interrupt, IInv, TypeOK
<1>4. MainKnows' /\ Handshake' /\ SocketsOpened' /\ DeviceLast'
  BY <1>1, <1>2, LeavesPath DEF audio, sockets, Terminating
<1>5. TypeOK'
  BY <1>1, <1>2, <1>3, LifecycleAssumption DEF IInv, TypeOK, table, sockets, audio, world
<1>6. Progress'
  BY <1>1, <1>2 DEF IInv, Progress, table, sockets, audio, world
<1> QED  BY <1>4, <1>5, <1>6 DEF IInv

LEMMA HangsKeepsIInv ==
  ASSUME IInv, NEW t \in Threads, Hangs(t)
  PROVE  IInv'
<1> USE DEF Threads, SlotOf
<1>1. /\ pc[t] \in HeapPlaces /\ Goto(t, "stuck")
      /\ UNCHANGED <<kill, table, sockets, audio, signals, world>>
  BY DEF Hangs, Pass, At
<1>2. pc[t] \notin {"idle", "gone"}
  BY <1>1 DEF HeapPlaces
<1>3. /\ pc' \in [Threads -> Places]
      /\ pc'[t] = "stuck"
      /\ \A u \in Threads : u # t => pc'[u] = pc[u]
  <2>1. TypeOK /\ "stuck" \in Places
    BY DEF IInv, Places
  <2> QED  BY ONLY <1>1, <2>1, GotoMoves, t \in Threads
<1>4. MainKnows' /\ Handshake' /\ SocketsOpened' /\ DeviceLast'
  BY <1>1, <1>2, <1>3, LeavesPath DEF audio, sockets
<1>5. TypeOK'
  BY <1>1, <1>3 DEF IInv, TypeOK, table, sockets, audio, signals, world
<1>6. Progress'
  BY <1>1, <1>3 DEF IInv, Progress, table, sockets, audio, signals, world
<1> QED  BY <1>4, <1>5, <1>6 DEF IInv

LEMMA NextPreservesIInv ==
  ASSUME IInv, [Next]_vars
  PROVE  IInv'
<1>1. CASE UNCHANGED vars
  <2>1. TypeOK'
    BY <1>1 DEF IInv, TypeOK, vars, table, sockets, audio, signals, world
  <2>2. MainKnows' /\ Handshake' /\ SocketsOpened' /\ DeviceLast' /\ Progress'
    BY <1>1
    DEF IInv, MainKnows, Handshake, SocketsOpened, DeviceLast, Progress,
        vars, table, sockets, audio, signals, world
  <2> QED  BY <2>1, <2>2 DEF IInv
<1>2. CASE GuiListens \/ GuiCloses
  <2>1. /\ gui' \in {"listening", "dead"}
        /\ UNCHANGED <<pc, kill, table, sockets, audio, signals, proc>>
    BY <1>2 DEF GuiListens, GuiCloses
  <2>2. TypeOK'
    BY <2>1 DEF IInv, TypeOK, table, sockets, audio, signals
  <2>3. MainKnows' /\ Handshake' /\ SocketsOpened' /\ DeviceLast' /\ Progress'
    BY <2>1
    DEF IInv, MainKnows, Handshake, SocketsOpened, DeviceLast, Progress,
        table, sockets, audio, signals
  <2> QED  BY <2>2, <2>3 DEF IInv
<1>3. CASE Main
  BY <1>3, MainKeepsIInv, TerminateKeepsIInv, ReleaseKeepsIInv DEF Threads
<1>4. CASE Spctrgm
  BY <1>4, SpctrgmKeepsIInv, TerminateKeepsIInv DEF Threads
<1>5. CASE Fft
  BY <1>5, FftKeepsIInv, TerminateKeepsIInv DEF Threads
<1> QED
  BY <1>1, <1>2, <1>3, <1>4, <1>5, CancelledKeepsIInv, InterruptKeepsIInv,
     HangsKeepsIInv
  DEF Next, Gone
-----------------------------------------------------------------------------
LEMMA IInvGivesTheRest ==
  ASSUME IInv
  PROVE  /\ SlotIsMine /\ SpectrogramReachable /\ EnvelopeConnected
         /\ StdinSpared /\ OnlyMainEndsInOrder
<1>1. SlotIsMine
  BY DEF IInv, Handshake, SlotIsMine, SlotOf, SpctrgmSetupPlaces, FftSetupPlaces
<1>2. SpectrogramReachable
  BY DEF IInv, Handshake, SocketsOpened, DeviceLast, Progress,
         SpectrogramReachable, FftSetupPlaces
<1>3. EnvelopeConnected
  BY DEF IInv, DeviceLast, EnvelopeConnected
<1>4. StdinSpared /\ OnlyMainEndsInOrder
  BY DEF IInv, Progress, StdinSpared, OnlyMainEndsInOrder, Threads
<1> QED  BY <1>1, <1>2, <1>3, <1>4

\* The invariant holds in every state.
THEOREM Invariant == Safety => []IInv
<1>1. Init => IInv
  BY InitEstablishesIInv
<1>2. IInv /\ [Next]_vars => IInv'
  BY NextPreservesIInv
<1> QED  BY <1>1, <1>2, PTL DEF Safety

\* Every variable has its type.
THEOREM TypeCorrect == Safety => []TypeOK
<1>1. IInv => TypeOK
  BY DEF IInv
<1> QED  BY <1>1, Invariant, PTL

\* The counter behind the threads' argument is their slot until they have
\* used it (dcomposer.c:218-253, fft_thread.c:323).
THEOREM SlotsWork == Safety => []SlotIsMine
<1>1. IInv => SlotIsMine
  BY IInvGivesTheRest
<1> QED  BY <1>1, Invariant, PTL

\* The spectrogram server is there when fft_thread connects to it
\* (spectrogram.c:401-414, fft_thread.c:245-261).
THEOREM SpectrogramThere == Safety => []SpectrogramReachable
<1>1. IInv => SpectrogramReachable
  BY IInvGivesTheRest
<1> QED  BY <1>1, Invariant, PTL

\* The envelope socket is connected when the first frame comes
\* (dcomposer.c:286-316, env_proc.c:73).
THEOREM EnvelopeThere == Safety => []EnvelopeConnected
<1>1. IInv => EnvelopeConnected
  BY IInvGivesTheRest
<1> QED  BY <1>1, Invariant, PTL

\* terminate_all never closes standard input in place of a socket.
THEOREM StandardInputSpared == Safety => []StdinSpared
<1>1. IInv => StdinSpared
  BY IInvGivesTheRest
<1> QED  BY <1>1, Invariant, PTL

\* No thread but main gets to the end of terminate_all.
THEOREM OnlyMainEnds == Safety => []OnlyMainEndsInOrder
<1>1. IInv => OnlyMainEndsInOrder
  BY IInvGivesTheRest
<1> QED  BY <1>1, Invariant, PTL
-----------------------------------------------------------------------------
(* The sound device while main plays.                                      *)

\* Places of main from the opening of the device to its end.
PlayPlaces == {"initDecoder", "decode", "play", "write", "mFree"}

DeviceKept ==
  pc["main"] \in PlayPlaces => handle = "open" \/ Lost("spctrgm") \/ Lost("fft")

\* The end of the process moves no thread and no device.
LEMMA EndsKeepsDevice ==
  ASSUME DeviceKept, NEW how, Ends(how)
  PROVE  DeviceKept'
BY DEF DeviceKept, Ends, Lost, audio

\* Main on its way to the device, and at its end, is not playing.
LEMMA MainElsewhere ==
  ASSUME TypeOK, NEW there \in Places \ PlayPlaces, Goto("main", there)
  PROVE  DeviceKept'
BY GotoMoves DEF Threads, DeviceKept

\* Main plays: only its own place changes.
LEMMA MainPlays ==
  ASSUME TypeOK, DeviceKept, pc["main"] \in PlayPlaces, NEW there \in Places,
         Goto("main", there), handle' = handle
  PROVE  DeviceKept'
BY MainMoves DEF DeviceKept, Lost

LEMMA MainKeepsDevice ==
  ASSUME TypeOK, DeviceKept, Main, ~ TerminateAll("main")
  PROVE  DeviceKept'
<1> USE DEF Places, PlayPlaces
<1>1. CASE \E how : Ends(how)
  BY <1>1, EndsKeepsDevice
<1>2. CASE ~ \E how : Ends(how)
  <2>1. CASE CreateSpctrgm \/ CreateFft
    <3>1. pc'["main"] \notin PlayPlaces
      BY <1>2, <2>1 DEF CreateSpctrgm, CreateFft, Create, Exits, TypeOK, Threads
    <3> QED  BY <3>1 DEF DeviceKept
  <2>2. CASE WaitSpctrgm \/ WaitFft
    BY <2>2, MainElsewhere DEF WaitSpctrgm, WaitFft, Wait
  <2>3. CASE EnvSocket \/ EnvConnect
    BY <1>2, <2>3, MainElsewhere DEF EnvSocket, EnvConnect, Fails, Exits, Pass
  <2>4. CASE OpenPcm
    BY <1>2, <2>4 DEF OpenPcm, Exits, DeviceKept
  <2>5. CASE InitDecoder
    BY <1>2, <2>5, MainPlays DEF InitDecoder, Exits, Pass, At, audio
  <2>6. CASE Decode \/ SongOver
    BY <1>2, <2>6, MainPlays DEF Decode, SongOver, Pass, At, audio
  <2>7. CASE Play
    BY <1>2, <2>7, MainPlays DEF Play, Pass, At, audio
  <2>8. CASE Publish
    BY <2>8, MainPlays DEF Publish, At
  <2>9. CASE Release
    BY <1>2, <2>9, MainElsewhere DEF Release, FreeDecoder, ClosePcm
  <2>10. CASE Return
    BY <1>2, <2>10 DEF Return
  <2> QED
    BY <2>1, <2>2, <2>3, <2>4, <2>5, <2>6, <2>7, <2>8, <2>9, <2>10 DEF Main
<1> QED  BY <1>1, <1>2

\* Another thread moves, and does not come back if it was lost.
LEMMA WorkerMoves ==
  ASSUME TypeOK, DeviceKept, NEW t \in {"spctrgm", "fft"}, NEW there \in Places,
         Goto(t, there), Lost(t) => there \in Terminating \cup {"gone", "stuck"},
         handle' = handle \/ there \in Terminating
  PROVE  DeviceKept'
<1>1. /\ pc'[t] = there
      /\ \A u \in Threads : u # t => pc'[u] = pc[u]
  BY GotoMoves DEF Threads
<1>2. Lost(t) => Lost(t)'
  BY <1>1 DEF Lost
<1>3. \A u \in {"spctrgm", "fft"} : Lost(u) => Lost(u)'
  BY <1>1, <1>2 DEF Lost, Threads
<1>4. pc'["main"] = pc["main"]
  BY <1>1 DEF Threads
<1> QED  BY <1>1, <1>3, <1>4 DEF DeviceKept, Lost

LEMMA SpctrgmKeepsDevice ==
  ASSUME TypeOK, DeviceKept, Spctrgm, ~ TerminateAll("spctrgm")
  PROVE  DeviceKept'
<1> USE DEF Places, Lost, Terminating
<1>1. CASE \E how : Ends(how)
  BY <1>1, EndsKeepsDevice
<1>2. CASE ~ \E how : Ends(how)
  <2>1. CASE SpctrgmSetup
    BY <1>2, <2>1, WorkerMoves DEF SpctrgmSetup, Fails, Exits, Pass, At, audio
  <2>2. CASE Bind \/ Listen
    BY <1>2, <2>2, WorkerMoves DEF Bind, Listen, Fails, Pass, At, audio
  <2>3. CASE SpctrgmReady \/ AcceptFails
    BY <1>2, <2>3, WorkerMoves DEF SpctrgmReady, MarkActive, AcceptFails, Fails, Pass, At, audio
  <2> QED  BY <2>1, <2>2, <2>3 DEF Spctrgm, SpctrgmRuns
<1> QED  BY <1>1, <1>2

LEMMA FftKeepsDevice ==
  ASSUME TypeOK, DeviceKept, Fft, ~ TerminateAll("fft")
  PROVE  DeviceKept'
<1> USE DEF Places, Lost, Terminating
<1>1. CASE \E how : Ends(how)
  BY <1>1, EndsKeepsDevice
<1>2. CASE ~ \E how : Ends(how)
  <2>1. CASE FftSetup \/ ConnectGui
    BY <1>2, <2>1, WorkerMoves DEF FftSetup, ConnectGui, Fails, Exits, Pass, At, audio
  <2>2. CASE SpctrgmSocket
    BY <1>2, <2>2, WorkerMoves DEF SpctrgmSocket, Fails, Pass, At, audio
  <2>3. CASE ConnectSpctrgm
    BY <1>2, <2>3, WorkerMoves DEF ConnectSpctrgm, Exits, Pass, At, audio
  <2>4. CASE Allocate
    BY <1>2, <2>4, WorkerMoves DEF Allocate, Fails, Pass, At, audio
  <2>5. CASE FftReady
    BY <1>2, <2>5, WorkerMoves DEF FftReady, MarkActive, At, audio
  <2>6. CASE ReadFrame \/ ReadFails
    BY <1>2, <2>6, WorkerMoves DEF ReadFrame, ReadFails, Fails, Pass, At, audio
  <2>7. CASE SendEnvelope
    BY <1>2, <2>7, WorkerMoves DEF SendEnvelope, Send, Fails, Pass, At, audio
  <2>8. CASE SendSpectrum
    BY <1>2, <2>8, WorkerMoves DEF SendSpectrum, Send, Pass, At, audio
  <2> QED
    BY <2>1, <2>2, <2>3, <2>4, <2>5, <2>6, <2>7, <2>8 DEF Fft, FftRuns
<1> QED  BY <1>1, <1>2

\* Main in terminate_all no longer plays, and the others are lost there.
LEMMA TerminateKeepsDevice ==
  ASSUME TypeOK, DeviceKept, NEW t \in Threads, TerminateAll(t)
  PROVE  DeviceKept'
<1> USE DEF Places, PlayPlaces, Terminating
<1>1. CASE \E how : Ends(how)
  BY <1>1, EndsKeepsDevice
<1>2. ASSUME NEW there \in Terminating \cup {"gone", "stuck"}, Goto(t, there)
      PROVE  DeviceKept'
  <2>1. CASE t = "main"
    BY <1>2, <2>1, MainElsewhere
  <2>2. CASE t # "main"
    <3>1. pc'[t] = there /\ \A u \in Threads : u # t => pc'[u] = pc[u]
      BY <1>2, GotoMoves
    <3> QED  BY <1>2, <2>2, <3>1 DEF DeviceKept, Lost, Threads
  <2> QED  BY <2>1, <2>2
<1>3. CASE UNCHANGED <<pc, handle>>
  BY <1>3 DEF DeviceKept, Lost
<1>4. CASE ~ \E how : Ends(how)
  <2>1. CASE FreeDecoder(t, "tFree", "tPcm") \/ ClosePcm(t, "tPcm", "tSpctrgm")
    BY <1>2, <1>4, <2>1 DEF FreeDecoder, ClosePcm
  <2>2. CASE CloseSpctrgm(t) \/ CloseEnv(t)
    BY <1>2, <2>2 DEF CloseSpctrgm, CloseEnv
  <2>3. CASE CancelNext(t)
    BY <1>2, <1>3, <2>3 DEF CancelNext, audio
  <2>4. CASE CancelDone(t) \/ KillGui(t)
    BY <1>2, <2>4 DEF CancelDone, KillGui, Pass
  <2>5. CASE Exit(t)
    BY <1>4, <2>5 DEF Exit
  <2> QED  BY <2>1, <2>2, <2>3, <2>4, <2>5 DEF TerminateAll
<1> QED  BY <1>1, <1>4

\* While main decodes or plays, the device it opened is open, unless a
\* terminate_all of another thread is under way or has taken that thread with
\* it (dcomposer.c:435, 453, 512).
THEOREM DeviceStaysOpen == Safety => []DeviceOpenWhilePlaying
<1>1. Init => DeviceKept
  BY DEF Init, DeviceKept, PlayPlaces, Threads
<1>2. TypeOK /\ DeviceKept /\ [Next]_vars => DeviceKept'
  <2> SUFFICES ASSUME TypeOK, DeviceKept, [Next]_vars
               PROVE  DeviceKept'
    OBVIOUS
  <2>1. CASE Main
    BY <2>1, MainKeepsDevice, TerminateKeepsDevice DEF Threads
  <2>2. CASE Spctrgm
    BY <2>2, SpctrgmKeepsDevice, TerminateKeepsDevice DEF Threads
  <2>3. CASE Fft
    BY <2>3, FftKeepsDevice, TerminateKeepsDevice DEF Threads
  <2>4. CASE GuiListens \/ GuiCloses \/ UNCHANGED vars
    <3>1. UNCHANGED <<pc, handle>>
      BY <2>4 DEF GuiListens, GuiCloses, vars, audio
    <3> QED  BY <3>1 DEF DeviceKept, Lost
  <2>5. ASSUME NEW t \in {"spctrgm", "fft"}, Cancelled(t)
        PROVE  DeviceKept'
    BY <2>5, WorkerMoves DEF Cancelled, Places, Terminating, audio
  <2>6. ASSUME NEW t \in Threads, Interrupt(t)
        PROVE  DeviceKept'
    <3>1. CASE t = "main"
      BY <2>6, <3>1, MainElsewhere DEF Interrupt, Places, PlayPlaces
    <3>2. CASE t # "main"
      BY <2>6, <3>2, WorkerMoves
      DEF Interrupt, Places, Terminating, Lost, Threads, audio
    <3> QED  BY <3>1, <3>2
  <2>7. ASSUME NEW t \in Threads, Hangs(t)
        PROVE  DeviceKept'
    <3>1. Goto(t, "stuck") /\ handle' = handle
      BY <2>7 DEF Hangs, Pass, audio
    <3>2. CASE t = "main"
      BY <3>1, <3>2, MainElsewhere DEF Places, PlayPlaces
    <3>3. CASE t # "main"
      BY <3>1, <3>3, WorkerMoves DEF Places, Threads
    <3> QED  BY <3>2, <3>3
  <2> QED  BY <2>1, <2>2, <2>3, <2>4, <2>5, <2>6, <2>7 DEF Next, Gone
<1>3. DeviceKept => DeviceOpenWhilePlaying
  BY DEF DeviceKept, Lost, DeviceOpenWhilePlaying, PlayPlaces, SlotOf
<1> QED  BY <1>1, <1>2, <1>3, TypeCorrect, PTL DEF Safety
-----------------------------------------------------------------------------
(* What main releases.                                                     *)

\* Places of main before the sound device is opened.
EarlyPlaces ==
  {"createSpctrgm", "waitSpctrgm", "createFft", "waitFft", "envSocket", "envConnect",
   "openPcm"}

\* Nobody has pressed Ctrl-C, and no other thread has run terminate_all.
Undisturbed == ints = 0 /\ ~ Lost("spctrgm") /\ ~ Lost("fft")

\* Main opens the device, then the decoder, and releases them the other way
\* round, once; its own terminate_all comes before there is anything to release.
Tidy ==
  /\ pc["main"] \in EarlyPlaces => handle = "null"
  /\ pc["main"] \in EarlyPlaces \cup {"initDecoder"} => hip = "none"
  /\ pc["main"] \in {"mPcm", "mReturn"} => hip # "live"
  /\ pc["main"] = "mReturn" => handle = "closed"
  /\ Undisturbed =>
       /\ proc # "undefined"
       /\ pc["main"] \notin Terminating \ {"tFree", "tPcm"}
       /\ pc["main"] \in {"tFree", "tPcm"} => hip = "none" /\ handle = "null"
       /\ pc["main"] \in PlayPlaces => hip # "freed"
       /\ pc["main"] \in PlayPlaces \cup {"mPcm"} => handle # "closed"

LEMMA EndsKeepsTidy ==
  ASSUME Tidy, NEW how, Ends(how), how = "undefined" => ~ Undisturbed
  PROVE  Tidy'
BY DEF Tidy, Ends, Undisturbed, Lost, audio, signals

\* Main moves: that disturbs nobody.
LEMMA MainGoes ==
  ASSUME TypeOK, NEW there \in Places, Goto("main", there), ints' = ints
  PROVE  pc'["main"] = there /\ Undisturbed' = Undisturbed
BY MainMoves DEF Undisturbed, Lost

LEMMA MainStaysTidy ==
  ASSUME IInv, Tidy, Main, ~ TerminateAll("main")
  PROVE  Tidy'
<1> USE DEF Places, EarlyPlaces, PlayPlaces, Terminating
<1>1. TypeOK /\ MainKnows
  BY DEF IInv
<1>2. CASE CreateSpctrgm \/ CreateFft
  <2>1. CASE \E how \in {"exited"} : Ends(how)
    BY <2>1, EndsKeepsTidy
  <2>2. CASE ~ \E how \in {"exited"} : Ends(how)
    <3>1. PICK t \in {"spctrgm", "fft"}, next \in {"waitSpctrgm", "waitFft"} :
            /\ pc["main"] \in {"createSpctrgm", "createFft"} /\ pc[t] = "idle"
            /\ pc' = [pc EXCEPT !["main"] = next, ![t] = "setup"]
            /\ UNCHANGED <<kill, table, sockets, audio, signals, world>>
      BY <1>1, <1>2, <2>2
      DEF CreateSpctrgm, CreateFft, Create, Exits, At, MainKnows
    <3>2. /\ pc'["main"] = next /\ pc'[t] = "setup"
          /\ \A u \in {"spctrgm", "fft"} : u # t => pc'[u] = pc[u]
      BY <1>1, <3>1 DEF TypeOK, Threads
    <3>3. Undisturbed' = Undisturbed
      BY <3>1, <3>2 DEF Undisturbed, Lost, signals
    <3> QED  BY <3>1, <3>2, <3>3 DEF Tidy, audio, world
  <2> QED  BY <2>1, <2>2
<1>3. CASE WaitSpctrgm \/ WaitFft
  BY <1>1, <1>3, MainGoes DEF WaitSpctrgm, WaitFft, Wait, At, Tidy, audio, signals, world
<1>4. CASE EnvSocket
  BY <1>1, <1>4, MainGoes, EndsKeepsTidy
  DEF EnvSocket, Fails, Exits, Pass, At, Tidy, audio, signals, world
<1>5. CASE EnvConnect
  BY <1>1, <1>5, MainGoes, EndsKeepsTidy
  DEF EnvConnect, Exits, Pass, At, Tidy, audio, signals, world
<1>6. CASE OpenPcm
  BY <1>1, <1>6, MainGoes, EndsKeepsTidy DEF OpenPcm, Exits, At, Tidy, signals, world
<1>7. CASE InitDecoder
  BY <1>1, <1>7, MainGoes, EndsKeepsTidy
  DEF InitDecoder, Exits, Pass, At, Tidy, audio, signals, world
<1>8. CASE Decode \/ SongOver
  <2>1. CASE hip = "freed" /\ At("main", "decode") /\ Ends("undefined")
    BY <2>1, EndsKeepsTidy DEF At, Tidy
  <2>2. CASE Pass("main", "decode", "play") \/ Pass("main", "play", "mFree")
    BY <1>1, <2>2, MainGoes DEF Pass, At, Tidy, audio, signals, world
  <2> QED  BY <1>8, <2>1, <2>2 DEF Decode, SongOver
<1>9. CASE Play
  <2>1. CASE handle = "closed" /\ At("main", "play") /\ Ends("undefined")
    BY <2>1, EndsKeepsTidy DEF At, Tidy
  <2>2. CASE Pass("main", "play", "write") \/ Pass("main", "play", "mFree")
    BY <1>1, <2>2, MainGoes DEF Pass, At, Tidy, audio, signals, world
  <2> QED  BY <1>9, <2>1, <2>2 DEF Play
<1>10. CASE Publish
  BY <1>1, <1>10, MainGoes DEF Publish, At, Tidy, signals, world
<1>11. CASE Release
  <2>1. CASE Ends("aborted")
    BY <2>1, EndsKeepsTidy
  <2>2. CASE \/ pc["main"] = "mFree" /\ hip = "freed" /\ Ends("undefined")
             \/ pc["main"] = "mPcm" /\ handle = "closed" /\ Ends("undefined")
    <3>1. ~ Undisturbed
      BY <2>2 DEF Tidy
    <3> QED  BY <2>2, <3>1, EndsKeepsTidy
  <2>3. CASE /\ pc["main"] = "mFree" /\ Goto("main", "mPcm")
             /\ hip' = IF hip = "live" THEN "freed" ELSE hip
             /\ UNCHANGED <<handle, ints, proc>>
    BY <1>1, <2>3, MainGoes DEF Tidy
  <2>4. CASE /\ pc["main"] = "mPcm" /\ Goto("main", "mReturn")
             /\ handle' = "closed"
             /\ UNCHANGED <<hip, ints, proc>>
    BY <1>1, <2>4, MainGoes DEF Tidy
  <2> QED
    BY <1>11, <2>1, <2>2, <2>3, <2>4
    DEF Release, FreeDecoder, ClosePcm, At, signals, world
<1>12. CASE Return
  BY <1>12, EndsKeepsTidy DEF Return
<1> QED
  BY <1>2, <1>3, <1>4, <1>5, <1>6, <1>7, <1>8, <1>9, <1>10, <1>11, <1>12 DEF Main

\* Another thread moves on: if it was lost it stays so.
LEMMA WorkerStaysTidy ==
  ASSUME TypeOK, Tidy, NEW t \in {"spctrgm", "fft"}, NEW there \in Places,
         Goto(t, there), Lost(t) => there \in Terminating \cup {"gone", "stuck"},
         ints' \in Nat, ints' >= ints, proc' = proc,
         hip' = hip \/ (hip = "live" /\ hip' = "freed" /\ Lost(t)),
         handle' = handle \/ (handle # "null" /\ handle' = "closed" /\ Lost(t))
  PROVE  Tidy'
<1>1. /\ pc'[t] = there /\ pc'["main"] = pc["main"]
      /\ \A u \in {"spctrgm", "fft"} : u # t => pc'[u] = pc[u]
  BY GotoMoves DEF Threads
<1>2. \A u \in {"spctrgm", "fft"} : Lost(u) => Lost(u)'
  BY <1>1 DEF Lost
<1>3. ints' = 0 => ints = 0
  BY DEF TypeOK
<1>4. Undisturbed' => Undisturbed /\ hip' = hip /\ handle' = handle
  BY <1>2, <1>3 DEF Undisturbed
<1> QED  BY <1>1, <1>4 DEF Tidy, EarlyPlaces

LEMMA SpctrgmStaysTidy ==
  ASSUME TypeOK, Tidy, Spctrgm, ~ TerminateAll("spctrgm")
  PROVE  Tidy'
<1> USE DEF Places, Lost, Terminating
<1>1. ints \in Nat /\ ints >= ints
  BY LifecycleAssumption DEF TypeOK
<1>2. CASE Ends("exited")
  BY <1>2, EndsKeepsTidy
<1>3. CASE ~ Ends("exited")
  <2>1. CASE SpctrgmSetup
    BY <1>1, <1>3, <2>1, WorkerStaysTidy
    DEF SpctrgmSetup, Fails, Exits, Pass, At, audio, signals, world
  <2>2. CASE Bind \/ Listen
    BY <1>1, <2>2, WorkerStaysTidy
    DEF Bind, Listen, Fails, Pass, At, audio, signals, world
  <2>3. CASE SpctrgmReady \/ AcceptFails
    BY <1>1, <2>3, WorkerStaysTidy
    DEF SpctrgmReady, MarkActive, AcceptFails, Fails, Pass, At, audio, signals, world
  <2> QED  BY <2>1, <2>2, <2>3 DEF Spctrgm, SpctrgmRuns
<1> QED  BY <1>2, <1>3

LEMMA FftStaysTidy ==
  ASSUME TypeOK, Tidy, Fft, ~ TerminateAll("fft")
  PROVE  Tidy'
<1> USE DEF Places, Lost, Terminating
<1>1. ints \in Nat /\ ints >= ints
  BY LifecycleAssumption DEF TypeOK
<1>2. CASE Ends("exited") \/ Ends("killed")
  BY <1>2, EndsKeepsTidy
<1>3. CASE ~ (Ends("exited") \/ Ends("killed"))
  <2>1. CASE FftSetup \/ ConnectGui
    BY <1>1, <1>3, <2>1, WorkerStaysTidy
    DEF FftSetup, ConnectGui, Fails, Exits, Pass, At, audio, signals, world
  <2>2. CASE SpctrgmSocket
    BY <1>1, <2>2, WorkerStaysTidy
    DEF SpctrgmSocket, Fails, Pass, At, audio, signals, world
  <2>3. CASE ConnectSpctrgm \/ Allocate
    BY <1>1, <1>3, <2>3, WorkerStaysTidy
    DEF ConnectSpctrgm, Allocate, Fails, Exits, Pass, At, audio, signals, world
  <2>4. CASE FftReady
    BY <1>1, <2>4, WorkerStaysTidy DEF FftReady, MarkActive, At, audio, signals, world
  <2>5. CASE ReadFrame \/ ReadFails
    BY <1>1, <2>5, WorkerStaysTidy
    DEF ReadFrame, ReadFails, Fails, Pass, At, audio, signals, world
  <2>6. CASE SendEnvelope \/ SendSpectrum
    BY <1>1, <1>3, <2>6, WorkerStaysTidy
    DEF SendEnvelope, SendSpectrum, Send, Fails, Pass, At, audio, signals, world
  <2> QED  BY <2>1, <2>2, <2>3, <2>4, <2>5, <2>6 DEF Fft, FftRuns
<1> QED  BY <1>2, <1>3

\* A worker's terminate_all releases what it likes: the worker is lost.
LEMMA WorkerTerminatesTidy ==
  ASSUME TypeOK, Tidy, NEW t \in {"spctrgm", "fft"}, TerminateAll(t)
  PROVE  Tidy'
<1> USE DEF Places, Lost, Terminating
<1>1. Lost(t) /\ ints \in Nat /\ ints >= ints
  BY LifecycleAssumption
  DEF TypeOK, TerminateAll, FreeDecoder, ClosePcm, CloseSpctrgm, CloseEnv, CancelNext,
      CancelDone, KillGui, Exit, Pass, At
<1>2. CASE \E how : Ends(how)
  BY <1>1, <1>2, EndsKeepsTidy DEF Undisturbed
<1>3. CASE ~ \E how : Ends(how)
  <2>1. CASE FreeDecoder(t, "tFree", "tPcm")
    BY <1>1, <1>3, <2>1, WorkerStaysTidy DEF FreeDecoder, signals, world
  <2>2. CASE ClosePcm(t, "tPcm", "tSpctrgm")
    BY <1>1, <1>3, <2>2, WorkerStaysTidy DEF ClosePcm, signals, world
  <2>3. CASE CloseSpctrgm(t) \/ CloseEnv(t)
    BY <1>1, <2>3, WorkerStaysTidy DEF CloseSpctrgm, CloseEnv, audio, signals, world
  <2>4. CASE CancelNext(t)
    <3>1. UNCHANGED <<hip, handle, ints>>
      BY <2>4 DEF CancelNext, audio
    <3>2. CASE Goto(t, "gone") /\ proc' = proc
      BY <1>1, <3>1, <3>2, WorkerStaysTidy
    <3>3. CASE pc' = pc
      BY <1>1, <3>1, <3>3 DEF Tidy, Undisturbed
    <3> QED  BY <2>4, <3>2, <3>3 DEF CancelNext
  <2>5. CASE CancelDone(t) \/ KillGui(t)
    BY <1>1, <2>5, WorkerStaysTidy
    DEF CancelDone, KillGui, Pass, audio, signals, world
  <2>6. CASE Exit(t)
    BY <1>3, <2>6 DEF Exit
  <2> QED  BY <2>1, <2>2, <2>3, <2>4, <2>5, <2>6 DEF TerminateAll
<1> QED  BY <1>2, <1>3

\* Undisturbed, main gets into terminate_all only with nothing to release.
LEMMA MainTerminatesTidy ==
  ASSUME TypeOK, Tidy, TerminateAll("main")
  PROVE  Tidy'
<1> USE DEF Places, Terminating, EarlyPlaces, PlayPlaces
<1>1. pc["main"] \in Terminating
  BY DEF TerminateAll, FreeDecoder, ClosePcm, CloseSpctrgm, CloseEnv, CancelNext,
         CancelDone, KillGui, Exit, Pass, At
<1>2. CASE FreeDecoder("main", "tFree", "tPcm")
  <2>1. CASE pc["main"] = "tFree" /\ hip = "freed" /\ Ends("undefined")
    <3>1. ~ Undisturbed
      BY <2>1 DEF Tidy
    <3> QED  BY <2>1, <3>1, EndsKeepsTidy
  <2>2. CASE /\ pc["main"] = "tFree" /\ Goto("main", "tPcm")
             /\ hip' = IF hip = "live" THEN "freed" ELSE hip
             /\ UNCHANGED <<handle, ints, proc>>
    BY <2>2, MainGoes DEF Tidy
  <2> QED  BY <1>2, <2>1, <2>2 DEF FreeDecoder, At, signals, world
<1>3. CASE ClosePcm("main", "tPcm", "tSpctrgm")
  <2>1. CASE Ends("undefined") \/ Ends("aborted")
    BY <1>3, <2>1, EndsKeepsTidy DEF ClosePcm, At, Tidy, Ends
  <2>2. CASE ~ (Ends("undefined") \/ Ends("aborted"))
    BY <1>3, <2>2, MainGoes DEF ClosePcm, At, Tidy, signals, world
  <2> QED  BY <2>1, <2>2
<1>4. CASE ~ (FreeDecoder("main", "tFree", "tPcm") \/ ClosePcm("main", "tPcm", "tSpctrgm"))
  <2>1. ~ Undisturbed
    BY <1>4
    DEF TerminateAll, CloseSpctrgm, CloseEnv, CancelNext, CancelDone, KillGui, Exit,
        Pass, At, Tidy
  <2>2. CASE \E how : Ends(how)
    BY <2>1, <2>2, EndsKeepsTidy
  <2>3. ASSUME ~ \E how : Ends(how)
        PROVE  UNCHANGED <<ints, hip, handle>> /\
               \/ \E there \in Terminating : Goto("main", there)
               \/ pc' = pc
    BY <1>4, <2>3
    DEF TerminateAll, CloseSpctrgm, CloseEnv, CancelNext, CancelDone, KillGui, Exit,
        Pass, SlotOf, audio, signals
  <2>4. ASSUME UNCHANGED <<ints, hip, handle>>, NEW there \in Terminating,
               Goto("main", there)
        PROVE  Tidy'
    BY <2>1, <2>4, MainGoes DEF Tidy
  <2>5. ASSUME UNCHANGED <<ints, hip, handle, pc>>
        PROVE  Tidy'
    BY <2>1, <2>5 DEF Tidy, Undisturbed, Lost
  <2> QED  BY <2>2, <2>3, <2>4, <2>5
<1> QED  BY <1>2, <1>3, <1>4

LEMMA NextStaysTidy ==
  ASSUME IInv, Tidy, [Next]_vars
  PROVE  Tidy'
<1>1. TypeOK /\ ints \in Nat /\ ints >= ints
  BY LifecycleAssumption DEF IInv, TypeOK
<1>2. CASE Main
  BY <1>1, <1>2, MainStaysTidy, MainTerminatesTidy
<1>3. CASE Spctrgm
  BY <1>1, <1>3, SpctrgmStaysTidy, WorkerTerminatesTidy
<1>4. CASE Fft
  BY <1>1, <1>4, FftStaysTidy, WorkerTerminatesTidy
<1>5. CASE GuiListens \/ GuiCloses \/ UNCHANGED vars
  <2>1. UNCHANGED <<pc, handle, hip, ints, proc>>
    BY <1>5 DEF GuiListens, GuiCloses, vars, audio, signals, world
  <2> QED  BY <2>1 DEF Tidy, Undisturbed, Lost
<1>6. ASSUME NEW t \in {"spctrgm", "fft"}, Cancelled(t)
      PROVE  Tidy'
  BY <1>1, <1>6, WorkerStaysTidy DEF Cancelled, Places, audio, world
<1>7. ASSUME NEW t \in Threads, Interrupt(t)
      PROVE  Tidy'
  <2>1. /\ ints' = ints + 1 /\ ints' \in Nat /\ ints' >= ints /\ ints' # 0
        /\ UNCHANGED <<hip, handle, proc>>
        /\ Goto(t, "tFree")
    BY <1>1, <1>7 DEF Interrupt, audio, world
  <2>2. CASE t = "main"
    <3>1. pc'["main"] = "tFree"
      BY <1>1, <2>1, <2>2, MainMoves DEF Places
    <3> QED  BY <2>1, <3>1 DEF Tidy, Undisturbed, EarlyPlaces
  <2>3. CASE t # "main"
    BY <1>1, <2>1, <2>3, WorkerStaysTidy DEF Places, Terminating, Threads
  <2> QED  BY <2>2, <2>3
<1>8. ASSUME NEW t \in Threads, Hangs(t)
      PROVE  Tidy'
  <2>1. Goto(t, "stuck") /\ UNCHANGED <<hip, handle, ints, proc>>
    BY <1>8 DEF Hangs, Pass, audio, signals, world
  <2>2. CASE t = "main"
    BY <1>1, <2>1, <2>2, MainGoes DEF Places, Tidy, EarlyPlaces, PlayPlaces, Terminating
  <2>3. CASE t # "main"
    BY <1>1, <2>1, <2>3, WorkerStaysTidy DEF Places, Threads
  <2> QED  BY <2>2, <2>3
<1> QED  BY <1>2, <1>3, <1>4, <1>5, <1>6, <1>7, <1>8 DEF Next, Gone

\* Main releases what it has opened, and nothing is released twice without a
\* Ctrl-C or another thread's terminate_all (dcomposer.c:482-491, 506-512).
THEOREM EachReleasedOnce == Safety => []ReleasedOnce
<1>1. Init => Tidy
  BY DEF Init, Tidy, EarlyPlaces, PlayPlaces, Terminating, Threads
<1>2. IInv /\ Tidy /\ [Next]_vars => Tidy'
  BY NextStaysTidy
<1>3. IInv /\ Tidy => ReleasedOnce
  <2>1. SUFFICES ASSUME TypeOK, Tidy PROVE ReleasedOnce
    BY DEF IInv
  <2>2. ints \in Nat
    BY <2>1, LifecycleAssumption DEF TypeOK
  <2>3. proc = "undefined" => ints > 0 \/ Lost("spctrgm") \/ Lost("fft")
    BY <2>1, <2>2 DEF Tidy, Undisturbed
  <2> QED  BY <2>1, <2>3 DEF Tidy, ReleasedOnce, Lost, SlotOf
<1> QED  BY <1>1, <1>2, <1>3, Invariant, PTL DEF Safety
=============================================================================
