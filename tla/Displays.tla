------------------------------ MODULE Displays ------------------------------
(***************************************************************************)
(* How a frame is analysed and how the results reach the screen.  For each *)
(* frame fft_thread writes the envelope to one socket and, unless the      *)
(* frame is silent, the record ps to two others: to the GUI                *)
(* (exe/test_server.tcl and exe/env_display.tcl, one Tcl event loop with   *)
(* blocking reads) and to the spectrogram thread.  Sockets hold little and *)
(* may pass on any part of what is written.                                *)
(*                                                                         *)
(* Unit of data: FFT_SIZE_DIV2 floats, named by frame and contents.        *)
(***************************************************************************)
EXTENDS Integers, Sequences

CONSTANTS
  SockUnits,   \* units a socket's buffers hold
  Rows,        \* SPCTRGM_DSPLY_HGHT: rows of the waterfall
  MaxFrames    \* bound on the number of frames analysed

ASSUME DisplaysAssumption ==
  /\ SockUnits \in Nat \ {0}
  /\ Rows \in Nat \ {0}
  /\ MaxFrames \in Nat

VARIABLES
  frame,       \* frames read from the FIFO
  pcF,         \* where fft_thread is, or the socket it writes to
  sent,        \* units of the current record it has written
  temp_mat,    \* the matrix sgesvd_ decomposes
  lwork,       \* size of its workspace, -1 to ask for the best one
  s,           \* the singular values
  ps,          \* the record, FFT_SIZE * 2 floats
  wire,        \* contents of the three sockets
  open,        \* the process runs
  pcG,         \* where the GUI is: "loop", or the vector it reads into
  got,         \* units its unfinished binread has read
  shown,       \* contents of the vectors behind the graphs
  shut,        \* sockets the GUI has closed
  buf,         \* buf of the spectrogram thread
  img,         \* what each row of Imlib_data was made from
  whole        \* all its reads so far returned a record

analysis == <<frame, temp_mat, lwork, s, ps>>
fftVars == <<analysis, pcF, sent>>
guiVars == <<pcG, got, shown, shut>>
spctrgmVars == <<buf, img, whole>>
vars == <<fftVars, wire, open, guiVars, spctrgmVars>>

Sockets == {"env", "gui", "spctrgm"}
Vectors == {"envelope", "ps", "svd", "ts"}

\* env_ts, written by env_proc.
Envelope(k) == <<<<k, "env1">>, <<k, "env2">>>>

\* ps after bzero.
Zeroed == [i \in 1..4 |-> <<0, "none">>]

Init ==
  /\ frame = 0
  /\ pcF = "read"
  /\ sent = 0
  /\ temp_mat = <<0, "none">>
  /\ lwork = -1
  /\ s = <<0, "none">>
  /\ ps = Zeroed
  /\ wire = [socket \in Sockets |-> <<>>]
  /\ open = TRUE
  /\ pcG = "loop"
  /\ got = <<>>
  /\ shown = [v \in Vectors |->
                IF v \in {"ps", "svd"} THEN <<<<0, v>>>> ELSE <<<<0, v>>, <<0, v>>>>]
  /\ shut = {}
  /\ buf = [i \in 1..4 |-> <<0, "none">>]
  /\ img = [r \in 0..(Rows - 1) |-> <<0, "none">>]
  /\ whole = TRUE
-----------------------------------------------------------------------------
(* fft_thread.                                                             *)

ReadFrame ==
  /\ open
  /\ pcF = "read"
  /\ frame < MaxFrames
  /\ frame' = frame + 1
  /\ temp_mat' = <<frame', "matrix">>
  /\ ps' = [ps EXCEPT ![3] = <<frame', "raw1">>, ![4] = <<frame', "raw2">>]
  /\ pcF' = "decompose"
  /\ UNCHANGED <<sent, lwork, s, wire, open, guiVars, spctrgmVars>>

\* What sgesvd_ leaves of a matrix when both sets of singular vectors are asked
\* for, and the singular values it finds.
Leftover(matrix) == <<matrix[1], "leftover">>
SingularValues(matrix) ==
  <<matrix[1], IF matrix[2] = "matrix" THEN "svd" ELSE "svdLeftover">>

\* Size of the workspace sgesvd_ asks for, for 64 rows and columns.
Best == 4288

\* What the second call of sgesvd_ is given: the first one leaves temp_mat
\* alone if it is asked for the best size, and else decomposes it.
Decomposed == IF lwork = -1 THEN temp_mat ELSE Leftover(temp_mat)

\* Both calls of sgesvd_, and the bzero before the call of env_proc.
Decompose ==
  /\ open
  /\ pcF = "decompose"
  /\ s' = SingularValues(Decomposed)
  /\ temp_mat' = Leftover(Decomposed)
  /\ lwork' = Best
  /\ ps' = Zeroed
  /\ pcF' = "env"
  /\ UNCHANGED <<frame, sent, wire, open, guiVars, spctrgmVars>>

\* A stretch of write: the socket takes some of what is left of the record;
\* the call returns with the last of it.
Send(socket, record, next) ==
  /\ open
  /\ pcF = socket
  /\ \E n \in 1..(Len(record) - sent) :
       /\ Len(wire[socket]) + n <= SockUnits
       /\ wire' = [wire EXCEPT ![socket] = @ \o SubSeq(record, sent + 1, sent + n)]
       /\ IF sent + n = Len(record)
          THEN sent' = 0 /\ pcF' = next
          ELSE sent' = sent + n /\ UNCHANGED pcF
  /\ UNCHANGED <<open, guiVars, spctrgmVars>>

\* The end of env_proc.
SendEnvelope == Send("env", Envelope(frame), "fill") /\ UNCHANGED analysis

\* The record is filled; of a silent frame only in part, and it goes no
\* further.
Fill ==
  /\ open
  /\ pcF = "fill"
  /\ LET all == <<s, <<frame, "power">>, <<frame, "in1">>, <<frame, "in2">>>>
     IN  \/ ps' = all /\ pcF' = "gui"
         \/ ps' = [all EXCEPT ![2] = ps[2]] /\ pcF' = "read"
  /\ UNCHANGED <<frame, sent, temp_mat, lwork, s, wire, open, guiVars, spctrgmVars>>

SendToGui == Send("gui", ps, "spctrgm") /\ UNCHANGED analysis

\* The record is cleared once it is through.
SendToSpctrgm ==
  /\ Send("spctrgm", ps, "read")
  /\ ps' = IF pcF' = "read" THEN Zeroed ELSE ps
  /\ UNCHANGED <<frame, temp_mat, lwork, s>>

\* Main, or any thread, ends the process: the sockets are closed.
ProcessEnds ==
  /\ open
  /\ open' = FALSE
  /\ UNCHANGED <<fftVars, wire, guiVars, spctrgmVars>>
-----------------------------------------------------------------------------
(* The GUI.                                                                *)

SocketOf(v) == IF v = "envelope" THEN "env" ELSE "gui"

\* Broken variants: the envelope is read as three halves, or the time series
\* as one.
WantedLongEnvelope == [envelope |-> 3, ps |-> 1, svd |-> 1, ts |-> 2]
WantedShortSeries == [envelope |-> 2, ps |-> 1, svd |-> 1, ts |-> 1]

\* Units each binread asks for: FFT_SIZE or FFT_SIZE_DIV2 values of 4 bytes.
Wanted == [envelope |-> 2, ps |-> 1, svd |-> 1, ts |-> 2]

\* What readdata reads after each vector; readEnv reads just one.
NextVector == [envelope |-> "loop", ps |-> "svd", svd |-> "ts", ts |-> "loop"]

\* A socket with data, or with an end of file not yet seen, runs its handler.
Readable(socket) == socket \notin shut /\ (wire[socket] # <<>> \/ ~open)

HandlerStarts ==
  /\ pcG = "loop"
  /\ \E v \in {"envelope", "ps"} : Readable(SocketOf(v)) /\ pcG' = v
  /\ UNCHANGED <<fftVars, wire, open, got, shown, shut, spctrgmVars>>

\* binread waits for all it wants; it comes back early only at end of file.
BinReadGets(v) ==
  LET socket == SocketOf(v)
      missing == Wanted[v] - Len(got)
      n == IF Len(wire[socket]) < missing THEN Len(wire[socket]) ELSE missing
      all == got \o SubSeq(wire[socket], 1, n)
  IN  /\ pcG = v
      /\ n > 0
      /\ wire' = [wire EXCEPT ![socket] = SubSeq(@, n + 1, Len(@))]
      /\ IF n = missing
         THEN /\ shown' = [shown EXCEPT ![v] = all]
              /\ got' = <<>>
              /\ pcG' = NextVector[v]
         ELSE /\ got' = all
              /\ UNCHANGED <<shown, pcG>>
      /\ UNCHANGED <<fftVars, open, shut, spctrgmVars>>

\* Broken variant: a handler that finds nothing does not close its socket.
EndIgnored(v) ==
  /\ pcG = v
  /\ ~open
  /\ wire[SocketOf(v)] = <<>>
  /\ got' = <<>>
  /\ pcG' = "loop"
  /\ UNCHANGED <<fftVars, wire, open, shown, shut, spctrgmVars>>

\* End of file.  A binread that has something hands it over, and the vector
\* keeps the rest of what it held; one that has nothing closes the socket.
BinReadEnds(v) ==
  /\ pcG = v
  /\ ~open
  /\ wire[SocketOf(v)] = <<>>
  /\ IF got = <<>>
     THEN shut' = shut \cup {SocketOf(v)} /\ pcG' = "loop" /\ UNCHANGED shown
     ELSE /\ shown' = [shown EXCEPT ![v] = got \o SubSeq(@, Len(got) + 1, Len(@))]
          /\ pcG' = NextVector[v]
          /\ UNCHANGED shut
  /\ got' = <<>>
  /\ UNCHANGED <<fftVars, wire, open, spctrgmVars>>

BinRead(v) == BinReadGets(v) \/ BinReadEnds(v)
-----------------------------------------------------------------------------
(* The spectrogram thread.                                                 *)

\* Broken variant: the waterfall is drawn from the first half.
DrawnFirst == 1

\* Unit of buf the waterfall is drawn from: buf[FFT_SIZE/2 ...].
Drawn == 2

\* Broken variant: the image is moved by one row.
ScrolledByOne == 1

\* Rows the image is moved down by: memmove(&Imlib_data[3*image_width], ...).
Scrolled == 3

\* Rows at the top that are filled from one record.
Filled == 3

\* One read, of a record at most, over what buf held before; the image moves
\* down and its top rows are filled.
Waterfall ==
  /\ open
  /\ wire["spctrgm"] # <<>>
  /\ LET have == Len(wire["spctrgm"])
         n == IF have < 4 THEN have ELSE 4
     IN  /\ buf' = SubSeq(wire["spctrgm"], 1, n) \o SubSeq(buf, n + 1, 4)
         /\ wire' = [wire EXCEPT !["spctrgm"] = SubSeq(@, n + 1, have)]
         /\ whole' = (whole /\ n = 4)
  /\ img' = [r \in 0..(Rows - 1) |->
               IF r < Filled THEN buf'[Drawn] ELSE img[r - Scrolled]]
  /\ UNCHANGED <<fftVars, open, guiVars>>
-----------------------------------------------------------------------------
Fft ==
  \/ ReadFrame \/ Decompose \/ SendEnvelope \/ Fill
  \/ SendToGui \/ SendToSpctrgm

Gui == HandlerStarts \/ \E v \in Vectors : BinRead(v)

\* Nothing is left to do once both sockets of the GUI are closed.
Over == shut = {"env", "gui"} /\ UNCHANGED vars

Next == Fft \/ ProcessEnds \/ Gui \/ Waterfall \/ Over

Safety == Init /\ [][Next]_vars

\* Three threads of control, none of which the scheduler forgets.  The end of
\* the process need not come.
Spec ==
  /\ Safety
  /\ WF_vars(Fft) /\ WF_vars(Gui) /\ WF_vars(Waterfall)
-----------------------------------------------------------------------------
(* Properties.                                                             *)

Contents ==
  {"env1", "env2", "svd", "svdLeftover", "power", "in1", "in2", "raw1", "raw2",
   "matrix", "leftover", "none"} \cup Vectors
Unit == (0..MaxFrames) \X Contents

TypeOK ==
  /\ frame \in 0..MaxFrames
  /\ pcF \in Sockets \cup {"read", "decompose", "fill"}
  /\ sent \in 0..3
  /\ temp_mat \in Unit /\ s \in Unit
  /\ lwork \in {-1, Best}
  /\ ps \in Seq(Unit) /\ Len(ps) = 4
  /\ wire \in [Sockets -> Seq(Unit)]
  /\ \A socket \in Sockets : Len(wire[socket]) <= SockUnits
  /\ open \in BOOLEAN
  /\ pcG \in Vectors \cup {"loop"}
  /\ got \in Seq(Unit) /\ Len(got) <= 1
  /\ shown \in [Vectors -> Seq(Unit)]
  /\ shut \subseteq {"env", "gui"}
  /\ buf \in Seq(Unit) /\ Len(buf) = 4
  /\ img \in [0..(Rows - 1) -> Unit]
  /\ whole \in BOOLEAN

\* Records made of frame k: the singular values are its own, whichever of its
\* matrices sgesvd_ was given.
Records(k) ==
  {<<values, <<k, "power">>, <<k, "in1">>, <<k, "in2">>>> :
     values \in {<<k, "svd">>, <<k, "svdLeftover">>}}

\* Between two handlers the GUI's graphs show one frame: the three vectors of
\* readdata come from one record, whose four parts were computed from one
\* frame, and the envelope from another, cut where fft_thread cut them
\* (test_server.tcl:184-223, fft_thread.c:366-427, 473-537).
GraphsShowOneFrame ==
  pcG = "loop" /\ open =>
    /\ \E k \in 0..frame :
         \/ k = 0 /\ shown["ts"][1][1] = 0
         \/ shown["ps"] \o shown["svd"] \o shown["ts"] \in Records(k)
    /\ \E k \in 0..frame :
         \/ k = 0 /\ shown["envelope"][1][1] = 0
         \/ shown["envelope"] = Envelope(k)

\* As long as no read was short the waterfall is a history of power spectra:
\* three rows for each, the later the higher (spectrogram.c:432, 470-482).
WaterfallIsHistory ==
  whole =>
    \A r \in 0..(Rows - 1) :
      /\ img[r][1] = 0 \/ img[r][2] = "power"
      /\ img[r] = img[(r \div 3) * 3]
      /\ r >= 3 => img[r][1] < img[r - 3][1] \/ img[r][1] = 0

\* A frame gets out: fft_thread is never stuck for good between a socket that
\* is full and a GUI that waits for the other one (fft_thread.c:428-535).
FramesGetOut == pcF # "read" ~> pcF = "read" \/ ~open

\* When the process has ended the GUI sees it on both sockets.
GuiNotices == ~open ~> shut = {"env", "gui"}

\* Envelopes that fft_thread has written to the last byte.
EnvelopesWritten == IF pcF \in {"decompose", "env"} THEN frame - 1 ELSE frame

\* When the process has ended, at whatever point of fft_thread's loop, every
\* envelope that was written is still shown, those that wait in the socket too
\* (env_proc.c:73, dcomposer.c:491, env_display.tcl:36-58).
EndIsShown == ~open ~> shown["envelope"][1][1] >= EnvelopesWritten

\* What the screen promises: the graphs go forward through the frames and the
\* envelope shows each of them (see Screen).
Promise == INSTANCE Screen WITH
  graph <- shown["ts"][1][1],
  env <- shown["envelope"][1][1],
  over <- ~open

ImplementsScreen == Promise!Spec

\* The envelope is behind the frames read by what its socket and the GUI hold
\* and the frame being worked on; nothing is ahead of them (fft_thread.c:331,
\* env_proc.c:73, env_display.tcl:44-58).
EnvelopeKeepsUp ==
  /\ shown["ts"][1][1] \in 0..frame
  /\ shown["envelope"][1][1] \in 0..frame
  /\ frame - shown["envelope"][1][1] <= ((SockUnits + 1) \div 2) + 1

\* The values the GUI is sent as singular values are those of a frame's
\* matrix: what LAPACK left of a matrix in a query for the size of WORK, as
\* lwork = -1 asks for (fft_thread.c:149, 405-417), has none of its own.  The
\* GUI shows them in the graph titled "Ps" (see PsGraphShowsPower).
ShowsSingularValues == \A v \in Vectors : shown[v][1][2] # "svdLeftover"

\* The graph titled "Ps" (test_server.tcl:125, 145) shows power spectra.
PsGraphShowsPower == shown["ps"][1][1] > 0 => shown["ps"][1][2] = "power"
=============================================================================
