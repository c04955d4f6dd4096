--------------------------- MODULE DisplaysProofs ---------------------------
(***************************************************************************)
(* Theorems about Displays, for sockets and waterfalls of any size and any *)
(* number of frames.                                                       *)
(***************************************************************************)
EXTENDS Displays, SequenceTheorems, TLAPS

\* What may be on its way: contents made of the frames read so far.
Seen == (0..frame) \X Contents

TypeNow ==
  /\ frame \in 0..MaxFrames
  /\ pcF \in Sockets \cup {"read", "decompose", "fill"}
  /\ sent \in 0..3
  /\ temp_mat \in Seen /\ s \in Seen
  /\ lwork \in {-1, Best}
  /\ ps \in [1..4 -> Seen]
  /\ wire \in [Sockets -> Seq(Seen)]
  /\ \A socket \in Sockets : Len(wire[socket]) <= SockUnits
  /\ open \in BOOLEAN
  /\ pcG \in Vectors \cup {"loop"}
  /\ got \in Seq(Seen)
  /\ shown \in [Vectors -> Seq(Seen)]
  /\ shut \subseteq {"env", "gui"}
  /\ buf \in [1..4 -> Seen]
  /\ img \in [0..(Rows - 1) -> Seen]
  /\ whole \in BOOLEAN

\* What the places of fft_thread and of the GUI say about their counters.
Places ==
  /\ pcF \in {"read", "decompose", "fill"} => sent = 0
  /\ pcF = "env" => sent < 2
  /\ pcF # "read" => frame >= 1
  /\ pcG = "loop" => got = <<>>
  /\ \A v \in Vectors : pcG = v => Len(got) < Wanted[v]
  /\ \A v \in Vectors : Len(shown[v]) = Wanted[v]

IInv == TypeNow /\ Places
-----------------------------------------------------------------------------
(* Sequences.                                                              *)

\* What is seen remains seen.
LEMMA SeenGrows ==
  ASSUME NEW a \in Nat, NEW b \in Nat, a <= b
  PROVE  Seq((0..a) \X Contents) \subseteq Seq((0..b) \X Contents)
<1>1. (0..a) \X Contents \subseteq (0..b) \X Contents
  OBVIOUS
<1> QED  BY <1>1

\* A unit made of the frame at hand is one that was seen.
LEMMA UnitSeen ==
  ASSUME NEW k \in 0..frame, frame \in Nat, NEW c \in Contents
  PROVE  <<k, c>> \in Seen
BY DEF Seen

\* A piece of a sequence.
LEMMA Piece ==
  ASSUME NEW S, NEW q \in Seq(S), NEW a \in Nat, NEW n \in Nat, a + n <= Len(q)
  PROVE  /\ SubSeq(q, a + 1, a + n) \in Seq(S)
         /\ Len(SubSeq(q, a + 1, a + n)) = n
         /\ \A i \in 1..n : SubSeq(q, a + 1, a + n)[i] = q[a + i]
OBVIOUS

\* The first n units of a sequence, and what is left after them.
LEMMA HeadPiece ==
  ASSUME NEW S, NEW q \in Seq(S), NEW n \in 0..Len(q)
  PROVE  /\ SubSeq(q, 1, n) \in Seq(S)
         /\ Len(SubSeq(q, 1, n)) = n
         /\ \A i \in 1..n : SubSeq(q, 1, n)[i] = q[i]
<1>1. Len(q) \in Nat /\ n \in Nat /\ n <= Len(q)
  BY LenProperties
<1>2. 1 \in 1..(Len(q) + 1) /\ n \in (1 - 1)..Len(q) /\ n - 1 + 1 = n
  BY <1>1
<1>3. /\ SubSeq(q, 1, n) \in Seq(S)
      /\ Len(SubSeq(q, 1, n)) = n
      /\ \A i \in 1..n : SubSeq(q, 1, n)[i] = q[1 + i - 1]
  BY <1>2, SubSeqProperties
<1>4. \A i \in 1..n : 1 + i - 1 = i
  BY <1>1
<1> QED  BY <1>3, <1>4

LEMMA TailPiece ==
  ASSUME NEW S, NEW q \in Seq(S), NEW n \in 0..Len(q)
  PROVE  /\ SubSeq(q, n + 1, Len(q)) \in Seq(S)
         /\ Len(SubSeq(q, n + 1, Len(q))) = Len(q) - n
         /\ \A i \in 1..(Len(q) - n) : SubSeq(q, n + 1, Len(q))[i] = q[n + i]
<1>1. Len(q) \in Nat /\ n \in Nat /\ n <= Len(q)
  BY LenProperties
<1> DEFINE m == n + 1
           l == Len(q)
<1>2. /\ m \in 1..(Len(q) + 1) /\ l \in (m - 1)..Len(q)
      /\ l - m + 1 = Len(q) - n
  BY <1>1
<1>4. \A i \in 1..(Len(q) - n) : m + i - 1 = n + i
  BY <1>1
<1> HIDE DEF m, l
<1>3. /\ SubSeq(q, m, l) \in Seq(S)
      /\ Len(SubSeq(q, m, l)) = l - m + 1
      /\ \A i \in 1..(l - m + 1) : SubSeq(q, m, l)[i] = q[m + i - 1]
  BY <1>2, SubSeqProperties
<1>5. \A i \in 1..(Len(q) - n) : SubSeq(q, m, l)[i] = q[n + i]
  BY <1>2, <1>3, <1>4
<1> QED  BY <1>2, <1>3, <1>5 DEF m, l

\* What a piece behind another one adds.
LEMMA Joined ==
  ASSUME NEW S, NEW a \in Seq(S), NEW b \in Seq(S)
  PROVE  /\ a \o b \in Seq(S)
         /\ Len(a \o b) = Len(a) + Len(b)
         /\ \A i \in 1..Len(a) : (a \o b)[i] = a[i]
         /\ \A i \in 1..Len(b) : (a \o b)[Len(a) + i] = b[i]
<1>1. a \o b \in Seq(S)
  OBVIOUS
<1>2. Len(a \o b) = Len(a) + Len(b)
  OBVIOUS
<1>3. \A i \in 1..Len(a) : (a \o b)[i] = a[i]
  OBVIOUS
<1>4. \A i \in 1..Len(b) : (a \o b)[Len(a) + i] = b[i]
  OBVIOUS
<1> QED  BY <1>1, <1>2, <1>3, <1>4

LEMMA FourAreASequence ==
  ASSUME NEW S, NEW q \in [1..4 -> S]
  PROVE  q \in Seq(S) /\ Len(q) = 4
<1>1. q \in Seq(S)
  BY SeqDef
<1> QED  BY <1>1, LenProperties
-----------------------------------------------------------------------------
LEMMA InitEstablishesIInv ==
  ASSUME Init
  PROVE  IInv
<1> USE DisplaysAssumption DEF Init
<1>1. \A c \in Contents : <<0, c>> \in Seen
  BY DEF Seen
<1>2. /\ "none" \in Contents /\ Vectors \subseteq Contents
  BY DEF Contents, Vectors
<1>3. shown \in [Vectors -> Seq(Seen)] /\ \A v \in Vectors : Len(shown[v]) = Wanted[v]
  <2>1. \A v \in Vectors : <<0, v>> \in Seen
    BY <1>1, <1>2
  <2> QED  BY <2>1 DEF Vectors, Wanted
<1>4. wire \in [Sockets -> Seq(Seen)] /\ \A socket \in Sockets : Len(wire[socket]) = 0
  OBVIOUS
<1>5. TypeNow
  BY <1>1, <1>2, <1>3, <1>4 DEF TypeNow, Zeroed, Sockets
<1>6. Places
  BY <1>3 DEF Places, Vectors
<1> QED  BY <1>5, <1>6 DEF IInv

\* What a stretch of write does to the socket.
LEMMA SendAppends ==
  ASSUME IInv, NEW socket \in Sockets, NEW record \in Seq(Seen), NEW n \in Nat,
         sent + n <= Len(record), Len(wire[socket]) + n <= SockUnits,
         wire' = [wire EXCEPT ![socket] = @ \o SubSeq(record, sent + 1, sent + n)]
  PROVE  /\ wire' \in [Sockets -> Seq(Seen)]
         /\ \A other \in Sockets : Len(wire'[other]) <= SockUnits
         /\ \A other \in Sockets \ {socket} : wire'[other] = wire[other]
         /\ Len(wire'[socket]) = Len(wire[socket]) + n
         /\ \A i \in 1..Len(wire[socket]) : wire'[socket][i] = wire[socket][i]
         /\ wire'[socket] = wire[socket] \o SubSeq(record, sent + 1, sent + n)
<1> DEFINE new == SubSeq(record, sent + 1, sent + n)
<1>2. sent \in Nat /\ n \in Nat /\ Len(record) \in Nat
  BY DEF IInv, TypeNow
<1>3. /\ new \in Seq(Seen) /\ Len(new) = n
      /\ \A i \in 1..n : new[i] = record[sent + i]
  BY <1>2, Piece
<1>4. /\ wire \in [Sockets -> Seq(Seen)]
      /\ \A other \in Sockets : Len(wire[other]) <= SockUnits
  BY DEF IInv, TypeNow
<1>5. wire' = [wire EXCEPT ![socket] = wire[socket] \o new]
  BY <1>4
<1> HIDE DEF new
<1>6. /\ wire[socket] \o new \in Seq(Seen)
      /\ Len(wire[socket] \o new) = Len(wire[socket]) + n
      /\ \A i \in 1..Len(wire[socket]) : (wire[socket] \o new)[i] = wire[socket][i]
      /\ \A i \in 1..n : (wire[socket] \o new)[Len(wire[socket]) + i] = new[i]
  <2>1. wire[socket] \in Seq(Seen)
    BY <1>4
  <2>2. /\ wire[socket] \o new \in Seq(Seen)
        /\ Len(wire[socket] \o new) = Len(wire[socket]) + Len(new)
        /\ \A i \in 1..Len(wire[socket]) : (wire[socket] \o new)[i] = wire[socket][i]
        /\ \A i \in 1..Len(new) :
             (wire[socket] \o new)[Len(wire[socket]) + i] = new[i]
    <3>1. new \in Seq(Seen) /\ wire[socket] \in Seq(Seen)
      BY <1>3, <2>1
    <3>2. wire[socket] \o new \in Seq(Seen)
      BY ONLY <3>1
    <3>3. Len(wire[socket] \o new) = Len(wire[socket]) + Len(new)
      BY ONLY <3>1
    <3>4. \A i \in 1..Len(wire[socket]) : (wire[socket] \o new)[i] = wire[socket][i]
      BY ONLY <3>1
    <3>5. \A i \in 1..Len(new) :
            (wire[socket] \o new)[Len(wire[socket]) + i] = new[i]
      BY ONLY <3>1
    <3> QED  BY <3>2, <3>3, <3>4, <3>5
  <2> QED  BY <1>3, <2>2
<1>7. /\ wire'[socket] = wire[socket] \o new
      /\ \A other \in Sockets \ {socket} : wire'[other] = wire[other]
      /\ wire' \in [Sockets -> Seq(Seen)]
  BY <1>4, <1>5, <1>6
<1>8. \A other \in Sockets : Len(wire'[other]) <= SockUnits
  BY <1>4, <1>6, <1>7
<1> QED  BY <1>3, <1>6, <1>7, <1>8 DEF new
-----------------------------------------------------------------------------
(* The steps of fft_thread.                                                *)

LEMMA ReadFrameKeepsIInv ==
  ASSUME IInv, ReadFrame
  PROVE  IInv'
<1>1. /\ pcF = "read" /\ pcF' = "decompose" /\ frame < MaxFrames
      /\ frame' = frame + 1
      /\ temp_mat' = <<frame', "matrix">>
      /\ ps' = [ps EXCEPT ![3] = <<frame', "raw1">>, ![4] = <<frame', "raw2">>]
      /\ UNCHANGED <<sent, lwork, s, wire, open, pcG, got, shown, shut, buf, img, whole>>
  BY DEF ReadFrame, guiVars, spctrgmVars
<1>2. frame \in Nat /\ MaxFrames \in Nat /\ frame' \in 0..MaxFrames
  BY <1>1, DisplaysAssumption DEF IInv, TypeNow
<1>3. Seen \subseteq Seen' /\ Seq(Seen) \subseteq Seq(Seen')
  BY <1>1, <1>2, SeenGrows DEF Seen
<1>4. \A c \in Contents : <<frame', c>> \in Seen'
  BY <1>2 DEF Seen
<1>5. TypeNow'
  <2>1. temp_mat' \in Seen' /\ ps' \in [1..4 -> Seen']
    <3>1. {"matrix", "raw1", "raw2"} \subseteq Contents
      BY DEF Contents
    <3> QED  BY <1>1, <1>3, <1>4, <3>1 DEF IInv, TypeNow
  <2>2. /\ wire' \in [Sockets -> Seq(Seen')] /\ shown' \in [Vectors -> Seq(Seen')]
        /\ got' \in Seq(Seen')
    BY <1>1, <1>3 DEF IInv, TypeNow
  <2>3. buf' \in [1..4 -> Seen'] /\ img' \in [0..(Rows - 1) -> Seen'] /\ s' \in Seen'
    BY <1>1, <1>3 DEF IInv, TypeNow
  <2> QED  BY <1>1, <1>2, <2>1, <2>2, <2>3 DEF IInv, TypeNow
<1>6. Places'
  BY <1>1, <1>2 DEF IInv, Places
<1> QED  BY <1>5, <1>6 DEF IInv

LEMMA DecomposeKeepsIInv ==
  ASSUME IInv, Decompose
  PROVE  IInv'
<1>1. /\ pcF = "decompose" /\ pcF' = "env"
      /\ s' = SingularValues(Decomposed) /\ temp_mat' = Leftover(Decomposed)
      /\ lwork' = Best /\ ps' = Zeroed
      /\ UNCHANGED <<frame, sent, wire, open, pcG, got, shown, shut, buf, img, whole>>
  BY DEF Decompose, guiVars, spctrgmVars
<1>2. frame \in Nat /\ Seen' = Seen /\ sent = 0
  BY <1>1 DEF IInv, TypeNow, Places, Seen
<1>3. TypeNow'
  <2>1. {"leftover", "svd", "svdLeftover", "none"} \subseteq Contents
    BY DEF Contents
  <2>2. temp_mat[1] \in 0..frame
    BY DEF IInv, TypeNow, Seen
  <2>3. s' \in Seen' /\ temp_mat' \in Seen'
    BY <1>1, <1>2, <2>1, <2>2 DEF SingularValues, Leftover, Decomposed, Seen
  <2>4. ps' \in [1..4 -> Seen']
    BY <1>1, <1>2, <2>1 DEF Zeroed, Seen
  <2> QED  BY <1>1, <1>2, <2>3, <2>4 DEF IInv, TypeNow, Sockets
<1>4. Places'
  BY <1>1, <1>2 DEF IInv, Places
<1> QED  BY <1>3, <1>4 DEF IInv

LEMMA FillKeepsIInv ==
  ASSUME IInv, Fill
  PROVE  IInv'
<1> DEFINE all == <<s, <<frame, "power">>, <<frame, "in1">>, <<frame, "in2">>>>
<1>1. /\ pcF = "fill" /\ pcF' \in {"gui", "read"}
      /\ ps' = all \/ ps' = [all EXCEPT ![2] = ps[2]]
      /\ UNCHANGED <<frame, sent, temp_mat, lwork, s, wire, open, pcG, got, shown, shut,
                     buf, img, whole>>
  BY DEF Fill, guiVars, spctrgmVars
<1>2. frame \in Nat /\ Seen' = Seen /\ sent = 0
  BY <1>1 DEF IInv, TypeNow, Places, Seen
<1>3. ps' \in [1..4 -> Seen]
  <2>1. {"power", "in1", "in2"} \subseteq Contents
    BY DEF Contents
  <2>2. <<frame, "power">> \in Seen /\ <<frame, "in1">> \in Seen /\ <<frame, "in2">> \in Seen
    BY <1>2, <2>1 DEF Seen
  <2>3. s \in Seen /\ ps[2] \in Seen
    BY DEF IInv, TypeNow
  <2>4. all \in [1..4 -> Seen]
    BY <2>2, <2>3
  <2>5. [all EXCEPT ![2] = ps[2]] \in [1..4 -> Seen]
    <3> HIDE DEF all
    <3> QED  BY <2>3, <2>4
  <2> QED  BY <1>1, <2>4, <2>5
<1>4. TypeNow'
  BY <1>1, <1>2, <1>3 DEF IInv, TypeNow, Sockets
<1>5. Places'
  BY <1>1, <1>2 DEF IInv, Places
<1> QED  BY <1>4, <1>5 DEF IInv

\* A record goes out on a socket.
LEMMA SendKeepsIInv ==
  ASSUME IInv, NEW socket \in Sockets, NEW record \in Seq(Seen),
         NEW next \in {"fill", "spctrgm", "read"},
         Len(record) = IF socket = "env" THEN 2 ELSE 4,
         next = "spctrgm" => socket = "gui", next = "fill" => socket = "env",
         Send(socket, record, next), ps' \in [1..4 -> Seen],
         UNCHANGED <<frame, temp_mat, lwork, s>>
  PROVE  IInv'
<1>1. PICK n \in 1..(Len(record) - sent) :
        /\ Len(wire[socket]) + n <= SockUnits
        /\ wire' = [wire EXCEPT ![socket] = @ \o SubSeq(record, sent + 1, sent + n)]
        /\ IF sent + n = Len(record)
           THEN sent' = 0 /\ pcF' = next
           ELSE sent' = sent + n /\ UNCHANGED pcF
  BY DEF Send
<1>2. /\ pcF = socket
      /\ UNCHANGED <<open, pcG, got, shown, shut, buf, img, whole>>
  BY DEF Send, guiVars, spctrgmVars
<1>3. /\ frame \in Nat /\ frame >= 1 /\ Seen' = Seen /\ sent \in Nat /\ sent <= 3
      /\ Len(record) \in Nat /\ Len(record) <= 4 /\ (socket = "env" => Len(record) = 2)
  <2>1. frame \in Nat /\ sent \in Nat /\ sent <= 3 /\ frame >= 1
    BY <1>2 DEF IInv, TypeNow, Places, Sockets
  <2>2. Seen' = Seen
    BY DEF Seen
  <2>3. Len(record) \in {2, 4} /\ (socket = "env" => Len(record) = 2)
    OBVIOUS
  <2> QED  BY <2>1, <2>2, <2>3
<1>4. n \in Nat /\ n >= 1 /\ sent + n <= Len(record)
  BY <1>3
<1>5. /\ wire' \in [Sockets -> Seq(Seen)]
      /\ \A other \in Sockets : Len(wire'[other]) <= SockUnits
  BY <1>1, <1>4, SendAppends
<1>6. /\ sent' \in 0..3
      /\ pcF' \in {"fill", "env", "gui", "spctrgm", "read"}
      /\ pcF' \in {"read", "fill"} => sent' = 0
      /\ pcF' = "env" => sent' < 2
  <2>1. CASE sent + n = Len(record)
    BY <1>1, <2>1
  <2>2. CASE sent + n # Len(record)
    <3>1. sent' = sent + n /\ pcF' = socket
      BY <1>1, <1>2, <2>2
    <3> QED  BY <1>3, <1>4, <2>2, <3>1 DEF Sockets
  <2> QED  BY <2>1, <2>2
<1>7. TypeNow'
  BY <1>2, <1>3, <1>5, <1>6 DEF IInv, TypeNow, Sockets
<1>8. Places'
  BY <1>2, <1>3, <1>6 DEF IInv, Places
<1> QED  BY <1>7, <1>8 DEF IInv

LEMMA SendEnvelopeKeepsIInv ==
  ASSUME IInv, SendEnvelope
  PROVE  IInv'
<1>1. /\ Send("env", Envelope(frame), "fill") /\ pcF = "env"
      /\ UNCHANGED <<frame, temp_mat, lwork, s, ps>>
  BY DEF SendEnvelope, Send, analysis
<1>2. Envelope(frame) \in Seq(Seen) /\ Len(Envelope(frame)) = 2
  <2>1. frame \in Nat /\ {"env1", "env2"} \subseteq Contents
    BY DEF IInv, TypeNow, Contents
  <2>2. <<frame, "env1">> \in Seen /\ <<frame, "env2">> \in Seen
    BY <2>1 DEF Seen
  <2> QED  BY <2>2 DEF Envelope
<1>3. ps' \in [1..4 -> Seen] /\ "env" \in Sockets
  BY <1>1 DEF IInv, TypeNow, Sockets
<1> QED  BY <1>1, <1>2, <1>3, SendKeepsIInv

\* The record as a sequence.
LEMMA RecordIsASequence ==
  ASSUME IInv
  PROVE  ps \in Seq(Seen) /\ Len(ps) = 4
BY FourAreASequence DEF IInv, TypeNow

LEMMA SendToGuiKeepsIInv ==
  ASSUME IInv, SendToGui
  PROVE  IInv'
<1>1. Send("gui", ps, "spctrgm") /\ UNCHANGED <<frame, temp_mat, lwork, s, ps>>
  BY DEF SendToGui, analysis
<1>2. ps' \in [1..4 -> Seen]
  BY <1>1 DEF IInv, TypeNow
<1> QED  BY <1>1, <1>2, RecordIsASequence, SendKeepsIInv DEF Sockets

LEMMA SendToSpctrgmKeepsIInv ==
  ASSUME IInv, SendToSpctrgm
  PROVE  IInv'
<1>1. Send("spctrgm", ps, "read") /\ UNCHANGED <<frame, temp_mat, lwork, s>>
  BY DEF SendToSpctrgm
<1>2. ps' = ps \/ ps' = Zeroed
  BY DEF SendToSpctrgm
<1>3. ps \in [1..4 -> Seen] /\ frame \in Nat
  BY DEF IInv, TypeNow
<1>4. Zeroed \in [1..4 -> Seen]
  <2>1. "none" \in Contents
    BY DEF Contents
  <2> QED  BY <1>3, <2>1 DEF Zeroed, Seen
<1>5. ps' \in [1..4 -> Seen]
  BY <1>2, <1>3, <1>4
<1> QED  BY <1>1, <1>5, RecordIsASequence, SendKeepsIInv DEF Sockets

LEMMA ProcessEndsKeepsIInv ==
  ASSUME IInv, ProcessEnds
  PROVE  IInv'
<1>1. /\ open' = FALSE /\ open
      /\ UNCHANGED <<frame, pcF, sent, temp_mat, lwork, s, ps, wire, pcG, got, shown,
                     shut, buf, img, whole>>
  BY DEF ProcessEnds, fftVars, analysis, guiVars, spctrgmVars
<1>2. Seen' = Seen
  BY <1>1 DEF Seen
<1>3. TypeNow'
  BY <1>1, <1>2 DEF IInv, TypeNow
<1>4. Places'
  BY <1>1 DEF IInv, Places
<1> QED  BY <1>3, <1>4 DEF IInv
-----------------------------------------------------------------------------
(* The steps of the GUI and of the spectrogram thread.                     *)

LEMMA HandlerStartsKeepsIInv ==
  ASSUME IInv, HandlerStarts
  PROVE  IInv'
<1>1. /\ pcG = "loop" /\ pcG' \in {"envelope", "ps"}
      /\ UNCHANGED <<frame, pcF, sent, temp_mat, lwork, s, ps, wire, open, got, shown,
                     shut, buf, img, whole>>
  BY DEF HandlerStarts, fftVars, analysis, spctrgmVars
<1>2. Seen' = Seen /\ Len(got) = 0 /\ got' = got
  BY <1>1 DEF Seen, IInv, Places
<1>3. TypeNow'
  BY <1>1, <1>2 DEF IInv, TypeNow, Vectors
<1>4. Places'
  BY <1>1, <1>2 DEF IInv, Places, Wanted
<1> QED  BY <1>3, <1>4 DEF IInv

\* What a binread that gets something does to the socket and to its vector.
LEMMA BinReadTakes ==
  ASSUME IInv, NEW v \in Vectors, BinReadGets(v)
  PROVE  \E n \in 1..(Wanted[v] - Len(got)) :
           LET q == wire[SocketOf(v)]
               all == got \o SubSeq(q, 1, n)
           IN  /\ pcG = v /\ n <= Len(q)
               /\ all \in Seq(Seen) /\ Len(all) = Len(got) + n
               /\ wire' \in [Sockets -> Seq(Seen)]
               /\ \A other \in Sockets : Len(wire'[other]) <= SockUnits
               /\ wire'[SocketOf(v)] = SubSeq(q, n + 1, Len(q))
               /\ \A other \in Sockets \ {SocketOf(v)} : wire'[other] = wire[other]
               /\ \/ /\ n = Wanted[v] - Len(got)
                     /\ shown' \in [Vectors -> Seq(Seen)] /\ shown'[v] = all
                     /\ \A w \in Vectors \ {v} : shown'[w] = shown[w]
                     /\ got' = <<>> /\ pcG' = NextVector[v]
                  \/ /\ n < Wanted[v] - Len(got)
                     /\ got' = all /\ UNCHANGED <<shown, pcG>>
               /\ UNCHANGED <<frame, pcF, sent, temp_mat, lwork, s, ps, open, shut, buf,
                              img, whole>>
<1> DEFINE socket == SocketOf(v)
           q == wire[socket]
           missing == Wanted[v] - Len(got)
           n == IF Len(q) < missing THEN Len(q) ELSE missing
           head == SubSeq(q, 1, n)
           rest == SubSeq(q, n + 1, Len(q))
           all == got \o head
<1>1. /\ pcG = v /\ n > 0
      /\ wire' = [wire EXCEPT ![socket] = rest]
      /\ IF n = missing
         THEN shown' = [shown EXCEPT ![v] = all] /\ got' = <<>> /\ pcG' = NextVector[v]
         ELSE got' = all /\ UNCHANGED <<shown, pcG>>
      /\ UNCHANGED <<frame, pcF, sent, temp_mat, lwork, s, ps, open, shut, buf, img, whole>>
  <2>1. wire' = [wire EXCEPT ![socket] = rest]
    BY DEF BinReadGets
  <2> QED  BY <2>1 DEF BinReadGets, fftVars, analysis, spctrgmVars
<1>2. /\ socket \in Sockets
      /\ q \in Seq(Seen) /\ Len(q) <= SockUnits
      /\ got \in Seq(Seen) /\ Len(got) < Wanted[v] /\ Wanted[v] \in Nat
  <2>1. socket \in Sockets /\ Wanted[v] \in Nat
    BY DEF SocketOf, Sockets, Vectors, Wanted
  <2> QED  BY <1>1, <2>1 DEF IInv, TypeNow, Places
<1> HIDE DEF q
<1>3. Len(q) \in Nat /\ Len(got) \in Nat
  BY <1>2, LenProperties
<1>4. missing \in Nat /\ missing = Wanted[v] - Len(got) /\ missing > 0
  BY <1>2, <1>3
<1> HIDE DEF missing
<1>5. (n = Len(q) /\ n < missing) \/ (n = missing /\ missing <= Len(q))
  BY <1>3, <1>4
<1> HIDE DEF n
<1>6. n \in 1..(Wanted[v] - Len(got)) /\ n <= Len(q) /\ n \in 0..Len(q)
  BY <1>1, <1>3, <1>4, <1>5
<1>7. head \in Seq(Seen) /\ Len(head) = n
  BY <1>2, <1>6, HeadPiece
<1>8. rest \in Seq(Seen) /\ Len(rest) = Len(q) - n
  BY <1>2, <1>6, TailPiece
<1> HIDE DEF head, rest
<1>9. all \in Seq(Seen) /\ Len(all) = Len(got) + n
  <2>1. got \in Seq(Seen) /\ head \in Seq(Seen)
    BY <1>2, <1>7
  <2>2. all \in Seq(Seen) /\ Len(all) = Len(got) + Len(head)
    BY ONLY <2>1, Joined
  <2> QED  BY <1>7, <2>2
<1> HIDE DEF all
<1>10. /\ wire' \in [Sockets -> Seq(Seen)]
       /\ \A other \in Sockets : Len(wire'[other]) <= SockUnits
       /\ wire'[socket] = rest
       /\ \A other \in Sockets \ {socket} : wire'[other] = wire[other]
  <2>1. wire \in [Sockets -> Seq(Seen)] /\ \A other \in Sockets : Len(wire[other]) <= SockUnits
    BY DEF IInv, TypeNow
  <2>2. Len(rest) <= SockUnits
    BY <1>2, <1>3, <1>6, <1>8, DisplaysAssumption
  <2> QED  BY <1>1, <1>2, <1>8, <2>1, <2>2
<1>11. \/ /\ n = missing
          /\ shown' \in [Vectors -> Seq(Seen)] /\ shown'[v] = all
          /\ \A w \in Vectors \ {v} : shown'[w] = shown[w]
          /\ got' = <<>> /\ pcG' = NextVector[v]
       \/ n < missing /\ got' = all /\ UNCHANGED <<shown, pcG>>
  <2>1. shown \in [Vectors -> Seq(Seen)]
    BY DEF IInv, TypeNow
  <2>2. n = missing \/ n < missing
    BY <1>5
  <2> QED  BY <1>1, <1>4, <1>5, <1>9, <2>1, <2>2
<1> QED
  BY <1>1, <1>4, <1>6, <1>9, <1>10, <1>11 DEF all, head, rest, q

LEMMA BinReadGetsKeepsIInv ==
  ASSUME IInv, NEW v \in Vectors, BinReadGets(v)
  PROVE  IInv'
<1>1. PICK n \in 1..(Wanted[v] - Len(got)), all \in Seq(Seen) :
        /\ pcG = v /\ Len(all) = Len(got) + n
        /\ wire' \in [Sockets -> Seq(Seen)]
        /\ \A other \in Sockets : Len(wire'[other]) <= SockUnits
        /\ \/ /\ n = Wanted[v] - Len(got)
              /\ shown' \in [Vectors -> Seq(Seen)] /\ shown'[v] = all
              /\ \A w \in Vectors \ {v} : shown'[w] = shown[w]
              /\ got' = <<>> /\ pcG' = NextVector[v]
           \/ /\ n < Wanted[v] - Len(got)
              /\ got' = all /\ UNCHANGED <<shown, pcG>>
        /\ UNCHANGED <<frame, pcF, sent, temp_mat, lwork, s, ps, open, shut, buf, img, whole>>
  BY BinReadTakes
<1>2. /\ Seen' = Seen /\ NextVector[v] \in Vectors \cup {"loop"} /\ v # "loop"
      /\ Wanted[v] \in Nat /\ \A w \in Vectors : 0 < Wanted[w]
  BY <1>1 DEF Seen, NextVector, Vectors, Wanted
<1>3. Len(got) \in Nat /\ \A w \in Vectors : Len(shown[w]) = Wanted[w]
  BY DEF IInv, TypeNow, Places
<1>4. CASE n = Wanted[v] - Len(got)
  <2>1. /\ shown' \in [Vectors -> Seq(Seen)] /\ shown'[v] = all
        /\ \A w \in Vectors \ {v} : shown'[w] = shown[w]
        /\ got' = <<>> /\ pcG' = NextVector[v]
    BY <1>1, <1>2, <1>3, <1>4
  <2>2. \A w \in Vectors : Len(shown'[w]) = Wanted[w]
    <3>1. Len(all) = Len(got) + n
      BY <1>1
    <3>2. Len(all) = Wanted[v]
      BY ONLY <1>2, <1>3, <1>4, <3>1
    <3> QED  BY <1>3, <2>1, <3>2
  <2>3. got' \in Seq(Seen') /\ Len(got') = 0
    BY <2>1
  <2>4. TypeNow'
    BY <1>1, <1>2, <2>1, <2>3 DEF IInv, TypeNow
  <2>5. Places'
    BY <1>1, <1>2, <2>1, <2>2, <2>3 DEF IInv, Places
  <2> QED  BY <2>4, <2>5 DEF IInv
<1>5. CASE n # Wanted[v] - Len(got)
  <2>1. n < Wanted[v] - Len(got) /\ got' = all /\ shown' = shown /\ pcG' = pcG
    BY <1>1, <1>5
  <2>2. TypeNow'
    BY <1>1, <1>2, <2>1 DEF IInv, TypeNow
  <2>3. Len(got') < Wanted[v]
    BY <1>1, <1>2, <1>3, <2>1
  <2>4. Places'
    BY <1>1, <1>2, <2>1, <2>3 DEF IInv, Places
  <2> QED  BY <2>2, <2>4 DEF IInv
<1> QED  BY <1>4, <1>5

LEMMA BinReadEndsKeepsIInv ==
  ASSUME IInv, NEW v \in Vectors, BinReadEnds(v)
  PROVE  IInv'
<1> DEFINE socket == SocketOf(v)
           kept == SubSeq(shown[v], Len(got) + 1, Len(shown[v]))
           all == got \o kept
<1>1. /\ pcG = v /\ ~open /\ wire[socket] = <<>> /\ got' = <<>>
      /\ IF got = <<>>
         THEN shut' = shut \cup {socket} /\ pcG' = "loop" /\ UNCHANGED shown
         ELSE /\ shown' = [shown EXCEPT ![v] = all]
              /\ pcG' = NextVector[v]
              /\ UNCHANGED shut
      /\ UNCHANGED <<frame, pcF, sent, temp_mat, lwork, s, ps, wire, open, buf, img, whole>>
  <2>1. got # <<>> => shown' = [shown EXCEPT ![v] = all]
    BY DEF BinReadEnds
  <2> QED  BY <2>1 DEF BinReadEnds, fftVars, analysis, spctrgmVars
<1>2. /\ Seen' = Seen /\ socket \in {"env", "gui"}
      /\ got \in Seq(Seen) /\ Len(got) < Wanted[v] /\ Wanted[v] \in Nat
      /\ shown \in [Vectors -> Seq(Seen)]
      /\ \A w \in Vectors : Len(shown[w]) = Wanted[w]
  <2>1. Seen' = Seen /\ socket \in {"env", "gui"} /\ Wanted[v] \in Nat
    BY <1>1 DEF Seen, SocketOf, Vectors, Wanted
  <2> QED  BY <1>1, <2>1 DEF IInv, TypeNow, Places
<1>3. Len(got) \in Nat /\ Len(got') = 0 /\ got' \in Seq(Seen')
  BY <1>1, <1>2, LenProperties
<1>4. NextVector[v] \in Vectors \cup {"loop"} /\ NextVector[v] # "envelope"
  BY DEF NextVector, Vectors
<1>5. \A w \in Vectors : 0 < Wanted[w]
  BY DEF Vectors, Wanted
<1>7. CASE got = <<>>
  <2>1. shut' \subseteq {"env", "gui"} /\ pcG' = "loop" /\ shown' = shown
    BY <1>1, <1>2, <1>7 DEF IInv, TypeNow
  <2>2. TypeNow'
    BY <1>1, <1>2, <1>3, <2>1 DEF IInv, TypeNow
  <2>3. Places'
    BY <1>1, <1>2, <1>3, <2>1 DEF IInv, Places, Vectors
  <2> QED  BY <2>2, <2>3 DEF IInv
<1>8. CASE got # <<>>
  <2>1. Len(got) \in 0..Len(shown[v]) /\ shown[v] \in Seq(Seen) /\ Len(shown[v]) = Wanted[v]
    BY <1>2, <1>3
  <2>2. kept \in Seq(Seen) /\ Len(kept) = Wanted[v] - Len(got)
    BY <2>1, TailPiece
  <2> HIDE DEF kept
  <2>3. /\ all \in Seq(Seen) /\ Len(all) = Len(got) + Len(kept)
        /\ \A i \in 1..Len(got) : all[i] = got[i]
    <3>1. got \in Seq(Seen) /\ kept \in Seq(Seen)
      BY <1>2, <2>2
    <3> QED  BY ONLY <3>1, Joined
  <2>4. Len(all) = Wanted[v]
    BY <1>2, <1>3, <2>2, <2>3
  <2> HIDE DEF all
  <2>5. /\ shown' \in [Vectors -> Seq(Seen)] /\ shown'[v] = all
        /\ \A w \in Vectors \ {v} : shown'[w] = shown[w]
        /\ pcG' = NextVector[v] /\ shut' = shut
    BY <1>1, <1>2, <1>8, <2>3
  <2>6. TypeNow'
    BY <1>1, <1>2, <1>3, <1>4, <2>5 DEF IInv, TypeNow
  <2>7. Places'
    <3>1. \A w \in Vectors : Len(shown'[w]) = Wanted[w]
      BY <1>2, <2>4, <2>5
    <3> QED  BY <1>1, <1>3, <1>5, <3>1 DEF IInv, Places
  <2> QED  BY <2>6, <2>7 DEF IInv
<1> QED  BY <1>7, <1>8

LEMMA WaterfallKeepsIInv ==
  ASSUME IInv, Waterfall
  PROVE  IInv'
<1> DEFINE q == wire["spctrgm"]
           n == IF Len(q) < 4 THEN Len(q) ELSE 4
           top == SubSeq(q, 1, n)
           rest == SubSeq(buf, n + 1, 4)
<1>1. /\ q # <<>>
      /\ buf' = top \o rest
      /\ wire' = [wire EXCEPT !["spctrgm"] = SubSeq(q, n + 1, Len(q))]
      /\ whole' = (whole /\ n = 4)
      /\ img' = [r \in 0..(Rows - 1) |->
                   IF r < Filled THEN buf'[Drawn] ELSE img[r - Scrolled]]
      /\ UNCHANGED <<frame, pcF, sent, temp_mat, lwork, s, ps, open, pcG, got, shown, shut>>
  BY DEF Waterfall, fftVars, analysis, guiVars
<1>2. /\ Seen' = Seen /\ "spctrgm" \in Sockets /\ "env" \in Sockets
      /\ q \in Seq(Seen) /\ Len(q) <= SockUnits
      /\ buf \in Seq(Seen) /\ Len(buf) = 4
  BY <1>1, FourAreASequence DEF IInv, TypeNow, Seen, Sockets
<1> HIDE DEF q
<1>a. Len(q) \in Nat
  BY <1>2, LenProperties
<1>b. (n = Len(q) /\ Len(q) < 4) \/ (n = 4 /\ 4 <= Len(q))
  BY <1>a
<1> HIDE DEF n
<1>3. n \in 0..4 /\ n \in 0..Len(q) /\ n <= Len(q)
  <2>1. CASE n = Len(q) /\ Len(q) < 4
    BY ONLY <1>a, <2>1
  <2>2. CASE n = 4 /\ 4 <= Len(q)
    BY ONLY <1>a, <2>2
  <2> QED  BY <1>b, <2>1, <2>2
<1> HIDE DEF n
<1>4. top \in Seq(Seen) /\ Len(top) = n
  BY <1>2, <1>3, HeadPiece
<1>5. rest \in Seq(Seen) /\ Len(rest) = 4 - n
  <2>1. n \in 0..Len(buf) /\ buf \in Seq(Seen) /\ Len(buf) = 4
    BY <1>2, <1>3
  <2>2. /\ SubSeq(buf, n + 1, Len(buf)) \in Seq(Seen)
        /\ Len(SubSeq(buf, n + 1, Len(buf))) = Len(buf) - n
    BY ONLY <2>1, TailPiece
  <2> QED  BY <2>1, <2>2
<1> HIDE DEF top, rest
<1>6. buf' \in [1..4 -> Seen]
  <2>1. top \o rest \in Seq(Seen) /\ Len(top \o rest) = 4
    BY <1>3, <1>4, <1>5
  <2> QED  BY <1>1, <2>1, LenProperties
<1>7. img' \in [0..(Rows - 1) -> Seen]
  <2>1. buf'[Drawn] \in Seen
    BY <1>6 DEF Drawn
  <2>2. \A r \in 0..(Rows - 1) : ~(r < Filled) => img[r - Scrolled] \in Seen
    BY DisplaysAssumption DEF IInv, TypeNow, Filled, Scrolled
  <2> QED  BY <1>1, <2>1, <2>2
<1>8. /\ wire' \in [Sockets -> Seq(Seen)]
      /\ \A socket \in Sockets : Len(wire'[socket]) <= SockUnits
      /\ wire'["env"] = wire["env"]
  <2>1. SubSeq(q, n + 1, Len(q)) \in Seq(Seen) /\ Len(SubSeq(q, n + 1, Len(q))) = Len(q) - n
    BY <1>2, <1>3, TailPiece
  <2>2. wire \in [Sockets -> Seq(Seen)] /\ \A socket \in Sockets : Len(wire[socket]) <= SockUnits
    BY DEF IInv, TypeNow
  <2>3. Len(q) - n <= SockUnits
    BY <1>2, <1>3, <1>a, DisplaysAssumption
  <2> QED  BY <1>1, <1>2, <2>1, <2>2, <2>3
<1>9. whole' \in BOOLEAN
  BY <1>1
<1>10. TypeNow'
  BY <1>1, <1>2, <1>6, <1>7, <1>8, <1>9 DEF IInv, TypeNow
<1>11. Places'
  BY <1>1 DEF IInv, Places
<1> QED  BY <1>10, <1>11 DEF IInv
-----------------------------------------------------------------------------
LEMMA NextKeepsIInv ==
  ASSUME IInv, [Next]_vars
  PROVE  IInv'
<1>1. CASE ReadFrame
  BY <1>1, ReadFrameKeepsIInv
<1>2. CASE Decompose
  BY <1>2, DecomposeKeepsIInv
<1>3. CASE SendEnvelope
  BY <1>3, SendEnvelopeKeepsIInv
<1>4. CASE Fill
  BY <1>4, FillKeepsIInv
<1>5. CASE SendToGui
  BY <1>5, SendToGuiKeepsIInv
<1>6. CASE SendToSpctrgm
  BY <1>6, SendToSpctrgmKeepsIInv
<1>7. CASE ProcessEnds
  BY <1>7, ProcessEndsKeepsIInv
<1>8. CASE HandlerStarts
  BY <1>8, HandlerStartsKeepsIInv
<1>9. ASSUME NEW v \in Vectors, BinReadGets(v)
      PROVE  IInv'
  BY <1>9, BinReadGetsKeepsIInv
<1>10. ASSUME NEW v \in Vectors, BinReadEnds(v)
       PROVE  IInv'
  BY <1>10, BinReadEndsKeepsIInv
<1>11. CASE Waterfall
  BY <1>11, WaterfallKeepsIInv
<1>12. CASE UNCHANGED vars
  <2>1. UNCHANGED <<frame, pcF, sent, temp_mat, lwork, s, ps, wire, open, pcG, got, shown,
                    shut, buf, img, whole>>
    BY <1>12 DEF vars, fftVars, analysis, guiVars, spctrgmVars
  <2>2. Seen' = Seen
    BY <2>1 DEF Seen
  <2>3. TypeNow' /\ Places'
    BY <2>1, <2>2 DEF IInv, TypeNow, Places
  <2> QED  BY <2>3 DEF IInv
<1> QED
  BY <1>1, <1>2, <1>3, <1>4, <1>5, <1>6, <1>7, <1>8, <1>9, <1>10, <1>11, <1>12
  DEF Next, Fft, Gui, BinRead, Over

LEMMA Invariant == Safety => []IInv
<1>1. Init => IInv
  BY InitEstablishesIInv
<1>2. IInv /\ [Next]_vars => IInv'
  BY NextKeepsIInv
<1> QED  BY <1>1, <1>2, PTL DEF Safety

\* All variables stay what they are declared to be; above all the sockets hold
\* no more than they can and a read never has more than half a vector pending
\* (fft_thread.c:428-535, env_display.tcl:44-58).
THEOREM TypeCorrect == Safety => []TypeOK
<1>1. ASSUME IInv
      PROVE  TypeOK
  <2>1. frame \in Nat /\ frame <= MaxFrames /\ MaxFrames \in Nat
    BY <1>1, DisplaysAssumption DEF IInv, TypeNow
  <2>2. Seen \subseteq Unit /\ Seq(Seen) \subseteq Seq(Unit)
    <3>1. Seq((0..frame) \X Contents) \subseteq Seq((0..MaxFrames) \X Contents)
      BY <2>1, SeenGrows
    <3> QED  BY <2>1, <3>1 DEF Seen, Unit
  <2>3. ps \in Seq(Unit) /\ Len(ps) = 4 /\ buf \in Seq(Unit) /\ Len(buf) = 4
    <3>1. ps \in [1..4 -> Unit] /\ buf \in [1..4 -> Unit]
      BY <1>1, <2>2 DEF IInv, TypeNow
    <3> QED  BY <3>1, FourAreASequence
  <2>4. got \in Seq(Unit) /\ Len(got) <= 1
    <3>1. got \in Seq(Unit) /\ Len(got) \in Nat
      BY <1>1, <2>2 DEF IInv, TypeNow
    <3>2. Len(got) < 2
      BY <1>1 DEF IInv, TypeNow, Places, Vectors, Wanted
    <3> QED  BY <3>1, <3>2
  <2>5. wire \in [Sockets -> Seq(Unit)] /\ shown \in [Vectors -> Seq(Unit)]
    BY <1>1, <2>2 DEF IInv, TypeNow
  <2>6. temp_mat \in Unit /\ s \in Unit /\ img \in [0..(Rows - 1) -> Unit]
    BY <1>1, <2>2 DEF IInv, TypeNow
  <2> QED  BY <1>1, <2>3, <2>4, <2>5, <2>6 DEF IInv, TypeNow, TypeOK
<1> QED  BY <1>1, Invariant, PTL

=============================================================================
