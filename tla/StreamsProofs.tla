---------------------------- MODULE StreamsProofs ----------------------------
(***************************************************************************)
(* Theorems about what goes through the sockets of Displays and ends up on *)
(* the screen: the records stay whole and in order however write, binread  *)
(* and read are split.                                                     *)
(*                                                                         *)
(* For each socket the invariant is about one line of units: what its      *)
(* reader has taken of the record it is in, what waits in the socket, and  *)
(* what is left to write of the record fft_thread is in.  A write and a    *)
(* read only move the boundaries; the line grows by a whole record when    *)
(* one is filled and shrinks by a whole one when it is shown.              *)
(***************************************************************************)
EXTENDS DisplaysProofs

Units == Nat \X Contents

\* The socket of the envelope, and the frames whose envelope is or was written.
EnvRead == IF pcG = "envelope" THEN got ELSE <<>>
EnvLeft == IF pcF = "env" THEN SubSeq(Envelope(frame), sent + 1, 2) ELSE <<>>
EnvLine == EnvRead \o (wire["env"] \o EnvLeft)
Enveloped == IF pcF = "decompose" THEN frame - 1 ELSE frame
EnvShown == shown["envelope"][1][1]

\* The halves of the envelopes from that of frame a + 1 to that of frame b.
Halves(q, a, b) ==
  /\ a <= b /\ Len(q) = 2 * (b - a)
  /\ \A i \in 1..Len(q) :
       q[i] = <<a + (i + 1) \div 2, IF i % 2 = 1 THEN "env1" ELSE "env2">>

\* The end of file may leave an odd half on the screen.
EnvStream ==
  \/ /\ Halves(EnvLine, EnvShown, Enveloped)
     /\ EnvShown = 0 \/ shown["envelope"] = Envelope(EnvShown)
  \/ ~open /\ wire["env"] = <<>> /\ EnvRead = <<>> /\ EnvShown = Enveloped

\* The frames whose record is filled, or was passed over.
Recorded == IF pcF \in {"decompose", "env", "fill"} THEN frame - 1 ELSE frame

\* Records of ever later frames, after frame a and not after frame b.
RecordAt(q, i) == <<q[i], q[i + 1], q[i + 2], q[i + 3]>>
Cut(q, a, b) ==
  /\ Len(q) % 4 = 0
  /\ \A i \in 1..Len(q) :
       i % 4 = 1 =>
         /\ RecordAt(q, i) \in Records(q[i][1])
         /\ a < q[i][1] /\ q[i][1] <= b
         /\ \A j \in 1..Len(q) : j % 4 = 1 /\ i < j => q[i][1] < q[j][1]

\* What the GUI has read of a record: whole vectors, and the unfinished one.
GuiBase ==
  IF pcG = "svd" THEN shown["ps"]
  ELSE IF pcG = "ts" THEN shown["ps"] \o shown["svd"] ELSE <<>>
GuiGot == IF pcG \in {"ps", "svd", "ts"} THEN got ELSE <<>>
GuiLeft == IF pcF = "gui" THEN SubSeq(ps, sent + 1, 4) ELSE <<>>
GuiLine == (GuiBase \o GuiGot) \o (wire["gui"] \o GuiLeft)
GuiShown == shown["ts"][1][1]
Graphs == (shown["ps"] \o shown["svd"]) \o shown["ts"]

\* After an end of file in the middle of a record nothing more is shown.
GuiStream ==
  /\ GuiShown <= Recorded
  /\ \/ /\ Cut(GuiLine, GuiShown, Recorded)
        /\ pcG \notin {"svd", "ts"} => GuiShown = 0 \/ Graphs \in Records(GuiShown)
     \/ ~open /\ wire["gui"] = <<>> /\ pcG \notin {"svd", "ts"}

\* The spectrogram thread reads a record at a time, or whole is lost.
SpctrgmLeft ==
  IF pcF = "gui" THEN ps
  ELSE IF pcF = "spctrgm" THEN SubSeq(ps, sent + 1, 4) ELSE <<>>
SpctrgmLine == wire["spctrgm"] \o SpctrgmLeft
SpctrgmStream ==
  whole => img[0][1] <= Recorded /\ Cut(SpctrgmLine, img[0][1], Recorded)

\* What is made of the frame at hand.
AtHand ==
  /\ pcF = "decompose" => temp_mat[1] = frame
  /\ pcF \in {"env", "fill"} => s \in {<<frame, "svd">>, <<frame, "svdLeftover">>}
  /\ pcF \in {"gui", "spctrgm"} => ps \in Records(frame)

Streams == AtHand /\ EnvStream /\ GuiStream /\ SpctrgmStream /\ WaterfallIsHistory
-----------------------------------------------------------------------------
(* Sequences.                                                              *)

LEMMA Associative ==
  ASSUME NEW a \in Seq(Units), NEW b \in Seq(Units), NEW c \in Seq(Units)
  PROVE  (a \o b) \o c = a \o (b \o c)
BY ConcatAssociative

LEMMA AssociativeSeen ==
  ASSUME NEW a \in Seq(Seen), NEW b \in Seq(Seen), NEW c \in Seq(Seen)
  PROVE  (a \o b) \o c = a \o (b \o c)
BY ConcatAssociative

\* A sequence is made of its first n units and the others.
LEMMA HeadAndRest ==
  ASSUME NEW S, NEW w \in Seq(S), NEW n \in 0..Len(w)
  PROVE  w = SubSeq(w, 1, n) \o SubSeq(w, n + 1, Len(w))
<1>1. Len(w) \in Nat
  BY LenProperties
<1>2. 1 \in 1..(Len(w) + 1) /\ n \in (1 - 1)..Len(w) /\ Len(w) \in n..Len(w)
  BY <1>1
<1>3. SubSeq(w, 1, n) \o SubSeq(w, n + 1, Len(w)) = SubSeq(w, 1, Len(w))
  BY <1>2, ConcatAdjacentSubSeq
<1> QED  BY <1>3, SubSeqFull
-----------------------------------------------------------------------------
(* Lines of records.                                                       *)

\* A record is its four units.
LEMMA RecordUnits ==
  ASSUME NEW k \in Nat, NEW r \in Records(k)
  PROVE  /\ r \in Seq(Units) /\ Len(r) = 4
         /\ r[1][1] = k /\ r[2] = <<k, "power">> /\ r[3][1] = k /\ RecordAt(r, 1) = r
<1>1. {"svd", "svdLeftover", "power", "in1", "in2"} \subseteq Contents
  BY DEF Contents
<1>2. PICK values \in {<<k, "svd">>, <<k, "svdLeftover">>} :
        r = <<values, <<k, "power">>, <<k, "in1">>, <<k, "in2">>>>
  BY DEF Records
<1>3. /\ values \in Units /\ <<k, "power">> \in Units /\ <<k, "in1">> \in Units
      /\ <<k, "in2">> \in Units /\ values[1] = k
  BY <1>1 DEF Units
<1> QED  BY <1>2, <1>3 DEF RecordAt

\* The line from which the first record is taken.
LEMMA CutDrop ==
  ASSUME NEW q \in Seq(Units), NEW t \in Seq(Units), NEW a \in Nat, NEW b \in Nat,
         Len(q) = 4, Cut(q \o t, a, b)
  PROVE  /\ q[1][1] \in Nat /\ a < q[1][1] /\ q[1][1] <= b
         /\ q \in Records(q[1][1])
         /\ Cut(t, q[1][1], b)
<1> DEFINE l == q \o t
<1>1. /\ Len(t) \in Nat /\ Len(l) = 4 + Len(t)
      /\ \A i \in 1..4 : l[i] = q[i]
      /\ \A i \in 1..Len(t) : l[4 + i] = t[i]
  <2>1. /\ Len(l) = Len(q) + Len(t)
        /\ \A i \in 1..Len(q) : l[i] = q[i]
        /\ \A i \in 1..Len(t) : l[Len(q) + i] = t[i]
    <3>1. q \in Seq(Units) /\ t \in Seq(Units)
      OBVIOUS
    <3> QED  BY ONLY <3>1, Joined
  <2> QED  BY <2>1, LenProperties
<1>2. Cut(l, a, b)
  OBVIOUS
<1> HIDE DEF l
<1>3. /\ RecordAt(l, 1) \in Records(l[1][1]) /\ a < l[1][1] /\ l[1][1] <= b
      /\ \A j \in 1..Len(l) : j % 4 = 1 /\ 1 < j => l[1][1] < l[j][1]
  <2>1. 1 \in 1..Len(l) /\ 1 % 4 = 1
    BY <1>1
  <2> QED  BY <1>2, <2>1 DEF Cut
<1>4. q[1] = l[1] /\ q[1] \in Units
  <2>1. 1 \in 1..4 /\ 1 \in 1..Len(q)
    BY Len(q) = 4
  <2>2. q[1] \in Units
    BY <2>1, ElementOfSeq
  <2> QED  BY <1>1, <2>1, <2>2
<1>5. q = RecordAt(l, 1)
  <2>1. q = <<q[1], q[2], q[3], q[4]>>
    BY Len(q) = 4
  <2> QED  BY <1>1, <2>1 DEF RecordAt
<1>6. Len(t) % 4 = 0
  <2>1. Len(l) % 4 = 0
    BY <1>2 DEF Cut
  <2> DEFINE m == Len(t)
  <2>2. m \in Nat /\ (4 + m) % 4 = 0
    BY <1>1, <2>1
  <2> HIDE DEF m
  <2>3. m % 4 = 0
    BY <2>2
  <2> QED  BY <2>3 DEF m
<1>7. ASSUME NEW i \in 1..Len(t), i % 4 = 1
      PROVE  /\ RecordAt(t, i) \in Records(t[i][1])
             /\ q[1][1] < t[i][1] /\ t[i][1] <= b
             /\ \A j \in 1..Len(t) : j % 4 = 1 /\ i < j => t[i][1] < t[j][1]
  <2>1. 4 + i \in 1..Len(l) /\ (4 + i) % 4 = 1 /\ 1 < 4 + i
    BY <1>1, <1>7
  <2>2. /\ RecordAt(l, 4 + i) \in Records(l[4 + i][1]) /\ l[4 + i][1] <= b
        /\ \A j \in 1..Len(l) : j % 4 = 1 /\ 4 + i < j => l[4 + i][1] < l[j][1]
    BY <1>2, <2>1 DEF Cut
  <2>3. l[4 + i] = t[i] /\ l[1][1] < l[4 + i][1]
    BY <1>1, <1>3, <2>1
  <2>4. RecordAt(t, i) = RecordAt(l, 4 + i)
    <3>1. i + 3 <= Len(t)
      <4> DEFINE m == Len(t)
      <4>1. m \in Nat /\ m % 4 = 0 /\ i \in 1..m /\ i % 4 = 1
        BY <1>1, <1>6, <1>7
      <4> HIDE DEF m
      <4>2. i + 3 <= m
        BY ONLY <4>1
      <4> QED  BY <4>2 DEF m
    <3>2. /\ i + 1 \in 1..Len(t) /\ i + 2 \in 1..Len(t) /\ i + 3 \in 1..Len(t)
          /\ 4 + (i + 1) = 4 + i + 1 /\ 4 + (i + 2) = 4 + i + 2 /\ 4 + (i + 3) = 4 + i + 3
      BY <1>1, <3>1
    <3>3. l[4 + i + 1] = t[i + 1] /\ l[4 + i + 2] = t[i + 2] /\ l[4 + i + 3] = t[i + 3]
      <4>1. \A k \in 1..Len(t) : l[4 + k] = t[k]
        BY ONLY <1>1
      <4>2. l[4 + (i + 1)] = t[i + 1] /\ l[4 + (i + 2)] = t[i + 2] /\ l[4 + (i + 3)] = t[i + 3]
        BY ONLY <3>2, <4>1, Zenon
      <4> QED  BY ONLY <3>2, <4>2, Zenon
    <3>4. l[4 + i] = t[i]
      BY ONLY <2>3
    <3> QED  BY ONLY <3>3, <3>4 DEF RecordAt
  <2>5. ASSUME NEW j \in 1..Len(t), j % 4 = 1, i < j
        PROVE  t[i][1] < t[j][1]
    <3>1. 4 + j \in 1..Len(l) /\ (4 + j) % 4 = 1 /\ 4 + i < 4 + j
      BY <1>1, <2>5
    <3>2. l[4 + j] = t[j]
      BY <1>1
    <3> QED  BY <2>2, <2>3, <3>1, <3>2
  <2> QED  BY <1>4, <2>2, <2>3, <2>4, <2>5
<1>8. Cut(t, q[1][1], b)
  BY <1>6, <1>7 DEF Cut
<1> QED  BY <1>3, <1>4, <1>5, <1>8 DEF Units

\* The line to which a record is added.
LEMMA CutAppend ==
  ASSUME NEW q \in Seq(Units), NEW k \in Nat, NEW r \in Records(k),
         NEW a \in Nat, NEW b \in Nat, a <= b, b < k, Cut(q, a, b)
  PROVE  Cut(q \o r, a, k)
<1> DEFINE l == q \o r
           n == Len(q)
<1>1. /\ n \in Nat /\ Len(l) = n + 4
      /\ \A i \in 1..n : l[i] = q[i]
      /\ \A i \in 1..4 : l[n + i] = r[i]
  <2>1. r \in Seq(Units) /\ Len(r) = 4
    BY RecordUnits
  <2>2. /\ Len(l) = Len(q) + Len(r)
        /\ \A i \in 1..Len(q) : l[i] = q[i]
        /\ \A i \in 1..Len(r) : l[Len(q) + i] = r[i]
    <3>1. q \in Seq(Units) /\ r \in Seq(Units)
      BY <2>1
    <3> QED  BY ONLY <3>1, Joined
  <2> QED  BY <2>1, <2>2, LenProperties
<1>2. n % 4 = 0
  BY DEF Cut
<1>3. \A i \in 1..n : q[i][1] \in Nat
  BY DEF Units
<1> HIDE DEF l
<1>4. \A i \in 1..n :
        i % 4 = 1 =>
          /\ RecordAt(q, i) \in Records(q[i][1]) /\ a < q[i][1] /\ q[i][1] <= b
          /\ \A j \in 1..n : j % 4 = 1 /\ i < j => q[i][1] < q[j][1]
  BY DEF Cut
<1> HIDE DEF n
<1>5. RecordAt(l, n + 1) = r /\ l[n + 1][1] = k
  <2>1. r[1][1] = k /\ RecordAt(r, 1) = r
    BY RecordUnits
  <2>2. l[n + 1] = r[1] /\ l[n + 2] = r[2] /\ l[n + 3] = r[3] /\ l[n + 4] = r[4]
    BY <1>1
  <2>3. n + 1 + 1 = n + 2 /\ n + 1 + 2 = n + 3 /\ n + 1 + 3 = n + 4
    BY <1>1
  <2>4. RecordAt(r, 1) = <<r[1], r[2], r[3], r[4]>>
    BY DEF RecordAt
  <2> QED  BY <2>1, <2>2, <2>3, <2>4 DEF RecordAt
<1>6. \A i \in 1..(n + 4) : i % 4 = 1 => (i \in 1..n /\ i + 3 <= n) \/ i = n + 1
  BY <1>1, <1>2
<1>7. ASSUME NEW i \in 1..Len(l), i % 4 = 1
      PROVE  /\ RecordAt(l, i) \in Records(l[i][1])
             /\ a < l[i][1] /\ l[i][1] <= k
             /\ \A j \in 1..Len(l) : j % 4 = 1 /\ i < j => l[i][1] < l[j][1]
  <2>1. CASE i \in 1..n /\ i + 3 <= n
    <3>1. RecordAt(l, i) = RecordAt(q, i) /\ l[i] = q[i]
      <4>1. i + 1 \in 1..n /\ i + 2 \in 1..n /\ i + 3 \in 1..n
        BY <1>1, <2>1
      <4> QED  BY <1>1, <2>1, <4>1 DEF RecordAt
    <3>2. a < l[i][1] /\ l[i][1] < k /\ l[i][1] <= k
      BY <1>3, <1>4, <1>7, <2>1, <3>1
    <3>3. ASSUME NEW j \in 1..Len(l), j % 4 = 1, i < j
          PROVE  l[i][1] < l[j][1]
      <4>1. CASE j \in 1..n
        BY <1>1, <1>4, <1>7, <2>1, <3>1, <3>3, <4>1
      <4>2. CASE j = n + 1
        BY <1>5, <3>2, <4>2
      <4> QED  BY <1>1, <1>6, <3>3, <4>1, <4>2
    <3> QED  BY <1>4, <1>7, <2>1, <3>1, <3>2, <3>3
  <2>2. CASE i = n + 1
    <3>1. \A j \in 1..Len(l) : j % 4 = 1 => ~(i < j)
      BY <1>1, <1>6, <2>2
    <3> QED  BY <1>5, <2>2, <3>1
  <2> QED  BY <1>1, <1>6, <1>7, <2>1, <2>2
<1>8. Len(l) % 4 = 0
  BY <1>1, <1>2
<1>9. Cut(l, a, k)
  BY <1>7, <1>8 DEF Cut
<1> QED  BY <1>9 DEF l

\* A later bound.
LEMMA CutWiden ==
  ASSUME NEW q \in Seq(Units), NEW a, NEW b \in Nat, NEW c \in Nat, b <= c, Cut(q, a, b)
  PROVE  Cut(q, a, c)
<1>1. ASSUME NEW i \in 1..Len(q), i % 4 = 1
      PROVE  q[i][1] <= c
  <2>1. q[i][1] <= b /\ q[i][1] \in Nat
    <3>1. q[i][1] <= b
      BY <1>1 DEF Cut
    <3>2. q[i] \in Units
      BY ElementOfSeq
    <3> QED  BY <3>1, <3>2 DEF Units
  <2> DEFINE m == q[i][1]
  <2>2. m <= b /\ m \in Nat
    BY <2>1
  <2> HIDE DEF m
  <2>3. m <= c
    BY <2>2
  <2> QED  BY <2>3 DEF m
<1> QED  BY <1>1 DEF Cut
-----------------------------------------------------------------------------
(* Lines of envelopes.                                                     *)

LEMMA HalvesDrop ==
  ASSUME NEW q \in Seq(Units), NEW t \in Seq(Units), NEW a \in Nat, NEW b \in Nat,
         Len(q) = 2, Halves(q \o t, a, b)
  PROVE  q = Envelope(a + 1) /\ Halves(t, a + 1, b)
<1> DEFINE l == q \o t
           m == Len(t)
<1>1. /\ m \in Nat /\ Len(l) = 2 + m
      /\ \A i \in 1..2 : l[i] = q[i]
      /\ \A i \in 1..m : l[2 + i] = t[i]
  <2>1. /\ Len(l) = Len(q) + Len(t)
        /\ \A i \in 1..Len(q) : l[i] = q[i]
        /\ \A i \in 1..Len(t) : l[Len(q) + i] = t[i]
    <3>1. q \in Seq(Units) /\ t \in Seq(Units)
      OBVIOUS
    <3> QED  BY ONLY <3>1, Joined
  <2> QED  BY <2>1, LenProperties
<1>2. /\ a <= b /\ Len(l) = 2 * (b - a)
      /\ \A i \in 1..Len(l) :
           l[i] = <<a + (i + 1) \div 2, IF i % 2 = 1 THEN "env1" ELSE "env2">>
  BY DEF Halves
<1> HIDE DEF l, m
<1>3. q = Envelope(a + 1)
  <2>1. 1 \in 1..Len(l) /\ 2 \in 1..Len(l)
    BY <1>1
  <2>2. l[1] = <<a + 1, "env1">> /\ l[2] = <<a + 1, "env2">>
    BY <1>2, <2>1
  <2>3. q[1] = <<a + 1, "env1">> /\ q[2] = <<a + 1, "env2">>
    BY <1>1, <2>2
  <2>4. q = <<q[1], q[2]>>
    BY Len(q) = 2
  <2> QED  BY <2>3, <2>4 DEF Envelope
<1>4. a + 1 <= b /\ m = 2 * (b - (a + 1))
  BY <1>1, <1>2
<1>5. ASSUME NEW i \in 1..m
      PROVE  t[i] = <<(a + 1) + (i + 1) \div 2, IF i % 2 = 1 THEN "env1" ELSE "env2">>
  <2>1. 2 + i \in 1..Len(l) /\ t[i] = l[2 + i]
    BY <1>1
  <2>2. /\ a + (2 + i + 1) \div 2 = (a + 1) + (i + 1) \div 2
        /\ (2 + i) % 2 = i % 2
    BY <1>1
  <2> QED  BY <1>2, <2>1, <2>2
<1> QED  BY <1>3, <1>4, <1>5 DEF Halves, m

LEMMA HalvesAppend ==
  ASSUME NEW q \in Seq(Units), NEW a \in Nat, NEW b \in Nat, Halves(q, a, b)
  PROVE  Halves(q \o Envelope(b + 1), a, b + 1)
<1> DEFINE e == Envelope(b + 1)
           l == q \o e
           n == Len(q)
<1>1. e \in Seq(Units) /\ Len(e) = 2 /\ e[1] = <<b + 1, "env1">> /\ e[2] = <<b + 1, "env2">>
  <2>1. {"env1", "env2"} \subseteq Contents
    BY DEF Contents
  <2>2. <<b + 1, "env1">> \in Units /\ <<b + 1, "env2">> \in Units
    BY <2>1 DEF Units
  <2> QED  BY <2>2 DEF Envelope
<1> HIDE DEF e
<1>2. /\ n \in Nat /\ Len(l) = n + 2
      /\ \A i \in 1..n : l[i] = q[i]
      /\ \A i \in 1..2 : l[n + i] = e[i]
  <2>1. /\ Len(l) = Len(q) + Len(e)
        /\ \A i \in 1..Len(q) : l[i] = q[i]
        /\ \A i \in 1..Len(e) : l[Len(q) + i] = e[i]
    <3>1. q \in Seq(Units) /\ e \in Seq(Units)
      BY <1>1
    <3> QED  BY ONLY <3>1, Joined
  <2> QED  BY <1>1, <2>1, LenProperties
<1>3. /\ a <= b /\ n = 2 * (b - a)
      /\ \A i \in 1..n :
           q[i] = <<a + (i + 1) \div 2, IF i % 2 = 1 THEN "env1" ELSE "env2">>
  BY DEF Halves
<1> HIDE DEF l, n
<1>4. a <= b + 1 /\ Len(l) = 2 * ((b + 1) - a)
  BY <1>2, <1>3
<1>5. ASSUME NEW i \in 1..Len(l)
      PROVE  l[i] = <<a + (i + 1) \div 2, IF i % 2 = 1 THEN "env1" ELSE "env2">>
  <2>1. i \in 1..n \/ i = n + 1 \/ i = n + 2
    BY <1>2
  <2>2. /\ l[n + 1] = <<b + 1, "env1">> /\ l[n + 2] = <<b + 1, "env2">>
    BY <1>1, <1>2
  <2>3. /\ a + (n + 1 + 1) \div 2 = b + 1 /\ (n + 1) % 2 = 1
        /\ a + (n + 2 + 1) \div 2 = b + 1 /\ (n + 2) % 2 = 0
    BY <1>3
  <2>4. CASE i \in 1..n
    BY ONLY <1>2, <1>3, <2>4
  <2>5. CASE i = n + 1
    BY ONLY <2>2, <2>3, <2>5
  <2>6. CASE i = n + 2
    BY ONLY <2>2, <2>3, <2>6
  <2> QED  BY ONLY <2>1, <2>4, <2>5, <2>6
<1> QED  BY <1>4, <1>5 DEF Halves, l, e
-----------------------------------------------------------------------------
(* What the steps have in common.                                          *)

LEMMA SeenAreUnits ==
  ASSUME IInv
  PROVE  Seen \subseteq Units /\ Seq(Seen) \subseteq Seq(Units)
<1>1. Seen \subseteq Units
  BY DEF IInv, TypeNow, Seen, Units
<1> QED  BY <1>1

\* The vectors hold what their graphs show.
LEMMA VectorsHold ==
  ASSUME IInv
  PROVE  /\ shown["envelope"] \in Seq(Units) /\ Len(shown["envelope"]) = 2
         /\ shown["ps"] \in Seq(Units) /\ Len(shown["ps"]) = 1
         /\ shown["svd"] \in Seq(Units) /\ Len(shown["svd"]) = 1
         /\ shown["ts"] \in Seq(Units) /\ Len(shown["ts"]) = 2
<1>1. /\ \A v \in Vectors : shown[v] \in Seq(Seen) /\ Len(shown[v]) = Wanted[v]
      /\ {"envelope", "ps", "svd", "ts"} = Vectors
  BY DEF IInv, TypeNow, Places, Vectors
<1>2. /\ shown["envelope"] \in Seq(Units) /\ shown["ps"] \in Seq(Units)
      /\ shown["svd"] \in Seq(Units) /\ shown["ts"] \in Seq(Units)
  BY <1>1, SeenAreUnits
<1>3. /\ Len(shown["envelope"]) = 2 /\ Len(shown["ps"]) = 1
      /\ Len(shown["svd"]) = 1 /\ Len(shown["ts"]) = 2
  BY <1>1 DEF Wanted
<1> QED  BY <1>2, <1>3

\* What an unfinished binread has of a vector is its first half.
LEMMA HalfRead ==
  ASSUME IInv, pcG \in {"envelope", "ts"}, got # <<>>
  PROVE  got \in Seq(Units) /\ Len(got) = 1
<1>1. got \in Seq(Units)
  BY SeenAreUnits DEF IInv, TypeNow
<1> DEFINE l == Len(got)
<1>2. l \in Nat /\ l # 0
  BY <1>1, LenProperties, EmptySeq
<1>3. l < 2
  BY DEF IInv, Places, Wanted, Vectors
<1> HIDE DEF l
<1>4. l = 1
  BY <1>2, <1>3
<1> QED  BY <1>1, <1>4 DEF l

\* The lines are made of units.
LEMMA LinesTyped ==
  ASSUME IInv
  PROVE  /\ EnvRead \in Seq(Units) /\ EnvLeft \in Seq(Units) /\ EnvLine \in Seq(Units)
         /\ wire["env"] \in Seq(Units) /\ wire["gui"] \in Seq(Units)
         /\ GuiBase \in Seq(Units) /\ GuiGot \in Seq(Units) /\ GuiLeft \in Seq(Units)
         /\ GuiLine \in Seq(Units)
         /\ wire["spctrgm"] \in Seq(Units)
         /\ SpctrgmLeft \in Seq(Units) /\ SpctrgmLine \in Seq(Units)
<1>1. /\ wire["env"] \in Seq(Units) /\ wire["gui"] \in Seq(Units)
      /\ wire["spctrgm"] \in Seq(Units)
      /\ got \in Seq(Units)
      /\ shown["ps"] \in Seq(Units) /\ shown["svd"] \in Seq(Units)
  <2>1. /\ wire \in [Sockets -> Seq(Seen)] /\ shown \in [Vectors -> Seq(Seen)]
        /\ got \in Seq(Seen)
    BY DEF IInv, TypeNow
  <2>2. Seq(Seen) \subseteq Seq(Units)
    BY SeenAreUnits
  <2>3. {"env", "gui", "spctrgm"} = Sockets /\ {"ps", "svd"} \subseteq Vectors
    BY DEF Sockets, Vectors
  <2> QED  BY <2>1, <2>2, <2>3
<1>2. ps \in Seq(Units) /\ Len(ps) = 4 /\ sent \in 0..3 /\ (pcF = "env" => sent < 2)
  BY RecordIsASequence, SeenAreUnits DEF IInv, TypeNow, Places
<1>3. SubSeq(ps, sent + 1, 4) \in Seq(Units)
  <2>1. sent \in 0..Len(ps)
    BY <1>2
  <2> QED  BY <1>2, <2>1, TailPiece
<1>4. EnvLeft \in Seq(Units)
  <2>1. CASE pcF = "env"
    <3>1. Envelope(frame) \in Seq(Units) /\ Len(Envelope(frame)) = 2
      <4>1. frame \in Nat /\ {"env1", "env2"} \subseteq Contents
        BY DEF IInv, TypeNow, Contents
      <4>2. <<frame, "env1">> \in Units /\ <<frame, "env2">> \in Units
        BY <4>1 DEF Units
      <4> QED  BY <4>2 DEF Envelope
    <3> DEFINE e == Envelope(frame)
    <3> HIDE DEF e
    <3>2. sent \in 0..Len(e) /\ e \in Seq(Units) /\ Len(e) = 2
      BY <1>2, <2>1, <3>1 DEF e
    <3>3. SubSeq(e, sent + 1, 2) \in Seq(Units)
      BY <3>2, TailPiece
    <3> QED  BY <2>1, <3>3 DEF EnvLeft, e
  <2>2. CASE pcF # "env"
    BY <2>2 DEF EnvLeft
  <2> QED  BY <2>1, <2>2
<1>5. EnvRead \in Seq(Units) /\ GuiGot \in Seq(Units)
  BY <1>1 DEF EnvRead, GuiGot
<1>6. GuiLeft \in Seq(Units) /\ SpctrgmLeft \in Seq(Units)
  BY <1>2, <1>3 DEF GuiLeft, SpctrgmLeft
<1>7. GuiBase \in Seq(Units)
  BY <1>1 DEF GuiBase
<1>8. \A a, b \in Seq(Units) : a \o b \in Seq(Units)
  OBVIOUS
<1>9. EnvLine \in Seq(Units)
  BY <1>1, <1>4, <1>5, <1>8 DEF EnvLine
<1>10. GuiLine \in Seq(Units)
  BY <1>1, <1>5, <1>6, <1>7, <1>8 DEF GuiLine
<1>11. SpctrgmLine \in Seq(Units)
  BY <1>1, <1>6, <1>8 DEF SpctrgmLine
<1> QED  BY <1>1, <1>4, <1>5, <1>6, <1>7, <1>9, <1>10, <1>11

\* What is left to write of an envelope.
LEMMA EnvLeftShort ==
  ASSUME IInv
  PROVE  Len(EnvLeft) \in Nat /\ Len(EnvLeft) <= 2 /\ (pcF # "env" => Len(EnvLeft) = 0)
<1>1. CASE pcF = "env"
  <2>1. PICK e : e = Envelope(frame)
    OBVIOUS
  <2>2. e \in Seq({<<frame, "env1">>, <<frame, "env2">>}) /\ Len(e) = 2
    BY <2>1 DEF Envelope
  <2>3. sent \in 0..Len(e) /\ EnvLeft = SubSeq(e, sent + 1, Len(e))
    BY <1>1, <2>1, <2>2 DEF EnvLeft, IInv, TypeNow, Places
  <2>4. Len(EnvLeft) = Len(e) - sent
    BY <2>2, <2>3, TailPiece
  <2> QED  BY <1>1, <2>2, <2>3, <2>4
<1>2. CASE pcF # "env"
  BY <1>2 DEF EnvLeft
<1> QED  BY <1>1, <1>2

LEMMA Counted ==
  ASSUME IInv
  PROVE  /\ frame \in Nat /\ Recorded \in Nat /\ Enveloped \in Nat
         /\ EnvShown \in Nat /\ GuiShown \in Nat /\ img[0][1] \in Nat
<1>1. frame \in Nat /\ (pcF # "read" => frame >= 1)
  BY DEF IInv, TypeNow, Places
<1>2. shown["ts"][1] \in Seen /\ shown["envelope"][1] \in Seen
  <2>1. /\ shown["ts"] \in Seq(Seen) /\ Len(shown["ts"]) = 2
        /\ shown["envelope"] \in Seq(Seen) /\ Len(shown["envelope"]) = 2
    BY DEF IInv, TypeNow, Places, Vectors, Wanted
  <2> QED  BY ONLY <2>1
<1>3. img[0] \in Seen
  BY DisplaysAssumption DEF IInv, TypeNow
<1> QED  BY <1>1, <1>2, <1>3 DEF Recorded, Enveloped, EnvShown, GuiShown, Seen

\* A stretch of write moves units from what is left of the record to the socket.
LEMMA SendMoves ==
  ASSUME IInv, NEW socket \in Sockets, NEW record \in Seq(Seen), NEW next,
         Send(socket, record, next), sent < Len(record)
  PROVE  /\ pcF = socket /\ open
         /\ \A other \in Sockets \ {socket} : wire'[other] = wire[other]
         /\ \/ /\ sent' = 0 /\ pcF' = next
               /\ wire'[socket] = wire[socket] \o SubSeq(record, sent + 1, Len(record))
            \/ /\ sent' \in Nat /\ sent' < Len(record) /\ pcF' = pcF
               /\ wire'[socket] \o SubSeq(record, sent' + 1, Len(record))
                    = wire[socket] \o SubSeq(record, sent + 1, Len(record))
         /\ UNCHANGED <<open, pcG, got, shown, shut, buf, img, whole>>
<1>1. /\ pcF = socket /\ open
      /\ UNCHANGED <<open, pcG, got, shown, shut, buf, img, whole>>
  BY DEF Send, guiVars, spctrgmVars
<1>2. PICK n \in 1..(Len(record) - sent) :
        /\ Len(wire[socket]) + n <= SockUnits
        /\ wire' = [wire EXCEPT ![socket] = @ \o SubSeq(record, sent + 1, sent + n)]
        /\ IF sent + n = Len(record)
           THEN sent' = 0 /\ pcF' = next
           ELSE sent' = sent + n /\ UNCHANGED pcF
  BY DEF Send
<1>3. sent \in Nat /\ Len(record) \in Nat /\ n \in Nat /\ sent + n <= Len(record)
  <2>1. sent \in Nat
    BY DEF IInv, TypeNow
  <2> QED  BY <2>1, LenProperties
<1>4. /\ \A other \in Sockets \ {socket} : wire'[other] = wire[other]
      /\ wire'[socket] = wire[socket] \o SubSeq(record, sent + 1, sent + n)
  BY <1>2, <1>3, SendAppends
<1>5. PICK w \in Seq(Seen), a \in Nat : w = wire[socket] /\ a = sent
  BY <1>3 DEF IInv, TypeNow
<1>a. PICK x, y, z :
        /\ x = SubSeq(record, a + 1, a + n)
        /\ y = SubSeq(record, (a + n) + 1, Len(record))
        /\ z = SubSeq(record, a + 1, Len(record))
  OBVIOUS
<1>6. x \in Seq(Seen) /\ y \in Seq(Seen) /\ z = x \o y
  <2>1. /\ a + 1 \in 1..(Len(record) + 1) /\ a + n \in ((a + 1) - 1)..Len(record)
        /\ Len(record) \in (a + n)..Len(record) /\ a + n \in 0..Len(record)
    BY <1>3, <1>5
  <2>2. x \in Seq(Seen)
    BY <1>3, <1>5, <1>a, Piece
  <2>3. y \in Seq(Seen)
    BY <2>1, <1>a, TailPiece
  <2>4. z = x \o y
    BY <2>1, <1>a, ConcatAdjacentSubSeq
  <2> QED  BY <2>2, <2>3, <2>4
<1>7. (w \o x) \o y = w \o z
  <2>1. w \in Seq(Seen) /\ x \in Seq(Seen) /\ y \in Seq(Seen)
    BY <1>6
  <2>2. (w \o x) \o y = w \o (x \o y)
    BY ONLY <2>1, AssociativeSeen, Zenon
  <2> QED  BY ONLY <1>6, <2>2, Zenon
<1>8. CASE sent + n = Len(record)
  BY <1>1, <1>2, <1>4, <1>8
<1>9. CASE sent + n # Len(record)
  <2>1. sent' = a + n /\ sent' \in Nat /\ sent' < Len(record) /\ pcF' = pcF
    BY <1>2, <1>3, <1>5, <1>9
  <2>2. wire'[socket] = w \o x
    BY <1>4, <1>5, <1>a
  <2> QED  BY <1>1, <1>4, <1>5, <1>a, <1>7, <2>1, <2>2
<1> QED  BY <1>8, <1>9

\* A binread moves units from the socket to what was read before them.
Moved(v, base, left, n, all, read, line) ==
  /\ pcG = v
  /\ all \in Seq(Units) /\ read \in Seq(Units) /\ line \in Seq(Units)
  /\ Len(all) = Len(got) + n
  /\ read = base \o all /\ line = wire'[SocketOf(v)] \o left
  /\ (base \o got) \o (wire[SocketOf(v)] \o left) = read \o line
  /\ \A other \in Sockets \ {SocketOf(v)} : wire'[other] = wire[other]
  /\ \/ /\ n = Wanted[v] - Len(got)
        /\ shown'[v] = all
        /\ \A w \in Vectors \ {v} : shown'[w] = shown[w]
        /\ got' = <<>> /\ pcG' = NextVector[v]
     \/ /\ n < Wanted[v] - Len(got)
        /\ got' = all /\ UNCHANGED <<shown, pcG>>
  /\ UNCHANGED <<frame, pcF, sent, temp_mat, lwork, s, ps, open, shut, buf, img, whole>>

LEMMA ReadMoves ==
  ASSUME IInv, NEW v \in Vectors, BinReadGets(v),
         NEW base \in Seq(Units), NEW left \in Seq(Units)
  PROVE  \E n \in 1..(Wanted[v] - Len(got)),
            all \in Seq(Units), read \in Seq(Units), line \in Seq(Units) :
           Moved(v, base, left, n, all, read, line)
<1> DEFINE w == wire[SocketOf(v)]
           Taken(m, u) ==
             /\ pcG = v /\ m <= Len(w)
             /\ u = got \o SubSeq(w, 1, m) /\ u \in Seq(Seen) /\ Len(u) = Len(got) + m
             /\ wire'[SocketOf(v)] = SubSeq(w, m + 1, Len(w))
             /\ \A other \in Sockets \ {SocketOf(v)} : wire'[other] = wire[other]
             /\ \/ /\ m = Wanted[v] - Len(got)
                   /\ shown'[v] = u
                   /\ \A other \in Vectors \ {v} : shown'[other] = shown[other]
                   /\ got' = <<>> /\ pcG' = NextVector[v]
                \/ /\ m < Wanted[v] - Len(got)
                   /\ got' = u /\ UNCHANGED <<shown, pcG>>
             /\ UNCHANGED <<frame, pcF, sent, temp_mat, lwork, s, ps, open, shut, buf, img, whole>>
<1>a. PICK n \in 1..(Wanted[v] - Len(got)) : \E u : Taken(n, u)
  BY BinReadTakes
<1>1. PICK all : Taken(n, all)
  BY <1>a
<1>2. w \in Seq(Units) /\ got \in Seq(Units) /\ all \in Seq(Units)
  <2>1. w \in Seq(Seen) /\ got \in Seq(Seen)
    <3>1. SocketOf(v) \in Sockets
      BY DEF SocketOf, Sockets
    <3> QED  BY <3>1 DEF IInv, TypeNow
  <2> QED  BY <1>1, <2>1, SeenAreUnits
<1>3. n \in 0..Len(w)
  <2>1. Len(w) \in Nat
    BY <1>2, LenProperties
  <2> QED  BY <1>1, <2>1
<1>4. PICK q, g : q = w /\ g = got
  OBVIOUS
<1>5. PICK x, y : x = SubSeq(q, 1, n) /\ y = SubSeq(q, n + 1, Len(q))
  OBVIOUS
<1>6. x \in Seq(Units) /\ y \in Seq(Units) /\ q = x \o y
  <2>1. q \in Seq(Units) /\ n \in 0..Len(q)
    BY <1>2, <1>3, <1>4
  <2>2. x \in Seq(Units)
    BY <1>5, <2>1, HeadPiece
  <2>3. y \in Seq(Units)
    BY <1>5, <2>1, TailPiece
  <2>4. q = x \o y
    BY <1>5, <2>1, HeadAndRest
  <2> QED  BY <2>2, <2>3, <2>4
<1>7. PICK before, read, line, u :
        /\ before = base \o g /\ read = base \o all /\ line = y \o left /\ u = q \o left
  OBVIOUS
<1>8. before \in Seq(Units) /\ read \in Seq(Units) /\ line \in Seq(Units)
  <2>1. base \in Seq(Units) /\ g \in Seq(Units) /\ all \in Seq(Units) /\ left \in Seq(Units)
        /\ y \in Seq(Units)
    BY <1>2, <1>4, <1>6
  <2> QED  BY ONLY <1>7, <2>1, ConcatProperties
<1>9. before \o x = read
  <2>1. /\ base \in Seq(Units) /\ g \in Seq(Units) /\ x \in Seq(Units)
        /\ before = base \o g /\ all = g \o x
    BY <1>1, <1>2, <1>4, <1>5, <1>6, <1>7
  <2>2. before \o x = base \o all
    BY ONLY <2>1, Associative, ZenonT(30)
  <2> QED  BY <1>7, <2>2
<1>10. u = x \o line
  <2>1. /\ x \in Seq(Units) /\ y \in Seq(Units) /\ left \in Seq(Units)
        /\ q = x \o y /\ line = y \o left
    BY <1>6, <1>7
  <2>2. q \o left = x \o line
    BY ONLY <2>1, Associative, ZenonT(30)
  <2> QED  BY <1>7, <2>2
<1>11. before \o u = read \o line
  <2>1. /\ before \in Seq(Units) /\ x \in Seq(Units) /\ line \in Seq(Units)
        /\ read = before \o x /\ u = x \o line
    BY <1>6, <1>8, <1>9, <1>10
  <2>2. read \o line = before \o u
    BY ONLY <2>1, Associative, ZenonT(30)
  <2> QED  BY <2>2
<1>12. /\ line = wire'[SocketOf(v)] \o left
       /\ (base \o got) \o (wire[SocketOf(v)] \o left) = read \o line
  <2>1. y = wire'[SocketOf(v)]
    BY <1>1, <1>4, <1>5
  <2> QED  BY <1>4, <1>7, <1>11, <2>1
<1> HIDE DEF w
<1>13. Moved(v, base, left, n, all, read, line)
  BY <1>1, <1>2, <1>7, <1>8, <1>12 DEF Moved
<1> QED  BY <1>2, <1>8, <1>13

\* A step that leaves the envelopes alone, or moves them along their line.
LEMMA EnvUntouched ==
  ASSUME EnvStream, Enveloped' = Enveloped, shown'["envelope"] = shown["envelope"],
         \/ /\ wire'["env"] = wire["env"] /\ EnvRead' = EnvRead /\ EnvLeft' = EnvLeft
            /\ open' => open
         \/ open /\ EnvLine' = EnvLine
  PROVE  EnvStream'
<1>1. EnvShown' = EnvShown
  BY DEF EnvShown
<1>2. CASE open /\ EnvLine' = EnvLine
  BY <1>1, <1>2 DEF EnvStream, Halves, Envelope
<1>3. CASE wire'["env"] = wire["env"] /\ EnvRead' = EnvRead /\ EnvLeft' = EnvLeft
           /\ (open' => open)
  <2>1. EnvLine' = EnvLine
    BY <1>3 DEF EnvLine
  <2> QED  BY <1>1, <1>3, <2>1 DEF EnvStream, Halves, Envelope
<1> QED  BY <1>2, <1>3

\* The same of the records of the GUI.
LEMMA GuiUntouched ==
  ASSUME IInv, GuiStream, Recorded' \in Nat, Recorded <= Recorded',
         shown'["ps"] = shown["ps"], shown'["svd"] = shown["svd"], shown'["ts"] = shown["ts"],
         pcG' \in {"svd", "ts"} <=> pcG \in {"svd", "ts"},
         \/ wire'["gui"] = wire["gui"] /\ GuiLine' = GuiLine /\ (open' => open)
         \/ open /\ GuiLine' = GuiLine
  PROVE  GuiStream'
<1>1. GuiShown' = GuiShown /\ Graphs' = Graphs
  BY DEF GuiShown, Graphs
<1>2. /\ GuiShown \in Nat /\ Recorded \in Nat /\ Recorded' \in Nat
  BY Counted
<1>3. GuiShown' <= Recorded'
  BY <1>1, <1>2 DEF GuiStream
<1>4. ASSUME Cut(GuiLine, GuiShown, Recorded)
      PROVE  Cut(GuiLine', GuiShown', Recorded')
  <2>1. PICK q \in Seq(Units) : q = GuiLine
    BY LinesTyped
  <2>2. PICK a, b \in Nat, c \in Nat :
          a = GuiShown /\ b = Recorded /\ c = Recorded' /\ b <= c
    BY <1>2
  <2>3. Cut(q, a, c)
    BY <1>4, <2>1, <2>2, CutWiden
  <2> QED  BY <1>1, <2>1, <2>2, <2>3
<1> QED  BY <1>1, <1>3, <1>4 DEF GuiStream, Records

\* The same of the records of the spectrogram thread.
LEMMA SpctrgmUntouched ==
  ASSUME IInv, SpctrgmStream, WaterfallIsHistory,
         Recorded' \in Nat, Recorded <= Recorded',
         SpctrgmLine' = SpctrgmLine, UNCHANGED <<img, whole>>
  PROVE  SpctrgmStream' /\ WaterfallIsHistory'
<1>1. Recorded \in Nat /\ Recorded' \in Nat /\ img[0][1] \in Nat
  BY Counted
<1>2. ASSUME whole
      PROVE  img[0][1] <= Recorded' /\ Cut(SpctrgmLine, img[0][1], Recorded')
  <2>1. PICK q \in Seq(Units) : q = SpctrgmLine
    BY LinesTyped
  <2>2. PICK a, b \in Nat, c \in Nat :
          a = img[0][1] /\ b = Recorded /\ c = Recorded' /\ b <= c
    BY <1>1
  <2>3. Cut(q, a, c) /\ img[0][1] <= b
    BY <1>2, <2>1, <2>2, CutWiden DEF SpctrgmStream
  <2> QED  BY <1>1, <2>1, <2>2, <2>3
<1>3. SpctrgmStream'
  BY <1>2 DEF SpctrgmStream
<1>4. WaterfallIsHistory'
  BY DEF WaterfallIsHistory
<1> QED  BY <1>3, <1>4
-----------------------------------------------------------------------------
LEMMA InitEstablishesStreams ==
  ASSUME Init
  PROVE  Streams
<1>1. /\ frame = 0 /\ pcF = "read" /\ pcG = "loop" /\ got = <<>> /\ open
      /\ wire["env"] = <<>> /\ wire["gui"] = <<>> /\ wire["spctrgm"] = <<>>
      /\ shown["envelope"][1][1] = 0 /\ shown["ts"][1][1] = 0
      /\ \A r \in 0..(Rows - 1) : img[r] = <<0, "none">>
  BY DEF Init, Sockets, Vectors
<1>2. /\ EnvLine = <<>> /\ Enveloped = 0 /\ EnvShown = 0
      /\ GuiLine = <<>> /\ Recorded = 0 /\ GuiShown = 0
      /\ SpctrgmLine = <<>>
  <2>1. <<>> \o <<>> = <<>>
    OBVIOUS
  <2> QED
    BY <1>1, <2>1
    DEF EnvLine, EnvRead, EnvLeft, Enveloped, EnvShown, GuiLine, GuiBase, GuiGot, GuiLeft,
        Recorded, GuiShown, SpctrgmLine, SpctrgmLeft
<1>3. EnvStream
  BY <1>2 DEF EnvStream, Halves
<1>4. Cut(<<>>, 0, 0)
  BY DEF Cut
<1>5. GuiStream
  BY <1>2, <1>4 DEF GuiStream
<1>6. 0 \in 0..(Rows - 1)
  BY DisplaysAssumption
<1>7. SpctrgmStream
  BY <1>1, <1>2, <1>4, <1>6 DEF SpctrgmStream
<1>8. WaterfallIsHistory
  <2>1. \A r \in 0..(Rows - 1) : (r \div 3) * 3 \in 0..(Rows - 1)
    BY DisplaysAssumption
  <2>2. \A r \in 0..(Rows - 1) : img[r][1] = 0 /\ img[r] = img[(r \div 3) * 3]
    BY <1>1, <2>1
  <2> QED  BY <2>2 DEF WaterfallIsHistory
<1> QED  BY <1>1, <1>3, <1>5, <1>7, <1>8 DEF Streams, AtHand
-----------------------------------------------------------------------------
(* The steps of fft_thread.                                                *)

LEMMA ReadFrameKeepsStreams ==
  ASSUME IInv, Streams, ReadFrame
  PROVE  Streams'
<1>1. /\ pcF = "read" /\ pcF' = "decompose" /\ frame' = frame + 1
      /\ temp_mat' = <<frame', "matrix">> /\ frame \in Nat
      /\ UNCHANGED <<wire, open, pcG, got, shown, img, whole>>
  BY Counted DEF ReadFrame, guiVars, spctrgmVars
<1>2. /\ Enveloped' = Enveloped /\ Recorded' = Recorded /\ Recorded \in Nat
      /\ EnvRead' = EnvRead /\ EnvLeft' = EnvLeft
  BY <1>1 DEF Enveloped, Recorded, EnvRead, EnvLeft
<1>3. GuiLine' = GuiLine /\ SpctrgmLine' = SpctrgmLine
  BY <1>1 DEF GuiLine, GuiBase, GuiGot, GuiLeft, SpctrgmLine, SpctrgmLeft
<1>4. EnvStream'
  BY <1>1, <1>2, EnvUntouched DEF Streams
<1>5. GuiStream'
  BY <1>1, <1>2, <1>3, GuiUntouched DEF Streams
<1>6. SpctrgmStream' /\ WaterfallIsHistory'
  BY <1>1, <1>2, <1>3, SpctrgmUntouched DEF Streams
<1>7. AtHand'
  BY <1>1 DEF AtHand
<1> QED  BY <1>4, <1>5, <1>6, <1>7 DEF Streams

LEMMA DecomposeKeepsStreams ==
  ASSUME IInv, Streams, Decompose
  PROVE  Streams'
<1>1. /\ pcF = "decompose" /\ pcF' = "env" /\ frame' = frame /\ frame \in Nat /\ frame >= 1
      /\ s' = SingularValues(Decomposed) /\ open /\ sent' = sent /\ sent = 0
      /\ UNCHANGED <<wire, open, pcG, got, shown, img, whole>>
  BY Counted DEF Decompose, guiVars, spctrgmVars, IInv, Places
<1>2. /\ Enveloped' = Enveloped + 1 /\ frame = Enveloped + 1 /\ Enveloped \in Nat
      /\ Recorded' = Recorded /\ Recorded \in Nat
      /\ EnvRead' = EnvRead /\ EnvLeft = <<>> /\ EnvShown' = EnvShown
  BY <1>1 DEF Enveloped, Recorded, EnvRead, EnvLeft, EnvShown
<1>3. GuiLine' = GuiLine /\ SpctrgmLine' = SpctrgmLine
  BY <1>1 DEF GuiLine, GuiBase, GuiGot, GuiLeft, SpctrgmLine, SpctrgmLeft
<1>4. EnvLine \in Seq(Units) /\ EnvLine' = EnvLine \o Envelope(Enveloped + 1)
  <2>1. PICK e : e = Envelope(frame) /\ Len(e) = 2 /\ e \in Seq(Units)
    <3>1. frame \in Nat /\ {"env1", "env2"} \subseteq Contents
      BY <1>1 DEF Contents
    <3>2. <<frame, "env1">> \in Units /\ <<frame, "env2">> \in Units
      BY <3>1 DEF Units
    <3>3. Envelope(frame) \in Seq(Units) /\ Len(Envelope(frame)) = 2
      BY <3>2 DEF Envelope
    <3> QED  BY <3>3
  <2>2. SubSeq(e, 1, Len(e)) = e
    BY ONLY <2>1, SubSeqFull
  <2>3. EnvLeft' = e
    <3>1. sent' + 1 = 1 /\ Envelope(frame') = e
      BY <1>1, <2>1 DEF Envelope
    <3> QED  BY <1>1, <2>1, <2>2, <3>1 DEF EnvLeft
  <2>4. PICK w, r : w = wire["env"] /\ r = EnvRead /\ w \in Seq(Units) /\ r \in Seq(Units)
    BY LinesTyped
  <2>5. PICK q, l, m : q = w \o e /\ l = r \o w /\ m = l \o e
    OBVIOUS
  <2>6. m = r \o q
    <3>1. /\ r \in Seq(Units) /\ w \in Seq(Units) /\ e \in Seq(Units)
          /\ l = r \o w /\ q = w \o e
      BY <2>1, <2>4, <2>5
    <3>2. l \o e = r \o q
      BY ONLY <3>1, Associative, ZenonT(30)
    <3> QED  BY <2>5, <3>2
  <2>7. w \o <<>> = w
    BY <2>4
  <2>8. EnvLine = l
    BY <1>2, <2>4, <2>5, <2>7 DEF EnvLine
  <2>9. EnvLine' = r \o q
    BY <1>1, <1>2, <2>3, <2>4, <2>5 DEF EnvLine
  <2> QED  BY <1>2, <2>1, <2>5, <2>6, <2>8, <2>9, LinesTyped
<1>5. EnvStream'
  <2>1. Halves(EnvLine, EnvShown, Enveloped) /\ (EnvShown = 0 \/ shown["envelope"] = Envelope(EnvShown))
    BY <1>1 DEF Streams, EnvStream
  <2>2. PICK q \in Seq(Units), a, b \in Nat : q = EnvLine /\ a = EnvShown /\ b = Enveloped
    BY <1>2, <1>4, Counted
  <2>3. Halves(q \o Envelope(b + 1), a, b + 1)
    BY <2>1, <2>2, HalvesAppend
  <2>4. Halves(EnvLine', EnvShown', Enveloped')
    BY <1>2, <1>4, <2>2, <2>3
  <2>5. EnvShown' = 0 \/ shown'["envelope"] = Envelope(EnvShown')
    BY <1>1, <1>2, <2>1
  <2> QED  BY <2>4, <2>5 DEF EnvStream, Halves, Envelope
<1>6. GuiStream'
  BY <1>1, <1>2, <1>3, GuiUntouched DEF Streams
<1>7. SpctrgmStream' /\ WaterfallIsHistory'
  BY <1>1, <1>2, <1>3, SpctrgmUntouched DEF Streams
<1>8. AtHand'
  <2>1. Decomposed[1] = frame
    BY <1>1 DEF Streams, AtHand, Decomposed, Leftover
  <2>2. s' \in {<<frame, "svd">>, <<frame, "svdLeftover">>}
    BY <1>1, <2>1 DEF SingularValues
  <2> QED  BY <1>1, <2>2 DEF AtHand
<1> QED  BY <1>5, <1>6, <1>7, <1>8 DEF Streams

LEMMA SendEnvelopeKeepsStreams ==
  ASSUME IInv, Streams, SendEnvelope
  PROVE  Streams'
<1>1. /\ Send("env", Envelope(frame), "fill") /\ pcF = "env"
      /\ UNCHANGED <<frame, temp_mat, lwork, s, ps>>
  BY DEF SendEnvelope, Send, analysis
<1>2. /\ Envelope(frame) \in Seq(Seen) /\ Len(Envelope(frame)) = 2 /\ sent < 2
      /\ frame \in Nat /\ "env" \in Sockets
  <2>1. frame \in Nat /\ {"env1", "env2"} \subseteq Contents
    BY DEF IInv, TypeNow, Contents
  <2>2. <<frame, "env1">> \in Seen /\ <<frame, "env2">> \in Seen
    BY <2>1 DEF Seen
  <2> QED  BY <1>1, <2>1, <2>2 DEF Envelope, IInv, Places, Sockets
<1>3. PICK e \in Seq(Seen) : e = Envelope(frame) /\ Len(e) = 2
  BY <1>2
<1>4. /\ open
      /\ wire'["gui"] = wire["gui"] /\ wire'["spctrgm"] = wire["spctrgm"]
      /\ \/ /\ sent' = 0 /\ pcF' = "fill"
            /\ wire'["env"] = wire["env"] \o SubSeq(e, sent + 1, 2)
         \/ /\ sent' \in Nat /\ sent' < 2 /\ pcF' = pcF
            /\ wire'["env"] \o SubSeq(e, sent' + 1, 2) = wire["env"] \o SubSeq(e, sent + 1, 2)
      /\ UNCHANGED <<open, pcG, got, shown, img, whole>>
  <2>1. Send("env", e, "fill") /\ sent < Len(e)
    BY <1>1, <1>2, <1>3
  <2>2. /\ open
        /\ \A other \in Sockets \ {"env"} : wire'[other] = wire[other]
        /\ \/ /\ sent' = 0 /\ pcF' = "fill"
              /\ wire'["env"] = wire["env"] \o SubSeq(e, sent + 1, Len(e))
           \/ /\ sent' \in Nat /\ sent' < Len(e) /\ pcF' = pcF
              /\ wire'["env"] \o SubSeq(e, sent' + 1, Len(e))
                   = wire["env"] \o SubSeq(e, sent + 1, Len(e))
        /\ UNCHANGED <<open, pcG, got, shown, shut, buf, img, whole>>
    BY <1>2, <2>1, SendMoves
  <2>3. {"gui", "spctrgm"} \subseteq Sockets \ {"env"}
    BY DEF Sockets
  <2> QED  BY <1>3, <2>2, <2>3
<1>5. /\ Enveloped' = Enveloped /\ Recorded' = Recorded /\ Recorded \in Nat
      /\ EnvRead' = EnvRead /\ pcF' \in {"env", "fill"}
  BY <1>1, <1>4, Counted DEF Enveloped, Recorded, EnvRead
<1>6. wire'["env"] \o EnvLeft' = wire["env"] \o EnvLeft
  <2>1. EnvLeft = SubSeq(e, sent + 1, 2) /\ e = Envelope(frame')
    BY <1>1, <1>3 DEF EnvLeft
  <2>2. CASE pcF' = "fill"
    <3>1. EnvLeft' = <<>> /\ wire'["env"] = wire["env"] \o EnvLeft
      BY <1>1, <1>4, <2>1, <2>2 DEF EnvLeft
    <3>2. PICK q, w, x : q = wire'["env"] /\ w = wire["env"] /\ x = EnvLeft
                         /\ w \in Seq(Units) /\ x \in Seq(Units) /\ q = w \o x
      BY <3>1, LinesTyped
    <3>3. q \o <<>> = w \o x
      BY ONLY <3>2
    <3> QED  BY <3>1, <3>2, <3>3
  <2>3. CASE pcF' = "env"
    <3>1. EnvLeft' = SubSeq(e, sent' + 1, 2)
      BY <2>1, <2>3 DEF EnvLeft, Envelope
    <3> QED  BY <1>1, <1>4, <2>1, <2>3, <3>1
  <2> QED  BY <1>5, <2>2, <2>3
<1>7. EnvLine' = EnvLine
  BY <1>5, <1>6 DEF EnvLine
<1>8. GuiLine' = GuiLine /\ SpctrgmLine' = SpctrgmLine
  BY <1>1, <1>4, <1>5 DEF GuiLine, GuiBase, GuiGot, GuiLeft, SpctrgmLine, SpctrgmLeft
<1>9. EnvStream'
  BY <1>4, <1>5, <1>7, EnvUntouched DEF Streams
<1>10. GuiStream'
  BY <1>4, <1>5, <1>8, GuiUntouched DEF Streams
<1>11. SpctrgmStream' /\ WaterfallIsHistory'
  BY <1>4, <1>5, <1>8, SpctrgmUntouched DEF Streams
<1>12. AtHand'
  BY <1>1, <1>5 DEF Streams, AtHand
<1> QED  BY <1>9, <1>10, <1>11, <1>12 DEF Streams

\* What fft_thread appends to a line behind an empty rest.
LEMMA Appended ==
  ASSUME NEW p \in Seq(Units), NEW w \in Seq(Units), NEW r \in Seq(Units),
         NEW old, old = p \o (w \o <<>>), NEW new, new = p \o (w \o r)
  PROVE  new = old \o r
<1>1. w \o <<>> = w
  OBVIOUS
<1>2. PICK l, q : l = p \o w /\ q = w \o r
  OBVIOUS
<1>3. /\ p \in Seq(Units) /\ w \in Seq(Units) /\ r \in Seq(Units)
      /\ l = p \o w /\ q = w \o r
  BY <1>2
<1>4. l \o r = p \o q
  BY ONLY <1>3, Associative, ZenonT(30)
<1> QED  BY <1>1, <1>2, <1>4

LEMMA FillKeepsStreams ==
  ASSUME IInv, Streams, Fill
  PROVE  Streams'
<1>1. /\ pcF = "fill" /\ frame' = frame /\ frame \in Nat /\ frame >= 1
      /\ open /\ sent' = sent /\ sent = 0
      /\ \/ /\ pcF' = "gui"
            /\ ps' = <<s, <<frame, "power">>, <<frame, "in1">>, <<frame, "in2">>>>
         \/ pcF' = "read"
      /\ UNCHANGED <<wire, open, pcG, got, shown, img, whole>>
  BY Counted DEF Fill, guiVars, spctrgmVars, IInv, Places
<1>2. /\ Enveloped' = Enveloped /\ Recorded = frame - 1 /\ Recorded' = frame
      /\ Recorded \in Nat /\ Recorded' \in Nat /\ Recorded <= Recorded'
      /\ EnvRead' = EnvRead /\ EnvLeft' = EnvLeft
      /\ GuiBase' = GuiBase /\ GuiGot' = GuiGot /\ GuiLeft = <<>> /\ SpctrgmLeft = <<>>
      /\ GuiShown' = GuiShown /\ Graphs' = Graphs
  BY <1>1 DEF Enveloped, Recorded, EnvRead, EnvLeft, GuiBase, GuiGot, GuiLeft, SpctrgmLeft,
              GuiShown, Graphs
<1>3. EnvStream'
  BY <1>1, <1>2, EnvUntouched DEF Streams
<1>4. CASE pcF' = "read"
  <2>1. GuiLine' = GuiLine /\ SpctrgmLine' = SpctrgmLine
    BY <1>1, <1>2, <1>4 DEF GuiLine, GuiLeft, SpctrgmLine, SpctrgmLeft
  <2>2. GuiStream'
    BY <1>1, <1>2, <2>1, GuiUntouched DEF Streams
  <2>3. SpctrgmStream' /\ WaterfallIsHistory'
    BY <1>1, <1>2, <2>1, SpctrgmUntouched DEF Streams
  <2>4. AtHand'
    BY <1>4 DEF AtHand
  <2> QED  BY <1>3, <2>2, <2>3, <2>4 DEF Streams
<1>5. CASE pcF' = "gui"
  <2>1. ps' \in Records(frame)
    <3>1. s \in {<<frame, "svd">>, <<frame, "svdLeftover">>}
      BY <1>1 DEF Streams, AtHand
    <3> QED  BY <1>1, <1>5, <3>1 DEF Records
  <2>2. PICK r \in Records(frame) : r = ps'
    BY <2>1
  <2>3. r \in Seq(Units) /\ Len(r) = 4
    BY <1>1, RecordUnits
  <2>4. GuiLeft' = r /\ SpctrgmLeft' = r
    <3>1. SubSeq(r, 1, 4) = r
      BY <2>3, SubSeqFull
    <3> QED  BY <1>1, <1>5, <2>2, <3>1 DEF GuiLeft, SpctrgmLeft
  <2>5. GuiLine' = GuiLine \o r
    <3>1. PICK p, w, old, new :
            /\ p = GuiBase \o GuiGot /\ w = wire["gui"]
            /\ old = p \o (w \o <<>>) /\ new = p \o (w \o r)
      OBVIOUS
    <3>2. p \in Seq(Units) /\ w \in Seq(Units)
      <4>1. GuiBase \in Seq(Units) /\ GuiGot \in Seq(Units) /\ w \in Seq(Units)
        BY <3>1, LinesTyped
      <4> QED  BY ONLY <3>1, <4>1, ConcatProperties
    <3>3. new = old \o r
      <4>1. /\ p \in Seq(Units) /\ w \in Seq(Units) /\ r \in Seq(Units)
            /\ old = p \o (w \o <<>>) /\ new = p \o (w \o r)
        BY <2>3, <3>1, <3>2
      <4> QED  BY ONLY <4>1, Appended
    <3>4. old = GuiLine
      BY <1>2, <3>1 DEF GuiLine
    <3>5. new = GuiLine'
      BY <1>1, <1>2, <2>4, <3>1 DEF GuiLine
    <3> QED  BY <3>3, <3>4, <3>5
  <2>6. SpctrgmLine' = SpctrgmLine \o r
    <3>1. wire["spctrgm"] \o <<>> = wire["spctrgm"]
      BY LinesTyped
    <3> QED  BY <1>1, <1>2, <2>4, <3>1 DEF SpctrgmLine
  <2>7. PICK k \in Nat, b \in Nat : k = frame /\ b = Recorded /\ b < k
    BY <1>1, <1>2
  <2>8. GuiStream'
    <3>1. /\ GuiShown <= Recorded /\ Cut(GuiLine, GuiShown, Recorded)
          /\ pcG \notin {"svd", "ts"} => GuiShown = 0 \/ Graphs \in Records(GuiShown)
      BY <1>1 DEF Streams, GuiStream
    <3>2. PICK q \in Seq(Units), a \in Nat : q = GuiLine /\ a = GuiShown
      BY LinesTyped, Counted
    <3>3. a <= b /\ b < k /\ Cut(q, a, b) /\ r \in Records(k)
      BY <2>7, <3>1, <3>2
    <3>4. Cut(q \o r, a, k)
      BY ONLY <3>3, CutAppend
    <3>5. Cut(GuiLine', GuiShown', Recorded')
      BY <1>2, <2>5, <2>7, <3>2, <3>4
    <3>6. GuiShown' <= Recorded'
      BY <1>2, <2>7, <3>2, <3>3
    <3> QED  BY <1>1, <1>2, <3>1, <3>5, <3>6 DEF GuiStream, Records
  <2>9. SpctrgmStream' /\ WaterfallIsHistory'
    <3>1. ASSUME whole
          PROVE  img[0][1] <= Recorded' /\ Cut(SpctrgmLine', img[0][1], Recorded')
      <4>1. img[0][1] <= Recorded /\ Cut(SpctrgmLine, img[0][1], Recorded)
        BY <3>1 DEF Streams, SpctrgmStream
      <4>2. PICK q \in Seq(Units), a \in Nat : q = SpctrgmLine /\ a = img[0][1]
        BY LinesTyped, Counted
      <4>3. a <= b /\ b < k /\ Cut(q, a, b) /\ r \in Records(k)
        BY <2>7, <4>1, <4>2
      <4>4. Cut(q \o r, a, k)
        BY ONLY <4>3, CutAppend
      <4> QED  BY <1>2, <2>6, <2>7, <4>2, <4>3, <4>4
    <3>2. SpctrgmStream'
      BY <1>1, <3>1 DEF SpctrgmStream
    <3> QED  BY <1>1, <3>2 DEF Streams, WaterfallIsHistory
  <2>10. AtHand'
    BY <1>1, <1>5, <2>1 DEF AtHand, Records
  <2> QED  BY <1>3, <2>8, <2>9, <2>10 DEF Streams
<1> QED  BY <1>1, <1>4, <1>5

\* A stretch of the write of ps to one of its two sockets.
LEMMA RecordMoves ==
  ASSUME IInv, NEW socket \in {"gui", "spctrgm"}, NEW next, Send(socket, ps, next)
  PROVE  /\ pcF = socket /\ open
         /\ \A other \in Sockets \ {socket} : wire'[other] = wire[other]
         /\ \/ /\ sent' = 0 /\ pcF' = next
               /\ wire'[socket] \o <<>> = wire[socket] \o SubSeq(ps, sent + 1, 4)
            \/ /\ pcF' = pcF
               /\ wire'[socket] \o SubSeq(ps, sent' + 1, 4)
                    = wire[socket] \o SubSeq(ps, sent + 1, 4)
         /\ UNCHANGED <<open, pcG, got, shown, shut, buf, img, whole>>
<1>1. PICK r \in Seq(Seen) : r = ps /\ Len(r) = 4
  BY RecordIsASequence
<1>2. /\ Send(socket, r, next) /\ sent < Len(r) /\ socket \in Sockets
      /\ sent \in Nat
  BY <1>1 DEF IInv, TypeNow, Sockets
<1>3. /\ pcF = socket /\ open
      /\ \A other \in Sockets \ {socket} : wire'[other] = wire[other]
      /\ \/ /\ sent' = 0 /\ pcF' = next
            /\ wire'[socket] = wire[socket] \o SubSeq(r, sent + 1, Len(r))
         \/ /\ sent' \in Nat /\ sent' < Len(r) /\ pcF' = pcF
            /\ wire'[socket] \o SubSeq(r, sent' + 1, Len(r))
                 = wire[socket] \o SubSeq(r, sent + 1, Len(r))
      /\ UNCHANGED <<open, pcG, got, shown, shut, buf, img, whole>>
  BY <1>2, SendMoves
<1>4. ASSUME wire'[socket] = wire[socket] \o SubSeq(r, sent + 1, Len(r))
      PROVE  wire'[socket] \o <<>> = wire[socket] \o SubSeq(r, sent + 1, Len(r))
  <2>1. PICK w, x, q : w = wire[socket] /\ x = SubSeq(r, sent + 1, Len(r)) /\ q = wire'[socket]
    OBVIOUS
  <2>2. sent \in 0..Len(r)
    BY <1>1, <1>2
  <2>3. x \in Seq(Seen)
    BY <2>1, <2>2, TailPiece
  <2>4. w \in Seq(Seen) /\ x \in Seq(Seen) /\ q = w \o x
    BY <1>2, <1>4, <2>1, <2>3 DEF IInv, TypeNow
  <2>5. q \o <<>> = w \o x
    BY ONLY <2>4
  <2> QED  BY <2>1, <2>5
<1> QED  BY <1>1, <1>3, <1>4

LEMMA SendToGuiKeepsStreams ==
  ASSUME IInv, Streams, SendToGui
  PROVE  Streams'
<1>1. Send("gui", ps, "spctrgm") /\ UNCHANGED <<frame, temp_mat, lwork, s, ps>>
  BY DEF SendToGui, analysis
<1>2. /\ pcF = "gui" /\ open
      /\ wire'["env"] = wire["env"] /\ wire'["spctrgm"] = wire["spctrgm"]
      /\ \/ /\ sent' = 0 /\ pcF' = "spctrgm"
            /\ wire'["gui"] \o <<>> = wire["gui"] \o SubSeq(ps, sent + 1, 4)
         \/ /\ pcF' = pcF
            /\ wire'["gui"] \o SubSeq(ps, sent' + 1, 4) = wire["gui"] \o SubSeq(ps, sent + 1, 4)
      /\ UNCHANGED <<open, pcG, got, shown, shut, buf, img, whole>>
  <2>1. {"env", "spctrgm"} \subseteq Sockets \ {"gui"}
    BY DEF Sockets
  <2> QED  BY <1>1, <2>1, RecordMoves
<1>3. /\ Enveloped' = Enveloped /\ Recorded' = Recorded /\ Recorded \in Nat
      /\ EnvRead' = EnvRead /\ EnvLeft' = EnvLeft /\ GuiBase' = GuiBase /\ GuiGot' = GuiGot
  BY <1>1, <1>2, Counted DEF Enveloped, Recorded, EnvRead, EnvLeft, GuiBase, GuiGot
<1>4. GuiLine' = GuiLine
  <2>1. wire'["gui"] \o GuiLeft' = wire["gui"] \o GuiLeft
    BY <1>1, <1>2 DEF GuiLeft
  <2> QED  BY <1>3, <2>1 DEF GuiLine
<1>5. SpctrgmLine' = SpctrgmLine
  <2>1. ps \in Seq(Seen) /\ Len(ps) = 4
    BY RecordIsASequence
  <2>2. SubSeq(ps, 1, 4) = ps
    BY <2>1, SubSeqFull
  <2>3. SpctrgmLeft' = ps /\ SpctrgmLeft = ps
    <3>1. CASE pcF' = pcF
      BY <1>1, <1>2, <3>1 DEF SpctrgmLeft
    <3>2. CASE sent' = 0 /\ pcF' = "spctrgm"
      <4>1. sent' + 1 = 1
        BY <3>2
      <4> QED  BY <1>1, <1>2, <2>2, <3>2, <4>1 DEF SpctrgmLeft
    <3> QED  BY <1>2, <3>1, <3>2
  <2> QED  BY <1>2, <2>3 DEF SpctrgmLine
<1>6. EnvStream'
  BY <1>2, <1>3, EnvUntouched DEF Streams
<1>7. GuiStream'
  BY <1>2, <1>3, <1>4, GuiUntouched DEF Streams
<1>8. SpctrgmStream' /\ WaterfallIsHistory'
  BY <1>2, <1>3, <1>5, SpctrgmUntouched DEF Streams
<1>9. AtHand'
  BY <1>1, <1>2 DEF Streams, AtHand, Records
<1> QED  BY <1>6, <1>7, <1>8, <1>9 DEF Streams

LEMMA SendToSpctrgmKeepsStreams ==
  ASSUME IInv, Streams, SendToSpctrgm
  PROVE  Streams'
<1>1. /\ Send("spctrgm", ps, "read") /\ UNCHANGED <<frame, temp_mat, lwork, s>>
      /\ pcF' # "read" => ps' = ps
  BY DEF SendToSpctrgm
<1>2. /\ pcF = "spctrgm" /\ open
      /\ wire'["env"] = wire["env"] /\ wire'["gui"] = wire["gui"]
      /\ \/ /\ sent' = 0 /\ pcF' = "read"
            /\ wire'["spctrgm"] \o <<>> = wire["spctrgm"] \o SubSeq(ps, sent + 1, 4)
         \/ /\ pcF' = pcF
            /\ wire'["spctrgm"] \o SubSeq(ps, sent' + 1, 4)
                 = wire["spctrgm"] \o SubSeq(ps, sent + 1, 4)
      /\ UNCHANGED <<open, pcG, got, shown, shut, buf, img, whole>>
  <2>1. {"env", "gui"} \subseteq Sockets \ {"spctrgm"}
    BY DEF Sockets
  <2> QED  BY <1>1, <2>1, RecordMoves
<1>3. /\ Enveloped' = Enveloped /\ Recorded' = Recorded /\ Recorded \in Nat
      /\ EnvRead' = EnvRead /\ EnvLeft' = EnvLeft
      /\ GuiBase' = GuiBase /\ GuiGot' = GuiGot /\ GuiLeft' = GuiLeft
  BY <1>1, <1>2, Counted
  DEF Enveloped, Recorded, EnvRead, EnvLeft, GuiBase, GuiGot, GuiLeft
<1>4. GuiLine' = GuiLine
  BY <1>2, <1>3 DEF GuiLine
<1>5. SpctrgmLine' = SpctrgmLine
  BY <1>1, <1>2 DEF SpctrgmLine, SpctrgmLeft
<1>6. EnvStream'
  BY <1>2, <1>3, EnvUntouched DEF Streams
<1>7. GuiStream'
  BY <1>2, <1>3, <1>4, GuiUntouched DEF Streams
<1>8. SpctrgmStream' /\ WaterfallIsHistory'
  BY <1>2, <1>3, <1>5, SpctrgmUntouched DEF Streams
<1>9. AtHand'
  BY <1>1, <1>2 DEF Streams, AtHand, Records
<1> QED  BY <1>6, <1>7, <1>8, <1>9 DEF Streams

LEMMA ProcessEndsKeepsStreams ==
  ASSUME IInv, Streams, ProcessEnds
  PROVE  Streams'
<1>1. /\ open /\ open' = FALSE
      /\ UNCHANGED <<frame, pcF, sent, temp_mat, s, ps, wire, pcG, got, shown, img, whole>>
  BY DEF ProcessEnds, fftVars, analysis, guiVars, spctrgmVars
<1>2. /\ Enveloped' = Enveloped /\ Recorded' = Recorded /\ Recorded \in Nat
      /\ EnvRead' = EnvRead /\ EnvLeft' = EnvLeft
      /\ GuiLine' = GuiLine /\ SpctrgmLine' = SpctrgmLine
  BY <1>1, Counted
  DEF Enveloped, Recorded, EnvRead, EnvLeft, GuiLine, GuiBase, GuiGot, GuiLeft, SpctrgmLine,
      SpctrgmLeft
<1>3. EnvStream'
  BY <1>1, <1>2, EnvUntouched DEF Streams
<1>4. GuiStream'
  BY <1>1, <1>2, GuiUntouched DEF Streams
<1>5. SpctrgmStream' /\ WaterfallIsHistory'
  BY <1>1, <1>2, SpctrgmUntouched DEF Streams
<1>6. AtHand'
  BY <1>1 DEF Streams, AtHand, Records
<1> QED  BY <1>3, <1>4, <1>5, <1>6 DEF Streams
-----------------------------------------------------------------------------
(* The steps of the GUI and of the spectrogram thread.                     *)

LEMMA HandlerStartsKeepsStreams ==
  ASSUME IInv, Streams, HandlerStarts
  PROVE  Streams'
<1>1. /\ pcG = "loop" /\ pcG' \in {"envelope", "ps"} /\ got = <<>>
      /\ UNCHANGED <<frame, pcF, sent, temp_mat, s, ps, wire, open, got, shown, img, whole>>
  <2>1. Len(got) = 0
    BY DEF HandlerStarts, IInv, Places
  <2> QED  BY DEF HandlerStarts, fftVars, analysis, spctrgmVars, IInv, Places
<1>2. /\ Enveloped' = Enveloped /\ Recorded' = Recorded /\ Recorded \in Nat
      /\ EnvRead' = EnvRead /\ EnvLeft' = EnvLeft
      /\ GuiLine' = GuiLine /\ SpctrgmLine' = SpctrgmLine
  BY <1>1, Counted
  DEF Enveloped, Recorded, EnvRead, EnvLeft, GuiLine, GuiBase, GuiGot, GuiLeft, SpctrgmLine,
      SpctrgmLeft
<1>3. EnvStream'
  BY <1>1, <1>2, EnvUntouched DEF Streams
<1>4. GuiStream'
  BY <1>1, <1>2, GuiUntouched DEF Streams
<1>5. SpctrgmStream' /\ WaterfallIsHistory'
  BY <1>1, <1>2, SpctrgmUntouched DEF Streams
<1>6. AtHand'
  BY <1>1 DEF Streams, AtHand, Records
<1> QED  BY <1>3, <1>4, <1>5, <1>6 DEF Streams

\* A binread gets something only where something waits.
LEMMA SomethingWaits ==
  ASSUME IInv, NEW v \in Vectors, BinReadGets(v)
  PROVE  wire[SocketOf(v)] # <<>>
<1>1. PICK n \in 1..(Wanted[v] - Len(got)) : n <= Len(wire[SocketOf(v)])
  BY BinReadTakes
<1> QED  BY <1>1

LEMMA EnvelopeReadKeepsStreams ==
  ASSUME IInv, Streams, BinReadGets("envelope")
  PROVE  /\ Streams'
         /\ EnvShown' \in {EnvShown, EnvShown + 1} /\ shown'["ts"] = shown["ts"]
<1>1. "envelope" \in Vectors /\ SocketOf("envelope") = "env"
  BY DEF Vectors, SocketOf
<1>2. PICK base, left : base = <<>> /\ left = EnvLeft
  OBVIOUS
<1>3. base \in Seq(Units) /\ left \in Seq(Units)
  BY <1>2, LinesTyped
<1>b. PICK n \in 1..(Wanted["envelope"] - Len(got)),
           all \in Seq(Units), read \in Seq(Units), line \in Seq(Units) :
        Moved("envelope", base, left, n, all, read, line)
  BY <1>1, <1>3, ReadMoves
<1>4. /\ pcG = "envelope"
      /\ all \in Seq(Units) /\ read \in Seq(Units) /\ line \in Seq(Units)
      /\ Len(all) = Len(got) + n
      /\ read = base \o all /\ line = wire'["env"] \o left
      /\ (base \o got) \o (wire["env"] \o left) = read \o line
      /\ \A other \in Sockets \ {"env"} : wire'[other] = wire[other]
      /\ \/ /\ n = Wanted["envelope"] - Len(got)
            /\ shown'["envelope"] = all
            /\ \A w \in Vectors \ {"envelope"} : shown'[w] = shown[w]
            /\ got' = <<>> /\ pcG' = NextVector["envelope"]
         \/ /\ n < Wanted["envelope"] - Len(got)
            /\ got' = all /\ UNCHANGED <<shown, pcG>>
      /\ UNCHANGED <<frame, pcF, sent, temp_mat, lwork, s, ps, open, shut, buf, img, whole>>
  BY <1>1, <1>b DEF Moved
<1>5. /\ wire'["gui"] = wire["gui"] /\ wire'["spctrgm"] = wire["spctrgm"]
      /\ shown'["ps"] = shown["ps"] /\ shown'["svd"] = shown["svd"]
      /\ shown'["ts"] = shown["ts"] /\ pcG' \in {"loop", "envelope"}
  BY <1>4 DEF Sockets, Vectors, NextVector
<1>6. /\ Enveloped' = Enveloped /\ Recorded' = Recorded /\ Recorded \in Nat
      /\ EnvLeft' = left /\ SpctrgmLine' = SpctrgmLine /\ GuiLine' = GuiLine
  BY <1>2, <1>4, <1>5, Counted
  DEF Enveloped, Recorded, EnvLeft, SpctrgmLine, SpctrgmLeft, GuiLine, GuiBase, GuiGot, GuiLeft
<1>7. EnvLine = all \o line /\ read = all
  <2>1. <<>> \o got = got /\ <<>> \o all = all
    <3>1. got \in Seq(Seen) /\ all \in Seq(Units)
      BY <1>4 DEF IInv, TypeNow
    <3> QED  BY ONLY <3>1
  <2> QED  BY <1>2, <1>4, <2>1 DEF EnvLine, EnvRead
<1>8. /\ Halves(EnvLine, EnvShown, Enveloped)
      /\ EnvShown = 0 \/ shown["envelope"] = Envelope(EnvShown)
  BY <1>1, SomethingWaits DEF Streams, EnvStream
<1>9. EnvStream' /\ EnvShown' \in {EnvShown, EnvShown + 1}
  <2>1. CASE got' = all /\ UNCHANGED <<shown, pcG>>
    <3>1. EnvLine' = EnvLine
      BY <1>4, <1>6, <1>7, <2>1 DEF EnvLine, EnvRead
    <3>2. EnvShown' = EnvShown
      BY <2>1 DEF EnvShown
    <3> QED  BY <1>6, <1>8, <2>1, <3>1, <3>2 DEF EnvStream, Halves, Envelope
  <2>2. CASE /\ n = Wanted["envelope"] - Len(got)
             /\ shown'["envelope"] = all /\ got' = <<>> /\ pcG' = NextVector["envelope"]
    <3>1. Len(all) = 2
      <4> DEFINE l == Len(got)
      <4>1. l \in Nat /\ n = 2 - l /\ Len(all) = l + n
        BY <1>4, <2>2, LenProperties DEF Wanted, IInv, TypeNow
      <4> HIDE DEF l
      <4> QED  BY <4>1
    <3>2. PICK a, b \in Nat : a = EnvShown /\ b = Enveloped
      BY Counted
    <3>3. all = Envelope(a + 1) /\ Halves(line, a + 1, b)
      <4>1. Halves(all \o line, a, b)
        BY <1>7, <1>8, <3>2
      <4>2. all \in Seq(Units) /\ line \in Seq(Units) /\ Len(all) = 2
        BY <1>4, <3>1
      <4> QED  BY ONLY <4>1, <4>2, HalvesDrop
    <3>4. EnvShown' = a + 1 /\ shown'["envelope"] = Envelope(EnvShown')
      BY <2>2, <3>3 DEF EnvShown, Envelope
    <3>5. EnvLine' = line
      <4>1. <<>> \o line = line
        BY <1>4
      <4> QED  BY <1>4, <1>6, <2>2, <4>1 DEF EnvLine, EnvRead, NextVector
    <3> QED  BY <1>6, <3>2, <3>3, <3>4, <3>5 DEF EnvStream, Halves, Envelope
  <2> QED  BY <1>4, <2>1, <2>2
<1>10. GuiStream'
  BY <1>4, <1>5, <1>6, GuiUntouched DEF Streams
<1>11. SpctrgmStream' /\ WaterfallIsHistory'
  BY <1>4, <1>6, SpctrgmUntouched DEF Streams
<1>12. AtHand'
  BY <1>4 DEF Streams, AtHand, Records
<1> QED  BY <1>5, <1>9, <1>10, <1>11, <1>12 DEF Streams

LEMMA GraphReadKeepsStreams ==
  ASSUME IInv, Streams, NEW v \in {"ps", "svd", "ts"}, BinReadGets(v)
  PROVE  /\ Streams'
         /\ GuiShown' = GuiShown \/ GuiShown < GuiShown'
         /\ shown'["envelope"] = shown["envelope"]
<1>1. v \in Vectors /\ SocketOf(v) = "gui"
  BY DEF Vectors, SocketOf
<1>2. PICK base, left : base = GuiBase /\ left = GuiLeft
  OBVIOUS
<1>3. base \in Seq(Units) /\ left \in Seq(Units)
  BY <1>2, LinesTyped
<1>b. PICK n \in 1..(Wanted[v] - Len(got)),
           all \in Seq(Units), read \in Seq(Units), line \in Seq(Units) :
        Moved(v, base, left, n, all, read, line)
  BY <1>1, <1>3, ReadMoves
<1>4. /\ pcG = v
      /\ all \in Seq(Units) /\ read \in Seq(Units) /\ line \in Seq(Units)
      /\ Len(all) = Len(got) + n
      /\ read = base \o all /\ line = wire'["gui"] \o left
      /\ (base \o got) \o (wire["gui"] \o left) = read \o line
      /\ \A other \in Sockets \ {"gui"} : wire'[other] = wire[other]
      /\ \/ /\ n = Wanted[v] - Len(got)
            /\ shown'[v] = all
            /\ \A w \in Vectors \ {v} : shown'[w] = shown[w]
            /\ got' = <<>> /\ pcG' = NextVector[v]
         \/ /\ n < Wanted[v] - Len(got)
            /\ got' = all /\ UNCHANGED <<shown, pcG>>
      /\ UNCHANGED <<frame, pcF, sent, temp_mat, lwork, s, ps, open, shut, buf, img, whole>>
  BY <1>1, <1>b DEF Moved
<1>5. /\ wire'["env"] = wire["env"] /\ wire'["spctrgm"] = wire["spctrgm"]
      /\ shown'["envelope"] = shown["envelope"] /\ pcG # "envelope" /\ pcG' # "envelope"
  BY <1>4 DEF Sockets, Vectors, NextVector
<1>6. /\ Enveloped' = Enveloped /\ Recorded' = Recorded /\ Recorded \in Nat
      /\ EnvRead' = EnvRead /\ EnvLeft' = EnvLeft
      /\ GuiLeft' = left /\ SpctrgmLine' = SpctrgmLine
  BY <1>2, <1>4, <1>5, Counted
  DEF Enveloped, Recorded, EnvRead, EnvLeft, SpctrgmLine, SpctrgmLeft, GuiLeft
<1>7. GuiLine = read \o line
  BY <1>2, <1>4 DEF GuiLine, GuiGot
<1>8. GuiShown <= Recorded /\ Cut(GuiLine, GuiShown, Recorded)
  BY <1>1, SomethingWaits DEF Streams, GuiStream
<1>a. /\ shown["ps"] \in Seq(Units) /\ Len(shown["ps"]) = 1
      /\ shown["svd"] \in Seq(Units) /\ Len(shown["svd"]) = 1
  BY VectorsHold
<1>9. GuiStream' /\ (GuiShown' = GuiShown \/ GuiShown < GuiShown')
  <2>1. CASE n < Wanted[v] - Len(got) /\ got' = all /\ UNCHANGED <<shown, pcG>>
    <3>1. GuiLine' = GuiLine /\ GuiShown' = GuiShown
      BY <1>2, <1>4, <1>6, <1>7, <2>1 DEF GuiLine, GuiBase, GuiGot, GuiShown
    <3>2. v = "ts"
      <4>1. Len(got) \in Nat
        BY DEF IInv, TypeNow
      <4>2. v # "ts" => Wanted[v] = 1
        BY DEF Wanted
      <4> QED  BY <2>1, <4>1, <4>2
    <3> QED  BY <1>4, <1>6, <1>8, <2>1, <3>1, <3>2 DEF GuiStream
  <2>2. CASE /\ v \in {"ps", "svd"}
             /\ shown'[v] = all /\ \A w \in Vectors \ {v} : shown'[w] = shown[w]
             /\ got' = <<>> /\ pcG' = NextVector[v]
    <3>1. GuiBase' = read /\ GuiGot' = <<>>
      <4>1. CASE v = "ps"
        <5>1. <<>> \o all = all
          BY <1>4
        <5> QED  BY <1>2, <1>4, <2>2, <4>1, <5>1 DEF GuiBase, GuiGot, NextVector
      <4>2. CASE v = "svd"
        <5>1. shown'["ps"] = shown["ps"] /\ shown'["svd"] = all
          BY <2>2, <4>2 DEF Vectors
        <5> QED  BY <1>2, <1>4, <2>2, <4>2, <5>1 DEF GuiBase, GuiGot, NextVector
      <4> QED  BY <2>2, <4>1, <4>2
    <3>2. GuiLine' = GuiLine
      <4>1. read \o <<>> = read
        BY <1>4
      <4> QED  BY <1>4, <1>6, <1>7, <3>1, <4>1 DEF GuiLine
    <3>3. GuiShown' = GuiShown /\ pcG' \in {"svd", "ts"}
      BY <2>2 DEF GuiShown, NextVector, Vectors
    <3> QED  BY <1>6, <1>8, <3>2, <3>3 DEF GuiStream
  <2>3. CASE /\ v = "ts" /\ n = Wanted[v] - Len(got)
             /\ shown'[v] = all /\ \A w \in Vectors \ {v} : shown'[w] = shown[w]
             /\ got' = <<>> /\ pcG' = NextVector[v]
    <3>1. Len(all) = 2
      <4> DEFINE l == Len(got)
      <4>1. l \in Nat /\ n = 2 - l /\ Len(all) = l + n
        BY <1>4, <2>3, LenProperties DEF Wanted, IInv, TypeNow
      <4> HIDE DEF l
      <4> QED  BY <4>1
    <3>2. PICK x, y : x = shown["ps"] /\ y = shown["svd"]
      OBVIOUS
    <3>3. base = x \o y /\ x \in Seq(Units) /\ y \in Seq(Units) /\ Len(x) = 1 /\ Len(y) = 1
      BY <1>2, <1>4, <1>a, <2>3, <3>2 DEF GuiBase
    <3>4. base \in Seq(Units) /\ Len(base) = 2
      <4>1. Len(x \o y) = Len(x) + Len(y)
        BY ONLY <3>3, Joined
      <4> QED  BY <1>3, <3>3, <4>1
    <3>5. read \in Seq(Units) /\ Len(read) = 4 /\ read[3] = all[1]
      <4>1. /\ read = base \o all /\ base \in Seq(Units) /\ all \in Seq(Units)
            /\ Len(base) = 2 /\ Len(all) = 2
        BY <1>4, <3>1, <3>4
      <4>2. /\ Len(base \o all) = Len(base) + Len(all)
            /\ \A i \in 1..Len(all) : (base \o all)[Len(base) + i] = all[i]
        <5>1. base \in Seq(Units) /\ all \in Seq(Units)
          BY <4>1
        <5> QED  BY ONLY <5>1, Joined
      <4>3. Len(read) = 4
        BY ONLY <4>1, <4>2
      <4>4. 1 \in 1..Len(all) /\ Len(base) + 1 = 3
        BY <4>1
      <4>5. read[3] = all[1]
        BY <4>1, <4>2, <4>4
      <4> QED  BY <1>4, <4>3, <4>5
    <3>6. PICK a, b \in Nat : a = GuiShown /\ b = Recorded
      BY Counted
    <3>7. /\ read[1][1] \in Nat /\ a < read[1][1] /\ read[1][1] <= b
          /\ read \in Records(read[1][1])
          /\ Cut(line, read[1][1], b)
      <4>1. Cut(read \o line, a, b)
        BY <1>7, <1>8, <3>6
      <4> QED  BY <1>4, <3>5, <4>1, CutDrop
    <3>8. PICK k \in Nat : k = read[1][1]
      BY <3>7
    <3>9. GuiShown' = k
      <4>1. read[3][1] = k
        BY <3>7, <3>8, RecordUnits
      <4> QED  BY <2>3, <3>5, <4>1 DEF GuiShown
    <3>10. Graphs' = read
      <4>1. shown'["ps"] = x /\ shown'["svd"] = y /\ shown'["ts"] = all
        BY <2>3, <3>2 DEF Vectors
      <4> QED  BY <1>4, <3>3, <4>1 DEF Graphs
    <3>11. GuiLine' = line
      <4>1. <<>> \o <<>> = <<>> /\ <<>> \o line = line
        BY <1>4
      <4> QED  BY <1>4, <1>6, <2>3, <4>1 DEF GuiLine, GuiBase, GuiGot, NextVector
    <3> QED  BY <1>6, <3>6, <3>7, <3>8, <3>9, <3>10, <3>11 DEF GuiStream, Records
  <2> QED  BY <1>4, <2>1, <2>2, <2>3
<1>10. EnvStream'
  BY <1>4, <1>5, <1>6, EnvUntouched DEF Streams
<1>11. SpctrgmStream' /\ WaterfallIsHistory'
  BY <1>4, <1>6, SpctrgmUntouched DEF Streams
<1>12. AtHand'
  BY <1>4 DEF Streams, AtHand, Records
<1> QED  BY <1>5, <1>9, <1>10, <1>11, <1>12 DEF Streams

LEMMA EnvelopeEndsKeepsStreams ==
  ASSUME IInv, Streams, BinReadEnds("envelope")
  PROVE  /\ Streams'
         /\ EnvShown' \in {EnvShown, EnvShown + 1} /\ shown'["ts"] = shown["ts"]
<1>1. /\ pcG = "envelope" /\ ~open /\ wire["env"] = <<>> /\ got' = <<>> /\ pcG' = "loop"
      /\ \/ got = <<>> /\ shown' = shown
         \/ /\ got # <<>>
            /\ shown'["envelope"]
                 = got \o SubSeq(shown["envelope"], Len(got) + 1, Len(shown["envelope"]))
      /\ shown'["ps"] = shown["ps"] /\ shown'["svd"] = shown["svd"]
      /\ shown'["ts"] = shown["ts"]
      /\ UNCHANGED <<frame, pcF, sent, temp_mat, s, ps, wire, open, img, whole>>
  <2>1. shown \in [Vectors -> Seq(Seen)] /\ {"envelope", "ps", "svd", "ts"} = Vectors
    BY DEF IInv, TypeNow, Vectors
  <2> QED
    BY <2>1 DEF BinReadEnds, SocketOf, NextVector, fftVars, analysis, spctrgmVars
<1>2. /\ Enveloped' = Enveloped /\ Recorded' = Recorded /\ Recorded \in Nat
      /\ EnvRead = got /\ EnvRead' = <<>> /\ EnvLeft' = EnvLeft
      /\ GuiLine' = GuiLine /\ SpctrgmLine' = SpctrgmLine
  BY <1>1, Counted
  DEF Enveloped, Recorded, EnvRead, EnvLeft, GuiLine, GuiBase, GuiGot, GuiLeft, SpctrgmLine,
      SpctrgmLeft
<1>3. EnvStream' /\ EnvShown' \in {EnvShown, EnvShown + 1}
  <2>1. CASE got = <<>>
    <3>1. EnvShown' = EnvShown
      BY <1>1, <2>1 DEF EnvShown
    <3> QED  BY <1>1, <1>2, <2>1, <3>1, EnvUntouched DEF Streams
  <2>2. CASE got # <<>>
    <3>1. Halves(EnvLine, EnvShown, Enveloped)
      BY <1>2, <2>2 DEF Streams, EnvStream
    <3>2. PICK a, b \in Nat : a = EnvShown /\ b = Enveloped
      BY Counted
    <3>3. got \in Seq(Units) /\ Len(got) = 1
      BY <1>1, <2>2, HalfRead
    <3>4. PICK g, x, l : g = got /\ x = EnvLeft /\ l = EnvLine
      OBVIOUS
    <3>5. x \in Seq(Units) /\ Len(x) \in Nat /\ Len(x) <= 2
      BY <3>4, LinesTyped, EnvLeftShort
    <3>g. g \in Seq(Units) /\ Len(g) = 1 /\ 1 \in 1..Len(g)
      <4>1. g \in Seq(Units) /\ Len(g) = 1
        BY ONLY <3>3, <3>4, Zenon
      <4> QED  BY ONLY <4>1
    <3>6. l = g \o x
      <4>1. <<>> \o x = x
        BY <3>5
      <4> QED  BY <1>1, <1>2, <3>4, <4>1 DEF EnvLine
    <3>7. Len(l) = 1 + Len(x) /\ l[1] = g[1]
      <4>1. g \in Seq(Units) /\ x \in Seq(Units)
        BY ONLY <3>g, <3>5
      <4>2. Len(g \o x) = Len(g) + Len(x) /\ \A i \in 1..Len(g) : (g \o x)[i] = g[i]
        BY ONLY <4>1, Joined
      <4> QED  BY <3>6, <3>g, <4>2
    <3>8. b = a + 1
      <4>1. Len(l) = 2 * (b - a)
        BY <3>1, <3>2, <3>4 DEF Halves
      <4> DEFINE m == Len(x)
      <4>2. m \in Nat /\ m <= 2 /\ 1 + m = 2 * (b - a)
        BY <3>5, <3>7, <4>1
      <4> HIDE DEF m
      <4> QED  BY ONLY <3>2, <4>2
    <3>9. g[1][1] = b
      <4>1. 1 \in 1..Len(l)
        BY <3>5, <3>7
      <4>2. l[1] = <<a + (1 + 1) \div 2, IF 1 % 2 = 1 THEN "env1" ELSE "env2">>
        BY <3>1, <3>2, <3>4, <4>1 DEF Halves
      <4>3. l[1][1] = a + (1 + 1) \div 2
        BY <4>2
      <4> QED  BY <3>7, <3>8, <4>3
    <3>10. shown'["envelope"][1] = g[1]
      <4>1. PICK h, r : h = shown["envelope"] /\ r = SubSeq(h, 2, Len(h))
        OBVIOUS
      <4>2. h \in Seq(Units) /\ Len(h) = 2
        BY <4>1, VectorsHold
      <4>3. r \in Seq(Units)
        <5>1. 1 \in 0..Len(h)
          BY <4>2
        <5>2. SubSeq(h, 1 + 1, Len(h)) \in Seq(Units)
          BY <4>2, <5>1, TailPiece
        <5> QED  BY <4>1, <5>2
      <4>4. shown'["envelope"] = g \o r
        <5>1. Len(got) + 1 = 2
          BY <3>3
        <5> QED  BY <1>1, <2>2, <3>4, <4>1, <5>1
      <4>5. g \in Seq(Units) /\ r \in Seq(Units)
        BY ONLY <3>g, <4>3
      <4>6. \A i \in 1..Len(g) : (g \o r)[i] = g[i]
        BY ONLY <4>5, Joined
      <4>7. (g \o r)[1] = g[1]
        BY ONLY <3>g, <4>6, Zenon
      <4> QED  BY ONLY <4>4, <4>7, Zenon
    <3>11. EnvShown' = Enveloped'
      BY <1>2, <3>2, <3>9, <3>10 DEF EnvShown
    <3> QED  BY <1>1, <1>2, <3>2, <3>8, <3>11 DEF EnvStream
  <2> QED  BY <2>1, <2>2
<1>4. GuiStream'
  BY <1>1, <1>2, GuiUntouched DEF Streams
<1>5. SpctrgmStream' /\ WaterfallIsHistory'
  BY <1>1, <1>2, SpctrgmUntouched DEF Streams
<1>6. AtHand'
  BY <1>1 DEF Streams, AtHand, Records
<1> QED  BY <1>1, <1>3, <1>4, <1>5, <1>6 DEF Streams

LEMMA GraphEndsKeepsStreams ==
  ASSUME IInv, Streams, NEW v \in {"ps", "svd", "ts"}, BinReadEnds(v)
  PROVE  /\ Streams'
         /\ GuiShown' = GuiShown \/ GuiShown < GuiShown'
         /\ shown'["envelope"] = shown["envelope"]
<1>1. /\ pcG = v /\ ~open /\ wire["gui"] = <<>> /\ got' = <<>>
      /\ \/ got = <<>> /\ pcG' = "loop" /\ shown' = shown
         \/ /\ got # <<>> /\ pcG' = NextVector[v]
            /\ shown'[v] = got \o SubSeq(shown[v], Len(got) + 1, Len(shown[v]))
      /\ shown'["envelope"] = shown["envelope"]
      /\ UNCHANGED <<frame, pcF, sent, temp_mat, s, ps, wire, open, img, whole>>
  <2>1. shown \in [Vectors -> Seq(Seen)] /\ {"envelope", "ps", "svd", "ts"} = Vectors
    BY DEF IInv, TypeNow, Vectors
  <2> QED
    BY <2>1 DEF BinReadEnds, SocketOf, fftVars, analysis, spctrgmVars
<1>2. /\ Enveloped' = Enveloped /\ Recorded' = Recorded /\ Recorded \in Nat
      /\ EnvRead' = EnvRead /\ EnvLeft' = EnvLeft /\ SpctrgmLine' = SpctrgmLine
  BY <1>1, Counted
  DEF Enveloped, Recorded, EnvRead, EnvLeft, SpctrgmLine, SpctrgmLeft, NextVector
<1>3. EnvStream'
  BY <1>1, <1>2, EnvUntouched DEF Streams
<1>4. got # <<>> => v = "ts"
  <2>1. got \in Seq(Seen)
    BY DEF IInv, TypeNow
  <2>2. got # <<>> => Len(got) \in Nat /\ Len(got) # 0
    BY <2>1, LenProperties, EmptySeq
  <2>3. v \in Vectors
    BY DEF Vectors
  <2>4. Len(got) < Wanted[v]
    BY <1>1, <2>3 DEF IInv, Places
  <2>5. v # "ts" => Wanted[v] = 1
    BY DEF Wanted
  <2> QED  BY <2>2, <2>4, <2>5
<1>5. GuiShown' <= Recorded' /\ (GuiShown' = GuiShown \/ GuiShown < GuiShown')
  <2>1. CASE got = <<>>
    BY <1>1, <1>2, <2>1 DEF Streams, GuiStream, GuiShown
  <2>2. CASE got # <<>>
    <3>1. v = "ts" /\ Cut(GuiLine, GuiShown, Recorded)
      BY <1>1, <1>4, <2>2 DEF Streams, GuiStream
    <3>2. PICK x, y, base, g, left, before, rest :
            /\ x = shown["ps"] /\ y = shown["svd"] /\ base = x \o y /\ g = got
            /\ left = GuiLeft /\ before = base \o g /\ rest = <<>> \o left
      OBVIOUS
    <3>3. /\ x \in Seq(Units) /\ Len(x) = 1 /\ y \in Seq(Units) /\ Len(y) = 1
          /\ g \in Seq(Units) /\ left \in Seq(Units)
      BY <3>2, SeenAreUnits, VectorsHold, LinesTyped DEF IInv, TypeNow
    <3>4. Len(g) = 1
      BY <1>1, <2>2, <3>1, <3>2, HalfRead
    <3>5. base \in Seq(Units) /\ Len(base) = 2
      <4>1. base \in Seq(Units) /\ Len(base) = Len(x) + Len(y)
        BY ONLY <3>2, <3>3, Joined
      <4> QED  BY <3>3, <4>1
    <3>6. before \in Seq(Units) /\ Len(before) = 3 /\ before[3] = g[1]
      <4>1. base \in Seq(Units) /\ g \in Seq(Units) /\ before = base \o g
        BY <3>2, <3>3, <3>5
      <4>2. /\ before \in Seq(Units) /\ Len(before) = Len(base) + Len(g)
            /\ \A i \in 1..Len(g) : before[Len(base) + i] = g[i]
        BY ONLY <4>1, Joined
      <4>3. 1 \in 1..Len(g) /\ Len(base) + 1 = 3 /\ Len(base) + Len(g) = 3
        BY <3>4, <3>5
      <4> QED  BY <4>2, <4>3
    <3>7. PICK l : l = before \o left
      OBVIOUS
    <3>8. l \in Seq(Units) /\ Len(l) \in Nat /\ Len(l) >= 3 /\ l[3] = g[1]
      <4>1. before \in Seq(Units) /\ left \in Seq(Units) /\ l = before \o left
        BY <3>3, <3>6, <3>7
      <4>2. /\ l \in Seq(Units) /\ Len(l) = Len(before) + Len(left)
            /\ \A i \in 1..Len(before) : l[i] = before[i]
        BY ONLY <4>1, Joined
      <4>3. Len(left) \in Nat /\ 3 \in 1..Len(before)
        BY <3>3, <3>6, LenProperties
      <4> QED  BY <3>6, <4>2, <4>3
    <3>9. GuiLine = l
      <4>1. <<>> \o left = left
        BY <3>3
      <4> QED  BY <1>1, <3>1, <3>2, <3>7, <4>1 DEF GuiLine, GuiBase, GuiGot
    <3>10. /\ RecordAt(l, 1) \in Records(l[1][1]) /\ GuiShown < l[1][1]
           /\ l[1][1] <= Recorded
      <4>1. 1 \in 1..Len(l) /\ 1 % 4 = 1
        BY <3>8
      <4> QED  BY <3>1, <3>9, <4>1 DEF Cut
    <3>11. RecordAt(l, 1)[3][1] = l[1][1]
      BY <3>10 DEF Records
    <3>12. RecordAt(l, 1)[3] = l[3]
      <4>1. 1 + 2 = 3
        OBVIOUS
      <4> QED  BY <4>1 DEF RecordAt
    <3>13. shown'["ts"][1] = g[1]
      <4>1. PICK h, r : h = shown["ts"] /\ r = SubSeq(h, 2, Len(h))
        OBVIOUS
      <4>2. h \in Seq(Units) /\ Len(h) = 2
        BY <4>1, VectorsHold
      <4>3. r \in Seq(Units)
        <5>1. 1 \in 0..Len(h)
          BY <4>2
        <5>2. SubSeq(h, 1 + 1, Len(h)) \in Seq(Units)
          BY <4>2, <5>1, TailPiece
        <5> QED  BY <4>1, <5>2
      <4>4. shown'["ts"] = g \o r
        <5>1. Len(got) + 1 = 2
          BY <3>2, <3>4
        <5> QED  BY <1>1, <2>2, <3>1, <3>2, <4>1, <5>1
      <4>5. g \in Seq(Units) /\ r \in Seq(Units)
        BY <3>3, <4>3
      <4>6. \A i \in 1..Len(g) : (g \o r)[i] = g[i]
        BY ONLY <4>5, Joined
      <4>7. 1 \in 1..Len(g)
        BY <3>4
      <4> QED  BY <4>4, <4>6, <4>7
    <3> QED  BY <1>2, <3>8, <3>10, <3>11, <3>12, <3>13 DEF GuiShown
  <2> QED  BY <2>1, <2>2
<1>6. GuiStream'
  <2>1. CASE pcG' = "loop" /\ v # "ps"
    BY <1>1, <1>5, <2>1 DEF GuiStream
  <2>2. CASE v = "ps"
    <3>1. got = <<>> /\ pcG' = "loop" /\ shown' = shown
      BY <1>1, <1>4, <2>2
    <3>2. GuiLine' = GuiLine
      BY <1>1, <2>2, <3>1 DEF GuiLine, GuiBase, GuiGot, GuiLeft
    <3> QED  BY <1>1, <1>2, <2>2, <3>1, <3>2, GuiUntouched DEF Streams
  <2>3. CASE v = "ts" /\ pcG' = NextVector[v]
    <3>1. pcG' = "loop"
      BY <2>3 DEF NextVector
    <3> QED  BY <1>1, <1>5, <3>1 DEF GuiStream
  <2> QED  BY <1>1, <1>4, <2>1, <2>2, <2>3
<1>7. SpctrgmStream' /\ WaterfallIsHistory'
  BY <1>1, <1>2, SpctrgmUntouched DEF Streams
<1>8. AtHand'
  BY <1>1 DEF Streams, AtHand, Records
<1> QED  BY <1>1, <1>3, <1>5, <1>6, <1>7, <1>8 DEF Streams

LEMMA WaterfallKeepsStreams ==
  ASSUME IInv, Streams, Waterfall
  PROVE  Streams'
<1>1. PICK q, n, top, under, rest :
        /\ q = wire["spctrgm"] /\ n = IF Len(q) < 4 THEN Len(q) ELSE 4
        /\ top = SubSeq(q, 1, n) /\ under = SubSeq(buf, n + 1, 4)
        /\ rest = SubSeq(q, n + 1, Len(q))
  OBVIOUS
<1>2. /\ open
      /\ buf' = top \o under
      /\ wire' = [wire EXCEPT !["spctrgm"] = rest]
      /\ whole' = (whole /\ n = 4)
      /\ img' = [r \in 0..(Rows - 1) |->
                   IF r < Filled THEN buf'[Drawn] ELSE img[r - Scrolled]]
      /\ UNCHANGED <<frame, pcF, sent, temp_mat, s, ps, open, pcG, got, shown>>
  BY <1>1 DEF Waterfall, fftVars, analysis, guiVars
<1>3. /\ wire'["env"] = wire["env"] /\ wire'["gui"] = wire["gui"]
      /\ wire'["spctrgm"] = rest
  BY <1>2 DEF IInv, TypeNow, Sockets
<1>4. /\ Enveloped' = Enveloped /\ Recorded' = Recorded /\ Recorded \in Nat
      /\ EnvRead' = EnvRead /\ EnvLeft' = EnvLeft /\ GuiLine' = GuiLine
      /\ SpctrgmLeft' = SpctrgmLeft
  BY <1>2, <1>3, Counted
  DEF Enveloped, Recorded, EnvRead, EnvLeft, GuiLine, GuiBase, GuiGot, GuiLeft, SpctrgmLeft
<1>5. EnvStream'
  BY <1>2, <1>3, <1>4, EnvUntouched DEF Streams
<1>6. GuiStream'
  BY <1>2, <1>3, <1>4, GuiUntouched DEF Streams
<1>7. AtHand'
  BY <1>2 DEF Streams, AtHand, Records
<1>8. CASE ~(whole /\ n = 4)
  <2>1. ~whole'
    BY <1>2, <1>8
  <2> QED  BY <1>5, <1>6, <1>7, <2>1 DEF Streams, SpctrgmStream, WaterfallIsHistory
<1>9. CASE whole /\ n = 4
  <2>1. q \in Seq(Units) /\ n \in 0..Len(q)
    <3>1. q \in Seq(Units) /\ Len(q) \in Nat
      BY <1>1, LinesTyped, LenProperties
    <3>2. ~(Len(q) < 4)
      <4> DEFINE m == Len(q)
      <4>1. m \in Nat /\ 4 = IF m < 4 THEN m ELSE 4
        BY <1>1, <1>9, <3>1
      <4> HIDE DEF m
      <4>2. ~(m < 4)
        BY ONLY <4>1
      <4> QED  BY <4>2 DEF m
    <3> QED  BY <1>9, <3>1, <3>2
  <2>2. top \in Seq(Units) /\ rest \in Seq(Units) /\ q = top \o rest /\ Len(top) = 4
    <3>1. Len(top) = n
      BY <1>1, <2>1, HeadPiece
    <3>2. top \in Seq(Units) /\ rest \in Seq(Units)
      BY <1>1, <2>1, HeadPiece, TailPiece
    <3>3. q = top \o rest
      BY <1>1, <2>1, HeadAndRest
    <3> QED  BY <1>9, <3>1, <3>2, <3>3
  <2>3. PICK left \in Seq(Units), a \in Nat, b \in Nat :
          left = SpctrgmLeft /\ a = img[0][1] /\ b = Recorded
    BY LinesTyped, Counted
  <2>4. PICK l : l = rest \o left /\ l \in Seq(Units)
    <3>1. rest \o left \in Seq(Units)
      BY ONLY <2>2, <2>3, ConcatProperties
    <3> QED  BY <3>1
  <2>5. q \o left = top \o l
    <3>1. /\ top \in Seq(Units) /\ rest \in Seq(Units) /\ left \in Seq(Units)
          /\ q = top \o rest /\ l = rest \o left
      BY <2>2, <2>3, <2>4
    <3> QED  BY ONLY <3>1, Associative, ZenonT(30)
  <2>6. /\ top[1][1] \in Nat /\ a < top[1][1] /\ top[1][1] <= b
        /\ top \in Records(top[1][1]) /\ Cut(l, top[1][1], b)
    <3>1. Cut(SpctrgmLine, img[0][1], Recorded)
      BY <1>9 DEF Streams, SpctrgmStream
    <3>2. Cut(top \o l, a, b)
      BY <1>1, <2>3, <2>5, <3>1 DEF SpctrgmLine
    <3> QED  BY <2>2, <2>4, <3>2, CutDrop
  <2>7. PICK k \in Nat : k = top[1][1]
    BY <2>6
  <2>8. top[2] = <<k, "power">>
    BY <2>6, <2>7, RecordUnits
  <2>9. buf'[Drawn] = <<k, "power">>
    <3>1. buf \in Seq(Seen) /\ Len(buf) = 4
      BY FourAreASequence DEF IInv, TypeNow
    <3>2. under \in Seq(Seen)
      <4>1. 4 \in 0..Len(buf)
        BY <3>1
      <4>2. SubSeq(buf, 4 + 1, Len(buf)) \in Seq(Seen)
        BY <3>1, <4>1, TailPiece
      <4> QED  BY <1>1, <1>9, <3>1, <4>2
    <3>3. top \in Seq(Units) /\ under \in Seq(Units)
      BY <2>2, <3>2, SeenAreUnits
    <3>4. \A i \in 1..Len(top) : (top \o under)[i] = top[i]
      BY ONLY <3>3, Joined
    <3>5. 2 \in 1..Len(top)
      BY <2>2
    <3> QED  BY <1>2, <2>8, <3>4, <3>5 DEF Drawn
  <2>10. /\ Rows \in Nat /\ 0 \in 0..(Rows - 1)
         /\ \A r \in 0..(Rows - 1) : r < 3 => img'[r] = <<k, "power">>
         /\ \A r \in 0..(Rows - 1) : r >= 3 => img'[r] = img[r - 3]
    <3>1. Rows \in Nat \ {0}
      BY DisplaysAssumption
    <3>2. \A r \in 0..(Rows - 1) :
            img'[r] = IF r < 3 THEN <<k, "power">> ELSE img[r - 3]
      BY <1>2, <2>9 DEF Filled, Scrolled
    <3> QED  BY <3>1, <3>2
  <2>11. SpctrgmStream'
    <3>1. img'[0][1] = k
      BY <2>10
    <3>2. SpctrgmLine' = l
      BY <1>3, <1>4, <2>3, <2>4 DEF SpctrgmLine
    <3> QED  BY <1>4, <2>3, <2>6, <2>7, <3>1, <3>2 DEF SpctrgmStream
  <2>12. /\ \A r \in 0..(Rows - 1) : img[r] \in Units
         /\ \A r \in 0..(Rows - 1) :
              /\ img[r][1] = 0 \/ img[r][2] = "power"
              /\ img[r] = img[(r \div 3) * 3]
              /\ r >= 3 => img[r][1] < img[r - 3][1] \/ img[r][1] = 0
    <3>1. \A r \in 0..(Rows - 1) : img[r] \in Units
      BY SeenAreUnits DEF IInv, TypeNow
    <3> QED  BY <1>9, <3>1 DEF Streams, WaterfallIsHistory
  <2>13. ASSUME NEW r \in 0..(Rows - 1)
         PROVE  /\ img'[r][1] = 0 \/ img'[r][2] = "power"
                /\ img'[r] = img'[(r \div 3) * 3]
                /\ r >= 3 => img'[r][1] < img'[r - 3][1] \/ img'[r][1] = 0
    <3>1. CASE r < 3
      <4>1. (r \div 3) * 3 = 0
        BY <3>1, <2>10
      <4>2. img'[r] = <<k, "power">> /\ img'[0] = <<k, "power">>
        BY <2>10, <3>1
      <4> QED  BY <3>1, <4>1, <4>2
    <3>2. CASE r >= 3
      <4>1. /\ r - 3 \in 0..(Rows - 1) /\ img'[r] = img[r - 3]
            /\ (r \div 3) * 3 \in 0..(Rows - 1) /\ (r \div 3) * 3 >= 3
            /\ (r \div 3) * 3 - 3 = ((r - 3) \div 3) * 3
        BY <2>10, <3>2
      <4>2. img'[(r \div 3) * 3] = img[((r - 3) \div 3) * 3]
        <5> DEFINE t == (r \div 3) * 3
        <5>1. t \in 0..(Rows - 1) /\ t >= 3 /\ t - 3 = ((r - 3) \div 3) * 3
          BY <4>1
        <5> HIDE DEF t
        <5>2. img'[t] = img[t - 3]
          BY <2>10, <5>1
        <5> QED  BY <5>1, <5>2 DEF t
      <4>3. /\ img[r - 3][1] = 0 \/ img[r - 3][2] = "power"
            /\ img[r - 3] = img[((r - 3) \div 3) * 3]
        BY <2>12, <4>1
      <4>4. img'[r][1] < img'[r - 3][1] \/ img'[r][1] = 0
        <5>1. CASE r - 3 < 3
          <6>1. ((r - 3) \div 3) * 3 = 0
            BY <3>2, <5>1, <2>10
          <6>2. img'[r][1] = a
            BY <2>3, <4>1, <4>3, <6>1
          <6>3. img'[r - 3] = <<k, "power">>
            BY <2>10, <4>1, <5>1
          <6> QED  BY <2>6, <2>7, <6>2, <6>3
        <5>2. CASE r - 3 >= 3
          <6>1. img'[r - 3] = img[(r - 3) - 3]
            BY <2>10, <4>1, <5>2
          <6>2. img[r - 3][1] < img[(r - 3) - 3][1] \/ img[r - 3][1] = 0
            BY <2>12, <4>1, <5>2
          <6> QED  BY <4>1, <6>1, <6>2
        <5> QED  BY <4>1, <5>1, <5>2
      <4> QED  BY <4>1, <4>2, <4>3, <4>4
    <3> QED  BY <2>10, <3>1, <3>2
  <2>14. WaterfallIsHistory'
    BY <2>13 DEF WaterfallIsHistory
  <2> QED  BY <1>5, <1>6, <1>7, <2>11, <2>14 DEF Streams
<1> QED  BY <1>8, <1>9
-----------------------------------------------------------------------------
LEMMA NextKeepsStreams ==
  ASSUME IInv, Streams, [Next]_vars
  PROVE  Streams'
<1>1. CASE ReadFrame
  BY <1>1, ReadFrameKeepsStreams
<1>2. CASE Decompose
  BY <1>2, DecomposeKeepsStreams
<1>3. CASE SendEnvelope
  BY <1>3, SendEnvelopeKeepsStreams
<1>4. CASE Fill
  BY <1>4, FillKeepsStreams
<1>5. CASE SendToGui
  BY <1>5, SendToGuiKeepsStreams
<1>6. CASE SendToSpctrgm
  BY <1>6, SendToSpctrgmKeepsStreams
<1>7. CASE ProcessEnds
  BY <1>7, ProcessEndsKeepsStreams
<1>8. CASE HandlerStarts
  BY <1>8, HandlerStartsKeepsStreams
<1>9. ASSUME NEW v \in Vectors, BinReadGets(v)
      PROVE  Streams'
  <2>1. CASE v = "envelope"
    BY <1>9, <2>1, EnvelopeReadKeepsStreams
  <2>2. CASE v \in {"ps", "svd", "ts"}
    BY <1>9, <2>2, GraphReadKeepsStreams
  <2> QED  BY <2>1, <2>2 DEF Vectors
<1>10. ASSUME NEW v \in Vectors, BinReadEnds(v)
       PROVE  Streams'
  <2>1. CASE v = "envelope"
    BY <1>10, <2>1, EnvelopeEndsKeepsStreams
  <2>2. CASE v \in {"ps", "svd", "ts"}
    BY <1>10, <2>2, GraphEndsKeepsStreams
  <2> QED  BY <2>1, <2>2 DEF Vectors
<1>11. CASE Waterfall
  BY <1>11, WaterfallKeepsStreams
<1>12. CASE UNCHANGED vars
  <2>1. UNCHANGED <<frame, pcF, sent, temp_mat, s, ps, wire, open, pcG, got, shown, img, whole>>
    BY <1>12 DEF vars, fftVars, analysis, guiVars, spctrgmVars
  <2>2. /\ Enveloped' = Enveloped /\ Recorded' = Recorded /\ Recorded \in Nat
        /\ EnvRead' = EnvRead /\ EnvLeft' = EnvLeft
        /\ GuiLine' = GuiLine /\ SpctrgmLine' = SpctrgmLine
    BY <2>1, Counted
    DEF Enveloped, Recorded, EnvRead, EnvLeft, GuiLine, GuiBase, GuiGot, GuiLeft,
        SpctrgmLine, SpctrgmLeft
  <2>3. EnvStream'
    BY <2>1, <2>2, EnvUntouched DEF Streams
  <2>4. GuiStream'
    BY <2>1, <2>2, GuiUntouched DEF Streams
  <2>5. SpctrgmStream' /\ WaterfallIsHistory'
    BY <2>1, <2>2, SpctrgmUntouched DEF Streams
  <2>6. AtHand'
    BY <2>1 DEF Streams, AtHand, Records
  <2> QED  BY <2>3, <2>4, <2>5, <2>6 DEF Streams
<1> QED
  BY <1>1, <1>2, <1>3, <1>4, <1>5, <1>6, <1>7, <1>8, <1>9, <1>10, <1>11, <1>12
  DEF Next, Fft, Gui, BinRead, Over

LEMMA StreamsHold == Safety => [](IInv /\ Streams)
<1>1. Init => Streams
  BY InitEstablishesStreams
<1>2. IInv /\ Streams /\ [Next]_vars => Streams'
  BY NextKeepsStreams
<1> QED  BY <1>1, <1>2, Invariant, PTL DEF Safety

\* However write and binread are split, what the GUI's graphs hold between two
\* handlers comes from one record, computed from one frame, and the envelope
\* from one call of env_proc (test_server.tcl:184-223, fft_thread.c:366-427,
\* 473-537).
THEOREM OneFrameShown == Safety => []GraphsShowOneFrame
<1>1. ASSUME IInv, Streams
      PROVE  GraphsShowOneFrame
  <2>1. SUFFICES ASSUME pcG = "loop", open
                 PROVE  /\ \E k \in 0..frame :
                             \/ k = 0 /\ shown["ts"][1][1] = 0
                             \/ shown["ps"] \o shown["svd"] \o shown["ts"] \in Records(k)
                        /\ \E k \in 0..frame :
                             \/ k = 0 /\ shown["envelope"][1][1] = 0
                             \/ shown["envelope"] = Envelope(k)
    BY DEF GraphsShowOneFrame
  <2>2. /\ GuiShown <= Recorded
        /\ GuiShown = 0 \/ Graphs \in Records(GuiShown)
    BY <1>1, <2>1 DEF Streams, GuiStream
  <2>3. /\ EnvShown <= Enveloped
        /\ EnvShown = 0 \/ shown["envelope"] = Envelope(EnvShown)
    BY <1>1, <2>1 DEF Streams, EnvStream, Halves
  <2>4. /\ frame \in Nat /\ Recorded <= frame /\ Enveloped <= frame
        /\ Recorded \in Nat /\ Enveloped \in Nat /\ GuiShown \in Nat /\ EnvShown \in Nat
    <3>1. frame \in Nat
      BY <1>1, Counted
    <3> QED  BY <1>1, <3>1, Counted DEF Recorded, Enveloped
  <2>5. GuiShown \in 0..frame /\ EnvShown \in 0..frame /\ 0 \in 0..frame
    BY <2>2, <2>3, <2>4
  <2>6. \E k \in 0..frame :
          \/ k = 0 /\ GuiShown = 0
          \/ Graphs \in Records(k)
    BY <2>2, <2>5
  <2>7. \E k \in 0..frame :
          \/ k = 0 /\ EnvShown = 0
          \/ shown["envelope"] = Envelope(k)
    BY <2>3, <2>5
  <2> QED  BY <2>6, <2>7 DEF GuiShown, Graphs, EnvShown
<1> QED  BY <1>1, StreamsHold, PTL

\* As long as no read was short the waterfall is a history of power spectra:
\* three rows for each, the later the higher (spectrogram.c:432, 470-482).
THEOREM History == Safety => []WaterfallIsHistory
<1>1. IInv /\ Streams => WaterfallIsHistory
  BY DEF Streams
<1> QED  BY <1>1, StreamsHold, PTL

\* The envelope on the screen is behind fft_thread by what its socket and the
\* GUI hold, and nothing on the screen is ahead of it, however the write and
\* binread are split and whenever the process ends (env_proc.c:73,
\* env_display.tcl:44-58).
THEOREM KeepsUp == Safety => []EnvelopeKeepsUp
<1>1. ASSUME IInv, Streams
      PROVE  EnvelopeKeepsUp
  <2>1. /\ frame \in Nat /\ SockUnits \in Nat /\ Enveloped \in Nat /\ EnvShown \in Nat
        /\ GuiShown \in Nat /\ frame - 1 <= Enveloped /\ Enveloped <= frame
        /\ Recorded \in Nat /\ Recorded <= frame
    <3>1. frame \in Nat /\ SockUnits \in Nat
      BY <1>1, Counted, DisplaysAssumption
    <3> QED  BY <1>1, <3>1, Counted DEF Recorded, Enveloped
  <2>2. GuiShown <= Recorded
    BY <1>1 DEF Streams, GuiStream
  <2>3. EnvShown <= Enveloped
    BY <1>1, <2>1 DEF Streams, EnvStream, Halves
  <2>4. frame - EnvShown <= ((SockUnits + 1) \div 2) + 1
    <3>1. CASE EnvShown = Enveloped
      <4> DEFINE e == EnvShown
      <4>1. e \in Nat /\ frame - 1 <= e
        BY <2>1, <3>1
      <4> HIDE DEF e
      <4>2. frame - e <= ((SockUnits + 1) \div 2) + 1
        BY <2>1, <4>1
      <4> QED  BY <4>2 DEF e
    <3>2. CASE Halves(EnvLine, EnvShown, Enveloped)
      <4>1. PICK r, w, x, l : r = EnvRead /\ w = wire["env"] /\ x = EnvLeft /\ l = w \o x
        OBVIOUS
      <4>2. r \in Seq(Units) /\ w \in Seq(Units) /\ x \in Seq(Units)
        BY <1>1, <4>1, LinesTyped
      <4>3. l \in Seq(Units) /\ Len(l) = Len(w) + Len(x)
        BY ONLY <4>1, <4>2, Joined
      <4>4. Len(r \o l) = Len(r) + Len(l)
        BY ONLY <4>2, <4>3, Joined
      <4>5. Len(r) \in Nat /\ Len(r) <= 1
        <5>1. CASE r = <<>>
          BY <5>1
        <5>2. CASE r # <<>>
          <6>1. pcG = "envelope" /\ r = got /\ got # <<>>
            BY <4>1, <5>2 DEF EnvRead
          <6>2. Len(got) = 1
            BY <1>1, <6>1, HalfRead
          <6> QED  BY <6>1, <6>2
        <5> QED  BY <5>1, <5>2
      <4>6. Len(w) \in Nat /\ Len(w) <= SockUnits
        BY <1>1, <4>1, <4>2, LenProperties DEF IInv, TypeNow, Sockets
      <4>7. /\ Len(x) \in Nat /\ Len(x) <= 2
            /\ Enveloped = frame \/ Len(x) = 0
        BY <1>1, <4>1, EnvLeftShort DEF Enveloped
      <4>8. Len(r) + (Len(w) + Len(x)) = 2 * (Enveloped - EnvShown)
        BY <3>2, <4>1, <4>3, <4>4 DEF Halves, EnvLine
      <4> DEFINE i == Len(r)
                 j == Len(w)
                 m == Len(x)
                 d == Enveloped
                 e == EnvShown
      <4>9. /\ i \in Nat /\ j \in Nat /\ m \in Nat /\ d \in Nat /\ e \in Nat
            /\ i <= 1 /\ j <= SockUnits /\ m <= 2 /\ i + (j + m) = 2 * (d - e)
            /\ frame \in Nat /\ SockUnits \in Nat /\ frame - 1 <= d
            /\ d = frame \/ m = 0
        BY <2>1, <4>5, <4>6, <4>7, <4>8
      <4> HIDE DEF i, j, m, d, e
      <4>10. frame - e <= ((SockUnits + 1) \div 2) + 1
        BY ONLY <4>9
      <4> QED  BY <4>10 DEF e
    <3> QED  BY <1>1, <3>1, <3>2 DEF Streams, EnvStream
  <2>5. GuiShown \in 0..frame /\ EnvShown \in 0..frame
    BY <2>1, <2>2, <2>3
  <2> QED  BY <2>4, <2>5 DEF EnvelopeKeepsUp, GuiShown, EnvShown
<1> QED  BY <1>1, StreamsHold, PTL
-----------------------------------------------------------------------------
(* Displays implements Screen.                                             *)

LEMMA InitRefines ==
  ASSUME Init
  PROVE  Promise!Init
BY DEF Init, Promise!Init, Vectors

LEMMA NextRefines ==
  ASSUME IInv, Streams, EnvelopeKeepsUp, EnvelopeKeepsUp', [Next]_vars
  PROVE  [Promise!Next]_(Promise!screen)
<1>1. /\ frame \in Nat /\ GuiShown \in Nat /\ EnvShown \in Nat
      /\ GuiShown' \in 0..frame' /\ EnvShown' \in 0..frame'
  BY Counted DEF EnvelopeKeepsUp, GuiShown, EnvShown
<1>2. ASSUME UNCHANGED <<frame, shown, open>>
      PROVE  [Promise!Next]_(Promise!screen)
  BY <1>2 DEF Promise!screen
<1>3. CASE ReadFrame
  <2>1. /\ open /\ frame < MaxFrames /\ frame' = frame + 1 /\ UNCHANGED <<shown, open>>
    BY <1>3 DEF ReadFrame, guiVars
  <2>2. Promise!Analyse
    BY <2>1 DEF Promise!Analyse
  <2> QED  BY <2>2 DEF Promise!Next
<1>4. CASE ProcessEnds
  <2>1. open /\ open' = FALSE /\ UNCHANGED <<shown, frame>>
    BY <1>4 DEF ProcessEnds, guiVars, fftVars, analysis
  <2>2. Promise!End
    BY <2>1 DEF Promise!End
  <2> QED  BY <2>2 DEF Promise!Next
<1>5. CASE Decompose \/ SendEnvelope \/ Fill \/ SendToGui \/ SendToSpctrgm
  BY <1>2, <1>5
  DEF Decompose, SendEnvelope, Fill, SendToGui, SendToSpctrgm, Send, guiVars, analysis
<1>6. CASE HandlerStarts \/ Waterfall
  BY <1>2, <1>6 DEF HandlerStarts, Waterfall, guiVars, fftVars, analysis
<1>7. ASSUME EnvShown' \in {EnvShown, EnvShown + 1}, shown'["ts"] = shown["ts"],
             UNCHANGED <<frame, open>>
      PROVE  [Promise!Next]_(Promise!screen)
  <2>1. CASE EnvShown' = EnvShown
    BY <1>7, <2>1 DEF Promise!screen, EnvShown
  <2>2. CASE EnvShown' = EnvShown + 1
    <3>1. EnvShown < frame
      BY <1>1, <1>7, <2>2
    <3>2. Promise!ShowEnvelope
      BY <1>7, <2>2, <3>1 DEF Promise!ShowEnvelope, EnvShown
    <3> QED  BY <3>2 DEF Promise!Next
  <2> QED  BY <1>7, <2>1, <2>2
<1>8. ASSUME GuiShown' = GuiShown \/ GuiShown < GuiShown',
             shown'["envelope"] = shown["envelope"], UNCHANGED <<frame, open>>
      PROVE  [Promise!Next]_(Promise!screen)
  <2>1. CASE GuiShown' = GuiShown
    BY <1>8, <2>1 DEF Promise!screen, GuiShown
  <2>2. CASE GuiShown < GuiShown'
    <3>1. GuiShown' \in (GuiShown + 1)..frame
      BY <1>1, <1>8, <2>2
    <3>2. Promise!ShowGraphs
      BY <1>8, <3>1 DEF Promise!ShowGraphs, GuiShown
    <3> QED  BY <3>2 DEF Promise!Next
  <2> QED  BY <1>8, <2>1, <2>2
<1>9. ASSUME NEW v \in Vectors, BinReadGets(v) \/ BinReadEnds(v)
      PROVE  [Promise!Next]_(Promise!screen)
  <2>1. UNCHANGED <<frame, open>>
    BY <1>9 DEF BinReadGets, BinReadEnds, fftVars, analysis
  <2>2. CASE v = "envelope"
    BY <1>7, <1>9, <2>1, <2>2, EnvelopeReadKeepsStreams, EnvelopeEndsKeepsStreams
  <2>3. CASE v \in {"ps", "svd", "ts"}
    BY <1>8, <1>9, <2>1, <2>3, GraphReadKeepsStreams, GraphEndsKeepsStreams
  <2> QED  BY <2>2, <2>3 DEF Vectors
<1>10. CASE UNCHANGED vars
  BY <1>2, <1>10 DEF vars, guiVars, fftVars, analysis
<1> QED
  BY <1>3, <1>4, <1>5, <1>6, <1>9, <1>10 DEF Next, Fft, Gui, BinRead, Over

\* The screen keeps its promise: whatever the process, its sockets and the GUI
\* do, the graphs go forward to a frame that was analysed and the envelope goes
\* forward by one (test_server.tcl:184-223, env_display.tcl:44-58,
\* fft_thread.c:428-535).
THEOREM ScreenPromise == Safety => Promise!Safety
<1>1. Init => Promise!Init
  BY InitRefines
<1>2. IInv /\ Streams /\ EnvelopeKeepsUp /\ EnvelopeKeepsUp' /\ [Next]_vars
        => [Promise!Next]_(Promise!screen)
  BY NextRefines
<1> QED  BY <1>1, <1>2, StreamsHold, KeepsUp, PTL DEF Safety, Promise!Safety
=============================================================================
