-------------------------- MODULE AudioPipeProofs --------------------------
(***************************************************************************)
(* Proofs about AudioPipe, for every frame length, song length and FIFO;   *)
(* some of the results are for a FIFO that holds whole frames.             *)
(***************************************************************************)
EXTENDS AudioPipe, SequenceTheorems, TLAPS

\* Frames written and not yet read.
Waiting == published - analysed

\* Main's position in the song, in step with the frames it has written.
InStep ==
  /\ pcM \in {"play1", "write1"} => curr = StartOf(published + 1)
  /\ pcM \in {"play2", "write2"} => curr + Hop = StartOf(published + 1)
  /\ pcM \in {"play1", "play2", "release"} => offered = published /\ copied = 0
  /\ pcM \in {"write1", "write2"} => offered = published + 1
  /\ offered \in {published, published + 1}

\* The FIFO holds the frames after the last one read, in order, and what main has
\* copied of the next one.
HoldsFrames ==
  /\ analysed <= published
  /\ Len(pipe) = Waiting * FrameUnits + copied
  /\ \A m \in Nat : \A i \in 1..FrameUnits :
       m * FrameUnits + i <= Len(pipe) =>
         pipe[m * FrameUnits + i] = StartOf(analysed + 1 + m) + i - 1

\* So it is until a read is short.
IInv ==
  /\ TypeOK
  /\ InStep
  /\ pcF # "terminating" => HoldsFrames
  /\ pcF = "analyse" => raw = Window(analysed)
-----------------------------------------------------------------------------
(* Arithmetic of whole frames.                                             *)

\* More frames take up more units.
LEMMA MoreFramesMoreUnits ==
  ASSUME NEW f \in Nat, NEW a \in Int, NEW b \in Int, a <= b
  PROVE  a * f <= b * f
<1>1. PICK d \in Nat : b = a + d
  BY b - a \in Nat
<1>2. b * f = a * f + d * f
  BY <1>1
<1>3. d * f >= 0
  OBVIOUS
<1> QED  BY <1>2, <1>3

\* A positive number of units that is a whole number of frames is a frame
\* at least.
LEMMA AtLeastAFrame ==
  ASSUME NEW f \in Nat, NEW d \in Int, d * f > 0
  PROVE  d >= 1 /\ d * f >= f
<1>1. d >= 1
  <2>1. SUFFICES ASSUME d <= 0 PROVE FALSE
    OBVIOUS
  <2>2. d * f <= 0 * f
    BY <2>1, MoreFramesMoreUnits
  <2> QED  BY <2>2
<1>2. 1 * f <= d * f
  BY <1>1, MoreFramesMoreUnits
<1> QED  BY <1>1, <1>2

\* As many frames as fit in d frames' room are d at most.
LEMMA NoMoreThanFits ==
  ASSUME NEW f \in Nat \ {0}, NEW w \in Int, NEW d \in Int, w * f <= d * f
  PROVE  w <= d
<1>1. SUFFICES ASSUME d + 1 <= w PROVE FALSE
  OBVIOUS
<1>2. (d + 1) * f <= w * f
  BY <1>1, MoreFramesMoreUnits
<1>3. (d + 1) * f = d * f + f
  OBVIOUS
<1> QED  BY <1>2, <1>3

\* Sizes.
LEMMA Sizes ==
  /\ FrameUnits \in Nat \ {0} /\ Hop \in Nat \ {0} /\ SkipUnits \in Nat
  /\ FrameUnits = 2 * Hop
  /\ PipeUnits \in Nat \ {0} /\ MaxUnits \in Nat
BY FramesAssumption, PipeAssumption DEF FrameUnits

\* A frame's place in the song.
LEMMA Starts ==
  ASSUME NEW k \in Nat
  PROVE  StartOf(k + 1) \in Nat /\ StartOf(k + 1) = SkipUnits + k * Hop
<1>1. (k + 1) - 1 = k /\ k * Hop \in Nat
  BY Sizes
<1> QED  BY <1>1, Sizes DEF StartOf
-----------------------------------------------------------------------------
(* The steps that touch the FIFO.                                          *)

\* The frame being written is the next one.
LEMMA NextFrame ==
  ASSUME TypeOK, InStep, pcM \in {"write1", "write2"}
  PROVE  From \in Nat /\ From = StartOf(published + 1)
BY Sizes DEF TypeOK, InStep, From

\* What a stretch of write does: n units of the frame, from where it had got.
Stretch(n, next, step) ==
  /\ n = IF FrameUnits - copied <= Room THEN FrameUnits - copied ELSE Room
  /\ pipe' \in Seq(Nat) /\ Len(pipe') = Len(pipe) + n
  /\ \A i \in 1..Len(pipe) : pipe'[i] = pipe[i]
  /\ \A i \in 1..n : pipe'[Len(pipe) + i] = From + copied + i - 1
  /\ \/ /\ copied + n = FrameUnits /\ copied' = 0
        /\ published' = published + 1 /\ pcM' = next /\ curr' = curr + step
     \/ /\ copied + n < FrameUnits /\ copied' = copied + n
        /\ UNCHANGED <<published, pcM, curr>>
  /\ UNCHANGED <<numSamp, offered, taken, pcF, raw, analysed>>

LEMMA CopyIsStretch ==
  ASSUME TypeOK, InStep, pcM \in {"write1", "write2"},
         NEW next, NEW step \in Nat, Copy(next, step)
  PROVE  \E n \in 1..(FrameUnits - copied) : n <= Room /\ Stretch(n, next, step)
<1> DEFINE f == FrameUnits
           left == f - copied
           n == IF left <= Room THEN left ELSE Room
           all == UnitsFrom(From)
           new == SubSeq(all, copied + 1, copied + n)
<1>1. /\ f \in Nat \ {0} /\ copied \in 0..(f - 1)
      /\ pipe \in Seq(Nat) /\ Len(pipe) \in Nat /\ Room \in Int
      /\ From \in Nat
  BY Sizes, NextFrame DEF TypeOK, Room
<1>2. /\ n > 0
      /\ pipe' = pipe \o new
      /\ IF n = left
         THEN /\ copied' = 0
              /\ published' = published + 1
              /\ pcM' = next
              /\ curr' = curr + step
         ELSE /\ copied' = copied + n
              /\ UNCHANGED <<published, pcM, curr>>
      /\ UNCHANGED <<numSamp, offered, taken, pcF, raw, analysed>>
  BY Zenon DEF Copy, Asked, fftVars
<1>3. \A i \in 1..f : all[i] = From + i - 1 /\ all[i] \in Nat
  BY <1>1 DEF UnitsFrom
<1> HIDE DEF f, all
<1>4. n \in 1..left /\ n <= Room /\ left \in Nat
  BY <1>1, <1>2
<1> HIDE DEF n
<1>5. /\ new \in Seq(Nat) /\ Len(new) = n
      /\ \A i \in 1..n : new[i] = From + copied + i - 1
  <2>1. copied + 1 \in Int /\ copied + n \in Int /\ copied + 1 <= copied + n
        /\ (copied + n) - (copied + 1) + 1 = n
    BY <1>1, <1>4
  <2>2. \A j \in (copied + 1)..(copied + n) : all[j] \in Nat
    BY <1>1, <1>3, <1>4
  <2> HIDE DEF new
  <2>3. /\ new \in Seq(Nat)
        /\ Len(new) = (copied + n) - (copied + 1) + 1
        /\ \A i \in 1..((copied + n) - (copied + 1) + 1) :
             new[i] = all[(copied + 1) + i - 1]
    BY <2>1, <2>2, SubSeqProperties DEF new
  <2>4. \A i \in 1..n : (copied + 1) + i - 1 = copied + i /\ copied + i \in 1..f
    BY <1>1, <1>4
  <2>5. \A i \in 1..n : new[i] = all[copied + i]
    BY <2>1, <2>3, <2>4
  <2>6. \A i \in 1..n : From + (copied + i) - 1 = From + copied + i - 1
    BY <1>1
  <2> QED  BY <1>3, <2>1, <2>3, <2>4, <2>5, <2>6
<1> HIDE DEF new
<1>6. /\ pipe' \in Seq(Nat)
      /\ Len(pipe') = Len(pipe) + n
      /\ \A i \in 1..(Len(pipe) + n) :
           pipe'[i] = IF i <= Len(pipe) THEN pipe[i] ELSE new[i - Len(pipe)]
  BY <1>1, <1>2, <1>5, ConcatProperties
<1>7. /\ \A i \in 1..Len(pipe) : pipe'[i] = pipe[i]
      /\ \A i \in 1..n : pipe'[Len(pipe) + i] = new[i]
  <2>1. \A i \in 1..n : /\ Len(pipe) + i \in 1..(Len(pipe) + n)
                        /\ ~(Len(pipe) + i <= Len(pipe))
                        /\ (Len(pipe) + i) - Len(pipe) = i
    BY <1>1, <1>4
  <2>2. \A i \in 1..Len(pipe) : i \in 1..(Len(pipe) + n) /\ i <= Len(pipe)
    BY <1>1, <1>4
  <2> QED  BY <1>6, <2>1, <2>2
<1>8. (n = left => copied + n = f) /\ (n # left => copied + n < f)
  BY <1>1, <1>4
<1>9. n = IF FrameUnits - copied <= Room THEN FrameUnits - copied ELSE Room
  BY DEF n, f
<1>10. Stretch(n, next, step)
  BY <1>2, <1>5, <1>6, <1>7, <1>8, <1>9 DEF Stretch, f
<1> QED  BY <1>4, <1>10 DEF f

\* A stretch leaves the frames in order.
LEMMA StretchKeepsFrames ==
  ASSUME TypeOK, InStep, HoldsFrames, pcM \in {"write1", "write2"},
         NEW n \in 1..(FrameUnits - copied), NEW next, NEW step \in Nat,
         Stretch(n, next, step)
  PROVE  HoldsFrames'
<1> DEFINE f == FrameUnits
<1>1. /\ f \in Nat \ {0} /\ copied \in 0..(f - 1) /\ n \in 1..(f - copied)
      /\ published \in Nat /\ analysed \in Nat /\ analysed <= published
      /\ Waiting \in Nat /\ Waiting = published - analysed
      /\ Len(pipe) = Waiting * f + copied /\ Waiting * f \in Nat
      /\ Len(pipe') = Len(pipe) + n
      /\ analysed' = analysed /\ f' = f
  <2>1. f \in Nat \ {0} /\ f' = f
    BY Sizes DEF FrameUnits
  <2>2. copied \in 0..(f - 1) /\ published \in Nat /\ analysed \in Nat
    BY DEF TypeOK
  <2>3. analysed <= published /\ Len(pipe) = Waiting * f + copied
    BY DEF HoldsFrames
  <2>4. Waiting \in Nat /\ Waiting = published - analysed
    BY <2>2, <2>3 DEF Waiting
  <2>5. Len(pipe') = Len(pipe) + n /\ analysed' = analysed
    BY DEF Stretch
  <2> HIDE DEF f
  <2>6. Waiting * f \in Nat
    BY <2>1, <2>4
  <2> QED  BY <2>1, <2>2, <2>3, <2>4, <2>5, <2>6 DEF f
<1>2. /\ From \in Nat /\ From = StartOf(published + 1)
  BY NextFrame
<1>3. \/ /\ copied + n = f /\ copied' = 0 /\ published' = published + 1
      \/ /\ copied + n < f /\ copied' = copied + n /\ published' = published
  BY DEF Stretch
<1>4. /\ \A i \in 1..Len(pipe) : pipe'[i] = pipe[i]
      /\ \A i \in 1..n : pipe'[Len(pipe) + i] = From + copied + i - 1
  BY DEF Stretch
<1>5. \A m \in Nat : \A i \in 1..f :
        m * f + i <= Len(pipe) => pipe[m * f + i] = StartOf(analysed + 1 + m) + i - 1
  BY DEF HoldsFrames
<1> HIDE DEF f
<1>6. analysed' <= published' /\ Len(pipe') = Waiting' * f + copied'
  <2>1. CASE copied + n = f /\ copied' = 0 /\ published' = published + 1
    <3>1. Waiting' = Waiting + 1 /\ (Waiting + 1) * f = Waiting * f + f
      BY <1>1, <2>1 DEF Waiting
    <3> QED  BY <1>1, <2>1, <3>1
  <2>2. CASE copied' = copied + n /\ published' = published
    BY <1>1, <2>2 DEF Waiting
  <2> QED  BY <1>3, <2>1, <2>2
<1>7. ASSUME NEW m \in Nat, NEW i \in 1..f, m * f + i <= Len(pipe')
      PROVE  pipe'[m * f + i] = StartOf(analysed + 1 + m) + i - 1
  <2> DEFINE k == m * f + i
  <2>1. m * f \in Nat /\ k \in Nat \ {0} /\ Len(pipe) \in Nat
    BY <1>1
  <2>2. CASE k <= Len(pipe)
    <3>1. pipe'[k] = pipe[k]
      <4> HIDE DEF k
      <4> QED  BY <1>4, <2>1, <2>2
    <3> QED  BY <1>5, <2>2, <3>1
  <2>3. CASE k > Len(pipe)
    <3>1. m = Waiting
      <4>1. ~(m + 1 <= Waiting)
        <5>1. SUFFICES ASSUME m + 1 <= Waiting PROVE FALSE
          OBVIOUS
        <5>2. (m + 1) * f <= Waiting * f /\ (m + 1) * f = m * f + f
          BY <1>1, <5>1, MoreFramesMoreUnits
        <5> QED  BY <1>1, <2>1, <2>3, <5>2
      <4>2. ~(Waiting + 1 <= m)
        <5>1. SUFFICES ASSUME Waiting + 1 <= m PROVE FALSE
          OBVIOUS
        <5>2. (Waiting + 1) * f <= m * f /\ (Waiting + 1) * f = Waiting * f + f
          BY <1>1, <5>1, MoreFramesMoreUnits
        <5> QED  BY <1>1, <1>7, <2>1, <5>2
      <4> QED  BY <1>1, <4>1, <4>2
    <3>2. k = Len(pipe) + (i - copied) /\ i - copied \in 1..n
      BY <1>1, <1>7, <2>1, <2>3, <3>1
    <3>3. pipe'[k] = From + copied + (i - copied) - 1
      BY <1>4, <3>2
    <3>4. From + copied + (i - copied) - 1 = From + i - 1
      BY <1>1, <1>2
    <3>5. analysed + 1 + m = published + 1
      BY <1>1, <3>1
    <3> QED  BY <1>2, <3>3, <3>4, <3>5
  <2> QED  BY <2>1, <2>2, <2>3
<1> QED  BY <1>1, <1>6, <1>7 DEF HoldsFrames, f, StartOf

\* What a read finds and leaves: the FIFO's first units, up to a frame.
LEMMA ReadTakes ==
  ASSUME TypeOK, ReadFrame
  PROVE  /\ Available \in 1..FrameUnits /\ Available <= Len(pipe)
         /\ pipe' \in Seq(Nat) /\ Len(pipe') = Len(pipe) - Available
         /\ \A j \in 1..(Len(pipe) - Available) : pipe'[j] = pipe[Available + j]
         /\ raw' \in [1..FrameUnits -> Nat \cup {-1}]
         /\ \A i \in 1..Available : raw'[i] = pipe[i]
<1> DEFINE f == FrameUnits
           a == Available
           S == Nat \cup {-1}
           rest == SubSeq(pipe, a + 1, Len(pipe))
           got == SubSeq(pipe, 1, a)
           old == SubSeq(raw, a + 1, f)
<1>1. /\ f \in Nat \ {0} /\ pipe \in Seq(Nat) /\ Len(pipe) \in Nat
      /\ raw \in [1..f -> S]
  BY Sizes DEF TypeOK
<1>2. pipe # <<>> /\ pipe' = rest /\ raw' = got \o old
  BY DEF ReadFrame
<1>3. Len(pipe) # 0
  BY <1>1, <1>2, EmptySeq
<1>4. a \in 1..f /\ a <= Len(pipe)
  BY <1>1, <1>3 DEF Available
<1>5. raw \in Seq(S) /\ Len(raw) = f
  BY <1>1
<1> HIDE DEF f, a, S
<1>6. \A j \in 1..Len(pipe) : pipe[j] \in Nat
  BY <1>1, ElementOfSeq
<1>7. /\ rest \in Seq(Nat) /\ Len(rest) = Len(pipe) - a
      /\ \A j \in 1..(Len(pipe) - a) : rest[j] = pipe[a + j]
  <2>1. /\ a + 1 \in Int
        /\ \A j \in (a + 1)..Len(pipe) : pipe[j] \in Nat
        /\ (IF a + 1 <= Len(pipe) THEN Len(pipe) - (a + 1) + 1 ELSE 0)
             = Len(pipe) - a
        /\ Len(pipe) - (a + 1) + 1 = Len(pipe) - a
        /\ \A j \in 1..(Len(pipe) - a) : a + 1 + j - 1 = a + j
    BY <1>1, <1>4, <1>6
  <2> HIDE DEF rest
  <2>2. /\ rest \in Seq(Nat)
        /\ Len(rest) = IF a + 1 <= Len(pipe) THEN Len(pipe) - (a + 1) + 1 ELSE 0
        /\ \A j \in 1..(Len(pipe) - (a + 1) + 1) : rest[j] = pipe[a + 1 + j - 1]
    BY <1>1, <2>1, SubSeqProperties DEF rest
  <2> QED  BY <2>1, <2>2
<1>8. /\ got \in Seq(S) /\ Len(got) = a
      /\ \A i \in 1..a : got[i] = pipe[i]
  <2>1. /\ 1 \in Int /\ a \in Int
        /\ \A j \in 1..a : pipe[j] \in S
        /\ (IF 1 <= a THEN a - 1 + 1 ELSE 0) = a
        /\ a - 1 + 1 = a
        /\ \A j \in 1..a : 1 + j - 1 = j
    BY <1>1, <1>4, <1>6 DEF S
  <2>2. \A j \in 1..a : j \in 1..Len(pipe)
    BY <1>1, <1>4
  <2> HIDE DEF got
  <2>3. /\ got \in Seq(S)
        /\ Len(got) = IF 1 <= a THEN a - 1 + 1 ELSE 0
        /\ \A j \in 1..(a - 1 + 1) : got[j] = pipe[1 + j - 1]
    BY <1>1, <2>1, <2>2, SubSeqProperties DEF got
  <2> QED  BY <2>1, <2>3
<1>9. old \in Seq(S) /\ Len(old) = f - a
  <2>1. /\ a + 1 \in Int /\ f \in Int
        /\ \A j \in (a + 1)..f : raw[j] \in S
        /\ (IF a + 1 <= f THEN f - (a + 1) + 1 ELSE 0) = f - a
    BY <1>1, <1>4
  <2> HIDE DEF old
  <2>2. /\ old \in Seq(S)
        /\ Len(old) = IF a + 1 <= f THEN f - (a + 1) + 1 ELSE 0
    BY <1>5, <2>1, SubSeqProperties DEF old
  <2> QED  BY <2>1, <2>2
<1> HIDE DEF got, old
<1>10. /\ raw' \in Seq(S) /\ Len(raw') = a + (f - a)
       /\ \A i \in 1..(a + (f - a)) :
            raw'[i] = IF i <= a THEN got[i] ELSE old[i - a]
  BY <1>2, <1>8, <1>9, ConcatProperties
<1>11. a + (f - a) = f /\ \A i \in 1..a : i \in 1..f /\ i <= a
  BY <1>1, <1>4
<1>12. raw' \in [1..f -> S]
  BY <1>10, <1>11, LenProperties
<1>13. \A i \in 1..a : raw'[i] = pipe[i]
  BY <1>8, <1>10, <1>11
<1>14. /\ pipe' \in Seq(Nat) /\ Len(pipe') = Len(pipe) - a
       /\ \A j \in 1..(Len(pipe) - a) : pipe'[j] = pipe[a + j]
  BY <1>2, <1>7
<1> QED  BY <1>4, <1>12, <1>13, <1>14 DEF f, a, S

\* A read of a whole frame takes the next one and leaves the others.
LEMMA ReadKeepsFrames ==
  ASSUME TypeOK, HoldsFrames, ReadFrame, Available = FrameUnits
  PROVE  HoldsFrames' /\ raw' = Window(analysed')
<1> DEFINE f == FrameUnits
<1>1. /\ f \in Nat \ {0} /\ f' = f
      /\ copied \in 0..(f - 1) /\ published \in Nat /\ analysed \in Nat
      /\ Len(pipe) \in Nat
  BY Sizes DEF TypeOK, FrameUnits
<1>2. /\ f <= Len(pipe) /\ Len(pipe') = Len(pipe) - f
      /\ \A j \in 1..(Len(pipe) - f) : pipe'[j] = pipe[f + j]
      /\ raw' \in [1..f -> Nat \cup {-1}]
      /\ \A i \in 1..f : raw'[i] = pipe[i]
  BY ReadTakes
<1>3. /\ analysed <= published /\ Len(pipe) = Waiting * f + copied
      /\ \A m \in Nat : \A i \in 1..f :
           m * f + i <= Len(pipe) =>
             pipe[m * f + i] = StartOf(analysed + 1 + m) + i - 1
  BY DEF HoldsFrames
<1>4. /\ analysed' = analysed + 1 /\ published' = published /\ copied' = copied
  <2>1. ~ (Available < FrameUnits)
    BY <1>1
  <2> QED  BY <2>1 DEF ReadFrame, mainVars
<1>5. Waiting \in Nat /\ Waiting = published - analysed
  BY <1>1, <1>3 DEF Waiting
<1> HIDE DEF f
<1>6. Waiting >= 1
  <2>1. SUFFICES ASSUME Waiting = 0 PROVE FALSE
    BY <1>5
  <2>2. Waiting * f = 0
    BY <1>1, <2>1
  <2> QED  BY <1>1, <1>2, <1>3, <2>2
<1>7. analysed' <= published' /\ Waiting' = Waiting - 1
  BY <1>1, <1>4, <1>5, <1>6 DEF Waiting
<1>8. Len(pipe') = Waiting' * f + copied'
  <2>1. (Waiting - 1) * f = Waiting * f - f /\ Waiting * f \in Nat
    BY <1>1, <1>5
  <2> QED  BY <1>1, <1>2, <1>3, <1>4, <1>7, <2>1
<1>9. ASSUME NEW m \in Nat, NEW i \in 1..f, m * f + i <= Len(pipe')
      PROVE  pipe'[m * f + i] = StartOf(analysed' + 1 + m) + i - 1
  <2> DEFINE k == m * f + i
             h == (m + 1) * f + i
  <2>1. m + 1 \in Nat /\ m * f \in Nat /\ (m + 1) * f = m * f + f
    BY <1>1
  <2>2. k \in 1..(Len(pipe) - f) /\ h = f + k /\ h <= Len(pipe)
    <3>1. k <= Len(pipe) - f /\ k \in Nat \ {0}
      <4>1. m * f + i <= Len(pipe) - f
        BY <1>2, <1>9
      <4>2. m * f + i \in Nat \ {0}
        BY <1>1, <2>1
      <4> QED  BY <4>1, <4>2
    <3>2. h = f + k
      BY <1>1, <2>1
    <3> HIDE DEF k, h
    <3> QED  BY <1>1, <3>1, <3>2
  <2>3. pipe'[k] = pipe[h]
    <3> HIDE DEF k, h
    <3> QED  BY <1>2, <2>2
  <2>4. pipe[h] = StartOf(analysed + 1 + (m + 1)) + i - 1
    BY <1>3, <2>1, <2>2
  <2>5. analysed' + 1 + m = analysed + 1 + (m + 1)
    BY <1>1, <1>4
  <2> QED  BY <2>3, <2>4, <2>5
<1>10. HoldsFrames'
  BY <1>1, <1>7, <1>8, <1>9 DEF HoldsFrames, f, StartOf
<1>11. raw' = Window(analysed')
  <2>1. \A i \in 1..f : 0 * f + i = i /\ i <= Len(pipe)
    BY <1>1, <1>2
  <2>2. 0 \in Nat /\ analysed + 1 + 0 = analysed'
    BY <1>1, <1>4
  <2>3. \A i \in 1..f : raw'[i] = StartOf(analysed') + i - 1
    BY <1>2, <1>3, <2>1, <2>2
  <2>4. raw' = [i \in 1..f |-> StartOf(analysed') + i - 1]
    BY <1>2, <2>3
  <2> QED  BY <2>4 DEF Window, UnitsFrom, f
<1> QED  BY <1>10, <1>11
-----------------------------------------------------------------------------
(* The invariant is inductive, whatever the FIFO holds.                    *)

LEMMA InitEstablishesIInv ==
  ASSUME Init
  PROVE  IInv
<1>1. TypeOK
  BY Sizes DEF Init, TypeOK, MainStates, FftStates, Silence
<1>2. InStep
  BY Sizes DEF Init, InStep, StartOf
<1>3. HoldsFrames
  BY Sizes DEF Init, HoldsFrames, Waiting
<1>4. pcF = "analyse" => raw = Window(analysed)
  BY DEF Init
<1> QED  BY <1>1, <1>2, <1>3, <1>4 DEF IInv

\* What the steps that leave the FIFO alone share.
LEMMA PipeUntouched ==
  ASSUME HoldsFrames, UNCHANGED <<copied, pipe, published, analysed>>
  PROVE  HoldsFrames'
<1>1. FrameUnits' = FrameUnits /\ Waiting' = Waiting
  BY DEF FrameUnits, Waiting
<1> QED  BY <1>1 DEF HoldsFrames, StartOf

LEMMA NextPreservesIInv ==
  ASSUME IInv, [Next]_vars
  PROVE  IInv'
<1> USE DEF MainStates, FftStates
<1>1. /\ TypeOK /\ InStep
      /\ pcF # "terminating" => HoldsFrames
      /\ pcF = "analyse" => raw = Window(analysed)
  BY DEF IInv
<1>2. CASE UNCHANGED vars
  <2>1. HoldsFrames => HoldsFrames'
    BY <1>2, PipeUntouched DEF vars
  <2>2. TypeOK' /\ InStep'
    BY <1>1, <1>2 DEF vars, TypeOK, InStep, StartOf, FrameUnits
  <2>3. (pcF = "analyse" => raw = Window(analysed))'
    BY <1>1, <1>2 DEF vars, Window, UnitsFrom, StartOf, FrameUnits
  <2>4. pcF' = pcF
    BY <1>2 DEF vars
  <2> QED  BY <1>1, <2>1, <2>2, <2>3, <2>4 DEF IInv
<1>3. ASSUME \/ PlayFirstHalf \/ PlaySecondHalf \/ LoopEnds \/ Release
             \/ Analyse \/ AnalysisFails \/ ProcessExits
      PROVE  IInv'
  <2>1. /\ UNCHANGED <<copied, pipe, published, analysed>>
        /\ pcF' # "terminating" => pcF # "terminating"
    BY <1>3
    DEF PlayFirstHalf, PlaySecondHalf, Play, LoopEnds, Release, Analyse,
        AnalysisFails, ProcessExits, fftVars, mainVars
  <2>2. TypeOK'
    <3>1. /\ UNCHANGED <<numSamp, curr, copied, pipe, raw, published, analysed>>
          /\ pcM' \in MainStates /\ pcF' \in FftStates
          /\ offered' \in Nat /\ taken' \in 0..offered'
      <4>1. CASE PlayFirstHalf \/ PlaySecondHalf
        BY <1>1, <4>1
        DEF TypeOK, MainStates, PlayFirstHalf, PlaySecondHalf, Play, fftVars
      <4>2. CASE LoopEnds \/ Release \/ Analyse \/ AnalysisFails \/ ProcessExits
        BY <1>1, <4>2
        DEF TypeOK, MainStates, FftStates, LoopEnds, Release, Analyse, AnalysisFails,
            ProcessExits, fftVars, mainVars
      <4> QED  BY <1>3, <4>1, <4>2
    <3> QED  BY ONLY <1>1, <3>1 DEF TypeOK
  <2>3. InStep'
    BY Sizes, <1>1, <1>3
    DEF TypeOK, InStep, PlayFirstHalf, PlaySecondHalf, Play, LoopEnds, Release,
        Analyse, AnalysisFails, ProcessExits, fftVars, mainVars, StartOf
  <2>4. (pcF = "analyse" => raw = Window(analysed))'
    BY <1>1, <1>3
    DEF PlayFirstHalf, PlaySecondHalf, Play, LoopEnds, Release, Analyse,
        AnalysisFails, ProcessExits, fftVars, mainVars, Window, UnitsFrom,
        StartOf, FrameUnits
  <2> QED  BY <1>1, <2>1, <2>2, <2>3, <2>4, PipeUntouched DEF IInv
<1>4. ASSUME NEW next, NEW step \in Nat, Copy(next, step),
             \/ pcM = "write1" /\ next = "play2" /\ step = 0
             \/ pcM = "write2" /\ next = "play1" /\ step = FrameUnits
      PROVE  IInv'
  <2>1. pcM \in {"write1", "write2"}
    BY <1>4
  <2>2. PICK n \in 1..(FrameUnits - copied) : n <= Room /\ Stretch(n, next, step)
    BY <1>1, <1>4, <2>1, CopyIsStretch
  <2>3. UNCHANGED <<numSamp, offered, taken, pcF, raw, analysed>>
    BY <2>2 DEF Stretch
  <2>4. /\ FrameUnits \in Nat \ {0} /\ copied \in 0..(FrameUnits - 1)
        /\ \/ /\ copied' = 0 /\ published' = published + 1
              /\ pcM' = next /\ curr' = curr + step
           \/ /\ copied + n < FrameUnits /\ copied' = copied + n
              /\ UNCHANGED <<published, pcM, curr>>
    BY <1>1, <2>2, Sizes DEF Stretch, TypeOK
  <2>5. pipe' \in Seq(Nat) /\ Len(pipe') <= PipeUnits
    <3>1. Len(pipe) \in Nat /\ n \in Nat /\ PipeUnits \in Nat
      BY <1>1, <2>4, Sizes DEF TypeOK
    <3>2. /\ n <= PipeUnits - Len(pipe)
          /\ pipe' \in Seq(Nat) /\ Len(pipe') = Len(pipe) + n
      BY <2>2 DEF Stretch, Room
    <3> QED  BY <3>1, <3>2
  <2>6. TypeOK'
    BY Sizes, <1>1, <1>4, <2>3, <2>4, <2>5 DEF TypeOK, FrameUnits
  <2>7. InStep'
    <3>1. /\ published \in Nat /\ offered = published + 1 /\ curr \in Nat
          /\ pcM = "write1" => curr = StartOf(published + 1)
          /\ pcM = "write2" => curr + Hop = StartOf(published + 1)
      BY <1>1, <2>1 DEF TypeOK, InStep
    <3>2. StartOf(published + 2) = StartOf(published + 1) + Hop
      BY <3>1, Sizes DEF StartOf
    <3>3. CASE /\ copied' = 0 /\ published' = published + 1
               /\ pcM' = next /\ curr' = curr + step
      <4>1. StartOf(published' + 1) = StartOf(published + 1) + Hop
        BY <3>1, <3>2, <3>3
      <4>2. CASE pcM = "write1" /\ next = "play2" /\ step = 0
        <5>1. curr' + Hop = StartOf(published' + 1)
          BY <3>1, <3>3, <4>1, <4>2
        <5> QED  BY <2>3, <3>1, <3>3, <4>2, <5>1 DEF InStep, StartOf
      <4>3. CASE pcM = "write2" /\ next = "play1" /\ step = FrameUnits
        <5>1. curr' = StartOf(published' + 1)
          BY <3>1, <3>3, <4>1, <4>3, Sizes
        <5> QED  BY <2>3, <3>1, <3>3, <4>3, <5>1 DEF InStep, StartOf
      <4> QED  BY <1>4, <4>2, <4>3
    <3>4. CASE UNCHANGED <<published, pcM, curr>>
      BY <1>1, <2>1, <2>3, <3>4 DEF InStep, StartOf
    <3> QED  BY <2>4, <3>3, <3>4
  <2>8. (pcF = "analyse" => raw = Window(analysed))'
    BY <1>1, <2>3 DEF Window, UnitsFrom, StartOf, FrameUnits
  <2>9. pcF # "terminating" => HoldsFrames'
    BY <1>1, <1>4, <2>1, <2>2, StretchKeepsFrames
  <2> QED  BY <2>3, <2>6, <2>7, <2>8, <2>9 DEF IInv
<1>5. CASE WriteFirst
  BY <1>5, <1>4 DEF WriteFirst
<1>6. CASE WriteSecond
  BY Sizes, <1>6, <1>4 DEF WriteSecond
<1>7. CASE ReadFrame
  <2>1. HoldsFrames /\ pcF = "read" /\ UNCHANGED mainVars
    BY <1>1, <1>7 DEF ReadFrame
  <2>2. /\ Available \in 1..FrameUnits /\ Available <= Len(pipe)
        /\ pipe' \in Seq(Nat) /\ Len(pipe') = Len(pipe) - Available
        /\ raw' \in [1..FrameUnits -> Nat \cup {-1}]
    BY <1>1, <1>7, ReadTakes
  <2>3. \/ /\ Available < FrameUnits
           /\ pcF' = "terminating" /\ analysed' = analysed
        \/ /\ Available = FrameUnits
           /\ pcF' = "analyse" /\ analysed' = analysed + 1
    BY Sizes, <1>7, <2>2 DEF ReadFrame
  <2>4. Len(pipe') <= PipeUnits
    BY Sizes, <1>1, <2>2 DEF TypeOK
  <2>5. TypeOK'
    <3>1. analysed' \in Nat /\ pcF' \in FftStates
      BY <1>1, <2>3 DEF TypeOK, FftStates
    <3> QED  BY <1>1, <2>1, <2>2, <2>4, <3>1 DEF TypeOK, mainVars
  <2>6. InStep'
    BY <1>1, <2>1 DEF InStep, mainVars, StartOf
  <2>7. Available = FrameUnits => HoldsFrames' /\ raw' = Window(analysed')
    BY <1>1, <1>7, <2>1, ReadKeepsFrames
  <2>8. Window(analysed') = Window(analysed)'
    BY DEF Window, UnitsFrom, StartOf, FrameUnits
  <2> QED  BY <2>3, <2>5, <2>6, <2>7, <2>8 DEF IInv
<1>8. CASE Gone
  BY <1>2, <1>8 DEF Gone
<1> QED
  BY <1>2, <1>3, <1>5, <1>6, <1>7, <1>8 DEF Next, Main, Fft

\* The invariant holds in every state, whatever the FIFO holds.
THEOREM Invariant == Safety => []IInv
<1>1. Init => IInv
  BY InitEstablishesIInv
<1>2. IInv /\ [Next]_vars => IInv'
  BY NextPreservesIInv
<1> QED  BY <1>1, <1>2, PTL DEF Safety

\* Every variable has its type; in particular the FIFO is never over-full and
\* main is never further than a frame into the frame it writes
\* (dcomposer.c:440-470).
THEOREM TypeCorrect == Safety => []TypeOK
<1>1. IInv => TypeOK
  BY DEF IInv
<1> QED  BY <1>1, Invariant, PTL

\* fft_thread analyses the frames of the song one by one, whole and in order,
\* whatever the interleaving with main and whatever the FIFO holds: a short
\* read is not analysed (fft_thread.c:331-367).
THEOREM AnalysisInOrder == Safety => []AnalysesNextFrame
<1>1. IInv => AnalysesNextFrame
  BY DEF IInv, AnalysesNextFrame
<1> QED  BY <1>1, Invariant, PTL

\* Each frame starts with the half frame that was offered last
\* (dcomposer.c:435-466).
THEOREM FramesFollowSound == Safety => []FrameFollowsSound
<1>1. IInv => FrameFollowsSound
  <2>1. SUFFICES ASSUME IInv, pcM \in {"write1", "write2"}
                 PROVE  From = StartOf(offered)
    BY DEF FrameFollowsSound
  <2>2. TypeOK /\ InStep
    BY <2>1 DEF IInv
  <2>3. offered = published + 1
    BY <2>1, <2>2 DEF InStep
  <2> QED  BY <2>1, <2>2, <2>3, NextFrame
<1> QED  BY <1>1, Invariant, PTL
-----------------------------------------------------------------------------
(* How far frames run past the end of the song.                            *)

\* A turn starts inside the song, and nothing in the FIFO lies further out than
\* the second frame of a turn.
InSong ==
  /\ pcM \in {"write1", "play2", "write2"} => curr < numSamp
  /\ OverhangBounded

\* What one stretch of a write adds to the FIFO lies in the frame written.
LEMMA StretchStaysInSong ==
  ASSUME TypeOK, InSong, pcM \in {"write1", "write2"},
         NEW n \in 1..(FrameUnits - copied), NEW next, NEW step \in Nat,
         Stretch(n, next, step)
  PROVE  OverhangBounded'
<1>1. /\ FrameUnits \in Nat \ {0} /\ FrameUnits' = FrameUnits /\ Hop \in Nat \ {0}
      /\ numSamp \in Nat /\ curr \in Nat /\ copied \in 0..(FrameUnits - 1)
      /\ pipe \in Seq(Nat) /\ Len(pipe) \in Nat
  BY Sizes DEF TypeOK, FrameUnits
<1>2. From \in Nat /\ From < numSamp + Hop
  BY <1>1 DEF From, InSong
<1>3. /\ Len(pipe') = Len(pipe) + n /\ numSamp' = numSamp
      /\ \A i \in 1..Len(pipe) : pipe'[i] = pipe[i]
      /\ \A i \in 1..n : pipe'[Len(pipe) + i] = From + copied + i - 1
  BY DEF Stretch
<1>4. ASSUME NEW i \in 1..Len(pipe')
      PROVE  pipe'[i] < numSamp + FrameUnits + Hop - 1
  <2>1. CASE i \in 1..Len(pipe)
    BY <1>3, <2>1 DEF InSong, OverhangBounded
  <2>2. CASE i \notin 1..Len(pipe)
    <3>1. i - Len(pipe) \in 1..n /\ i = Len(pipe) + (i - Len(pipe))
      BY <1>1, <1>3, <2>2
    <3>2. pipe'[i] = From + copied + (i - Len(pipe)) - 1
      BY <1>3, <3>1
    <3>3. copied + (i - Len(pipe)) <= FrameUnits
      BY <1>1, <3>1
    <3> QED  BY <1>1, <1>2, <3>1, <3>2, <3>3
  <2> QED  BY <2>1, <2>2
<1> QED  BY <1>1, <1>3, <1>4 DEF OverhangBounded

LEMMA NextStaysInSong ==
  ASSUME TypeOK, InStep, InSong, [Next]_vars
  PROVE  InSong'
<1>1. /\ FrameUnits \in Nat \ {0} /\ Hop \in Nat /\ numSamp \in Nat
      /\ curr \in Nat /\ pipe \in Seq(Nat) /\ Len(pipe) \in Nat
  BY Sizes DEF TypeOK
<1>2. CASE WriteFirst
  <2>1. Copy("play2", 0) /\ pcM = "write1"
    BY <1>2 DEF WriteFirst
  <2>2. PICK n \in 1..(FrameUnits - copied) : Stretch(n, "play2", 0)
    BY <2>1, CopyIsStretch
  <2>3. curr' = curr /\ numSamp' = numSamp
    BY <1>1, <2>2 DEF Stretch
  <2> QED  BY <1>1, <2>1, <2>2, <2>3, StretchStaysInSong DEF InSong
<1>3. CASE WriteSecond
  <2>1. Copy("play1", FrameUnits) /\ pcM = "write2"
    BY <1>3 DEF WriteSecond
  <2>2. PICK n \in 1..(FrameUnits - copied) : Stretch(n, "play1", FrameUnits)
    BY <1>1, <2>1, CopyIsStretch
  <2>3. numSamp' = numSamp /\ (pcM' = "play1" \/ curr' = curr)
    BY <2>2 DEF Stretch
  <2> QED  BY <1>1, <2>1, <2>2, <2>3, StretchStaysInSong DEF InSong
<1>4. CASE ReadFrame
  <2>1. UNCHANGED <<pcM, curr, numSamp>>
    BY <1>4 DEF ReadFrame, mainVars
  <2>2. /\ Available \in 1..FrameUnits /\ Available <= Len(pipe)
        /\ Len(pipe') = Len(pipe) - Available
        /\ \A j \in 1..(Len(pipe) - Available) : pipe'[j] = pipe[Available + j]
    BY <1>4, ReadTakes
  <2>3. \A j \in 1..Len(pipe') :
          Available + j \in 1..Len(pipe) /\ pipe'[j] = pipe[Available + j]
    BY <1>1, <2>2
  <2> QED  BY <2>1, <2>3 DEF InSong, OverhangBounded, FrameUnits
<1>5. ASSUME UNCHANGED <<numSamp, curr, pipe>>,
             pcM' \in {"write1", "play2", "write2"} => curr < numSamp
      PROVE  InSong'
  BY <1>5 DEF InSong, OverhangBounded, FrameUnits
<1>6. CASE \/ PlayFirstHalf \/ PlaySecondHalf \/ LoopEnds \/ Release
           \/ Analyse \/ AnalysisFails \/ ProcessExits \/ Gone \/ UNCHANGED vars
  <2>1. UNCHANGED <<numSamp, curr, pipe>>
    BY <1>6
    DEF PlayFirstHalf, PlaySecondHalf, Play, LoopEnds, Release, Analyse,
        AnalysisFails, ProcessExits, Gone, mainVars, vars
  <2>2. pcM' \in {"write1", "play2", "write2"} => curr < numSamp
    BY <1>6
    DEF PlayFirstHalf, PlaySecondHalf, Play, LoopEnds, Release, Analyse,
        AnalysisFails, ProcessExits, Gone, mainVars, vars, InSong
  <2> QED  BY <1>5, <2>1, <2>2
<1> QED  BY <1>2, <1>3, <1>4, <1>6 DEF Next, Main, Fft

\* Frames run past the decoded samples by less than a frame and a half
\* (dcomposer.c:432, 447, 466).
THEOREM OverhangIsBounded == Safety => []OverhangBounded
<1>1. Init => InSong
  BY DEF Init, InSong, OverhangBounded
<1>2. IInv /\ InSong /\ [Next]_vars => InSong'
  BY NextStaysInSong DEF IInv
<1>3. InSong => OverhangBounded
  BY DEF InSong
<1> QED  BY <1>1, <1>2, <1>3, Invariant, PTL DEF Safety
-----------------------------------------------------------------------------
(* A FIFO of whole frames.                                                 *)

\* The FIFO holds a whole number of frames, and at least one: 65536 bytes
\* for frames of 16384 on a default Linux kernel.
WholeFrames ==
  /\ PipeUnits % FrameUnits = 0
  /\ PipeUnits >= FrameUnits

Depth == PipeUnits \div FrameUnits

\* Such a FIFO holds Depth frames.
LEMMA DepthOfWholeFrames ==
  ASSUME WholeFrames
  PROVE  /\ FrameUnits \in Nat \ {0}
         /\ Depth \in Nat
         /\ PipeUnits = Depth * FrameUnits
BY Sizes DEF WholeFrames, Depth

\* No frame is ever half written, half read or lost.
Whole ==
  /\ copied = 0
  /\ analysed <= published
  /\ Len(pipe) = Waiting * FrameUnits

\* When main's write makes progress it copies the whole next frame: the room
\* in the FIFO is a whole number of frames, so it is never less than one.
LEMMA CopyIsWhole ==
  ASSUME WholeFrames, TypeOK, InStep, Whole, pcM \in {"write1", "write2"},
         NEW next, NEW step \in Nat, Copy(next, step)
  PROVE  /\ published' = published + 1
         /\ pcM' = next
         /\ UNCHANGED <<pcF, raw, analysed>>
         /\ Whole'
         /\ Waiting' <= Depth
<1>1. PICK n \in 1..(FrameUnits - copied) : n <= Room /\ Stretch(n, next, step)
  BY CopyIsStretch
<1> DEFINE f == FrameUnits
<1>2. /\ f \in Nat \ {0} /\ f' = f /\ Depth \in Nat /\ PipeUnits = Depth * f
  BY DepthOfWholeFrames DEF FrameUnits
<1>3. published \in Nat /\ analysed \in Nat /\ Len(pipe) \in Nat
  BY DEF TypeOK
<1>4. copied = 0 /\ analysed <= published /\ Len(pipe) = Waiting * f
  BY DEF Whole
<1>5. /\ Len(pipe') = Len(pipe) + n
      /\ n = IF f - copied <= Room THEN f - copied ELSE Room
      /\ \/ /\ copied + n = f /\ copied' = 0
            /\ published' = published + 1 /\ pcM' = next
         \/ copied + n < f
      /\ UNCHANGED <<pcF, raw, analysed>>
  BY <1>1 DEF Stretch
<1> HIDE DEF f
<1>6. Waiting \in Nat
  BY <1>3, <1>4 DEF Waiting
<1>7. Room = (Depth - Waiting) * f /\ Room \in Int
  BY <1>2, <1>3, <1>4, <1>6 DEF Room
<1>8. Room >= f /\ Depth - Waiting >= 1
  <2>1. Room > 0
    BY <1>1, <1>7
  <2> QED  BY <1>2, <1>6, <1>7, <2>1, AtLeastAFrame
<1>9. n = f
  BY <1>2, <1>4, <1>5, <1>7, <1>8
<1>10. /\ copied' = 0 /\ published' = published + 1 /\ pcM' = next
  BY <1>2, <1>4, <1>5, <1>9
<1>11. Waiting' = Waiting + 1
  BY <1>3, <1>5, <1>10 DEF Waiting
<1>12. Len(pipe') = Waiting' * f
  <2>1. (Waiting + 1) * f = Waiting * f + f
    BY <1>2, <1>6
  <2> QED  BY <1>2, <1>3, <1>4, <1>5, <1>9, <1>11, <2>1
<1>13. analysed' <= published'
  BY <1>3, <1>4, <1>5, <1>10
<1>14. Whole'
  BY <1>2, <1>10, <1>12, <1>13 DEF Whole, f
<1>15. Waiting' <= Depth
  BY <1>2, <1>6, <1>8, <1>11
<1> QED  BY <1>5, <1>10, <1>14, <1>15

\* A FIFO that is not empty holds a frame at least.
LEMMA ReadFindsAFrame ==
  ASSUME WholeFrames, TypeOK, Whole, pipe # <<>>
  PROVE  Available = FrameUnits /\ Waiting >= 1
<1>1. /\ FrameUnits \in Nat \ {0}
      /\ pipe \in Seq(Nat) /\ Len(pipe) \in Nat
      /\ Waiting \in Nat
      /\ Len(pipe) = Waiting * FrameUnits
  BY DepthOfWholeFrames DEF TypeOK, Whole, Waiting
<1>2. Len(pipe) # 0
  BY <1>1, EmptySeq
<1>3. Waiting >= 1 /\ Waiting * FrameUnits >= FrameUnits
  BY <1>1, <1>2, AtLeastAFrame
<1> QED  BY <1>1, <1>3 DEF Available

\* fft_thread's read takes the next frame, whole.
LEMMA ReadIsWhole ==
  ASSUME WholeFrames, TypeOK, Whole, ReadFrame
  PROVE  /\ Available = FrameUnits
         /\ pcF' = "analyse"
         /\ analysed' = analysed + 1
         /\ analysed' <= published
         /\ Whole'
<1>1. Available = FrameUnits /\ Waiting >= 1
  BY ReadFindsAFrame DEF ReadFrame
<1>2. /\ FrameUnits \in Nat \ {0} /\ FrameUnits' = FrameUnits
      /\ published \in Nat /\ analysed \in Nat
      /\ Waiting \in Nat /\ Waiting = published - analysed
      /\ Len(pipe) = Waiting * FrameUnits /\ copied = 0
  BY DepthOfWholeFrames DEF TypeOK, Whole, Waiting, FrameUnits
<1>3. /\ pcF' = "analyse" /\ analysed' = analysed + 1
      /\ copied' = copied /\ published' = published
  <2>1. ~ (Available < FrameUnits)
    BY <1>1, <1>2
  <2> QED  BY <2>1 DEF ReadFrame, mainVars
<1>4. Len(pipe') = Len(pipe) - FrameUnits
  BY <1>1, ReadTakes
<1>5. Waiting' = Waiting - 1 /\ analysed' <= published
  BY <1>1, <1>2, <1>3 DEF Waiting
<1>6. (Waiting - 1) * FrameUnits = Waiting * FrameUnits - FrameUnits
  BY <1>2
<1>7. Whole'
  BY <1>2, <1>3, <1>4, <1>5, <1>6 DEF Whole
<1> QED  BY <1>1, <1>3, <1>5, <1>7

LEMMA NextKeepsWhole ==
  ASSUME WholeFrames, TypeOK, InStep, Whole, [Next]_vars
  PROVE  Whole'
<1>1. CASE WriteFirst
  BY <1>1, CopyIsWhole DEF WriteFirst
<1>2. CASE WriteSecond
  BY <1>2, CopyIsWhole, Sizes DEF WriteSecond
<1>3. CASE ReadFrame
  BY <1>3, ReadIsWhole
<1>4. CASE \/ PlayFirstHalf \/ PlaySecondHalf \/ LoopEnds \/ Release
           \/ Analyse \/ AnalysisFails \/ ProcessExits \/ Gone \/ UNCHANGED vars
  <2>1. UNCHANGED <<copied, pipe, published, analysed>>
    BY <1>4
    DEF PlayFirstHalf, PlaySecondHalf, Play, LoopEnds, Release, Analyse,
        AnalysisFails, ProcessExits, Gone, fftVars, mainVars, vars
  <2> QED  BY <2>1 DEF Whole, Waiting, FrameUnits
<1> QED  BY <1>1, <1>2, <1>3, <1>4 DEF Next, Main, Fft

\* In such a FIFO frames stay whole.
THEOREM FramesStayWhole ==
  ASSUME WholeFrames
  PROVE  Safety => []Whole
<1>1. Init => Whole
  BY Sizes DEF Init, Whole, Waiting
<1>2. IInv /\ Whole /\ [Next]_vars => Whole'
  BY NextKeepsWhole DEF IInv
<1> QED  BY <1>1, <1>2, Invariant, PTL DEF Safety

\* The error branch for a short read (fft_thread.c:331-335) is never taken.
THEOREM NoReadIsShort ==
  ASSUME WholeFrames
  PROVE  Safety => []NoShortRead
<1>1. IInv /\ Whole => NoShortRead
  BY ReadFindsAFrame DEF NoShortRead, IInv
<1> QED  BY <1>1, Invariant, FramesStayWhole, PTL

\* The analysis never runs ahead of the sound card and never lags behind it
\* by more than the FIFO's frames and one (dcomposer.c:435-466).
THEOREM AnalysisKeepsStep ==
  ASSUME WholeFrames
  PROVE  Safety => []DisplayInStep
<1>1. IInv /\ Whole => DisplayInStep
  <2>1. SUFFICES ASSUME IInv, Whole PROVE DisplayInStep
    OBVIOUS
  <2>2. /\ FrameUnits \in Nat \ {0} /\ Depth \in Nat
        /\ PipeUnits = Depth * FrameUnits
        /\ published \in Nat /\ analysed \in Nat /\ offered \in Nat
        /\ offered \in {published, published + 1}
        /\ analysed <= published
        /\ Waiting * FrameUnits <= Depth * FrameUnits
        /\ Waiting = published - analysed
    BY <2>1, DepthOfWholeFrames DEF IInv, TypeOK, InStep, Whole, Waiting
  <2>3. Waiting <= Depth
    BY <2>2, NoMoreThanFits
  <2> QED  BY <2>2, <2>3 DEF DisplayInStep, Depth
<1> QED  BY <1>1, Invariant, FramesStayWhole, PTL

-----------------------------------------------------------------------------
(* The FIFO implements the channel of FrameChannel.                        *)

LEMMA InitRefines ==
  ASSUME Init
  PROVE  Channel!Init
BY DEF Init, Channel!Init, Silence, Channel!Silence, FrameUnits, Channel!FrameUnits

LEMMA NextRefines ==
  ASSUME WholeFrames, IInv, Whole, IInv', [Next]_vars
  PROVE  [Channel!Next]_(Channel!chan)
<1> DEFINE open == ~(pcM = "exited" \/ pcF = "terminating")
<1>1. TypeOK /\ InStep /\ published \in Nat /\ analysed \in Nat
  BY DEF IInv, TypeOK
<1>2. ASSUME UNCHANGED <<published, analysed, raw>>, open' \in BOOLEAN,
             open' = open \/ (open /\ ~open')
      PROVE  [Channel!Next]_(Channel!chan)
  BY <1>2 DEF Channel!Next, Channel!Stop, Channel!chan
<1>3. CASE UNCHANGED vars
  BY <1>2, <1>3 DEF vars
<1>4. ASSUME \/ PlayFirstHalf \/ PlaySecondHalf \/ LoopEnds \/ Release
             \/ Analyse \/ AnalysisFails \/ ProcessExits
      PROVE  [Channel!Next]_(Channel!chan)
  <2>1. UNCHANGED <<published, analysed, raw>>
    BY <1>4
    DEF PlayFirstHalf, PlaySecondHalf, Play, LoopEnds, Release, Analyse,
        AnalysisFails, ProcessExits, fftVars, mainVars
  <2>2. open' = open \/ (open /\ ~open')
    BY <1>4
    DEF PlayFirstHalf, PlaySecondHalf, Play, LoopEnds, Release, Analyse,
        AnalysisFails, ProcessExits, fftVars, mainVars
  <2> QED  BY <1>2, <2>1, <2>2
<1>5. CASE WriteFirst \/ WriteSecond
  <2>1. PICK next \in {"play1", "play2"}, step \in Nat : Copy(next, step)
    BY <1>5, DepthOfWholeFrames DEF WriteFirst, WriteSecond
  <2>2. /\ pcM \in {"write1", "write2"}
        /\ published' = published + 1
        /\ pcM' = next
        /\ UNCHANGED <<pcF, raw, analysed>>
        /\ Waiting' <= Depth
    BY <1>1, <1>5, <2>1, CopyIsWhole DEF WriteFirst, WriteSecond
  <2>3. published' - analysed' <= Depth
    BY <2>2 DEF Waiting
  <2>4. open' = open
    BY <2>2
  <2>5. Channel!Publish
    <3>1. published - analysed < PipeUnits \div FrameUnits
      BY <1>1, <2>2, <2>3, DepthOfWholeFrames DEF Depth
    <3> QED  BY <2>2, <2>4, <3>1 DEF Channel!Publish
  <2> QED  BY <2>5 DEF Channel!Next
<1>6. CASE ReadFrame
  <2>1. /\ pcF' = "analyse"
        /\ analysed' = analysed + 1
        /\ analysed' <= published
        /\ pcF = "read" /\ pcM # "exited" /\ pcM' = pcM
        /\ published' = published
    BY <1>1, <1>6, ReadIsWhole DEF ReadFrame, mainVars
  <2>2. raw' = Window(analysed')
    BY <2>1 DEF IInv, Window, UnitsFrom, StartOf, FrameUnits
  <2>3. Channel!Deliver
    BY <1>1, <2>1, <2>2 DEF Channel!Deliver, Channel!Window, Channel!UnitsFrom,
       Channel!StartOf, Channel!FrameUnits, Window, UnitsFrom, StartOf, FrameUnits
  <2> QED  BY <2>3 DEF Channel!Next
<1>7. CASE Gone
  BY <1>3, <1>7 DEF Gone
<1> QED
  BY <1>3, <1>4, <1>5, <1>6, <1>7 DEF Next, Main, Fft

\* The path through the FIFO is the channel: each frame once, in order, at
\* most PipeUnits \div FrameUnits of them waiting.
THEOREM Refinement ==
  ASSUME WholeFrames
  PROVE  Safety => Channel!Safety
<1>1. Init => Channel!Init
  BY InitRefines
<1>2. IInv /\ Whole /\ IInv' /\ [Next]_vars => [Channel!Next]_(Channel!chan)
  BY NextRefines
<1> QED  BY <1>1, <1>2, Invariant, FramesStayWhole, PTL DEF Safety, Channel!Safety
=============================================================================
