-------------------------- MODULE PitchProfileProofs --------------------------
(***************************************************************************)
(* Proofs about PitchProfile, for every range of bins, set of spectra and  *)
(* set of thresholds.  The first part is about sums over finite sets, by   *)
(* induction over the sets; the second about notes and powers; the third   *)
(* about the loop: what curr_ps, max_ps and note hold after each turn.     *)
(***************************************************************************)
EXTENDS PitchProfile, FiniteSetTheorems, TLAPS
-----------------------------------------------------------------------------
(* Sums over finite sets.                                                  *)

\* How a sum over a set is defined: an element is chosen, the rest is summed up.
Chosen(s) == CHOOSE x \in s : TRUE
Rest(s) == s \ {Chosen(s)}
Turn(g, F, s) == IF s = {} THEN 0 ELSE g[Chosen(s)] + F[Rest(s)]
Sums(g, F, s) == F = [t \in SUBSET s |-> Turn(g, F, t)]

\* Induction over finite sets: of sets with a property one has no smaller one.
LEMMA SmallestSet ==
  ASSUME NEW D, IsFiniteSet(D), NEW T, T \subseteq SUBSET D, T # {}
  PROVE  \E s \in T : \A u \in T : u \subseteq s => u = s
<1>1. IsWellFoundedOn(StrictSubsetOrdering(D), SUBSET D)
  BY FS_StrictSubsetOrderingWellFounded, FS_FiniteSubsetsOfFinite
<1>2. PICK s \in T : \A u \in T : <<u, s>> \notin StrictSubsetOrdering(D)
  BY <1>1, WFMin
<1>3. \A u \in T : u \subseteq s => u = s
  BY <1>2 DEF StrictSubsetOrdering
<1> QED  BY <1>3

\* A turn leaves a smaller set.
LEMMA RestIsSmaller ==
  ASSUME NEW s, s # {}
  PROVE  Chosen(s) \in s /\ Rest(s) \subseteq s /\ Rest(s) # s
BY DEF Chosen, Rest

\* The definition leaves no choice.
LEMMA SumsAreUnique ==
  ASSUME NEW g, NEW F, NEW G, NEW a, NEW b, Sums(g, F, a), Sums(g, G, b),
         NEW s, IsFiniteSet(s), s \subseteq a, s \subseteq b
  PROVE  F[s] = G[s]
<1> DEFINE T == {t \in SUBSET s : F[t] # G[t]}
<1>1. SUFFICES ASSUME F[s] # G[s] PROVE FALSE
  OBVIOUS
<1>2. T \subseteq SUBSET s /\ T # {}
  BY <1>1
<1> HIDE DEF T
<1>3. PICK t \in T : \A u \in T : u \subseteq t => u = t
  BY <1>2, SmallestSet
<1>4. t \subseteq s /\ F[t] # G[t]
  BY <1>3 DEF T
<1>5. F[t] = Turn(g, F, t) /\ G[t] = Turn(g, G, t)
  <2>1. t \in SUBSET a /\ t \in SUBSET b
    BY <1>4
  <2> QED  BY <2>1, Zenon DEF Sums
<1>6. CASE t = {}
  BY <1>4, <1>5, <1>6 DEF Turn
<1>7. CASE t # {}
  <2>1. Rest(t) \subseteq t /\ Rest(t) # t
    BY <1>7, RestIsSmaller
  <2>2. F[Rest(t)] = G[Rest(t)]
    <3>1. Rest(t) \notin T
      BY <1>3, <2>1
    <3>2. Rest(t) \in SUBSET s
      BY <1>4, <2>1
    <3> QED  BY <3>1, <3>2 DEF T
  <2> QED  BY <1>4, <1>5, <1>7, <2>2 DEF Turn
<1> QED  BY <1>6, <1>7

\* SumFunctionOnSet is that choice, if it can be made.
LEMMA SumIsChosen ==
  ASSUME NEW g, NEW s
  PROVE  SumFunctionOnSet(g, s) = (CHOOSE F : Sums(g, F, s))[s]
BY Zenon DEF SumFunctionOnSet, FoldFunctionOnSet, MapThenFoldSet, Sums, Turn, Rest, Chosen

\* A function that meets the definition gives the sums of all subsets.
LEMMA SumsGiveTheSum ==
  ASSUME NEW g, NEW F, NEW a, Sums(g, F, a), NEW s, IsFiniteSet(s), s \subseteq a
  PROVE  F[s] = SumFunctionOnSet(g, s)
<1> DEFINE G == [t \in SUBSET s |-> F[t]]
<1>1. Sums(g, G, s)
  <2>1. SUFFICES ASSUME NEW t \in SUBSET s PROVE F[t] = Turn(g, G, t)
    BY Zenon DEF Sums
  <2>2. F[t] = Turn(g, F, t)
    <3>1. t \in SUBSET a
      OBVIOUS
    <3> QED  BY <3>1, Zenon DEF Sums
  <2>3. CASE t = {}
    BY <2>2, <2>3 DEF Turn
  <2>4. CASE t # {}
    <3>1. Rest(t) \in SUBSET s
      BY <2>4, RestIsSmaller
    <3>2. G[Rest(t)] = F[Rest(t)]
      BY <3>1
    <3> QED  BY <2>2, <3>2 DEF Turn
  <2> QED  BY <2>3, <2>4
<1> HIDE DEF G
<1>2. PICK H : H = CHOOSE E : Sums(g, E, s)
  OBVIOUS
<1>3. Sums(g, H, s)
  BY <1>1, <1>2, Zenon
<1>4. F[s] = H[s]
  BY <1>3, SumsAreUnique
<1> QED  BY <1>2, <1>4, SumIsChosen

\* And it can be met.
LEMMA SumsExist ==
  ASSUME NEW g, NEW D, IsFiniteSet(D)
  PROVE  \E F : Sums(g, F, D)
<1> DEFINE T == {s \in SUBSET D : ~ \E F : Sums(g, F, s)}
<1>1. SUFFICES ASSUME ~ \E F : Sums(g, F, D) PROVE FALSE
  OBVIOUS
<1>2. T \subseteq SUBSET D /\ T # {}
  BY <1>1
<1> HIDE DEF T
<1>3. PICK s \in T : \A u \in T : u \subseteq s => u = s
  BY <1>2, SmallestSet
<1>4. s \subseteq D /\ ~ \E F : Sums(g, F, s)
  BY <1>3 DEF T
<1> DEFINE G == [t \in SUBSET s |->
                   IF t = {} THEN 0 ELSE g[Chosen(t)] + SumFunctionOnSet(g, Rest(t))]
<1>5. \A u \in SUBSET s : u # s => G[u] = SumFunctionOnSet(g, u)
  <2>1. SUFFICES ASSUME NEW u \in SUBSET s, u # s PROVE G[u] = SumFunctionOnSet(g, u)
    OBVIOUS
  <2>2. IsFiniteSet(u) /\ u \subseteq D
    BY <1>4, FS_Subset
  <2>3. PICK F : Sums(g, F, u)
    <3>1. u \notin T
      BY <1>3, <2>1
    <3> QED  BY <2>2, <3>1 DEF T
  <2>4. F[u] = SumFunctionOnSet(g, u)
    BY <2>2, <2>3, SumsGiveTheSum
  <2>5. F[u] = Turn(g, F, u)
    <3>1. u \in SUBSET u
      OBVIOUS
    <3> QED  BY <2>3, <3>1, Zenon DEF Sums
  <2>6. CASE u = {}
    BY <2>4, <2>5, <2>6 DEF Turn
  <2>7. CASE u # {}
    <3>1. Rest(u) \subseteq u
      BY <2>7, RestIsSmaller
    <3>2. IsFiniteSet(Rest(u))
      BY <2>2, <3>1, FS_Subset
    <3>3. F[Rest(u)] = SumFunctionOnSet(g, Rest(u))
      BY <2>3, <3>1, <3>2, SumsGiveTheSum
    <3> QED  BY <2>4, <2>5, <2>7, <3>3 DEF Turn
  <2> QED  BY <2>6, <2>7
<1>6. Sums(g, G, s)
  <2>1. SUFFICES ASSUME NEW t \in SUBSET s PROVE G[t] = Turn(g, G, t)
    BY Zenon DEF Sums
  <2>2. CASE t = {}
    BY <2>2 DEF Turn
  <2>3. CASE t # {}
    <3>1. Rest(t) \subseteq t /\ Rest(t) # t
      BY <2>3, RestIsSmaller
    <3>2. G[Rest(t)] = SumFunctionOnSet(g, Rest(t))
      <4>1. Rest(t) \in SUBSET s /\ Rest(t) # s
        BY <3>1
      <4> QED  BY <1>5, <4>1
    <3>3. G[t] = g[Chosen(t)] + SumFunctionOnSet(g, Rest(t))
      BY <2>3
    <3> HIDE DEF G
    <3> QED  BY <2>3, <3>2, <3>3 DEF Turn
  <2> QED  BY <2>2, <2>3
<1> QED  BY <1>4, <1>6

\* So a sum is made turn by turn.
LEMMA SumByTurns ==
  ASSUME NEW g, NEW s, IsFiniteSet(s)
  PROVE  /\ s = {} => SumFunctionOnSet(g, s) = 0
         /\ s # {} => SumFunctionOnSet(g, s) = g[Chosen(s)] + SumFunctionOnSet(g, Rest(s))
<1>1. PICK F : Sums(g, F, s)
  BY SumsExist
<1>2. F[s] = SumFunctionOnSet(g, s)
  BY <1>1, SumsGiveTheSum
<1>3. F[s] = Turn(g, F, s)
  <2>1. s \in SUBSET s
    OBVIOUS
  <2> QED  BY <1>1, <2>1, Zenon DEF Sums
<1>4. CASE s = {}
  BY <1>2, <1>3, <1>4 DEF Turn
<1>5. CASE s # {}
  <2>1. Rest(s) \subseteq s
    BY <1>5, RestIsSmaller
  <2>2. IsFiniteSet(Rest(s))
    BY <2>1, FS_Subset
  <2>3. F[Rest(s)] = SumFunctionOnSet(g, Rest(s))
    BY <1>1, <2>1, <2>2, SumsGiveTheSum
  <2> QED  BY <1>2, <1>3, <1>5, <2>3 DEF Turn
<1> QED  BY <1>4, <1>5

\* A sum of natural numbers is one.
LEMMA SumIsNatural ==
  ASSUME NEW g, NEW s, IsFiniteSet(s), \A x \in s : g[x] \in Nat
  PROVE  SumFunctionOnSet(g, s) \in Nat
<1> DEFINE T == {t \in SUBSET s : SumFunctionOnSet(g, t) \notin Nat}
<1>1. SUFFICES ASSUME SumFunctionOnSet(g, s) \notin Nat PROVE FALSE
  OBVIOUS
<1>2. T \subseteq SUBSET s /\ T # {}
  BY <1>1
<1> HIDE DEF T
<1>3. PICK t \in T : \A u \in T : u \subseteq t => u = t
  BY <1>2, SmallestSet
<1>4. t \subseteq s /\ SumFunctionOnSet(g, t) \notin Nat
  BY <1>3 DEF T
<1>5. IsFiniteSet(t)
  BY <1>4, FS_Subset
<1>6. t # {}
  BY <1>4, <1>5, SumByTurns
<1>7. Chosen(t) \in t /\ Rest(t) \subseteq t /\ Rest(t) # t
  BY <1>6, RestIsSmaller
<1>8. g[Chosen(t)] \in Nat /\ SumFunctionOnSet(g, Rest(t)) \in Nat
  BY <1>3, <1>4, <1>7 DEF T
<1>9. SumFunctionOnSet(g, t) = g[Chosen(t)] + SumFunctionOnSet(g, Rest(t))
  BY <1>5, <1>6, SumByTurns
<1> QED  BY <1>4, <1>8, <1>9

\* It does not matter which element is taken first.
LEMMA SumTakesAny ==
  ASSUME NEW g, NEW s, IsFiniteSet(s), \A y \in s : g[y] \in Nat, NEW x \in s
  PROVE  SumFunctionOnSet(g, s) = g[x] + SumFunctionOnSet(g, s \ {x})
<1> DEFINE S(t) == SumFunctionOnSet(g, t)
           T == {t \in SUBSET s : \E y \in t : S(t) # g[y] + S(t \ {y})}
<1>1. SUFFICES ASSUME S(s) # g[x] + S(s \ {x}) PROVE FALSE
  OBVIOUS
<1>2. T \subseteq SUBSET s /\ T # {}
  BY <1>1
<1>a. \A t : t \in T <=> t \in SUBSET s /\ \E y \in t : S(t) # g[y] + S(t \ {y})
  OBVIOUS
<1>b. \A t \in SUBSET s : IsFiniteSet(t) /\ S(t) \in Nat
  BY FS_Subset, SumIsNatural
<1>c. \A t \in SUBSET s : t # {} => S(t) = g[Chosen(t)] + S(Rest(t))
  BY <1>b, SumByTurns
<1> HIDE DEF T, S
<1>3. PICK t \in T : \A u \in T : u \subseteq t => u = t
  BY <1>2, SmallestSet
<1>4. PICK y \in t : S(t) # g[y] + S(t \ {y})
  BY <1>3, <1>a
<1>5. PICK c : c = Chosen(t)
  OBVIOUS
<1>6. c \in t /\ Rest(t) = t \ {c} /\ t \in SUBSET s
  BY <1>2, <1>3, <1>4, <1>5, RestIsSmaller DEF Rest
<1>7. S(t) = g[c] + S(t \ {c})
  BY <1>4, <1>5, <1>6, <1>c
<1>8. y # c
  BY <1>4, <1>7
<1>9. S(t \ {c}) = g[y] + S((t \ {c}) \ {y})
  <2>1. t \ {c} \notin T /\ t \ {c} \in SUBSET s /\ y \in t \ {c}
    BY <1>3, <1>6, <1>8
  <2> QED  BY <1>a, <2>1
<1>10. S(t \ {y}) = g[c] + S((t \ {y}) \ {c})
  <2>1. t \ {y} \notin T /\ t \ {y} \in SUBSET s /\ c \in t \ {y}
    BY <1>3, <1>4, <1>6, <1>8
  <2> QED  BY <1>a, <2>1
<1>11. (t \ {c}) \ {y} = (t \ {y}) \ {c}
  OBVIOUS
<1>12. PICK r : r = S((t \ {c}) \ {y})
  OBVIOUS
<1>13. g[c] \in Nat /\ g[y] \in Nat /\ r \in Nat
  <2>1. (t \ {c}) \ {y} \in SUBSET s /\ y \in s /\ c \in s
    BY <1>4, <1>6
  <2> QED  BY <1>b, <1>12, <2>1
<1>14. S(t) = g[c] + (g[y] + r) /\ S(t \ {y}) = g[c] + r
  BY <1>7, <1>9, <1>10, <1>11, <1>12
<1> QED  BY <1>4, <1>13, <1>14

\* A sum depends on what is summed up.
LEMMA SumOfSame ==
  ASSUME NEW g, NEW h, NEW s, IsFiniteSet(s), \A x \in s : g[x] = h[x]
  PROVE  SumFunctionOnSet(g, s) = SumFunctionOnSet(h, s)
<1> DEFINE T == {t \in SUBSET s : SumFunctionOnSet(g, t) # SumFunctionOnSet(h, t)}
<1>1. SUFFICES ASSUME SumFunctionOnSet(g, s) # SumFunctionOnSet(h, s) PROVE FALSE
  OBVIOUS
<1>2. T \subseteq SUBSET s /\ T # {}
  BY <1>1
<1> HIDE DEF T
<1>3. PICK t \in T : \A u \in T : u \subseteq t => u = t
  BY <1>2, SmallestSet
<1>4. t \subseteq s /\ SumFunctionOnSet(g, t) # SumFunctionOnSet(h, t)
  BY <1>3 DEF T
<1>5. IsFiniteSet(t)
  BY <1>4, FS_Subset
<1>6. t # {}
  BY <1>4, <1>5, SumByTurns
<1>7. Chosen(t) \in s /\ Rest(t) \subseteq t /\ Rest(t) # t
  BY <1>4, <1>6, RestIsSmaller
<1>8. SumFunctionOnSet(g, Rest(t)) = SumFunctionOnSet(h, Rest(t))
  BY <1>3, <1>4, <1>7 DEF T
<1>9. /\ SumFunctionOnSet(g, t) = g[Chosen(t)] + SumFunctionOnSet(g, Rest(t))
      /\ SumFunctionOnSet(h, t) = h[Chosen(t)] + SumFunctionOnSet(h, Rest(t))
  BY <1>5, <1>6, SumByTurns
<1> QED  BY <1>4, <1>7, <1>8, <1>9
-----------------------------------------------------------------------------
(* Notes, powers and the sums of notes.                                    *)

\* pow gives a natural number.
LEMMA PowerIsNatural ==
  ASSUME NEW x \in Nat, NEW j \in 1..6
  PROVE  pow(x, j) \in Nat
<1> DEFINE Is(p) == p = [k \in 1..6 |-> IF k = 1 THEN x ELSE x * p[k - 1]]
           x2 == x * x
           x3 == x * x2
           x4 == x * x3
           x5 == x * x4
           x6 == x * x5
           w == [k \in 1..6 |-> IF k = 1 THEN x ELSE IF k = 2 THEN x2 ELSE IF k = 3 THEN x3
                     ELSE IF k = 4 THEN x4 ELSE IF k = 5 THEN x5 ELSE x6]
<1>1. Is(w)
  <2>1. \A k \in 1..6 : w[k] = IF k = 1 THEN x ELSE x * w[k - 1]
    <3> HIDE DEF x2, x3, x4, x5, x6
    <3>1. w[1] = x /\ w[2] = x2 /\ w[3] = x3 /\ w[4] = x4 /\ w[5] = x5 /\ w[6] = x6
      OBVIOUS
    <3> HIDE DEF w
    <3>2. x2 = x * x /\ x3 = x * x2 /\ x4 = x * x3 /\ x5 = x * x4 /\ x6 = x * x5
      BY Zenon DEF x2, x3, x4, x5, x6
    <3> QED  BY <3>1, <3>2
  <2> QED  BY <2>1
<1>2. pow(x, j) = (CHOOSE p : Is(p))[j]
  BY DEF pow
<1> HIDE DEF Is, w
<1>3. PICK p : p = CHOOSE q : Is(q)
  OBVIOUS
<1>4. Is(p)
  BY <1>1, <1>3, Zenon
<1>5. /\ p[1] = x /\ p[2] = x * p[1] /\ p[3] = x * p[2] /\ p[4] = x * p[3]
      /\ p[5] = x * p[4] /\ p[6] = x * p[5]
  BY <1>4 DEF Is
<1> HIDE DEF x2, x3, x4, x5, x6
<1>6. \A a \in Nat : x * a \in Nat
  OBVIOUS
<1>7. p[1] \in Nat /\ p[2] \in Nat /\ p[3] \in Nat
  BY <1>5, <1>6, Zenon
<1>8. p[4] \in Nat /\ p[5] \in Nat /\ p[6] \in Nat
  BY <1>5, <1>6, <1>7, Zenon
<1>9. j = 1 \/ j = 2 \/ j = 3 \/ j = 4 \/ j = 5 \/ j = 6
  OBVIOUS
<1> QED  BY <1>2, <1>3, <1>7, <1>8, <1>9

\* A note is counted off in a finite set.
LEMMA NoteIsNatural ==
  ASSUME NEW b
  PROVE  Note(b) \in Nat /\ IsFiniteSet({s \in NoteStarts : s <= b})
<1>1. NoteStarts \subseteq 0..1114
  BY DEF NoteStarts
<1>2. IsFiniteSet(NoteStarts)
  <2>1. PICK n \in Int : n = 1114
    OBVIOUS
  <2>2. IsFiniteSet(0..n)
    BY FS_Interval
  <2>3. NoteStarts \in SUBSET (0..n)
    BY <1>1, <2>1
  <2> QED  BY <2>2, <2>3, FS_Subset
<1>3. IsFiniteSet({s \in NoteStarts : s <= b})
  BY <1>2, FS_Subset
<1>4. Cardinality({s \in NoteStarts : s <= b}) \in Nat
  BY <1>3, FS_CardinalityType
<1> QED  BY <1>3, <1>4 DEF Note

\* Later bins belong to the same note or to later ones.
LEMMA NotesRise ==
  ASSUME NEW a \in Int, NEW b \in Int, a <= b
  PROVE  Note(a) <= Note(b)
<1> DEFINE A == {s \in NoteStarts : s <= a}
           B == {s \in NoteStarts : s <= b}
<1>1. NoteStarts \subseteq Int
  BY DEF NoteStarts
<1>2. A \subseteq B
  <2>1. SUFFICES ASSUME NEW s \in NoteStarts, s <= a PROVE s <= b
    OBVIOUS
  <2>2. s \in Int
    BY <1>1
  <2> QED  BY <2>1, <2>2
<1>3. IsFiniteSet(A) /\ IsFiniteSet(B)
  BY NoteIsNatural
<1>4. Cardinality(A) \in Nat /\ Cardinality(B) \in Nat /\ Cardinality(A) <= Cardinality(B)
  <2> HIDE DEF A, B
  <2> QED  BY <1>2, <1>3, FS_CardinalityType, FS_Subset
<1>5. Note(a) = 42 + Cardinality(A) /\ Note(b) = 42 + Cardinality(B)
  BY DEF Note
<1> HIDE DEF A, B
<1> QED  BY <1>4, <1>5

\* The sums of the property, in terms of the bins up to k.
Weights == [bin \in Swept |-> Weight(bin)]
BinsBefore(n, k) == {bin \in BinsOf(n) : bin < k}
SumBefore(n, k) == SumFunctionOnSet(Weights, BinsBefore(n, k))

\* The range is one of bins.
LEMMA RangeOfBins == StartBin \in Nat /\ StopBin \in Nat /\ StartBin < StopBin
<1>1. StartBin \in Nat
  BY PitchAssumption DEF NoteStarts
<1> QED  BY <1>1, PitchAssumption

\* The bins of a harmonic, by its number or from the centre of the bin.
LEMMA SameHarmonics ==
  ASSUME NEW bin \in Nat, NEW j \in 1..6
  PROVE  ((2 * bin + 1) * j) \div 2 = Harmonic(bin, j)
<1>1. j = 1 \/ j = 2 \/ j = 3 \/ j = 4 \/ j = 5 \/ j = 6
  OBVIOUS
<1> QED  BY <1>1 DEF Harmonic

\* What a turn adds is the weight of its bin in the property's terms.
LEMMA AddsIsWeight ==
  ASSUME NEW bin \in Nat
  PROVE  Adds(bin) = Weight(bin)
<1> DEFINE harmonic(j) == ((2 * bin + 1) * j) \div 2
           inside == {j \in 1..6 : Harmonic(bin, j) < Size}
           within == {j \in 1..6 : harmonic(j) < Size}
           p == [j \in inside |-> pow(Power(Harmonic(bin, j)), j)]
           q == [j \in within |-> pow(Power(harmonic(j)), j)]
<1>1. \A j \in 1..6 : harmonic(j) = Harmonic(bin, j)
  BY SameHarmonics
<1> HIDE DEF harmonic
<1>2. inside = within
  BY <1>1
<1>3. p = q
  <2>1. \A j \in inside : pow(Power(Harmonic(bin, j)), j) = pow(Power(harmonic(j)), j)
    BY <1>1, Zenon
  <2> QED  BY <1>2, <2>1
<1>4. Adds(bin) = IF Power(bin) > limit THEN SumFunction(p) ELSE Power(bin)
  BY DEF Adds
<1>5. Weight(bin) = IF Power(bin) > limit THEN SumFunction(q) ELSE Power(bin)
  BY DEF Weight, harmonic
<1> QED  BY <1>3, <1>4, <1>5

\* A spectrum holds natural numbers, and zero elsewhere.
LEMMA PowersAreNatural ==
  ASSUME ps_in \in Spectra, NEW bin
  PROVE  Power(bin) \in Nat
BY PitchAssumption DEF Power

\* The weight of a bin is a natural number.
LEMMA WeightIsNatural ==
  ASSUME ps_in \in Spectra, NEW bin \in Nat
  PROVE  Weight(bin) \in Nat
<1> DEFINE inside == {j \in 1..6 : Harmonic(bin, j) < Size}
           p == [j \in inside |-> pow(Power(Harmonic(bin, j)), j)]
<1>1. IsFiniteSet(inside)
  <2>1. PICK n \in Int : n = 6
    OBVIOUS
  <2>2. IsFiniteSet(1..n)
    BY FS_Interval
  <2>3. inside \in SUBSET (1..n)
    BY <2>1
  <2> QED  BY <2>2, <2>3, FS_Subset
<1>2. \A j \in inside : p[j] \in Nat
  <2>1. SUFFICES ASSUME NEW j \in inside PROVE pow(Power(Harmonic(bin, j)), j) \in Nat
    OBVIOUS
  <2> QED  BY PowerIsNatural, PowersAreNatural
<1>3. DOMAIN p = inside
  OBVIOUS
<1>4. Adds(bin) = IF Power(bin) > limit THEN SumFunction(p) ELSE Power(bin)
  BY DEF Adds
<1> HIDE DEF p, inside
<1>5. SumFunction(p) \in Nat
  BY <1>1, <1>2, <1>3, SumIsNatural DEF SumFunction
<1> QED  BY <1>4, <1>5, PowersAreNatural, AddsIsWeight

\* A note has finitely many bins.
LEMMA BinsAreFinite ==
  ASSUME NEW n, NEW k
  PROVE  /\ IsFiniteSet(BinsOf(n)) /\ IsFiniteSet(BinsBefore(n, k))
         /\ BinsOf(n) \subseteq Swept /\ BinsBefore(n, k) \subseteq Swept
<1>1. IsFiniteSet(Swept)
  <2>1. StartBin \in Int /\ StopBin - 1 \in Int
    BY RangeOfBins
  <2> QED  BY <2>1, FS_Interval DEF Swept
<1>2. BinsOf(n) \subseteq Swept /\ BinsBefore(n, k) \subseteq Swept
  BY DEF BinsOf, BinsBefore
<1> QED  BY <1>1, <1>2, FS_Subset

\* The function that is summed up.
LEMMA WeightsOfSpectrum ==
  ASSUME ps_in \in Spectra
  PROVE  \A bin \in Swept : Weights[bin] = Weight(bin) /\ Weights[bin] \in Nat
<1>1. SUFFICES ASSUME NEW bin \in Swept PROVE Weight(bin) \in Nat
  BY DEF Weights
<1>2. bin \in Nat
  BY RangeOfBins DEF Swept
<1> QED  BY <1>2, WeightIsNatural

\* The sum of a note, by the property's definition and by that function.
LEMMA SumsAreNatural ==
  ASSUME ps_in \in Spectra, NEW n, NEW k
  PROVE  /\ SumBefore(n, k) \in Nat
         /\ SumOf(n) = SumFunctionOnSet(Weights, BinsOf(n))
         /\ SumOf(n) \in Nat
<1>1. \A bin \in Swept : Weights[bin] = Weight(bin) /\ Weights[bin] \in Nat
  BY WeightsOfSpectrum
<1> DEFINE g == [bin \in BinsOf(n) |-> Weight(bin)]
<1>2. \A bin \in BinsOf(n) : g[bin] = Weights[bin]
  BY <1>1, BinsAreFinite
<1>3. SumOf(n) = SumFunctionOnSet(g, BinsOf(n))
  BY DEF SumOf, SumFunction
<1> HIDE DEF g
<1>4. SumOf(n) = SumFunctionOnSet(Weights, BinsOf(n))
  BY <1>2, <1>3, BinsAreFinite, SumOfSame
<1>5. SumFunctionOnSet(Weights, BinsOf(n)) \in Nat
  BY <1>1, BinsAreFinite, SumIsNatural
<1>6. SumBefore(n, k) \in Nat
  BY <1>1, BinsAreFinite, SumIsNatural DEF SumBefore
<1> QED  BY <1>4, <1>5, <1>6

\* The sum of a note grows by its bins in turn.
LEMMA SumGrows ==
  ASSUME ps_in \in Spectra, NEW k \in Swept
  PROVE  SumBefore(Note(k), k + 1) = SumBefore(Note(k), k) + Weight(k)
<1>1. k \in Nat /\ Swept \subseteq Int
  BY RangeOfBins DEF Swept
<1> DEFINE new == BinsBefore(Note(k), k + 1)
<1>2. k \in new /\ new \ {k} = BinsBefore(Note(k), k)
  <2>1. k < k + 1 /\ ~(k < k)
    BY <1>1
  <2>2. \A bin \in Swept : bin < k + 1 <=> bin < k \/ bin = k
    BY <1>1
  <2>3. \A bin : bin \in new <=> bin \in Swept /\ Note(bin) = Note(k) /\ bin < k + 1
    BY Zenon DEF BinsBefore, BinsOf
  <2>4. \A bin : bin \in BinsBefore(Note(k), k) <=> bin \in Swept /\ Note(bin) = Note(k) /\ bin < k
    BY Zenon DEF BinsBefore, BinsOf
  <2> HIDE DEF new
  <2>5. k \in new
    BY <2>1, <2>3
  <2>6. \A bin : bin \in new \ {k} <=> bin \in BinsBefore(Note(k), k)
    BY <2>1, <2>2, <2>3, <2>4, Zenon
  <2> QED  BY <2>5, <2>6, Zenon
<1>3. IsFiniteSet(new) /\ new \subseteq Swept
  BY BinsAreFinite
<1>4. \A bin \in new : Weights[bin] \in Nat
  BY <1>3, WeightsOfSpectrum
<1>5. SumBefore(Note(k), k + 1) = SumFunctionOnSet(Weights, new)
  BY DEF SumBefore
<1>6. SumBefore(Note(k), k) = SumFunctionOnSet(Weights, new \ {k})
  BY <1>2 DEF SumBefore
<1> HIDE DEF new
<1>7. SumFunctionOnSet(Weights, new) = Weights[k] + SumFunctionOnSet(Weights, new \ {k})
  BY <1>2, <1>3, <1>4, SumTakesAny
<1>8. Weights[k] = Weight(k) /\ Weight(k) \in Nat
  BY WeightsOfSpectrum
<1>9. SumBefore(Note(k), k) \in Nat
  BY SumsAreNatural
<1> QED  BY <1>5, <1>6, <1>7, <1>8, <1>9

\* It starts at nothing with the note's first bin.
LEMMA SumStarts ==
  ASSUME NEW k \in Swept, k = StartBin \/ Note(k - 1) # Note(k)
  PROVE  SumBefore(Note(k), k) = 0
<1>1. BinsBefore(Note(k), k) = {}
  <2>1. SUFFICES ASSUME NEW bin \in Swept, Note(bin) = Note(k), bin < k PROVE FALSE
    BY DEF BinsBefore, BinsOf
  <2>2. /\ bin \in Int /\ k \in Int /\ StartBin \in Int
        /\ bin >= StartBin
    BY RangeOfBins DEF Swept
  <2>3. k - 1 \in Int /\ bin <= k - 1 /\ k - 1 <= k /\ k # StartBin
    BY <2>1, <2>2
  <2>4. Note(bin) <= Note(k - 1) /\ Note(k - 1) <= Note(k)
    BY <2>2, <2>3, NotesRise
  <2>5. Note(k - 1) \in Nat /\ Note(k) \in Nat
    BY NoteIsNatural
  <2> QED  BY <2>1, <2>3, <2>4, <2>5
<1>2. IsFiniteSet(BinsBefore(Note(k), k))
  BY BinsAreFinite
<1> QED  BY <1>1, <1>2, SumByTurns DEF SumBefore

\* It is complete when the next note, or the end, is reached.
LEMMA SumEnds ==
  ASSUME ps_in \in Spectra, NEW k \in Swept, Note(k + 1) # Note(k) \/ k + 1 = StopBin
  PROVE  SumBefore(Note(k), k + 1) = SumOf(Note(k))
<1>1. BinsBefore(Note(k), k + 1) = BinsOf(Note(k))
  <2>1. SUFFICES ASSUME NEW bin \in Swept, Note(bin) = Note(k), ~(bin < k + 1) PROVE FALSE
    BY DEF BinsBefore, BinsOf
  <2>2. bin \in Int /\ k \in Int /\ StopBin \in Int /\ bin < StopBin
    BY RangeOfBins DEF Swept
  <2>3. k + 1 \in Int /\ k + 1 <= bin /\ k <= k + 1 /\ k + 1 # StopBin
    BY <2>1, <2>2
  <2>4. Note(k + 1) <= Note(bin) /\ Note(k) <= Note(k + 1)
    BY <2>2, <2>3, NotesRise
  <2>5. Note(k + 1) \in Nat /\ Note(k) \in Nat
    BY NoteIsNatural
  <2> QED  BY <2>1, <2>3, <2>4, <2>5
<1> QED  BY <1>1, SumsAreNatural DEF SumBefore

\* Sums are of one spectrum and one limit.
LEMMA SumsStay ==
  ASSUME UNCHANGED <<ps_in, limit>>
  PROVE  /\ \A n : SumOf(n)' = SumOf(n)
         /\ \A n, k : SumBefore(n, k)' = SumBefore(n, k)
<1>1. \A bin : Weight(bin)' = Weight(bin)
  BY DEF Weight, Power
<1>2. Weights' = Weights
  BY <1>1 DEF Weights
<1>3. \A n : [bin \in BinsOf(n) |-> Weight(bin)]' = [bin \in BinsOf(n) |-> Weight(bin)]
  BY <1>1
<1> QED  BY <1>2, <1>3 DEF SumOf, SumBefore
-----------------------------------------------------------------------------
(* The loop.                                                               *)

\* The bin a note starts at in the range.
Starts(bin, n) == bin \in BinsOf(n) /\ bin - 1 \notin BinsOf(n)

\* What the first turn finds.
AtStart ==
  i = StartBin =>
    /\ start_freq = -1
    /\ curr_ps = 0 /\ max_ps = 0

\* From then on old_note is the note of the bin before, and start_freq where that
\* note starts, unless it is the first note and old_note held it from the start.
FollowsNote ==
  i > StartBin =>
    /\ old_note = Note(i - 1)
    /\ \/ Starts(start_freq, old_note)
       \/ start_freq = -1 /\ old_note = Note(StartBin)

\* Notes whose sum was compared before the turn of bin k.
Completed(k) == {Note(bin) : bin \in StartBin..(k - 1)} \ {Note(k - 1)}

\* curr_ps is what the note of the bin before has so far, and max_ps and note
\* are the best of the notes before it.
BestSoFar ==
  /\ i > StartBin => curr_ps = SumBefore(Note(i - 1), i)
  /\ \/ /\ max_ps > 0 /\ note \in Completed(i) /\ max_ps = SumOf(note)
        /\ \A m \in Completed(i) :
             SumOf(m) < max_ps \/ (SumOf(m) = max_ps /\ m >= note)
     \/ /\ max_ps = 0 /\ <<note, freq_out>> = before
        /\ \A m \in Completed(i) : SumOf(m) = 0

IInv ==
  /\ TypeOK
  /\ AtStart
  /\ FollowsNote
  /\ BestSoFar
  /\ FrequencyMatchesNote

\* The notes of the range.
LEMMA NotesOfRange ==
  ASSUME NEW k \in StartBin..StopBin
  PROVE  Note(k) \in Note(StartBin)..Note(StopBin)
<1>1. /\ StartBin \in Int /\ StopBin \in Int /\ k \in Int
      /\ StartBin <= k /\ k <= StopBin
  BY RangeOfBins
<1>2. Note(StartBin) <= Note(k) /\ Note(k) <= Note(StopBin)
  BY <1>1, NotesRise
<1>3. Note(StartBin) \in Nat /\ Note(k) \in Nat /\ Note(StopBin) \in Nat
  BY NoteIsNatural
<1> QED  BY <1>2, <1>3

\* A call begins with nothing compared.
LEMMA NothingCompleted == Completed(StartBin) = {}
BY RangeOfBins DEF Completed

LEMMA InitEstablishesIInv ==
  ASSUME Init
  PROVE  IInv
<1>1. /\ ps_in \in Spectra /\ limit \in Thresholds
      /\ i = StartBin /\ old_note \in {Note(StartBin), -1} /\ start_freq = -1
      /\ curr_ps = 0 /\ max_ps = 0
      /\ note = -1 /\ freq_out = -1 /\ before = <<note, freq_out>>
  BY DEF Init
<1>2. i \in StartBin..StopBin /\ ~(i > StartBin)
  BY <1>1, RangeOfBins
<1>3. Note(StartBin) \in Note(StartBin)..Note(StopBin)
  BY RangeOfBins, NotesOfRange
<1>4. TypeOK
  BY <1>1, <1>2, <1>3 DEF TypeOK
<1>5. BestSoFar
  BY <1>1, <1>2, NothingCompleted DEF BestSoFar
<1> QED
  BY <1>1, <1>2, <1>4, <1>5 DEF IInv, AtStart, FollowsNote, FrequencyMatchesNote

\* What a turn of the loop does, in terms of the weight of its bin.
LEMMA TurnOfBin ==
  ASSUME IInv, Bin
  PROVE  LET ends == Note(i) # old_note
             wins == ends /\ curr_ps > max_ps
         IN  /\ i \in Swept /\ i \in Nat /\ i' = i + 1 /\ i' \in StartBin..StopBin
             /\ note' = IF wins THEN old_note ELSE note
             /\ freq_out' = IF wins THEN start_freq ELSE freq_out
             /\ start_freq' = IF ends THEN i ELSE start_freq
             /\ old_note' = Note(i)
             /\ max_ps' = IF wins THEN curr_ps ELSE max_ps
             /\ curr_ps' = (IF ends THEN 0 ELSE curr_ps) + Weight(i)
             /\ Weight(i) \in Nat
             /\ UNCHANGED <<ps_in, limit, before>>
<1>1. i < StopBin /\ i \in StartBin..StopBin /\ ps_in \in Spectra
  BY DEF IInv, TypeOK, Bin, More
<1>2. i \in Swept /\ i \in Nat /\ i + 1 \in StartBin..StopBin
  BY <1>1, RangeOfBins DEF Swept
<1>3. Adds(i) = Weight(i) /\ Weight(i) \in Nat
  BY <1>1, <1>2, AddsIsWeight, WeightIsNatural
<1> QED
  BY <1>2, <1>3, Zenon DEF Bin, Beats, FreshSum, FrequencyOfNote

\* A turn keeps the types.
LEMMA BinKeepsTypes ==
  ASSUME IInv, Bin
  PROVE  TypeOK'
<1>1. /\ ps_in' \in Spectra /\ limit' \in Thresholds
      /\ i' \in StartBin..StopBin
      /\ curr_ps' \in Nat /\ max_ps' \in Nat
  BY TurnOfBin DEF IInv, TypeOK
<1>2. old_note' \in (Note(StartBin)..Note(StopBin)) \cup {-1}
  <2>1. i \in StartBin..StopBin
    BY DEF IInv, TypeOK
  <2>2. Note(i) \in Note(StartBin)..Note(StopBin)
    BY <2>1, NotesOfRange
  <2> QED  BY <2>2, TurnOfBin
<1>3. start_freq' \in (StartBin..(StopBin - 1)) \cup {-1}
  BY TurnOfBin DEF IInv, TypeOK, Swept
<1>4. /\ note' \in (Note(StartBin)..Note(StopBin)) \cup {-1}
      /\ freq_out' \in (StartBin..(StopBin - 1)) \cup {-1}
  BY TurnOfBin DEF IInv, TypeOK
<1> QED  BY <1>1, <1>2, <1>3, <1>4 DEF TypeOK, Note

\* A turn follows the note of its bin, and the frequency the note reported.
LEMMA BinFollowsNote ==
  ASSUME IInv, Bin
  PROVE  AtStart' /\ FollowsNote' /\ FrequencyMatchesNote'
<1> DEFINE ends == Note(i) # old_note
           wins == ends /\ curr_ps > max_ps
<1>1. /\ i < StopBin /\ i' = i + 1
      /\ note' = IF wins THEN old_note ELSE note
      /\ freq_out' = IF wins THEN start_freq ELSE freq_out
      /\ start_freq' = IF ends THEN i ELSE start_freq
      /\ old_note' = Note(i)
  BY TurnOfBin DEF Bin, More
<1>2. i \in StartBin..(StopBin - 1) /\ i \in Nat /\ StartBin \in Nat /\ StopBin \in Nat
  BY <1>1, RangeOfBins DEF IInv, TypeOK
<1>3. i' \in StartBin..StopBin /\ i' # StartBin /\ i' - 1 = i
  BY <1>1, <1>2
<1>4. \A n : BinsOf(n)' = BinsOf(n)
  BY DEF BinsOf, Swept, Note
<1>5. wins => i > StartBin
  BY <1>2 DEF IInv, AtStart
<1>6. AtStart'
  BY <1>3 DEF AtStart
<1>7. Starts(start_freq', old_note') \/ (start_freq' = -1 /\ old_note' = Note(StartBin))
  <2>1. CASE ends
    <3>1. i \in BinsOf(Note(i))
      BY <1>2 DEF BinsOf, Swept
    <3>2. i - 1 \notin BinsOf(Note(i))
      <4>1. CASE i = StartBin
        BY <1>2, <4>1 DEF BinsOf, Swept
      <4>2. CASE i > StartBin
        BY <2>1, <4>2 DEF IInv, FollowsNote, BinsOf
      <4> QED  BY <1>2, <4>1, <4>2
    <3> QED  BY <1>1, <2>1, <3>1, <3>2 DEF Starts
  <2>2. CASE ~ends
    <3>1. CASE i = StartBin
      BY <1>1, <2>2, <3>1 DEF IInv, AtStart
    <3>2. CASE i > StartBin
      BY <1>1, <2>2, <3>2 DEF IInv, FollowsNote
    <3> QED  BY <1>2, <3>1, <3>2
  <2> QED  BY <2>1, <2>2
<1>8. FollowsNote'
  <2>1. old_note' = Note(i' - 1)
    BY <1>1, <1>3
  <2> QED  BY <1>7, <2>1 DEF FollowsNote, Starts, BinsOf, Swept, Note
<1>9. FrequencyMatchesNote'
  <2>1. CASE wins
    BY <1>1, <1>4, <1>5, <2>1 DEF IInv, FollowsNote, FrequencyMatchesNote, Starts, Note
  <2>2. CASE ~wins
    BY <1>1, <1>4, <2>2 DEF IInv, FrequencyMatchesNote, Note
  <2> QED  BY <2>1, <2>2
<1> QED  BY <1>6, <1>8, <1>9

\* Which notes are completed by a turn.
LEMMA CompletedByTurn ==
  ASSUME NEW k \in Swept, k > StartBin
  PROVE  /\ Note(k - 1) = Note(k) => Completed(k + 1) = Completed(k)
         /\ Note(k - 1) # Note(k) => Completed(k + 1) = Completed(k) \cup {Note(k - 1)}
         /\ \A m \in Completed(k) : m \in Nat /\ m < Note(k - 1)
<1>1. /\ StartBin \in Int /\ k \in Int /\ k - 1 \in StartBin..(k - 1)
      /\ (k + 1) - 1 = k
  BY RangeOfBins DEF Swept
<1>2. \A bin : bin \in StartBin..k <=> bin \in StartBin..(k - 1) \/ bin = k
  BY <1>1
<1>3. \A m : m \in Completed(k + 1)
               <=> m # Note(k) /\ \E bin \in StartBin..k : m = Note(bin)
  BY <1>1 DEF Completed
<1>4. \A m : m \in Completed(k)
               <=> m # Note(k - 1) /\ \E bin \in StartBin..(k - 1) : m = Note(bin)
  BY DEF Completed
<1>5. \A bin \in StartBin..(k - 1) :
        Note(bin) \in Nat /\ Note(k - 1) \in Nat /\ Note(k) \in Nat
        /\ Note(bin) <= Note(k - 1) /\ Note(k - 1) <= Note(k)
  <2>1. SUFFICES ASSUME NEW bin \in StartBin..(k - 1)
                 PROVE  Note(bin) <= Note(k - 1) /\ Note(k - 1) <= Note(k)
    BY NoteIsNatural
  <2>2. bin \in Int /\ k - 1 \in Int /\ bin <= k - 1 /\ k - 1 <= k
    BY <1>1
  <2> QED  BY <1>1, <2>2, NotesRise
<1>6. \A m \in Completed(k) : m \in Nat /\ m < Note(k - 1)
  BY <1>4, <1>5
<1>7. ASSUME Note(k - 1) = Note(k)
      PROVE  Completed(k + 1) = Completed(k)
  <2>1. \A m : m \in Completed(k + 1) <=> m \in Completed(k)
    BY <1>2, <1>3, <1>4, <1>7, Zenon
  <2> QED  BY <2>1, Zenon DEF Completed
<1>8. ASSUME Note(k - 1) # Note(k)
      PROVE  Completed(k + 1) = Completed(k) \cup {Note(k - 1)}
  <2>1. \A bin \in StartBin..(k - 1) : Note(bin) # Note(k)
    BY <1>1, <1>5, <1>8
  <2>2. \A m : m \in Completed(k + 1) <=> m \in Completed(k) \/ m = Note(k - 1)
    BY <1>1, <1>2, <1>3, <1>4, <1>8, <2>1, Zenon
  <2> QED  BY <2>2
<1> QED  BY <1>6, <1>7, <1>8

\* A turn keeps the sum and the best note.
LEMMA BinKeepsBest ==
  ASSUME IInv, Bin
  PROVE  BestSoFar'
<1> DEFINE ends == Note(i) # old_note
           wins == ends /\ curr_ps > max_ps
<1>1. /\ i \in Swept /\ i \in Nat /\ i' = i + 1 /\ StartBin \in Nat /\ i >= StartBin
      /\ note' = IF wins THEN old_note ELSE note
      /\ freq_out' = IF wins THEN start_freq ELSE freq_out
      /\ max_ps' = IF wins THEN curr_ps ELSE max_ps
      /\ curr_ps' = (IF ends THEN 0 ELSE curr_ps) + Weight(i)
      /\ UNCHANGED <<ps_in, limit, before>>
  BY TurnOfBin, RangeOfBins DEF Swept
<1>2. ps_in \in Spectra /\ curr_ps \in Nat /\ max_ps \in Nat /\ Weight(i) \in Nat
  BY TurnOfBin DEF IInv, TypeOK
<1>3. /\ \A n : SumOf(n)' = SumOf(n) /\ SumOf(n) \in Nat
      /\ \A n, k : SumBefore(n, k)' = SumBefore(n, k)
  BY <1>1, <1>2, SumsStay, SumsAreNatural
<1>4. SumBefore(Note(i), i + 1) = SumBefore(Note(i), i) + Weight(i)
  BY <1>1, <1>2, SumGrows
<1>5. i' > StartBin /\ i' - 1 = i
  BY <1>1
<1>a. /\ \A bin : Note(bin)' = Note(bin)
      /\ \A k : Completed(k)' = Completed(k)
  BY DEF Completed, Note
\* The sum of the bin's note.
<1>6. curr_ps' = SumBefore(Note(i), i + 1)
  <2>1. CASE i = StartBin
    <3>1. SumBefore(Note(i), i) = 0 /\ curr_ps = 0
      BY <1>1, <2>1, SumStarts DEF IInv, AtStart
    <3> QED  BY <1>1, <1>2, <1>4, <3>1
  <2>2. CASE i > StartBin /\ ends
    <3>1. old_note = Note(i - 1)
      BY <2>2 DEF IInv, FollowsNote
    <3>2. SumBefore(Note(i), i) = 0
      BY <1>1, <2>2, <3>1, SumStarts
    <3> QED  BY <1>1, <1>2, <1>4, <2>2, <3>2
  <2>3. CASE i > StartBin /\ ~ends
    <3>1. old_note = Note(i - 1) /\ curr_ps = SumBefore(Note(i - 1), i)
      BY <2>3 DEF IInv, FollowsNote, BestSoFar
    <3> QED  BY <1>1, <1>4, <2>3, <3>1
  <2> QED  BY <1>1, <2>1, <2>2, <2>3
<1>7. (i > StartBin => curr_ps = SumBefore(Note(i - 1), i))'
  BY <1>1, <1>3, <1>5, <1>6, <1>a
\* The best of the notes before it.
<1>8. \/ /\ max_ps' > 0 /\ note' \in Completed(i + 1) /\ max_ps' = SumOf(note')
         /\ \A m \in Completed(i + 1) :
              SumOf(m) < max_ps' \/ (SumOf(m) = max_ps' /\ m >= note')
      \/ /\ max_ps' = 0 /\ <<note', freq_out'>> = before
         /\ \A m \in Completed(i + 1) : SumOf(m) = 0
  <2>1. CASE i = StartBin
    <3>1. curr_ps = 0 /\ max_ps = 0
      BY <2>1 DEF IInv, AtStart
    <3>2. Completed(i) = {} /\ <<note, freq_out>> = before
      BY <2>1, <3>1, NothingCompleted DEF IInv, BestSoFar
    <3>3. Completed(i + 1) = {}
      BY <1>1, <2>1 DEF Completed
    <3> QED  BY <1>1, <3>1, <3>2, <3>3
  <2>2. CASE i > StartBin
    <3>1. /\ old_note = Note(i - 1)
          /\ curr_ps = SumBefore(Note(i - 1), i)
      BY <2>2 DEF IInv, FollowsNote, BestSoFar
    <3>2. /\ Note(i - 1) = Note(i) => Completed(i + 1) = Completed(i)
          /\ Note(i - 1) # Note(i) => Completed(i + 1) = Completed(i) \cup {Note(i - 1)}
          /\ \A m \in Completed(i) : m \in Nat /\ m < Note(i - 1)
      BY <1>1, <2>2, CompletedByTurn
    <3>3. \/ /\ max_ps > 0 /\ note \in Completed(i) /\ max_ps = SumOf(note)
             /\ \A m \in Completed(i) :
                  SumOf(m) < max_ps \/ (SumOf(m) = max_ps /\ m >= note)
          \/ /\ max_ps = 0 /\ <<note, freq_out>> = before
             /\ \A m \in Completed(i) : SumOf(m) = 0
      BY DEF IInv, BestSoFar
    <3>4. Note(i - 1) \in Nat
      BY NoteIsNatural
    <3>5. CASE ~ends
      BY <1>1, <3>1, <3>2, <3>3, <3>5
    <3>6. ASSUME ends
          PROVE  curr_ps = SumOf(Note(i - 1))
      <4>1. i - 1 \in Swept /\ (i - 1) + 1 = i
        BY <1>1, <2>2, RangeOfBins DEF Swept
      <4>2. Note((i - 1) + 1) # Note(i - 1)
        BY <3>1, <3>6, <4>1
      <4>3. SumBefore(Note(i - 1), (i - 1) + 1) = SumOf(Note(i - 1))
        BY <1>2, <4>1, <4>2, SumEnds
      <4> QED  BY <3>1, <4>1, <4>3
    <3>7. CASE ends /\ ~wins
      <4>1. SumOf(Note(i - 1)) <= max_ps
        BY <1>2, <3>6, <3>7
      <4>2. Completed(i + 1) = Completed(i) \cup {Note(i - 1)}
        BY <3>1, <3>2, <3>7
      <4>3. note' = note /\ freq_out' = freq_out /\ max_ps' = max_ps
        BY <1>1, <3>7
      <4> QED  BY <1>2, <1>3, <3>2, <3>3, <3>4, <4>1, <4>2, <4>3
    <3>8. CASE wins
      <4>1. SumOf(Note(i - 1)) > max_ps /\ curr_ps = SumOf(Note(i - 1))
        BY <3>6, <3>8
      <4>2. Completed(i + 1) = Completed(i) \cup {Note(i - 1)}
        BY <3>1, <3>2, <3>8
      <4>3. note' = Note(i - 1) /\ max_ps' = SumOf(Note(i - 1))
        BY <1>1, <3>1, <3>8, <4>1
      <4>4. \A m \in Completed(i) : SumOf(m) < max_ps'
        BY <1>2, <1>3, <3>3, <4>1, <4>3
      <4>5. \A m \in Completed(i + 1) :
              SumOf(m) < max_ps' \/ (SumOf(m) = max_ps' /\ m >= note')
        BY <3>4, <4>2, <4>3, <4>4
      <4>6. max_ps' > 0 /\ note' \in Completed(i + 1) /\ max_ps' = SumOf(note')
        BY <1>2, <1>3, <4>1, <4>2, <4>3
      <4> QED  BY <4>5, <4>6
    <3> QED  BY <3>5, <3>7, <3>8
  <2> QED  BY <1>1, <2>1, <2>2
<1>9. (\/ /\ max_ps > 0 /\ note \in Completed(i) /\ max_ps = SumOf(note)
          /\ \A m \in Completed(i) :
               SumOf(m) < max_ps \/ (SumOf(m) = max_ps /\ m >= note)
       \/ /\ max_ps = 0 /\ <<note, freq_out>> = before
          /\ \A m \in Completed(i) : SumOf(m) = 0)'
  BY <1>1, <1>3, <1>8, <1>a
<1> QED  BY <1>7, <1>9 DEF BestSoFar

\* The next call finds the caller's variables as this one left them.
LEMMA AgainKeepsIInv ==
  ASSUME IInv, Again
  PROVE  IInv'
<1>1. /\ ps_in' \in Spectra /\ limit' \in Thresholds
      /\ i' = StartBin /\ old_note' \in {Note(StartBin), -1} /\ start_freq' = -1
      /\ curr_ps' = 0 /\ max_ps' = 0
      /\ before' = <<note, freq_out>>
      /\ UNCHANGED <<note, freq_out>>
  BY DEF Again, Enter
<1>2. i' \in StartBin..StopBin /\ ~(i' > StartBin)
  BY <1>1, RangeOfBins
<1>3. Note(StartBin) \in Note(StartBin)..Note(StopBin)
  BY RangeOfBins, NotesOfRange
<1>4. TypeOK'
  BY <1>1, <1>2, <1>3 DEF IInv, TypeOK, Note
<1>5. FrequencyMatchesNote'
  BY <1>1 DEF IInv, FrequencyMatchesNote, BinsOf, Swept, Note
<1>6. Completed(StartBin)' = {}
  BY NothingCompleted DEF Completed, Note
<1>7. BestSoFar'
  BY <1>1, <1>2, NothingCompleted DEF BestSoFar, Completed, Note
<1> QED  BY <1>1, <1>2, <1>4, <1>5, <1>7 DEF IInv, AtStart, FollowsNote

LEMMA NextPreservesIInv ==
  ASSUME IInv, [Next]_vars
  PROVE  IInv'
<1>1. CASE Bin
  BY <1>1, BinKeepsTypes, BinFollowsNote, BinKeepsBest DEF IInv
<1>2. CASE Again
  BY <1>2, AgainKeepsIInv
<1>3. CASE UNCHANGED vars
  <2>1. UNCHANGED <<ps_in, limit, i, old_note, start_freq, curr_ps, max_ps, note, freq_out, before>>
    BY <1>3 DEF vars
  <2>2. /\ \A n : SumOf(n)' = SumOf(n)
        /\ \A n, k : SumBefore(n, k)' = SumBefore(n, k)
    BY <2>1, SumsStay
  <2>3. BestSoFar'
    BY <2>1, <2>2 DEF IInv, BestSoFar, Completed, Note
  <2> QED
    BY <2>1, <2>3
    DEF IInv, TypeOK, AtStart, FollowsNote, FrequencyMatchesNote, Starts, BinsOf, Swept, Note
<1> QED  BY <1>1, <1>2, <1>3 DEF Next

\* The invariant holds after every turn of every call.
THEOREM Invariant == Spec => []IInv
<1>1. Init => IInv
  BY InitEstablishesIInv
<1>2. IInv /\ [Next]_vars => IInv'
  BY NextPreservesIInv
<1> QED  BY <1>1, <1>2, PTL DEF Spec

\* Every variable has its type: the loop stays in its range, and what it sums up
\* is a natural number, whatever the caller's variables and the stack held
\* (hpcp_prof.c:64-125).
THEOREM TypeCorrect == Spec => []TypeOK
<1>1. IInv => TypeOK
  BY DEF IInv
<1> QED  BY <1>1, Invariant, PTL

\* A call reports the strongest of the notes it compares, the lowest one among
\* equals; if all are zero the caller's variables are left alone
\* (hpcp_prof.c:82-125).
THEOREM StrongestIsReported == Spec => []ReportsStrongest
<1>1. ASSUME IInv
      PROVE  ReportsStrongest
  <2>1. SUFFICES ASSUME i = StopBin
                 PROVE  \/ Strongest(note)
                        \/ /\ <<note, freq_out>> = before
                           /\ \A n \in Compared : SumOf(n) = 0
    BY DEF ReportsStrongest
  <2>2. Completed(i) = Compared
    BY <2>1 DEF Completed, Compared, Swept
  <2>3. \/ /\ max_ps > 0 /\ note \in Compared /\ max_ps = SumOf(note)
           /\ \A m \in Compared :
                SumOf(m) < max_ps \/ (SumOf(m) = max_ps /\ m >= note)
        \/ /\ max_ps = 0 /\ <<note, freq_out>> = before
           /\ \A m \in Compared : SumOf(m) = 0
    BY <1>1, <2>2 DEF IInv, BestSoFar
  <2> QED  BY <2>3 DEF Strongest
<1> QED  BY <1>1, Invariant, PTL

\* The frequency reported is that of the first bin of the note reported, in this
\* call or an earlier one; only the range's first note may come without
\* (hpcp_prof.c:66-68, 88-106).
THEOREM FrequencyIsTheNotes == Spec => []FrequencyMatchesNote
<1>1. IInv => FrequencyMatchesNote
  BY DEF IInv
<1> QED  BY <1>1, Invariant, PTL
=============================================================================
