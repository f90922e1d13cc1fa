------------------------ MODULE ArtworksCollectionProofs ------------------------
(***************************************************************************)
(* For any files, folders and number of artworks: the counters of the      *)
(* directories are true, the view never loses its last source, and an undo *)
(* finds the artworks its command was about and brings those back.         *)
(*                                                                         *)
(* The operators of ArtworksCollection that are loops of the code are      *)
(* recursive functions of the number of rounds.  LoopExists shows once     *)
(* that such a function exists, and RunStays that what each round keeps is *)
(* kept by all of them; each loop then has one lemma that says what it     *)
(* makes of its start.                                                     *)
(***************************************************************************)
EXTENDS ArtworksCollection, FiniteSetTheorems, FunctionTheorems, SequenceTheorems,
        NaturalsInduction, WellFoundedInduction, TLAPS

-----------------------------------------------------------------------------
(* Loops *)

\* Every set of natural numbers that is not empty has a least element.
LEMMA LeastExists ==
    ASSUME NEW T \in SUBSET Nat, T # {}
    PROVE  \E x \in T : \A y \in T : x <= y
<1> DEFINE R == OpToRel(<, Nat)
<1>1. R = {ss \in Nat \X Nat : ss[1] < ss[2]}
  BY DEF OpToRel
<1>2. IsWellFoundedOn(R, Nat)
  BY NatLessThanWellFounded
<1> HIDE DEF R
<1>3. \E x \in T : \A y \in T : ~(<<y, x>> \in R)
  BY <1>2, WFMin, Zenon
<1>4. PICK x \in T : \A y \in T : ~(<<y, x>> \in R)
  BY <1>3
<1>5. ASSUME NEW y \in T, ~(x <= y) PROVE FALSE
  <2>1. <<y, x>> \in Nat \X Nat /\ y < x
    BY <1>5
  <2>2. <<y, x>> \in R
    BY <1>1, <2>1
  <2> QED
    BY <2>2, <1>4
<1> QED
  BY <1>4, <1>5

\* What every round keeps, all rounds keep.
LEMMA RunStays ==
    ASSUME NEW n \in Nat, NEW S, NEW m, m[0] \in S[0],
           \A i \in 1..n : m[i - 1] \in S[i - 1] => m[i] \in S[i]
    PROVE  \A i \in 0..n : m[i] \in S[i]
<1> DEFINE Bad == {i \in 0..n : m[i] \notin S[i]}
<1> SUFFICES ASSUME Bad # {} PROVE FALSE
  OBVIOUS
<1>1. PICK k \in Bad : \A j \in Bad : k <= j
  <2>1. Bad \in SUBSET Nat
    OBVIOUS
  <2> QED
    BY <2>1, LeastExists
<1>2. k # 0 /\ k \in 1..n /\ k - 1 \in 0..n
  BY <1>1
<1>3. k - 1 \notin Bad
  BY <1>1, <1>2
<1> QED
  BY <1>1, <1>2, <1>3

\* The rounds of a loop, as functions, stay within S; m is what they make of start.
StaysWithin(n, S, next) == \A i \in 1..n : \A x \in S[i - 1] : next[i][x] \in S[i]
IsRun(m, n, S, start, next) ==
    /\ m = [i \in 0..n |-> IF i = 0 THEN start ELSE next[i][m[i - 1]]]
    /\ \A i \in 0..n : m[i] \in S[i]

\* A loop whose rounds stay within S is a function.
LEMMA LoopExists ==
    ASSUME NEW n \in Nat, NEW S, NEW start \in S[0], NEW next, StaysWithin(n, S, next)
    PROVE  \E m : IsRun(m, n, S, start, next)
<1> DEFINE Fits(k) == \E m : IsRun(m, k, S, start, next)
           Bad == {k \in 0..n : ~Fits(k)}
<1> SUFFICES Bad = {}
  <2>1. Fits(n)
    OBVIOUS
  <2> QED
    BY <2>1
<1> SUFFICES ASSUME Bad # {} PROVE FALSE
  OBVIOUS
<1>1. PICK k \in Bad : \A j \in Bad : k <= j
  <2>1. Bad \in SUBSET Nat
    OBVIOUS
  <2> HIDE DEF Bad
  <2> QED
    BY <2>1, LeastExists
<1>2. k \in 0..n /\ ~Fits(k) /\ \A j \in 0..(k - 1) : Fits(j)
  <2> HIDE DEF Fits
  <2> QED
    BY <1>1
<1>3. Fits(0)
  <2> DEFINE m == [i \in 0..0 |-> start]
  <2>1. IsRun(m, 0, S, start, next)
    BY DEF IsRun
  <2> QED
    BY <2>1
<1>4. k \in 1..n /\ Fits(k - 1)
  <2> HIDE DEF Fits
  <2> QED
    BY <1>2, <1>3
<1>5. PICK m : IsRun(m, k - 1, S, start, next)
  BY <1>4
<1>6. /\ m = [i \in 0..(k - 1) |-> IF i = 0 THEN start ELSE next[i][m[i - 1]]]
      /\ \A i \in 0..(k - 1) : m[i] \in S[i]
  BY <1>5 DEF IsRun
<1> DEFINE longer == [i \in 0..k |-> IF i = k THEN next[k][m[k - 1]] ELSE m[i]]
<1>7. \A i \in 0..k : longer[i] \in S[i]
  BY <1>4, <1>6 DEF StaysWithin
<1>8. \A i \in 0..k : longer[i] = IF i = 0 THEN start ELSE next[i][longer[i - 1]]
  <2> SUFFICES ASSUME NEW i \in 0..k
               PROVE  longer[i] = IF i = 0 THEN start ELSE next[i][longer[i - 1]]
    OBVIOUS
  <2>1. CASE i = k
    BY <1>4, <2>1
  <2>2. CASE i # k
    <3>1. i \in 0..(k - 1) /\ (i # 0 => i - 1 \in 0..(k - 1))
      BY <1>4, <2>2
    <3>2. m[i] = IF i = 0 THEN start ELSE next[i][m[i - 1]]
      BY <1>6, <3>1
    <3> QED
      BY <1>4, <2>2, <3>1, <3>2
  <2> QED
    BY <2>1, <2>2
<1>9. IsRun(longer, k, S, start, next)
  BY <1>7, <1>8 DEF IsRun
<1> QED
  BY <1>2, <1>9

\* Unselecting the emptied directories (consolidateSelectionForEmpty).
LEMMA UnselectingEmptyRuns ==
    ASSUME NEW ds, Len(ds) \in Nat, NEW S, [dirs |-> ds, ids |-> {}] \in S[0],
           \A i \in 1..Len(ds) : \A x \in S[i - 1] :
              (UnselectEmpty(x, i)) \in S[i]
    PROVE  \A i \in 0..Len(ds) : UnselectingEmpty(ds)[i] \in S[i]
<1> DEFINE n == Len(ds)
           start == [dirs |-> ds, ids |-> {}]
           Round(i, x) == UnselectEmpty(x, i)
           next == [i \in 1..n |-> [x \in S[i - 1] |-> Round(i, x)]]
           Equation(f) == f = [i \in 0..n |-> IF i = 0 THEN start ELSE Round(i, f[i - 1])]
<1>0. n \in Nat
  OBVIOUS
<1>1. start \in S[0] /\ \A i \in 1..n : \A x \in S[i - 1] : Round(i, x) \in S[i]
  OBVIOUS
<1>2. UnselectingEmpty(ds) = CHOOSE f : Equation(f)
  BY Zenon DEF UnselectingEmpty
<1> HIDE DEF n, start, Round
<1>3. \A i \in 1..n : \A x \in S[i - 1] : next[i][x] = Round(i, x)
  OBVIOUS
<1>4. PICK m : IsRun(m, n, S, start, next)
  <2>1. StaysWithin(n, S, next)
    BY <1>1, <1>3 DEF StaysWithin
  <2>2. start \in S[0]
    BY <1>1
  <2> HIDE DEF next
  <2> QED
    BY <1>0, <2>1, <2>2, LoopExists
<1>5. Equation(m)
  <2>1. \A i \in 0..n : m[i] \in S[i]
    BY <1>4 DEF IsRun
  <2>2. \A i \in 1..n : next[i][m[i - 1]] = Round(i, m[i - 1])
    <3> SUFFICES ASSUME NEW i \in 1..n PROVE next[i][m[i - 1]] = Round(i, m[i - 1])
      OBVIOUS
    <3>1. m[i - 1] \in S[i - 1]
      BY <1>0, <2>1
    <3> QED
      BY <1>3, <3>1
  <2> HIDE DEF next
  <2>3. m = [i \in 0..n |-> IF i = 0 THEN start ELSE next[i][m[i - 1]]]
    BY <1>4 DEF IsRun
  <2>4. \A i \in 0..n : i # 0 => i \in 1..n
    BY <1>0
  <2> QED
    BY <2>2, <2>3, <2>4
<1> DEFINE loop == UnselectingEmpty(ds)
<1>6. Equation(loop)
  <2> HIDE DEF Equation
  <2> QED
    BY <1>2, <1>5
<1> HIDE DEF loop
<1>7. \A i \in 0..n : loop[i] \in S[i]
  <2>0. \A i \in 0..n : loop[i] = IF i = 0 THEN start ELSE Round(i, loop[i - 1])
    <3> HIDE DEF next
    <3> QED
      BY <1>6
  <2>1. loop[0] \in S[0]
    BY <1>0, <1>1, <2>0
  <2>2. \A i \in 1..n : loop[i - 1] \in S[i - 1] => loop[i] \in S[i]
    <3> SUFFICES ASSUME NEW i \in 1..n, loop[i - 1] \in S[i - 1] PROVE loop[i] \in S[i]
      OBVIOUS
    <3>1. loop[i] = Round(i, loop[i - 1])
      BY <1>0, <2>0
    <3> QED
      BY <1>1, <3>1
  <2> QED
    BY <1>0, <2>1, <2>2, RunStays
<1> QED
  BY <1>7 DEF n, loop

\* Taking the flagged artworks out of the repository (removeFiles).
LEMMA RemovingFlaggedRuns ==
    ASSUME NEW l, Len(l.list) \in Nat, NEW S, [lib |-> l, full |-> {}] \in S[0],
           \A i \in 1..Len(l.list) : \A x \in S[i - 1] :
              (IF l.list[i].removed THEN RemoveFile(x, l.list[i]) ELSE x) \in S[i]
    PROVE  \A i \in 0..Len(l.list) : RemovingFlagged(l)[i] \in S[i]
<1> DEFINE n == Len(l.list)
           start == [lib |-> l, full |-> {}]
           Round(i, x) == IF l.list[i].removed THEN RemoveFile(x, l.list[i]) ELSE x
           next == [i \in 1..n |-> [x \in S[i - 1] |-> Round(i, x)]]
           Equation(f) == f = [i \in 0..n |-> IF i = 0 THEN start ELSE Round(i, f[i - 1])]
<1>0. n \in Nat
  OBVIOUS
<1>1. start \in S[0] /\ \A i \in 1..n : \A x \in S[i - 1] : Round(i, x) \in S[i]
  OBVIOUS
<1>2. RemovingFlagged(l) = CHOOSE f : Equation(f)
  BY Zenon DEF RemovingFlagged
<1> HIDE DEF n, start, Round
<1>3. \A i \in 1..n : \A x \in S[i - 1] : next[i][x] = Round(i, x)
  OBVIOUS
<1>4. PICK m : IsRun(m, n, S, start, next)
  <2>1. StaysWithin(n, S, next)
    BY <1>1, <1>3 DEF StaysWithin
  <2>2. start \in S[0]
    BY <1>1
  <2> HIDE DEF next
  <2> QED
    BY <1>0, <2>1, <2>2, LoopExists
<1>5. Equation(m)
  <2>1. \A i \in 0..n : m[i] \in S[i]
    BY <1>4 DEF IsRun
  <2>2. \A i \in 1..n : next[i][m[i - 1]] = Round(i, m[i - 1])
    <3> SUFFICES ASSUME NEW i \in 1..n PROVE next[i][m[i - 1]] = Round(i, m[i - 1])
      OBVIOUS
    <3>1. m[i - 1] \in S[i - 1]
      BY <1>0, <2>1
    <3> QED
      BY <1>3, <3>1
  <2> HIDE DEF next
  <2>3. m = [i \in 0..n |-> IF i = 0 THEN start ELSE next[i][m[i - 1]]]
    BY <1>4 DEF IsRun
  <2>4. \A i \in 0..n : i # 0 => i \in 1..n
    BY <1>0
  <2> QED
    BY <2>2, <2>3, <2>4
<1> DEFINE loop == RemovingFlagged(l)
<1>6. Equation(loop)
  <2> HIDE DEF Equation
  <2> QED
    BY <1>2, <1>5
<1> HIDE DEF loop
<1>7. \A i \in 0..n : loop[i] \in S[i]
  <2>0. \A i \in 0..n : loop[i] = IF i = 0 THEN start ELSE Round(i, loop[i - 1])
    <3> HIDE DEF next
    <3> QED
      BY <1>6
  <2>1. loop[0] \in S[0]
    BY <1>0, <1>1, <2>0
  <2>2. \A i \in 1..n : loop[i - 1] \in S[i - 1] => loop[i] \in S[i]
    <3> SUFFICES ASSUME NEW i \in 1..n, loop[i - 1] \in S[i - 1] PROVE loop[i] \in S[i]
      OBVIOUS
    <3>1. loop[i] = Round(i, loop[i - 1])
      BY <1>0, <2>0
    <3> QED
      BY <1>1, <3>1
  <2> QED
    BY <1>0, <2>1, <2>2, RunStays
<1> QED
  BY <1>7 DEF n, loop

\* Dropping the empty directories (cleanupEmptyDirectories).
LEMMA CleaningRuns ==
    ASSUME NEW ds, Len(ds) \in Nat, NEW S, ds \in S[0],
           \A i \in 1..Len(ds) : \A x \in S[i - 1] :
              (IF ds[Len(ds) + 1 - i].count > 0 THEN x ELSE RemoveRow(x, Len(ds) + 1 - i)) \in S[i]
    PROVE  \A i \in 0..Len(ds) : Cleaning(ds)[i] \in S[i]
<1> DEFINE n == Len(ds)
           start == ds
           Round(i, x) == IF ds[Len(ds) + 1 - i].count > 0 THEN x ELSE RemoveRow(x, Len(ds) + 1 - i)
           next == [i \in 1..n |-> [x \in S[i - 1] |-> Round(i, x)]]
           Equation(f) == f = [i \in 0..n |-> IF i = 0 THEN start ELSE Round(i, f[i - 1])]
<1>0. n \in Nat
  OBVIOUS
<1>1. start \in S[0] /\ \A i \in 1..n : \A x \in S[i - 1] : Round(i, x) \in S[i]
  OBVIOUS
<1>2. Cleaning(ds) = CHOOSE f : Equation(f)
  BY Zenon DEF Cleaning
<1> HIDE DEF n, start, Round
<1>3. \A i \in 1..n : \A x \in S[i - 1] : next[i][x] = Round(i, x)
  OBVIOUS
<1>4. PICK m : IsRun(m, n, S, start, next)
  <2>1. StaysWithin(n, S, next)
    BY <1>1, <1>3 DEF StaysWithin
  <2>2. start \in S[0]
    BY <1>1
  <2> HIDE DEF next
  <2> QED
    BY <1>0, <2>1, <2>2, LoopExists
<1>5. Equation(m)
  <2>1. \A i \in 0..n : m[i] \in S[i]
    BY <1>4 DEF IsRun
  <2>2. \A i \in 1..n : next[i][m[i - 1]] = Round(i, m[i - 1])
    <3> SUFFICES ASSUME NEW i \in 1..n PROVE next[i][m[i - 1]] = Round(i, m[i - 1])
      OBVIOUS
    <3>1. m[i - 1] \in S[i - 1]
      BY <1>0, <2>1
    <3> QED
      BY <1>3, <3>1
  <2> HIDE DEF next
  <2>3. m = [i \in 0..n |-> IF i = 0 THEN start ELSE next[i][m[i - 1]]]
    BY <1>4 DEF IsRun
  <2>4. \A i \in 0..n : i # 0 => i \in 1..n
    BY <1>0
  <2> QED
    BY <2>2, <2>3, <2>4
<1> DEFINE loop == Cleaning(ds)
<1>6. Equation(loop)
  <2> HIDE DEF Equation
  <2> QED
    BY <1>2, <1>5
<1> HIDE DEF loop
<1>7. \A i \in 0..n : loop[i] \in S[i]
  <2>0. \A i \in 0..n : loop[i] = IF i = 0 THEN start ELSE Round(i, loop[i - 1])
    <3> HIDE DEF next
    <3> QED
      BY <1>6
  <2>1. loop[0] \in S[0]
    BY <1>0, <1>1, <2>0
  <2>2. \A i \in 1..n : loop[i - 1] \in S[i - 1] => loop[i] \in S[i]
    <3> SUFFICES ASSUME NEW i \in 1..n, loop[i - 1] \in S[i - 1] PROVE loop[i] \in S[i]
      OBVIOUS
    <3>1. loop[i] = Round(i, loop[i - 1])
      BY <1>0, <2>0
    <3> QED
      BY <1>1, <3>1
  <2> QED
    BY <1>0, <2>1, <2>2, RunStays
<1> QED
  BY <1>7 DEF n, loop

\* Appending files (addFiles).
LEMMA AddingRuns ==
    ASSUME NEW l, NEW files, Cardinality(files) \in Nat, NEW S, l \in S[0],
           \A i \in 1..Cardinality(files) : \A x \in S[i - 1] :
              (AddFile(x, SetToSeq(files)[i])) \in S[i]
    PROVE  \A i \in 0..Cardinality(files) : Adding(l, files)[i] \in S[i]
<1> DEFINE n == Cardinality(files)
           start == l
           Round(i, x) == AddFile(x, SetToSeq(files)[i])
           next == [i \in 1..n |-> [x \in S[i - 1] |-> Round(i, x)]]
           Equation(f) == f = [i \in 0..n |-> IF i = 0 THEN start ELSE Round(i, f[i - 1])]
<1>0. n \in Nat
  OBVIOUS
<1>1. start \in S[0] /\ \A i \in 1..n : \A x \in S[i - 1] : Round(i, x) \in S[i]
  OBVIOUS
<1>2. Adding(l, files) = CHOOSE f : Equation(f)
  BY Zenon DEF Adding
<1> HIDE DEF n, start, Round
<1>3. \A i \in 1..n : \A x \in S[i - 1] : next[i][x] = Round(i, x)
  OBVIOUS
<1>4. PICK m : IsRun(m, n, S, start, next)
  <2>1. StaysWithin(n, S, next)
    BY <1>1, <1>3 DEF StaysWithin
  <2>2. start \in S[0]
    BY <1>1
  <2> HIDE DEF next
  <2> QED
    BY <1>0, <2>1, <2>2, LoopExists
<1>5. Equation(m)
  <2>1. \A i \in 0..n : m[i] \in S[i]
    BY <1>4 DEF IsRun
  <2>2. \A i \in 1..n : next[i][m[i - 1]] = Round(i, m[i - 1])
    <3> SUFFICES ASSUME NEW i \in 1..n PROVE next[i][m[i - 1]] = Round(i, m[i - 1])
      OBVIOUS
    <3>1. m[i - 1] \in S[i - 1]
      BY <1>0, <2>1
    <3> QED
      BY <1>3, <3>1
  <2> HIDE DEF next
  <2>3. m = [i \in 0..n |-> IF i = 0 THEN start ELSE next[i][m[i - 1]]]
    BY <1>4 DEF IsRun
  <2>4. \A i \in 0..n : i # 0 => i \in 1..n
    BY <1>0
  <2> QED
    BY <2>2, <2>3, <2>4
<1> DEFINE loop == Adding(l, files)
<1>6. Equation(loop)
  <2> HIDE DEF Equation
  <2> QED
    BY <1>2, <1>5
<1> HIDE DEF loop
<1>7. \A i \in 0..n : loop[i] \in S[i]
  <2>0. \A i \in 0..n : loop[i] = IF i = 0 THEN start ELSE Round(i, loop[i - 1])
    <3> HIDE DEF next
    <3> QED
      BY <1>6
  <2>1. loop[0] \in S[0]
    BY <1>0, <1>1, <2>0
  <2>2. \A i \in 1..n : loop[i - 1] \in S[i - 1] => loop[i] \in S[i]
    <3> SUFFICES ASSUME NEW i \in 1..n, loop[i - 1] \in S[i - 1] PROVE loop[i] \in S[i]
      OBVIOUS
    <3>1. loop[i] = Round(i, loop[i - 1])
      BY <1>0, <2>0
    <3> QED
      BY <1>1, <3>1
  <2> QED
    BY <1>0, <2>1, <2>2, RunStays
<1> QED
  BY <1>7 DEF n, loop

\* Accounting the flagged artworks again (restoreRemoved).
LEMMA RestoringRuns ==
    ASSUME NEW l, NEW indices, Len(l.list) \in Nat, NEW S, l \in S[0],
           \A i \in 1..Len(l.list) : \A x \in S[i - 1] :
              (IF i \in Restorable(l, indices) THEN RestoreArtwork(x, i) ELSE x) \in S[i]
    PROVE  \A i \in 0..Len(l.list) : Restoring(l, indices)[i] \in S[i]
<1> DEFINE n == Len(l.list)
           start == l
           Round(i, x) == IF i \in Restorable(l, indices) THEN RestoreArtwork(x, i) ELSE x
           next == [i \in 1..n |-> [x \in S[i - 1] |-> Round(i, x)]]
           Equation(f) == f = [i \in 0..n |-> IF i = 0 THEN start ELSE Round(i, f[i - 1])]
<1>0. n \in Nat
  OBVIOUS
<1>1. start \in S[0] /\ \A i \in 1..n : \A x \in S[i - 1] : Round(i, x) \in S[i]
  OBVIOUS
<1>2. Restoring(l, indices) = CHOOSE f : Equation(f)
  BY Zenon DEF Restoring
<1> HIDE DEF n, start, Round
<1>3. \A i \in 1..n : \A x \in S[i - 1] : next[i][x] = Round(i, x)
  OBVIOUS
<1>4. PICK m : IsRun(m, n, S, start, next)
  <2>1. StaysWithin(n, S, next)
    BY <1>1, <1>3 DEF StaysWithin
  <2>2. start \in S[0]
    BY <1>1
  <2> HIDE DEF next
  <2> QED
    BY <1>0, <2>1, <2>2, LoopExists
<1>5. Equation(m)
  <2>1. \A i \in 0..n : m[i] \in S[i]
    BY <1>4 DEF IsRun
  <2>2. \A i \in 1..n : next[i][m[i - 1]] = Round(i, m[i - 1])
    <3> SUFFICES ASSUME NEW i \in 1..n PROVE next[i][m[i - 1]] = Round(i, m[i - 1])
      OBVIOUS
    <3>1. m[i - 1] \in S[i - 1]
      BY <1>0, <2>1
    <3> QED
      BY <1>3, <3>1
  <2> HIDE DEF next
  <2>3. m = [i \in 0..n |-> IF i = 0 THEN start ELSE next[i][m[i - 1]]]
    BY <1>4 DEF IsRun
  <2>4. \A i \in 0..n : i # 0 => i \in 1..n
    BY <1>0
  <2> QED
    BY <2>2, <2>3, <2>4
<1> DEFINE loop == Restoring(l, indices)
<1>6. Equation(loop)
  <2> HIDE DEF Equation
  <2> QED
    BY <1>2, <1>5
<1> HIDE DEF loop
<1>7. \A i \in 0..n : loop[i] \in S[i]
  <2>0. \A i \in 0..n : loop[i] = IF i = 0 THEN start ELSE Round(i, loop[i - 1])
    <3> HIDE DEF next
    <3> QED
      BY <1>6
  <2>1. loop[0] \in S[0]
    BY <1>0, <1>1, <2>0
  <2>2. \A i \in 1..n : loop[i - 1] \in S[i - 1] => loop[i] \in S[i]
    <3> SUFFICES ASSUME NEW i \in 1..n, loop[i - 1] \in S[i - 1] PROVE loop[i] \in S[i]
      OBVIOUS
    <3>1. loop[i] = Round(i, loop[i - 1])
      BY <1>0, <2>0
    <3> QED
      BY <1>1, <3>1
  <2> QED
    BY <1>0, <2>1, <2>2, RunStays
<1> QED
  BY <1>7 DEF n, loop

\* Deleting items of the list (deleteItems).
LEMMA KeepingRuns ==
    ASSUME NEW list, NEW indices, Len(list) \in Nat, NEW S, <<>> \in S[0],
           \A i \in 1..Len(list) : \A x \in S[i - 1] :
              (IF i \in indices THEN x ELSE Append(x, list[i])) \in S[i]
    PROVE  \A i \in 0..Len(list) : Keeping(list, indices)[i] \in S[i]
<1> DEFINE n == Len(list)
           start == <<>>
           Round(i, x) == IF i \in indices THEN x ELSE Append(x, list[i])
           next == [i \in 1..n |-> [x \in S[i - 1] |-> Round(i, x)]]
           Equation(f) == f = [i \in 0..n |-> IF i = 0 THEN start ELSE Round(i, f[i - 1])]
<1>0. n \in Nat
  OBVIOUS
<1>1. start \in S[0] /\ \A i \in 1..n : \A x \in S[i - 1] : Round(i, x) \in S[i]
  OBVIOUS
<1>2. Keeping(list, indices) = CHOOSE f : Equation(f)
  BY Zenon DEF Keeping
<1> HIDE DEF n, start, Round
<1>3. \A i \in 1..n : \A x \in S[i - 1] : next[i][x] = Round(i, x)
  OBVIOUS
<1>4. PICK m : IsRun(m, n, S, start, next)
  <2>1. StaysWithin(n, S, next)
    BY <1>1, <1>3 DEF StaysWithin
  <2>2. start \in S[0]
    BY <1>1
  <2> HIDE DEF next
  <2> QED
    BY <1>0, <2>1, <2>2, LoopExists
<1>5. Equation(m)
  <2>1. \A i \in 0..n : m[i] \in S[i]
    BY <1>4 DEF IsRun
  <2>2. \A i \in 1..n : next[i][m[i - 1]] = Round(i, m[i - 1])
    <3> SUFFICES ASSUME NEW i \in 1..n PROVE next[i][m[i - 1]] = Round(i, m[i - 1])
      OBVIOUS
    <3>1. m[i - 1] \in S[i - 1]
      BY <1>0, <2>1
    <3> QED
      BY <1>3, <3>1
  <2> HIDE DEF next
  <2>3. m = [i \in 0..n |-> IF i = 0 THEN start ELSE next[i][m[i - 1]]]
    BY <1>4 DEF IsRun
  <2>4. \A i \in 0..n : i # 0 => i \in 1..n
    BY <1>0
  <2> QED
    BY <2>2, <2>3, <2>4
<1> DEFINE loop == Keeping(list, indices)
<1>6. Equation(loop)
  <2> HIDE DEF Equation
  <2> QED
    BY <1>2, <1>5
<1> HIDE DEF loop
<1>7. \A i \in 0..n : loop[i] \in S[i]
  <2>0. \A i \in 0..n : loop[i] = IF i = 0 THEN start ELSE Round(i, loop[i - 1])
    <3> HIDE DEF next
    <3> QED
      BY <1>6
  <2>1. loop[0] \in S[0]
    BY <1>0, <1>1, <2>0
  <2>2. \A i \in 1..n : loop[i - 1] \in S[i - 1] => loop[i] \in S[i]
    <3> SUFFICES ASSUME NEW i \in 1..n, loop[i - 1] \in S[i - 1] PROVE loop[i] \in S[i]
      OBVIOUS
    <3>1. loop[i] = Round(i, loop[i - 1])
      BY <1>0, <2>0
    <3> QED
      BY <1>1, <3>1
  <2> QED
    BY <1>0, <2>1, <2>2, RunStays
<1> QED
  BY <1>7 DEF n, loop

-----------------------------------------------------------------------------
(* What holds of the list and the repository between two commands *)

\* The types, without the bounds of TypeOK.
ArtworkT == [id : Nat, file : Files, dir : Nat, removed : BOOLEAN, unavailable : BOOLEAN]
DirectoryT == [id : Nat, path : Paths, count : Nat,
               selected : BOOLEAN, removed : BOOLEAN, full : BOOLEAN]
Library == [list : Seq(ArtworkT), dirs : Seq(DirectoryT),
            filesSet : SUBSET Files, watched : SUBSET Files,
            ids : Nat, dirIDs : Nat, broken : SUBSET {"removeFile", "restoreRemoved"}]

\* Directory entries have their own path and identifier,
RowsAreOwn(ds, dirIDs) ==
    \A i \in 1..Len(ds) :
        /\ ds[i].id < dirIDs
        /\ \A j \in 1..Len(ds) : ds[i].path = ds[j].path \/ ds[i].id = ds[j].id => i = j
\* and count the accounted files below them.
FilesIn(files, path) == {f \in files : DirOf[f] = path}
RowsCount(ds, files) ==
    \A i \in 1..Len(ds) : /\ ds[i].count = Cardinality(FilesIn(files, ds[i].path))
                          /\ ds[i].removed <=> ds[i].count = 0
RowsCover(ds, files) == \A f \in files : \E i \in 1..Len(ds) : ds[i].path = DirOf[f]

\* Artworks have their own identifier; the directory an artwork was created with,
\* while it exists, is that of its file.
ArtworksAreOwn(list, ids) ==
    \A i \in 1..Len(list) :
        /\ list[i].id < ids
        /\ \A j \in 1..Len(list) : list[i].id = list[j].id => i = j
HasDirectory(artwork, ds) == \E j \in 1..Len(ds) : ds[j].id = artwork.dir
ArtworksAreAt(list, ds, dirIDs) ==
    \A i \in 1..Len(list) :
        /\ list[i].dir < dirIDs
        /\ \A j \in 1..Len(ds) : ds[j].id = list[i].dir => ds[j].path = DirOf[list[i].file]

RepositoryInv(l) ==
    /\ RowsAreOwn(l.dirs, l.dirIDs)
    /\ RowsCount(l.dirs, l.filesSet)
    /\ RowsCover(l.dirs, l.filesSet)
    /\ ArtworksAreOwn(l.list, l.ids)
    /\ ArtworksAreAt(l.list, l.dirs, l.dirIDs)

\* One directory is selected while there are any.
SomeSelected(ds) == \E i \in 1..Len(ds) : ds[i].selected
SelectionInv(l) == Len(l.dirs) # 0 => SomeSelected(l.dirs)

\* A flagged artwork whose file is accounted all the same shares it with another:
\* its own removal has taken the file out, unless its directory was gone.
StaleInv(l) ==
    \A i \in 1..Len(l.list) :
        l.list[i].removed /\ HasDirectory(l.list[i], l.dirs) /\ l.list[i].file \in l.filesSet =>
            \E j \in 1..Len(l.list) : j # i /\ l.list[j].file = l.list[i].file

\* What is recorded is a command whose indices still mean its artworks, and the
\* selection it restores, when it unselects all, is not empty.
Command == [kind : {"add", "edit", "remove", "removeDirectory"},
            indices : SUBSET Nat, ids : SUBSET Nat,
            unselectAll : BOOLEAN, selected : SUBSET Nat, refill : SUBSET Paths]
Means(command, l) ==
    /\ command.indices \subseteq 1..Len(l.list)
    /\ IDs(l, command.indices) = command.ids
Reselects(command, l) ==
    command.unselectAll => \E i \in 1..Len(l.dirs) : l.dirs[i].id \in command.selected
HistoryInv ==
    history # <<>> => /\ history = <<history[1]>> /\ history[1] \in Command
                      /\ Means(history[1], lib) /\ Reselects(history[1], lib)

IInv ==
    /\ disk \in SUBSET Files /\ lost \in SUBSET Files /\ lastLost \in 0..Cardinality(Files)
    /\ lib \in Library /\ WithinBounds(lib)
    /\ RepositoryInv(lib) /\ SelectionInv(lib) /\ StaleInv(lib)
    /\ HistoryInv

-----------------------------------------------------------------------------
(* Rows of directories *)

\* The same entries, whatever they count and whether they are selected.
KeptRows(ds, es) ==
    /\ Len(ds) = Len(es)
    /\ \A i \in 1..Len(ds) : ds[i].id = es[i].id /\ ds[i].path = es[i].path
SameRows(ds, es) ==
    /\ KeptRows(ds, es)
    /\ \A i \in 1..Len(ds) : ds[i].count = es[i].count /\ (ds[i].removed <=> es[i].removed)

LEMMA RowTypes ==
    ASSUME NEW ds \in Seq(DirectoryT)
    PROVE  /\ Len(ds) \in Nat /\ DOMAIN ds = 1..Len(ds)
           /\ \A i \in 1..Len(ds) : /\ ds[i] \in DirectoryT
                                    /\ ds[i].id \in Nat /\ ds[i].path \in Paths /\ ds[i].count \in Nat
                                    /\ ds[i].selected \in BOOLEAN /\ ds[i].removed \in BOOLEAN
                                    /\ ds[i].full \in BOOLEAN
<1>1. \A i \in 1..Len(ds) : ds[i] \in DirectoryT
  OBVIOUS
<1>2. \A d \in DirectoryT : /\ d.id \in Nat /\ d.path \in Paths /\ d.count \in Nat
                            /\ d.selected \in BOOLEAN /\ d.removed \in BOOLEAN /\ d.full \in BOOLEAN
  BY DEF DirectoryT
<1> QED
  BY <1>1, <1>2

\* A sequence of rows given row by row.
LEMMA RowsOf ==
    ASSUME NEW n \in Nat, NEW f, \A i \in 1..n : f[i] \in DirectoryT, NEW ds, ds = [i \in 1..n |-> f[i]]
    PROVE  ds \in Seq(DirectoryT) /\ Len(ds) = n /\ \A i \in 1..n : ds[i] = f[i]
OBVIOUS

LEMMA SelectRow ==
    ASSUME NEW d \in DirectoryT, NEW value \in BOOLEAN
    PROVE  /\ [d EXCEPT !.selected = value] \in DirectoryT
           /\ [d EXCEPT !.selected = value].id = d.id
           /\ [d EXCEPT !.selected = value].path = d.path
           /\ [d EXCEPT !.selected = value].count = d.count
           /\ [d EXCEPT !.selected = value].removed <=> d.removed
           /\ [d EXCEPT !.selected = value].selected <=> value
BY DEF DirectoryT

LEMMA FillRow ==
    ASSUME NEW d \in DirectoryT, NEW value \in BOOLEAN
    PROVE  /\ [d EXCEPT !.full = value] \in DirectoryT
           /\ [d EXCEPT !.full = value].id = d.id
           /\ [d EXCEPT !.full = value].path = d.path
           /\ [d EXCEPT !.full = value].count = d.count
           /\ [d EXCEPT !.full = value].removed <=> d.removed
           /\ [d EXCEPT !.full = value].selected <=> d.selected
BY DEF DirectoryT

LEMMA SameRowsCompose ==
    ASSUME NEW ds \in Seq(DirectoryT), NEW es \in Seq(DirectoryT), NEW fs \in Seq(DirectoryT),
           SameRows(ds, es), SameRows(es, fs)
    PROVE  SameRows(ds, fs)
BY DEF SameRows, KeptRows

\* What SelectedDirs says of rows.
LEMMA SelectedRows ==
    ASSUME NEW ds \in Seq(DirectoryT)
    PROVE  /\ SelectedDirs(ds) # {} <=> SomeSelected(ds)
           /\ AllAreSelected(ds) <=> \A i \in 1..Len(ds) : ds[i].selected
BY RowTypes DEF SelectedDirs, SomeSelected, AllAreSelected

LEMMA SelectAllRows ==
    ASSUME NEW ds \in Seq(DirectoryT), NEW value \in BOOLEAN
    PROVE  /\ SelectAll(ds, value) \in Seq(DirectoryT) /\ SameRows(ds, SelectAll(ds, value))
           /\ \A i \in 1..Len(ds) : SelectAll(ds, value)[i].selected <=> value
<1> DEFINE f == [i \in 1..Len(ds) |-> [ds[i] EXCEPT !.selected = value]]
           es == SelectAll(ds, value)
<1>1. Len(ds) \in Nat /\ DOMAIN ds = 1..Len(ds) /\ \A i \in 1..Len(ds) : ds[i] \in DirectoryT
  BY RowTypes
<1>2. \A i \in 1..Len(ds) : /\ f[i] \in DirectoryT /\ f[i].id = ds[i].id /\ f[i].path = ds[i].path
                            /\ f[i].count = ds[i].count /\ (f[i].removed <=> ds[i].removed)
                            /\ (f[i].selected <=> value)
  BY <1>1, SelectRow
<1>3. es = [i \in 1..Len(ds) |-> f[i]]
  BY <1>1 DEF SelectAll
<1> HIDE DEF f, es
<1>4. es \in Seq(DirectoryT) /\ Len(es) = Len(ds) /\ \A i \in 1..Len(ds) : es[i] = f[i]
  BY <1>1, <1>2, <1>3, RowsOf
<1>5. SameRows(ds, es) /\ \A i \in 1..Len(ds) : es[i].selected <=> value
  BY <1>2, <1>4 DEF SameRows, KeptRows
<1> QED
  BY <1>4, <1>5 DEF es

LEMMA SelectOneRow ==
    ASSUME NEW ds \in Seq(DirectoryT), NEW row \in 1..Len(ds), NEW value \in BOOLEAN,
           NEW es, es = [ds EXCEPT ![row].selected = value]
    PROVE  /\ es \in Seq(DirectoryT) /\ SameRows(ds, es)
           /\ \A i \in 1..Len(ds) : es[i].selected <=> IF i = row THEN value ELSE ds[i].selected
<1> DEFINE f == [i \in 1..Len(ds) |-> IF i = row THEN [ds[i] EXCEPT !.selected = value] ELSE ds[i]]
<1>1. Len(ds) \in Nat /\ DOMAIN ds = 1..Len(ds) /\ \A i \in 1..Len(ds) : ds[i] \in DirectoryT
  BY RowTypes
<1>2. \A i \in 1..Len(ds) : /\ f[i] \in DirectoryT /\ f[i].id = ds[i].id /\ f[i].path = ds[i].path
                            /\ f[i].count = ds[i].count /\ (f[i].removed <=> ds[i].removed)
                            /\ (f[i].selected <=> IF i = row THEN value ELSE ds[i].selected)
  BY <1>1, SelectRow
<1>3. es = [i \in 1..Len(ds) |-> f[i]]
  BY <1>1
<1> HIDE DEF f
<1>4. es \in Seq(DirectoryT) /\ Len(es) = Len(ds) /\ \A i \in 1..Len(ds) : es[i] = f[i]
  BY <1>1, <1>2, <1>3, RowsOf
<1> QED
  BY <1>2, <1>4 DEF SameRows, KeptRows

\* A click or a removal leaves a directory selected; unselecting a row leaves one
\* selected beside it, unless all were.
LEMMA ChangeSelectedRows ==
    ASSUME NEW ds \in Seq(DirectoryT), NEW row \in 1..Len(ds), NEW value \in BOOLEAN,
           NEW es, es = ChangeSelected(ds, row, value)
    PROVE  /\ es \in Seq(DirectoryT) /\ SameRows(ds, es)
           /\ SomeSelected(ds) => SomeSelected(es)
           /\ (ds[row].selected <=> value) => es = ds
           /\ SomeSelected(ds) /\ ~AllAreSelected(ds) /\ ~value =>
                \E i \in 1..Len(ds) : i # row /\ es[i].selected
<1>1. Len(ds) \in Nat /\ DOMAIN ds = 1..Len(ds) /\ ds[row].selected \in BOOLEAN
  BY RowTypes
<1> DEFINE wasAll == AllAreSelected(ds)
           wasOnly == SelectedDirs(ds) = {row}
           changed == IF Len(ds) = 1 \/ (~wasAll /\ wasOnly) THEN SelectAll(ds, TRUE)
                      ELSE IF wasAll THEN [SelectAll(ds, FALSE) EXCEPT ![row].selected = TRUE]
                      ELSE [ds EXCEPT ![row].selected = value]
<1>2. es = IF ds[row].selected = value THEN ds ELSE changed
  BY Zenon DEF ChangeSelected
<1>3. wasAll <=> \A i \in 1..Len(ds) : ds[i].selected
  BY SelectedRows
<1>4. wasOnly <=> \A i \in 1..Len(ds) : ds[i].selected <=> i = row
  BY <1>1, RowTypes DEF SelectedDirs
<1> HIDE DEF wasAll, wasOnly
<1>5. CASE ds[row].selected <=> value
  <2>1. ds[row].selected = value
    BY <1>1, <1>5
  <2>2. es = ds
    BY <1>2, <2>1
  <2>3. SomeSelected(ds) /\ ~wasAll /\ ~value => \E i \in 1..Len(ds) : i # row /\ es[i].selected
    BY <1>5, <2>2 DEF SomeSelected
  <2> QED
    BY <2>2, <2>3 DEF SameRows, KeptRows, wasAll
<1>6. CASE ~(ds[row].selected <=> value)
  <2>1. es = changed
    BY <1>2, <1>6
  <2>2. CASE Len(ds) = 1 \/ (~wasAll /\ wasOnly)
    <3>1. es = SelectAll(ds, TRUE)
      BY <2>1, <2>2
    <3>2. /\ es \in Seq(DirectoryT) /\ SameRows(ds, es) /\ Len(es) = Len(ds)
          /\ \A i \in 1..Len(ds) : es[i].selected
      <4>1. \A i \in 1..Len(ds) : SelectAll(ds, TRUE)[i].selected
        BY SelectAllRows, Zenon
      <4>2. es \in Seq(DirectoryT) /\ SameRows(ds, es)
        BY <3>1, SelectAllRows
      <4> QED
        BY <3>1, <4>1, <4>2 DEF SameRows, KeptRows
    <3>3. SomeSelected(es)
      BY <3>2 DEF SomeSelected
    <3>4. SomeSelected(ds) /\ ~wasAll => \E i \in 1..Len(ds) : i # row
      BY <1>1, <1>3, <2>2 DEF SomeSelected
    <3> QED
      BY <1>6, <3>2, <3>3, <3>4 DEF wasAll
  <2>3. CASE ~(Len(ds) = 1 \/ (~wasAll /\ wasOnly)) /\ wasAll
    <3> DEFINE none == SelectAll(ds, FALSE)
    <3>1. none \in Seq(DirectoryT) /\ SameRows(ds, none) /\ Len(none) = Len(ds)
      BY SelectAllRows DEF SameRows, KeptRows
    <3>2. es = [none EXCEPT ![row].selected = TRUE]
      BY <2>1, <2>3
    <3> HIDE DEF none
    <3>3. es \in Seq(DirectoryT) /\ SameRows(none, es) /\ es[row].selected
      BY <3>1, <3>2, SelectOneRow
    <3>4. SameRows(ds, es) /\ SomeSelected(es)
      BY <3>1, <3>3, SameRowsCompose DEF SomeSelected, SameRows, KeptRows
    <3> QED
      BY <1>6, <2>3, <3>3, <3>4 DEF wasAll
  <2>4. CASE ~(Len(ds) = 1 \/ (~wasAll /\ wasOnly)) /\ ~wasAll
    <3>1. es = [ds EXCEPT ![row].selected = value]
      BY <2>1, <2>4
    <3>2. /\ es \in Seq(DirectoryT) /\ SameRows(ds, es) /\ Len(es) = Len(ds)
          /\ \A i \in 1..Len(ds) : es[i].selected <=> IF i = row THEN value ELSE ds[i].selected
      BY <3>1, SelectOneRow DEF SameRows, KeptRows
    <3>3. SomeSelected(ds) => \E i \in 1..Len(ds) : es[i].selected /\ (~value => i # row)
      <4>1. CASE value
        BY <3>2, <4>1
      <4>2. CASE ~value
        <5>1. ds[row].selected
          BY <1>6, <4>2
        <5>2. PICK i \in 1..Len(ds) : ~(ds[i].selected <=> i = row)
          BY <1>4, <2>4
        <5> QED
          BY <3>2, <4>2, <5>1, <5>2
      <4> QED
        BY <4>1, <4>2
    <3> QED
      BY <1>6, <2>4, <3>2, <3>3 DEF wasAll, SomeSelected
  <2> QED
    BY <2>2, <2>3, <2>4
<1> QED
  BY <1>5, <1>6

LEMMA RestoreSelectionRows ==
    ASSUME NEW ds \in Seq(DirectoryT), NEW ids, NEW es, es = RestoreSelection(ds, ids)
    PROVE  /\ es \in Seq(DirectoryT) /\ SameRows(ds, es)
           /\ \A i \in 1..Len(ds) : es[i].selected <=> ds[i].selected \/ ds[i].id \in ids
<1> DEFINE f == [i \in 1..Len(ds) |-> [ds[i] EXCEPT !.selected = ds[i].selected \/ ds[i].id \in ids]]
<1>1. Len(ds) \in Nat /\ DOMAIN ds = 1..Len(ds) /\ \A i \in 1..Len(ds) : ds[i] \in DirectoryT
  BY RowTypes
<1>2. \A i \in 1..Len(ds) : /\ f[i] \in DirectoryT /\ f[i].id = ds[i].id /\ f[i].path = ds[i].path
                            /\ f[i].count = ds[i].count /\ (f[i].removed <=> ds[i].removed)
                            /\ (f[i].selected <=> ds[i].selected \/ ds[i].id \in ids)
  <2> SUFFICES ASSUME NEW i \in 1..Len(ds)
               PROVE  /\ f[i] \in DirectoryT /\ f[i].id = ds[i].id /\ f[i].path = ds[i].path
                      /\ f[i].count = ds[i].count /\ (f[i].removed <=> ds[i].removed)
                      /\ (f[i].selected <=> ds[i].selected \/ ds[i].id \in ids)
    OBVIOUS
  <2> DEFINE value == ds[i].selected \/ ds[i].id \in ids
  <2>1. value \in BOOLEAN /\ f[i] = [ds[i] EXCEPT !.selected = value]
    OBVIOUS
  <2> HIDE DEF value, f
  <2>2. /\ f[i] \in DirectoryT /\ f[i].id = ds[i].id /\ f[i].path = ds[i].path
        /\ f[i].count = ds[i].count /\ (f[i].removed <=> ds[i].removed)
        /\ (f[i].selected <=> value)
    BY <1>1, <2>1, SelectRow
  <2> QED
    BY <2>2 DEF value
<1>3. es = [i \in 1..Len(ds) |-> f[i]]
  BY <1>1 DEF RestoreSelection
<1> HIDE DEF f
<1>4. es \in Seq(DirectoryT) /\ Len(es) = Len(ds) /\ \A i \in 1..Len(ds) : es[i] = f[i]
  BY <1>1, <1>2, <1>3, RowsOf
<1> QED
  BY <1>2, <1>4 DEF SameRows, KeptRows

\* consolidateSelectionForEmpty: what it remembers are rows' identifiers, and it
\* remembers none only when it changes nothing.
Consolidated(ds, r) ==
    /\ r.dirs \in Seq(DirectoryT) /\ SameRows(ds, r.dirs)
    /\ SomeSelected(ds) => SomeSelected(r.dirs)
    /\ r.ids \in SUBSET Nat
    /\ \A x \in r.ids : \E k \in 1..Len(ds) : ds[k].id = x
    /\ r.ids = {} => r.dirs = ds

LEMMA UnselectEmptyConsolidates ==
    ASSUME NEW ds \in Seq(DirectoryT), NEW i \in 1..Len(ds), NEW r, Consolidated(ds, r)
    PROVE  Consolidated(ds, UnselectEmpty(r, i))
<1>1. CASE r.dirs[i].count > 0
  BY <1>1 DEF UnselectEmpty
<1>2. CASE ~(r.dirs[i].count > 0)
  <2> DEFINE es == ChangeSelected(r.dirs, i, FALSE)
             more == IF r.dirs[i].selected THEN {r.dirs[i].id} ELSE {}
             q == UnselectEmpty(r, i)
  <2>1. q = [dirs |-> es, ids |-> r.ids \cup more]
    BY <1>2 DEF UnselectEmpty
  <2>2. r.dirs \in Seq(DirectoryT) /\ SameRows(ds, r.dirs) /\ i \in 1..Len(r.dirs)
    BY DEF Consolidated, SameRows, KeptRows
  <2>3. /\ es \in Seq(DirectoryT) /\ SameRows(r.dirs, es)
        /\ SomeSelected(r.dirs) => SomeSelected(es)
        /\ ~r.dirs[i].selected => es = r.dirs
    <3>1. \A v \in BOOLEAN : /\ ChangeSelected(r.dirs, i, v) \in Seq(DirectoryT)
                             /\ SameRows(r.dirs, ChangeSelected(r.dirs, i, v))
                             /\ SomeSelected(r.dirs) => SomeSelected(ChangeSelected(r.dirs, i, v))
                             /\ (r.dirs[i].selected <=> v) => ChangeSelected(r.dirs, i, v) = r.dirs
      BY <2>2, ChangeSelectedRows
    <3> QED
      BY <3>1, Zenon
  <2>4. SameRows(ds, es)
    BY <2>2, <2>3, SameRowsCompose
  <2>5. r.dirs[i].id \in Nat /\ r.dirs[i].id = ds[i].id
    BY <2>2, RowTypes DEF SameRows, KeptRows
  <2> HIDE DEF es
  <2>6. q.dirs = es /\ q.ids = r.ids \cup more
    BY <2>1
  <2> HIDE DEF q
  <2>7. q.ids \in SUBSET Nat /\ \A x \in q.ids : \E k \in 1..Len(ds) : ds[k].id = x
    BY <2>5, <2>6 DEF Consolidated
  <2>8. q.ids = {} => q.dirs = ds
    <3> SUFFICES ASSUME q.ids = {} PROVE q.dirs = ds
      OBVIOUS
    <3>1. r.ids = {} /\ ~r.dirs[i].selected
      BY <2>6
    <3> QED
      BY <2>3, <2>6, <3>1 DEF Consolidated
  <2>9. Consolidated(ds, q)
    BY <2>3, <2>4, <2>6, <2>7, <2>8 DEF Consolidated
  <2> QED
    BY <2>9 DEF q
<1> QED
  BY <1>1, <1>2

LEMMA ConsolidateRows ==
    ASSUME NEW ds \in Seq(DirectoryT)
    PROVE  Consolidated(ds, ConsolidateSelectionForEmpty(ds))
<1> DEFINE T == [dirs : Seq(DirectoryT), ids : SUBSET Nat]
           S == [i \in 0..Len(ds) |-> {r \in T : Consolidated(ds, r)}]
           start == [dirs |-> ds, ids |-> {}]
<1>1. Len(ds) \in Nat
  OBVIOUS
<1>2. start \in S[0]
  <2>1. start \in T /\ Consolidated(ds, start)
    BY DEF Consolidated, SameRows, KeptRows
  <2> HIDE DEF start, T
  <2> QED
    BY <1>1, <2>1
<1>3. \A i \in 1..Len(ds) : \A r \in S[i - 1] : UnselectEmpty(r, i) \in S[i]
  <2> SUFFICES ASSUME NEW i \in 1..Len(ds), NEW r \in T, Consolidated(ds, r)
               PROVE  UnselectEmpty(r, i) \in T /\ Consolidated(ds, UnselectEmpty(r, i))
    BY <1>1
  <2>1. Consolidated(ds, UnselectEmpty(r, i))
    BY UnselectEmptyConsolidates
  <2>2. UnselectEmpty(r, i) \in T
    <3>1. CASE r.dirs[i].count > 0
      BY <3>1 DEF UnselectEmpty
    <3>2. CASE ~(r.dirs[i].count > 0)
      <4> DEFINE es == ChangeSelected(r.dirs, i, FALSE)
                 is == r.ids \cup IF r.dirs[i].selected THEN {r.dirs[i].id} ELSE {}
      <4>1. UnselectEmpty(r, i) = [dirs |-> es, ids |-> is]
        BY <3>2 DEF UnselectEmpty
      <4> HIDE DEF es, is
      <4>2. UnselectEmpty(r, i).dirs = es /\ UnselectEmpty(r, i).ids = is
        BY <4>1
      <4>3. es \in Seq(DirectoryT) /\ is \in SUBSET Nat
        BY <2>1, <4>2 DEF Consolidated
      <4> QED
        BY <4>1, <4>3
    <3> QED
      BY <3>1, <3>2
  <2> QED
    BY <2>1, <2>2
<1> HIDE DEF S
<1>4. \A i \in 0..Len(ds) : UnselectingEmpty(ds)[i] \in S[i]
  BY <1>1, <1>2, <1>3, UnselectingEmptyRuns
<1>5. \A i \in 0..Len(ds) : Consolidated(ds, UnselectingEmpty(ds)[i])
  BY <1>4 DEF S
<1> DEFINE n == IF AllAreSelected(ds) THEN 0 ELSE Len(ds)
<1>6. n \in 0..Len(ds) /\ ConsolidateSelectionForEmpty(ds) = UnselectingEmpty(ds)[n]
  BY <1>1 DEF ConsolidateSelectionForEmpty
<1> HIDE DEF n
<1> QED
  BY <1>5, <1>6

\* How many rows are selected is a number.
LEMMA SelectedCount ==
    ASSUME NEW ds \in Seq(DirectoryT)
    PROVE  Cardinality(SelectedDirs(ds)) \in Nat
<1>1. SelectedDirs(ds) \subseteq 1..Len(ds) /\ Len(ds) \in Nat
  BY DEF SelectedDirs
<1>2. IsFiniteSet(SelectedDirs(ds))
  <2>1. IsFiniteSet(1..Len(ds))
    BY <1>1, FS_Interval
  <2> QED
    BY <1>1, <2>1, FS_Subset
<1> QED
  BY <1>2, FS_CardinalityType

-----------------------------------------------------------------------------
(* Dropping the empty directories *)

LEMMA RemovingRow ==
    ASSUME NEW T, NEW s \in Seq(T), NEW row \in 1..Len(s), NEW t, t = RemoveAt(s, row)
    PROVE  /\ t \in Seq(T) /\ Len(t) = Len(s) - 1
           /\ \A i \in 1..Len(t) : t[i] = IF i < row THEN s[i] ELSE s[i + 1]
<1> DEFINE a == SubSeq(s, 1, row - 1)
           b == SubSeq(s, row + 1, Len(s))
<1>1. Len(s) \in Nat /\ row \in Nat /\ 1 <= row /\ row <= Len(s)
  OBVIOUS
<1>2. a \in Seq(T) /\ Len(a) = row - 1 /\ \A i \in 1..(row - 1) : a[i] = s[i]
  BY <1>1, SubSeqProperties
<1>3. b \in Seq(T) /\ Len(b) = Len(s) - row /\ \A i \in 1..(Len(s) - row) : b[i] = s[row + i]
  <2>1. CASE row = Len(s)
    <3>1. b = << >>
      BY <1>1, <2>1
    <3> HIDE DEF b
    <3> QED
      BY <1>1, <2>1, <3>1
  <2>2. CASE row < Len(s)
    BY <1>1, <2>2, SubSeqProperties
  <2> QED
    BY <1>1, <2>1, <2>2
<1>4. t = a \o b
  BY DEF RemoveAt
<1> HIDE DEF a, b
<1>5. /\ t \in Seq(T) /\ Len(t) = Len(a) + Len(b)
      /\ \A i \in 1..Len(t) : t[i] = IF i <= Len(a) THEN a[i] ELSE b[i - Len(a)]
  <2>1. a \in Seq(T) /\ b \in Seq(T)
    BY <1>2, <1>3
  <2> QED
    BY <1>4, <2>1
<1>6. Len(t) = Len(s) - 1
  BY <1>1, <1>2, <1>3, <1>5
<1>7. ASSUME NEW i \in 1..Len(t) PROVE t[i] = IF i < row THEN s[i] ELSE s[i + 1]
  <2>1. CASE i < row
    BY <1>1, <1>2, <1>5, <2>1
  <2>2. CASE ~(i < row)
    <3>1. i - (row - 1) \in 1..(Len(s) - row) /\ ~(i <= Len(a))
      BY <1>1, <1>2, <1>6, <2>2
    <3>2. t[i] = b[i - (row - 1)] /\ row + (i - (row - 1)) = i + 1
      BY <1>1, <1>2, <1>5, <3>1
    <3> QED
      BY <1>3, <2>2, <3>1, <3>2
  <2> QED
    BY <2>1, <2>2
<1> QED
  BY <1>5, <1>6, <1>7

SameRow(d, e) == d.id = e.id /\ d.path = e.path /\ d.count = e.count /\ (d.removed <=> e.removed)

RowsDiffer(ds) ==
    \A i, j \in 1..Len(ds) : ds[i].path = ds[j].path \/ ds[i].id = ds[j].id => i = j

LEMMA SameRowsRows ==
    ASSUME NEW ds, NEW es, SameRows(ds, es)
    PROVE  /\ Len(ds) = Len(es)
           /\ \A i \in 1..Len(ds) : SameRow(ds[i], es[i]) /\ SameRow(es[i], ds[i])
           /\ RowsDiffer(ds) => RowsDiffer(es)
BY DEF SameRows, KeptRows, SameRow, RowsDiffer

\* The rows above k are dealt with: of those, the ones that count files are left.
Cleaned(ds, k, es) ==
    /\ es \in Seq(DirectoryT) /\ Len(es) >= k
    /\ RowsDiffer(es)
    /\ Len(es) # 0 => SomeSelected(es)
    /\ \A i \in 1..k : SameRow(es[i], ds[i])
    /\ \A i \in 1..Len(es) : i > k => \E j \in 1..Len(ds) : SameRow(es[i], ds[j]) /\ ds[j].count > 0
    /\ \A j \in 1..Len(ds) : j > k /\ ds[j].count > 0 => \E i \in 1..Len(es) : SameRow(es[i], ds[j])

LEMMA RemoveRowCleans ==
    ASSUME NEW ds \in Seq(DirectoryT), NEW row \in 1..Len(ds), NEW es, Cleaned(ds, row, es),
           ~(ds[row].count > 0)
    PROVE  Cleaned(ds, row - 1, RemoveRow(es, row))
<1> DEFINE chosen == IF AllAreSelected(es) THEN es ELSE ChangeSelected(es, row, FALSE)
           fs == RemoveRow(es, row)
<1>1. es \in Seq(DirectoryT) /\ Len(es) \in Nat /\ row \in 1..Len(es) /\ row \in Nat
  BY DEF Cleaned
<1>2. SomeSelected(es)
  BY <1>1 DEF Cleaned
<1>3. /\ chosen \in Seq(DirectoryT) /\ SameRows(es, chosen)
      /\ Len(es) > 1 => \E i \in 1..Len(es) : i # row /\ chosen[i].selected
  <2>1. CASE AllAreSelected(es)
    <3>1. chosen = es /\ \A i \in 1..Len(es) : es[i].selected
      BY <1>1, <2>1, SelectedRows
    <3> HIDE DEF chosen
    <3>2. Len(es) > 1 => \E i \in 1..Len(es) : i # row
      BY <1>1
    <3> QED
      BY <1>1, <3>1, <3>2 DEF SameRows, KeptRows
  <2>2. CASE ~AllAreSelected(es)
    <3>1. \A v \in BOOLEAN : /\ ChangeSelected(es, row, v) \in Seq(DirectoryT)
                             /\ SameRows(es, ChangeSelected(es, row, v))
                             /\ ~v => \E i \in 1..Len(es) : i # row /\ ChangeSelected(es, row, v)[i].selected
      BY <1>1, <1>2, <2>2, ChangeSelectedRows
    <3>2. /\ ChangeSelected(es, row, FALSE) \in Seq(DirectoryT)
          /\ SameRows(es, ChangeSelected(es, row, FALSE))
          /\ \E i \in 1..Len(es) : i # row /\ ChangeSelected(es, row, FALSE)[i].selected
      BY <3>1, Zenon
    <3>3. chosen = ChangeSelected(es, row, FALSE)
      BY <2>2
    <3> HIDE DEF chosen
    <3> QED
      BY <3>2, <3>3
  <2> QED
    BY <2>1, <2>2
<1>4. fs = RemoveAt(chosen, row)
  BY DEF RemoveRow
<1> HIDE DEF chosen, fs
<1>5. Len(chosen) = Len(es) /\ RowsDiffer(chosen) /\ \A i \in 1..Len(es) : SameRow(chosen[i], es[i])
  BY <1>3, SameRowsRows DEF Cleaned
<1>6. /\ fs \in Seq(DirectoryT) /\ Len(fs) = Len(es) - 1
      /\ \A i \in 1..Len(fs) : fs[i] = IF i < row THEN chosen[i] ELSE chosen[i + 1]
  <2>1. row \in 1..Len(chosen) /\ Len(chosen) = Len(es) /\ chosen \in Seq(DirectoryT)
    BY <1>1, <1>3, <1>5
  <2> QED
    BY <1>4, <2>1, RemovingRow
<1> DEFINE at(i) == IF i < row THEN i ELSE i + 1
<1>7. \A i \in 1..Len(fs) : at(i) \in 1..Len(es) /\ at(i) # row /\ fs[i] = chosen[at(i)]
  BY <1>1, <1>6
<1>8. \A j \in 1..Len(es) : j # row => \E i \in 1..Len(fs) : at(i) = j
  <2> SUFFICES ASSUME NEW j \in 1..Len(es), j # row PROVE \E i \in 1..Len(fs) : at(i) = j
    OBVIOUS
  <2>1. CASE j < row
    <3>1. j \in 1..Len(fs) /\ at(j) = j
      BY <1>1, <1>6, <2>1
    <3> HIDE DEF at
    <3> QED
      BY <3>1
  <2>2. CASE j > row
    <3>1. j - 1 \in 1..Len(fs) /\ at(j - 1) = j
      BY <1>1, <1>6, <2>2
    <3> HIDE DEF at
    <3> QED
      BY <3>1
  <2> QED
    BY <1>1, <2>1, <2>2
<1>9. \A i, j \in 1..Len(fs) : at(i) = at(j) => i = j
  BY <1>1, <1>6
<1>10. \A i \in 1..Len(fs) : SameRow(fs[i], es[at(i)])
  BY <1>5, <1>7
<1>11. RowsDiffer(fs)
  <2> SUFFICES ASSUME NEW i \in 1..Len(fs), NEW j \in 1..Len(fs),
                      fs[i].path = fs[j].path \/ fs[i].id = fs[j].id
               PROVE  i = j
    BY DEF RowsDiffer
  <2>1. /\ at(i) \in 1..Len(chosen) /\ at(j) \in 1..Len(chosen)
        /\ fs[i] = chosen[at(i)] /\ fs[j] = chosen[at(j)]
    BY <1>5, <1>7
  <2> HIDE DEF at
  <2>2. at(i) = at(j)
    BY <1>5, <2>1 DEF RowsDiffer
  <2> QED
    BY <1>9, <2>2
<1>12. Len(fs) # 0 => SomeSelected(fs)
  <2> SUFFICES ASSUME Len(fs) # 0 PROVE SomeSelected(fs)
    OBVIOUS
  <2>1. PICK j \in 1..Len(es) : j # row /\ chosen[j].selected
    BY <1>1, <1>3, <1>6
  <2>2. PICK i \in 1..Len(fs) : at(i) = j
    BY <1>8, <2>1
  <2> QED
    BY <1>7, <2>1, <2>2 DEF SomeSelected
<1>13. \A i \in 1..(row - 1) : SameRow(fs[i], ds[i])
  <2> SUFFICES ASSUME NEW i \in 1..(row - 1) PROVE SameRow(fs[i], ds[i])
    OBVIOUS
  <2>1. i \in 1..row /\ i \in 1..Len(fs) /\ at(i) = i
    BY <1>1, <1>6
  <2> HIDE DEF at
  <2>2. SameRow(fs[i], es[i])
    BY <1>10, <2>1
  <2>3. SameRow(es[i], ds[i])
    BY <2>1 DEF Cleaned
  <2> QED
    BY <2>2, <2>3 DEF SameRow
<1>14. \A i \in 1..Len(fs) : i > row - 1 => \E j \in 1..Len(ds) : SameRow(fs[i], ds[j]) /\ ds[j].count > 0
  <2> SUFFICES ASSUME NEW i \in 1..Len(fs), i > row - 1
               PROVE  \E j \in 1..Len(ds) : SameRow(fs[i], ds[j]) /\ ds[j].count > 0
    OBVIOUS
  <2>1. at(i) \in 1..Len(es) /\ at(i) > row
    BY <1>1, <1>7
  <2> HIDE DEF at
  <2>2. PICK j \in 1..Len(ds) : SameRow(es[at(i)], ds[j]) /\ ds[j].count > 0
    BY <2>1 DEF Cleaned
  <2> QED
    BY <1>10, <2>2 DEF SameRow
<1>15. \A j \in 1..Len(ds) : j > row - 1 /\ ds[j].count > 0 => \E i \in 1..Len(fs) : SameRow(fs[i], ds[j])
  <2> SUFFICES ASSUME NEW j \in 1..Len(ds), j > row - 1, ds[j].count > 0
               PROVE  \E i \in 1..Len(fs) : SameRow(fs[i], ds[j])
    OBVIOUS
  <2>1. j # row /\ j > row
    BY <1>1
  <2>2. PICK k \in 1..Len(es) : SameRow(es[k], ds[j])
    BY <2>1 DEF Cleaned
  <2>3. k # row
    <3> SUFFICES ASSUME k = row PROVE FALSE
      OBVIOUS
    <3>1. row \in 1..row
      BY <1>1
    <3>2. SameRow(es[row], ds[row])
      BY <3>1 DEF Cleaned
    <3> QED
      BY <2>2, <3>2 DEF SameRow
  <2> HIDE DEF at
  <2>4. PICK i \in 1..Len(fs) : at(i) = k
    BY <1>8, <2>3
  <2>5. SameRow(fs[i], es[k])
    BY <1>10, <2>4
  <2>6. SameRow(fs[i], ds[j])
    BY <2>2, <2>5 DEF SameRow
  <2> QED
    BY <2>6
<1>16. Cleaned(ds, row - 1, fs)
  <2>1. fs \in Seq(DirectoryT) /\ Len(fs) >= row - 1
    BY <1>1, <1>6
  <2> QED
    BY <2>1, <1>11, <1>12, <1>13, <1>14, <1>15, Zenon DEF Cleaned
<1> QED
  BY <1>16 DEF fs

LEMMA SkipRowCleans ==
    ASSUME NEW ds \in Seq(DirectoryT), NEW row \in 1..Len(ds), NEW es, Cleaned(ds, row, es),
           ds[row].count > 0
    PROVE  Cleaned(ds, row - 1, es)
<1>1. Len(es) \in Nat /\ row \in 1..Len(es) /\ row \in 1..row /\ SameRow(es[row], ds[row])
  BY DEF Cleaned
<1>2. \A i \in 1..Len(es) : i > row - 1 => \E j \in 1..Len(ds) : SameRow(es[i], ds[j]) /\ ds[j].count > 0
  <2> SUFFICES ASSUME NEW i \in 1..Len(es), i > row - 1
               PROVE  \E j \in 1..Len(ds) : SameRow(es[i], ds[j]) /\ ds[j].count > 0
    OBVIOUS
  <2>1. CASE i = row
    BY <1>1, <2>1
  <2>2. CASE i > row
    BY <2>2 DEF Cleaned
  <2> QED
    BY <1>1, <2>1, <2>2
<1>3. \A j \in 1..Len(ds) : j > row - 1 /\ ds[j].count > 0 => \E i \in 1..Len(es) : SameRow(es[i], ds[j])
  <2> SUFFICES ASSUME NEW j \in 1..Len(ds), j > row - 1, ds[j].count > 0
               PROVE  \E i \in 1..Len(es) : SameRow(es[i], ds[j])
    OBVIOUS
  <2>1. CASE j = row
    BY <1>1, <2>1
  <2>2. CASE j > row
    BY <2>2 DEF Cleaned
  <2> QED
    BY <1>1, <2>1, <2>2
<1>4. \A i \in 1..(row - 1) : SameRow(es[i], ds[i])
  <2>1. \A i \in 1..(row - 1) : i \in 1..row
    BY <1>1
  <2> QED
    BY <2>1 DEF Cleaned
<1> QED
  BY <1>1, <1>2, <1>3, <1>4 DEF Cleaned

\* What is left are the rows that count files, and one of them is selected.
LEMMA CleaningRows ==
    ASSUME NEW ds \in Seq(DirectoryT), RowsDiffer(ds), Len(ds) # 0 => SomeSelected(ds)
    PROVE  Cleaned(ds, 0, Cleaning(ds)[Len(ds)])
<1> DEFINE S == [n \in 0..Len(ds) |-> {es \in Seq(DirectoryT) : Cleaned(ds, Len(ds) - n, es)}]
<1>1. Len(ds) \in Nat
  OBVIOUS
<1>2. ds \in S[0]
  <2>1. Cleaned(ds, Len(ds) - 0, ds)
    BY <1>1 DEF Cleaned, SameRow
  <2> QED
    BY <1>1, <2>1
<1>3. \A n \in 1..Len(ds) : \A es \in S[n - 1] :
        (IF ds[Len(ds) + 1 - n].count > 0 THEN es ELSE RemoveRow(es, Len(ds) + 1 - n)) \in S[n]
  <2> SUFFICES ASSUME NEW n \in 1..Len(ds), NEW es \in S[n - 1]
               PROVE  (IF ds[Len(ds) + 1 - n].count > 0 THEN es ELSE RemoveRow(es, Len(ds) + 1 - n)) \in S[n]
    OBVIOUS
  <2>0. es \in Seq(DirectoryT) /\ Cleaned(ds, Len(ds) - (n - 1), es)
    BY <1>1
  <2> DEFINE row == Len(ds) + 1 - n
             fs == IF ds[row].count > 0 THEN es ELSE RemoveRow(es, row)
  <2>1. row \in 1..Len(ds) /\ Len(ds) - (n - 1) = row /\ Len(ds) - n = row - 1
    BY <1>1
  <2>2. Cleaned(ds, row - 1, fs)
    <3>1. Cleaned(ds, row, es)
      BY <2>0, <2>1
    <3> HIDE DEF row
    <3> QED
      BY <2>1, <3>1, SkipRowCleans, RemoveRowCleans
  <2>3. fs \in Seq(DirectoryT)
    BY <2>2 DEF Cleaned
  <2> HIDE DEF fs
  <2>4. fs \in S[n]
    BY <1>1, <2>1, <2>2, <2>3
  <2> QED
    BY <2>4 DEF fs
<1> HIDE DEF S
<1>4. \A n \in 0..Len(ds) : Cleaning(ds)[n] \in S[n]
  BY <1>1, <1>2, <1>3, CleaningRuns
<1>5. Cleaning(ds)[Len(ds)] \in S[Len(ds)] /\ Len(ds) \in 0..Len(ds) /\ Len(ds) - Len(ds) = 0
  BY <1>1, <1>4
<1> QED
  BY <1>5 DEF S

-----------------------------------------------------------------------------
(* Rows of artworks *)

LEMMA ArtworkTypes ==
    ASSUME NEW list \in Seq(ArtworkT)
    PROVE  /\ Len(list) \in Nat /\ DOMAIN list = 1..Len(list)
           /\ \A i \in 1..Len(list) : /\ list[i] \in ArtworkT
                                      /\ list[i].id \in Nat /\ list[i].file \in Files /\ list[i].dir \in Nat
                                      /\ list[i].removed \in BOOLEAN /\ list[i].unavailable \in BOOLEAN
<1>1. \A i \in 1..Len(list) : list[i] \in ArtworkT
  OBVIOUS
<1>2. \A a \in ArtworkT : /\ a.id \in Nat /\ a.file \in Files /\ a.dir \in Nat
                          /\ a.removed \in BOOLEAN /\ a.unavailable \in BOOLEAN
  BY DEF ArtworkT
<1> QED
  BY <1>1, <1>2

LEMMA ArtworksOf ==
    ASSUME NEW n \in Nat, NEW f, \A i \in 1..n : f[i] \in ArtworkT, NEW list, list = [i \in 1..n |-> f[i]]
    PROVE  list \in Seq(ArtworkT) /\ Len(list) = n /\ \A i \in 1..n : list[i] = f[i]
OBVIOUS

\* The same artworks, whatever their flags.
SameArtwork(a, b) == a.id = b.id /\ a.file = b.file /\ a.dir = b.dir
SameArtworks(list, other) ==
    /\ Len(list) = Len(other)
    /\ \A i \in 1..Len(list) : SameArtwork(list[i], other[i])

LEMMA FlagArtwork ==
    ASSUME NEW a \in ArtworkT, NEW value \in BOOLEAN
    PROVE  /\ [a EXCEPT !.removed = value] \in ArtworkT
           /\ SameArtwork(a, [a EXCEPT !.removed = value])
           /\ [a EXCEPT !.removed = value].removed <=> value
           /\ [a EXCEPT !.removed = value].unavailable <=> a.unavailable
           /\ [a EXCEPT !.unavailable = value] \in ArtworkT
           /\ SameArtwork(a, [a EXCEPT !.unavailable = value])
           /\ [a EXCEPT !.unavailable = value].unavailable <=> value
           /\ [a EXCEPT !.unavailable = value].removed <=> a.removed
BY DEF ArtworkT, SameArtwork

\* deleteItems: what is kept are artworks of the list, each once.
Kept(list, indices, i, s) ==
    /\ s \in Seq(ArtworkT)
    /\ \A j \in 1..Len(s) : \E k \in 1..i : k \notin indices /\ s[j] = list[k]
    /\ \A j, k \in 1..Len(s) : s[j].id = s[k].id => j = k

LEMMA KeepingItems ==
    ASSUME NEW list \in Seq(ArtworkT), NEW indices, NEW ids, ArtworksAreOwn(list, ids)
    PROVE  Kept(list, indices, Len(list), Keeping(list, indices)[Len(list)])
<1> DEFINE S == [i \in 0..Len(list) |-> {s \in Seq(ArtworkT) : Kept(list, indices, i, s)}]
<1>1. Len(list) \in Nat
  OBVIOUS
<1>2. << >> \in S[0]
  <2>1. Kept(list, indices, 0, << >>)
    BY DEF Kept
  <2> QED
    BY <1>1, <2>1
<1>3. \A i \in 1..Len(list) : \A s \in S[i - 1] :
        (IF i \in indices THEN s ELSE Append(s, list[i])) \in S[i]
  <2> SUFFICES ASSUME NEW i \in 1..Len(list), NEW s \in Seq(ArtworkT), Kept(list, indices, i - 1, s)
               PROVE  (IF i \in indices THEN s ELSE Append(s, list[i])) \in S[i]
    BY <1>1
  <2> DEFINE t == Append(s, list[i])
  <2>0. /\ i \in Nat /\ 1..(i - 1) \subseteq 1..i /\ i \in 1..i
        /\ list[i] \in ArtworkT /\ Len(s) \in Nat
    BY ArtworkTypes
  <2>1. CASE i \in indices
    <3>1. Kept(list, indices, i, s)
      BY <2>0 DEF Kept
    <3> QED
      BY <1>1, <2>1, <3>1
  <2>2. CASE i \notin indices
    <3>1. /\ t \in Seq(ArtworkT) /\ Len(t) = Len(s) + 1
          /\ \A j \in 1..Len(t) : t[j] = IF j <= Len(s) THEN s[j] ELSE list[i]
      BY <2>0
    <3> HIDE DEF t
    <3>2. \A j \in 1..Len(t) : \E k \in 1..i : k \notin indices /\ t[j] = list[k]
      <4> SUFFICES ASSUME NEW j \in 1..Len(t) PROVE \E k \in 1..i : k \notin indices /\ t[j] = list[k]
        OBVIOUS
      <4>1. CASE j <= Len(s)
        <5>1. j \in 1..Len(s) /\ t[j] = s[j]
          BY <2>0, <3>1, <4>1
        <5> QED
          BY <2>0, <5>1 DEF Kept
      <4>2. CASE ~(j <= Len(s))
        BY <2>0, <2>2, <3>1, <4>2
      <4> QED
        BY <4>1, <4>2
    <3>3. \A j \in 1..Len(s) : s[j].id # list[i].id
      <4> SUFFICES ASSUME NEW j \in 1..Len(s), s[j].id = list[i].id PROVE FALSE
        OBVIOUS
      <4>1. PICK k \in 1..(i - 1) : s[j] = list[k]
        BY DEF Kept
      <4>2. k \in 1..Len(list) /\ k # i
        BY <1>1, <2>0
      <4> QED
        BY <4>1, <4>2 DEF ArtworksAreOwn
    <3>4. \A j, k \in 1..Len(t) : t[j].id = t[k].id => j = k
      <4> SUFFICES ASSUME NEW j \in 1..Len(t), NEW k \in 1..Len(t), t[j].id = t[k].id PROVE j = k
        OBVIOUS
      <4>1. CASE j <= Len(s) /\ k <= Len(s)
        <5>1. j \in 1..Len(s) /\ k \in 1..Len(s) /\ t[j] = s[j] /\ t[k] = s[k]
          BY <2>0, <3>1, <4>1
        <5> QED
          BY <5>1 DEF Kept
      <4>2. CASE j <= Len(s) /\ ~(k <= Len(s))
        <5>1. j \in 1..Len(s) /\ t[j] = s[j] /\ t[k] = list[i]
          BY <2>0, <3>1, <4>2
        <5> QED
          BY <3>3, <5>1
      <4>3. CASE ~(j <= Len(s)) /\ k <= Len(s)
        <5>1. k \in 1..Len(s) /\ t[k] = s[k] /\ t[j] = list[i]
          BY <2>0, <3>1, <4>3
        <5> QED
          BY <3>3, <5>1
      <4>4. CASE ~(j <= Len(s)) /\ ~(k <= Len(s))
        BY <2>0, <3>1, <4>4
      <4> QED
        BY <4>1, <4>2, <4>3, <4>4
    <3>5. Kept(list, indices, i, t)
      BY <3>1, <3>2, <3>4 DEF Kept
    <3>6. t \in S[i]
      BY <1>1, <3>1, <3>5
    <3> QED
      BY <2>2, <3>6 DEF t
  <2> QED
    BY <2>1, <2>2
<1> HIDE DEF S
<1>4. \A i \in 0..Len(list) : Keeping(list, indices)[i] \in S[i]
  BY <1>1, <1>2, <1>3, KeepingRuns
<1>5. Keeping(list, indices)[Len(list)] \in S[Len(list)] /\ Len(list) \in 0..Len(list)
  BY <1>1, <1>4
<1> QED
  BY <1>5 DEF S

-----------------------------------------------------------------------------
(* Libraries *)

LEMMA LibraryTypes ==
    ASSUME NEW l \in Library
    PROVE  /\ l.list \in Seq(ArtworkT) /\ l.dirs \in Seq(DirectoryT)
           /\ l.filesSet \in SUBSET Files /\ l.watched \in SUBSET Files
           /\ l.ids \in Nat /\ l.dirIDs \in Nat
           /\ l.broken \in SUBSET {"removeFile", "restoreRemoved"}
BY DEF Library

LEMMA WithDirs ==
    ASSUME NEW l \in Library, NEW ds \in Seq(DirectoryT), NEW m, m = [l EXCEPT !.dirs = ds]
    PROVE  /\ m \in Library /\ m.dirs = ds
           /\ m.list = l.list /\ m.filesSet = l.filesSet /\ m.watched = l.watched
           /\ m.ids = l.ids /\ m.dirIDs = l.dirIDs /\ m.broken = l.broken
BY DEF Library

LEMMA WithList ==
    ASSUME NEW l \in Library, NEW list \in Seq(ArtworkT), NEW m, m = [l EXCEPT !.list = list]
    PROVE  /\ m \in Library /\ m.list = list
           /\ m.dirs = l.dirs /\ m.filesSet = l.filesSet /\ m.watched = l.watched
           /\ m.ids = l.ids /\ m.dirIDs = l.dirIDs /\ m.broken = l.broken
BY DEF Library

\* A library made of its parts.
LibraryOf(list, dirs, filesSet, watched, ids, dirIDs, broken) ==
    [list |-> list, dirs |-> dirs, filesSet |-> filesSet, watched |-> watched,
     ids |-> ids, dirIDs |-> dirIDs, broken |-> broken]

IsLibrary(m, list, dirs, filesSet, watched, ids, dirIDs, broken) ==
    /\ m \in Library /\ m.list = list /\ m.dirs = dirs /\ m.filesSet = filesSet
    /\ m.watched = watched /\ m.ids = ids /\ m.dirIDs = dirIDs /\ m.broken = broken

LEMMA LibraryParts ==
    ASSUME NEW list \in Seq(ArtworkT), NEW dirs \in Seq(DirectoryT),
           NEW filesSet \in SUBSET Files, NEW watched \in SUBSET Files,
           NEW ids \in Nat, NEW dirIDs \in Nat, NEW broken \in SUBSET {"removeFile", "restoreRemoved"},
           NEW m, m = LibraryOf(list, dirs, filesSet, watched, ids, dirIDs, broken)
    PROVE  IsLibrary(m, list, dirs, filesSet, watched, ids, dirIDs, broken)
BY DEF IsLibrary, LibraryOf, Library

LEMMA FilesAreFinite ==
    ASSUME NEW files \in SUBSET Files, NEW path
    PROVE  /\ IsFiniteSet(FilesIn(files, path)) /\ Cardinality(FilesIn(files, path)) \in Nat
           /\ Cardinality(FilesIn(files, path)) <= Cardinality(Files)
           /\ IsFiniteSet(files)
<1>1. FilesIn(files, path) \subseteq Files /\ IsFiniteSet(Files)
  BY FilesAssumption DEF FilesIn
<1>2. IsFiniteSet(FilesIn(files, path)) /\ IsFiniteSet(files)
  BY <1>1, FS_Subset
<1>3. Cardinality(FilesIn(files, path)) <= Cardinality(Files)
  BY <1>1, FS_Subset
<1> QED
  BY <1>2, <1>3, FS_CardinalityType

\* Accounting a file counts it in its directory, and nowhere else.
LEMMA CountMore ==
    ASSUME NEW files \in SUBSET Files, NEW f \in Files, f \notin files, NEW path
    PROVE  Cardinality(FilesIn(files \cup {f}, path)) =
             Cardinality(FilesIn(files, path)) + IF path = DirOf[f] THEN 1 ELSE 0
<1>1. CASE path = DirOf[f]
  <2>1. FilesIn(files \cup {f}, path) = FilesIn(files, path) \cup {f} /\ f \notin FilesIn(files, path)
    BY <1>1 DEF FilesIn
  <2> QED
    BY <1>1, <2>1, FilesAreFinite, FS_AddElement
<1>2. CASE path # DirOf[f]
  <2>1. FilesIn(files \cup {f}, path) = FilesIn(files, path)
    BY <1>2 DEF FilesIn
  <2> QED
    BY <1>2, <2>1, FilesAreFinite
<1> QED
  BY <1>1, <1>2

LEMMA CountLess ==
    ASSUME NEW files \in SUBSET Files, NEW f \in files, NEW path
    PROVE  Cardinality(FilesIn(files \ {f}, path)) =
             Cardinality(FilesIn(files, path)) - IF path = DirOf[f] THEN 1 ELSE 0
<1> DEFINE less == files \ {f}
<1>1. less \in SUBSET Files /\ f \in Files /\ f \notin less /\ less \cup {f} = files
  OBVIOUS
<1> HIDE DEF less
<1>2. Cardinality(FilesIn(files, path)) =
        Cardinality(FilesIn(less, path)) + IF path = DirOf[f] THEN 1 ELSE 0
  BY <1>1, CountMore
<1>3. Cardinality(FilesIn(less, path)) \in Nat /\ Cardinality(FilesIn(files, path)) \in Nat
  BY <1>1, FilesAreFinite
<1> QED
  BY <1>2, <1>3 DEF less

\* What RepositoryInv is about has not changed.
LEMMA InvCarries ==
    ASSUME NEW l \in Library, NEW m \in Library, RepositoryInv(l),
           SameRows(l.dirs, m.dirs), SameArtworks(l.list, m.list),
           m.filesSet = l.filesSet, m.ids = l.ids, m.dirIDs = l.dirIDs
    PROVE  RepositoryInv(m)
<1>1. RowsAreOwn(m.dirs, m.dirIDs)
  BY DEF RepositoryInv, RowsAreOwn, SameRows, KeptRows
<1>2. RowsCount(m.dirs, m.filesSet)
  BY DEF RepositoryInv, RowsCount, SameRows, KeptRows
<1>3. RowsCover(m.dirs, m.filesSet)
  BY DEF RepositoryInv, RowsCover, SameRows, KeptRows
<1>4. ArtworksAreOwn(m.list, m.ids)
  BY DEF RepositoryInv, ArtworksAreOwn, SameArtworks, SameArtwork
<1>5. ArtworksAreAt(m.list, m.dirs, m.dirIDs)
  BY DEF RepositoryInv, ArtworksAreAt, SameArtworks, SameArtwork, SameRows, KeptRows
<1> QED
  BY <1>1, <1>2, <1>3, <1>4, <1>5 DEF RepositoryInv

LEMMA StaleCarries ==
    ASSUME NEW l \in Library, NEW m \in Library, StaleInv(l),
           KeptRows(l.dirs, m.dirs), SameArtworks(l.list, m.list), m.filesSet \subseteq l.filesSet,
           \A i \in 1..Len(l.list) : m.list[i].removed => l.list[i].removed
    PROVE  StaleInv(m)
<1> SUFFICES ASSUME NEW i \in 1..Len(m.list), m.list[i].removed, HasDirectory(m.list[i], m.dirs),
                    m.list[i].file \in m.filesSet
             PROVE  \E j \in 1..Len(m.list) : j # i /\ m.list[j].file = m.list[i].file
  BY DEF StaleInv
<1>1. i \in 1..Len(l.list) /\ SameArtwork(l.list[i], m.list[i]) /\ l.list[i].removed
  BY DEF SameArtworks
<1>2. HasDirectory(l.list[i], l.dirs) /\ l.list[i].file \in l.filesSet
  BY <1>1 DEF HasDirectory, SameArtwork, KeptRows
<1>3. PICK j \in 1..Len(l.list) : j # i /\ l.list[j].file = l.list[i].file
  BY <1>1, <1>2 DEF StaleInv
<1> QED
  BY <1>1, <1>3 DEF SameArtworks, SameArtwork

-----------------------------------------------------------------------------
(* accountFile and removeFile *)

\* Entries are only added, selected and with identifiers of their own.
GrownRows(ds, dirIDs, es) ==
    /\ Len(es) >= Len(ds)
    /\ \A i \in 1..Len(ds) : es[i].id = ds[i].id /\ es[i].path = ds[i].path
                             /\ (ds[i].selected => es[i].selected)
    /\ \A i \in 1..Len(es) : i > Len(ds) => es[i].id >= dirIDs /\ es[i].selected
Grown(l, m) == m.dirIDs >= l.dirIDs /\ GrownRows(l.dirs, l.dirIDs, m.dirs)

LEMMA GrownSelection ==
    ASSUME NEW l \in Library, NEW m \in Library, Grown(l, m), SelectionInv(l)
    PROVE  SelectionInv(m)
<1> SUFFICES ASSUME Len(m.dirs) # 0 PROVE SomeSelected(m.dirs)
  BY DEF SelectionInv
<1>1. Len(l.dirs) \in Nat /\ Len(m.dirs) \in Nat
  BY LibraryTypes
<1>2. CASE Len(l.dirs) = 0
  BY <1>1, <1>2 DEF Grown, GrownRows, SomeSelected
<1>3. CASE Len(l.dirs) # 0
  BY <1>1, <1>3 DEF SelectionInv, Grown, GrownRows, SomeSelected
<1> QED
  BY <1>2, <1>3

LEMMA GrownCompose ==
    ASSUME NEW l \in Library, NEW m \in Library, NEW k \in Library, Grown(l, m), Grown(m, k)
    PROVE  Grown(l, k)
<1>1. /\ Len(l.dirs) \in Nat /\ Len(m.dirs) \in Nat /\ Len(k.dirs) \in Nat
      /\ l.dirIDs \in Nat /\ m.dirIDs \in Nat /\ k.dirIDs \in Nat
      /\ \A i \in 1..Len(k.dirs) : k.dirs[i].id \in Nat
  BY LibraryTypes, RowTypes
<1>2. \A i \in 1..Len(l.dirs) : k.dirs[i].id = l.dirs[i].id /\ k.dirs[i].path = l.dirs[i].path
                                 /\ (l.dirs[i].selected => k.dirs[i].selected)
  BY <1>1 DEF Grown, GrownRows
<1>3. \A i \in 1..Len(k.dirs) : i > Len(l.dirs) => k.dirs[i].id >= l.dirIDs /\ k.dirs[i].selected
  <2> SUFFICES ASSUME NEW i \in 1..Len(k.dirs), i > Len(l.dirs)
               PROVE  k.dirs[i].id >= l.dirIDs /\ k.dirs[i].selected
    OBVIOUS
  <2>1. CASE i <= Len(m.dirs)
    <3>1. i \in 1..Len(m.dirs)
      BY <1>1, <2>1
    <3> QED
      BY <3>1 DEF Grown, GrownRows
  <2>2. CASE i > Len(m.dirs)
    BY <1>1, <2>2 DEF Grown, GrownRows
  <2> QED
    BY <1>1, <2>1, <2>2
<1> QED
  BY <1>1, <1>2, <1>3 DEF Grown, GrownRows

\* Artworks of l stay where they are, and are not in the directories added.
LEMMA GrownArtworks ==
    ASSUME NEW l \in Library, NEW m \in Library, Grown(l, m), RepositoryInv(l)
    PROVE  /\ ArtworksAreAt(l.list, m.dirs, m.dirIDs)
           /\ \A i \in 1..Len(l.list) : HasDirectory(l.list[i], m.dirs) => HasDirectory(l.list[i], l.dirs)
<1>1. /\ Len(l.dirs) \in Nat /\ Len(m.dirs) \in Nat /\ l.dirIDs \in Nat /\ m.dirIDs \in Nat
      /\ \A i \in 1..Len(m.dirs) : m.dirs[i].id \in Nat
      /\ \A i \in 1..Len(l.list) : l.list[i].dir \in Nat
  BY LibraryTypes, RowTypes, ArtworkTypes
<1>2. ASSUME NEW i \in 1..Len(l.list), NEW j \in 1..Len(m.dirs), m.dirs[j].id = l.list[i].dir
      PROVE  j \in 1..Len(l.dirs) /\ l.dirs[j].id = m.dirs[j].id /\ l.dirs[j].path = m.dirs[j].path
  <2>1. l.list[i].dir < l.dirIDs
    BY DEF RepositoryInv, ArtworksAreAt
  <2>2. ~(j > Len(l.dirs))
    BY <1>1, <1>2, <2>1 DEF Grown, GrownRows
  <2>3. j \in 1..Len(l.dirs)
    BY <1>1, <2>2
  <2> QED
    BY <2>3 DEF Grown, GrownRows
<1>3. ArtworksAreAt(l.list, m.dirs, m.dirIDs)
  <2> SUFFICES ASSUME NEW i \in 1..Len(l.list)
               PROVE  /\ l.list[i].dir < m.dirIDs
                      /\ \A j \in 1..Len(m.dirs) : m.dirs[j].id = l.list[i].dir =>
                            m.dirs[j].path = DirOf[l.list[i].file]
    BY DEF ArtworksAreAt
  <2>1. l.list[i].dir < m.dirIDs
    BY <1>1 DEF RepositoryInv, ArtworksAreAt, Grown
  <2>2. ASSUME NEW j \in 1..Len(m.dirs), m.dirs[j].id = l.list[i].dir
        PROVE  m.dirs[j].path = DirOf[l.list[i].file]
    BY <1>2, <2>2 DEF RepositoryInv, ArtworksAreAt
  <2> QED
    BY <2>1, <2>2
<1>4. \A i \in 1..Len(l.list) : HasDirectory(l.list[i], m.dirs) => HasDirectory(l.list[i], l.dirs)
  BY <1>2 DEF HasDirectory
<1> QED
  BY <1>3, <1>4

LEMMA FoundByPath ==
    ASSUME NEW ds \in Seq(DirectoryT), NEW path
    PROVE  FindDirectory(ds, path) = {i \in 1..Len(ds) : ds[i].path = path}
BY DEF FindDirectory

\* The directory of f is there, counting nothing when it is new.
LEMMA WithDirectoryGrows ==
    ASSUME NEW l \in Library, RepositoryInv(l), NEW f \in Files, NEW m, m = WithDirectory(l, f)
    PROVE  /\ m \in Library /\ Grown(l, m)
           /\ m.list = l.list /\ m.filesSet = l.filesSet /\ m.watched = l.watched
           /\ m.ids = l.ids /\ m.broken = l.broken
           /\ RowsAreOwn(m.dirs, m.dirIDs)
           /\ RowsCover(m.dirs, m.filesSet)
           /\ \A i \in 1..Len(m.dirs) :
                 /\ m.dirs[i].count = Cardinality(FilesIn(m.filesSet, m.dirs[i].path))
                 /\ m.dirs[i].path # DirOf[f] => (m.dirs[i].removed <=> m.dirs[i].count = 0)
           /\ \E i \in 1..Len(m.dirs) : m.dirs[i].path = DirOf[f]
<1>1. /\ l.dirs \in Seq(DirectoryT) /\ Len(l.dirs) \in Nat /\ l.dirIDs \in Nat
      /\ FindDirectory(l.dirs, DirOf[f]) = {i \in 1..Len(l.dirs) : l.dirs[i].path = DirOf[f]}
      /\ \A i \in 1..Len(l.dirs) : l.dirs[i].id \in Nat
  BY LibraryTypes, RowTypes, FoundByPath
<1>2. CASE FindDirectory(l.dirs, DirOf[f]) # {}
  <2>1. m = l
    BY <1>2 DEF WithDirectory
  <2>2. Grown(l, l)
    BY <1>1 DEF Grown, GrownRows
  <2> QED
    BY <1>1, <1>2, <2>1, <2>2 DEF RepositoryInv, RowsCount
<1>3. CASE FindDirectory(l.dirs, DirOf[f]) = {}
  <2> DEFINE row == [id |-> l.dirIDs, path |-> DirOf[f], count |-> 0,
                     selected |-> TRUE, removed |-> FALSE, full |-> FALSE]
             es == Append(l.dirs, row)
  <2>1. \A i \in 1..Len(l.dirs) : l.dirs[i].path # DirOf[f]
    BY <1>1, <1>3
  <2>2. row \in DirectoryT /\ row.id = l.dirIDs /\ row.path = DirOf[f] /\ row.count = 0 /\ row.selected
    BY <1>1 DEF DirectoryT, Paths
  <2>3. m = LibraryOf(l.list, es, l.filesSet, l.watched, l.ids, l.dirIDs + 1, l.broken)
    BY <1>3 DEF WithDirectory, LibraryOf, Library
  <2> HIDE DEF row
  <2>4. /\ es \in Seq(DirectoryT) /\ Len(es) = Len(l.dirs) + 1
        /\ es[Len(l.dirs) + 1] = row
        /\ \A i \in 1..Len(l.dirs) : es[i] = l.dirs[i]
    BY <1>1, <2>2
  <2> HIDE DEF es
  <2>5. /\ m \in Library /\ m.list = l.list /\ m.dirs = es /\ m.filesSet = l.filesSet
        /\ m.watched = l.watched /\ m.ids = l.ids /\ m.dirIDs = l.dirIDs + 1 /\ m.broken = l.broken
    <3>1. /\ l.list \in Seq(ArtworkT) /\ l.filesSet \in SUBSET Files /\ l.watched \in SUBSET Files
          /\ l.ids \in Nat /\ l.dirIDs + 1 \in Nat /\ l.broken \in SUBSET {"removeFile", "restoreRemoved"}
      BY <1>1, LibraryTypes
    <3> DEFINE d == l.dirIDs + 1
    <3> HIDE DEF d
    <3>2. d \in Nat /\ m = LibraryOf(l.list, es, l.filesSet, l.watched, l.ids, d, l.broken)
      BY <2>3, <3>1 DEF d
    <3>3. IsLibrary(m, l.list, es, l.filesSet, l.watched, l.ids, d, l.broken)
      BY <2>4, <3>1, <3>2, LibraryParts
    <3> QED
      BY <3>3 DEF d, IsLibrary
  <2>6. \A i \in 1..Len(es) : i \in 1..Len(l.dirs) \/ i = Len(l.dirs) + 1
    BY <1>1, <2>4
  <2>7. Len(l.dirs) + 1 \in 1..Len(es) /\ \A i \in 1..Len(l.dirs) : i \in 1..Len(es)
    BY <1>1, <2>4
  <2>8. Grown(l, m)
    <3>1. \A i \in 1..Len(es) : i > Len(l.dirs) => es[i] = row
      BY <1>1, <2>4, <2>6
    <3> QED
      BY <1>1, <2>2, <2>4, <2>5, <3>1 DEF Grown, GrownRows
  <2>9. RowsAreOwn(es, l.dirIDs + 1)
    <3>1. \A i \in 1..Len(l.dirs) : l.dirs[i].id < l.dirIDs
      BY DEF RepositoryInv, RowsAreOwn
    <3>2. ASSUME NEW i \in 1..Len(es) PROVE es[i].id < l.dirIDs + 1
      <4>1. CASE i \in 1..Len(l.dirs)
        BY <1>1, <2>4, <3>1, <4>1
      <4>2. CASE i = Len(l.dirs) + 1
        BY <1>1, <2>2, <2>4, <4>2
      <4> QED
        BY <2>6, <4>1, <4>2
    <3>0. \A i \in 1..Len(l.dirs) : es[i].path # row.path /\ es[i].id # row.id
      BY <1>1, <2>1, <2>2, <2>4, <3>1
    <3>3. ASSUME NEW i \in 1..Len(es), NEW j \in 1..Len(es), es[i].path = es[j].path \/ es[i].id = es[j].id
          PROVE  i = j
      <4>1. CASE i \in 1..Len(l.dirs) /\ j \in 1..Len(l.dirs)
        BY <2>4, <3>3, <4>1 DEF RepositoryInv, RowsAreOwn
      <4>2. CASE i = Len(l.dirs) + 1 /\ j \in 1..Len(l.dirs)
        BY <2>4, <3>0, <3>3, <4>2
      <4>3. CASE i \in 1..Len(l.dirs) /\ j = Len(l.dirs) + 1
        BY <2>4, <3>0, <3>3, <4>3
      <4> QED
        BY <2>6, <4>1, <4>2, <4>3
    <3> QED
      BY <3>2, <3>3 DEF RowsAreOwn
  <2>10. RowsCover(es, l.filesSet)
    BY <2>4, <2>7 DEF RepositoryInv, RowsCover
  <2>11. FilesIn(l.filesSet, DirOf[f]) = {}
    BY <2>1 DEF RepositoryInv, RowsCover, FilesIn
  <2>12. ASSUME NEW i \in 1..Len(es)
         PROVE  /\ es[i].count = Cardinality(FilesIn(l.filesSet, es[i].path))
                /\ es[i].path # DirOf[f] => (es[i].removed <=> es[i].count = 0)
    <3>1. CASE i \in 1..Len(l.dirs)
      BY <2>4, <3>1 DEF RepositoryInv, RowsCount
    <3>2. CASE i = Len(l.dirs) + 1
      <4>1. Cardinality({}) = 0
        BY FS_EmptySet
      <4> QED
        BY <2>2, <2>4, <2>11, <3>2, <4>1
    <3> QED
      BY <2>6, <3>1, <3>2
  <2>13. \E i \in 1..Len(es) : es[i].path = DirOf[f]
    BY <2>2, <2>4, <2>7
  <2> QED
    BY <2>5, <2>8, <2>9, <2>10, <2>12, <2>13
<1> QED
  BY <1>2, <1>3

\* A file that is gone or accounted already is left alone.
LEMMA AccountNothing ==
    ASSUME NEW l, NEW f, f \notin disk \ l.filesSet
    PROVE  AccountFile(l, f).lib = l /\ AccountFile(l, f).flags = {}
BY DEF AccountFile, Unaccounted

\* Any other is accounted in the directory of its path.
LEMMA AccountSomething ==
    ASSUME NEW l \in Library, RepositoryInv(l), NEW f \in Files, f \in disk \ l.filesSet,
           NEW a, a = AccountFile(l, f), NEW y, y = a.lib
    PROVE  /\ y \in Library /\ RepositoryInv(y) /\ Grown(l, y)
           /\ y.list = l.list /\ y.watched = l.watched /\ y.ids = l.ids /\ y.broken = l.broken
           /\ y.filesSet = l.filesSet \cup {f}
           /\ \E j \in 1..Len(y.dirs) : a.dir = y.dirs[j].id /\ y.dirs[j].path = DirOf[f]
           /\ "modified" \in a.flags
<1> DEFINE m == WithDirectory(l, f)
           i == CHOOSE j \in FindDirectory(m.dirs, DirOf[f]) : TRUE
           row == [m.dirs[i] EXCEPT !.count = m.dirs[i].count + 1, !.removed = FALSE]
           es == [m.dirs EXCEPT ![i] = row]
<1>1. /\ m \in Library /\ Grown(l, m)
      /\ m.list = l.list /\ m.filesSet = l.filesSet /\ m.watched = l.watched
      /\ m.ids = l.ids /\ m.broken = l.broken
      /\ RowsAreOwn(m.dirs, m.dirIDs) /\ RowsCover(m.dirs, m.filesSet)
      /\ \A k \in 1..Len(m.dirs) :
            /\ m.dirs[k].count = Cardinality(FilesIn(m.filesSet, m.dirs[k].path))
            /\ m.dirs[k].path # DirOf[f] => (m.dirs[k].removed <=> m.dirs[k].count = 0)
      /\ \E k \in 1..Len(m.dirs) : m.dirs[k].path = DirOf[f]
  BY WithDirectoryGrows
<1>2. m.dirs \in Seq(DirectoryT) /\ Len(m.dirs) \in Nat /\ m.dirIDs \in Nat
  BY <1>1, LibraryTypes
<1>3. i \in 1..Len(m.dirs) /\ m.dirs[i].path = DirOf[f]
  <2>1. FindDirectory(m.dirs, DirOf[f]) = {k \in 1..Len(m.dirs) : m.dirs[k].path = DirOf[f]}
    BY <1>2, FoundByPath
  <2>2. FindDirectory(m.dirs, DirOf[f]) # {}
    BY <1>1, <2>1
  <2> QED
    BY <2>1, <2>2
<1>4. /\ a.lib = [m EXCEPT !.dirs[i].count = @ + 1, !.dirs[i].removed = FALSE,
                          !.filesSet = @ \cup {f}]
      /\ a.dir = m.dirs[i].id
      /\ "modified" \in a.flags
  BY DEF AccountFile, Unaccounted
<1>5. y = LibraryOf(m.list, es, m.filesSet \cup {f}, m.watched, m.ids, m.dirIDs, m.broken)
  <2> HIDE DEF m, i
  <2> DEFINE z == [m EXCEPT !.dirs[i].count = @ + 1, !.dirs[i].removed = FALSE,
                            !.filesSet = @ \cup {f}]
  <2>1. z.dirs = es
    BY <1>1, <1>3 DEF Library
  <2>2. z.filesSet = m.filesSet \cup {f}
    BY <1>1, <1>3 DEF Library
  <2>3. /\ z.list = m.list /\ z.watched = m.watched /\ z.ids = m.ids /\ z.dirIDs = m.dirIDs
        /\ z.broken = m.broken
    BY <1>1, <1>3 DEF Library
  <2>4. DOMAIN z = DOMAIN m /\ z = [x \in DOMAIN m |-> z[x]]
    OBVIOUS
  <2>5. DOMAIN m = {"list", "dirs", "filesSet", "watched", "ids", "dirIDs", "broken"}
    BY <1>1 DEF Library
  <2>6. y = z
    BY <1>4
  <2> HIDE DEF z, es
  <2>7. z = LibraryOf(m.list, es, m.filesSet \cup {f}, m.watched, m.ids, m.dirIDs, m.broken)
    BY <2>1, <2>2, <2>3, <2>4, <2>5 DEF LibraryOf
  <2> QED
    BY <2>6, <2>7
<1> HIDE DEF m, i
<1>6. /\ row \in DirectoryT /\ row.id = m.dirs[i].id /\ row.path = m.dirs[i].path
      /\ row.count = m.dirs[i].count + 1 /\ (row.selected <=> m.dirs[i].selected) /\ ~row.removed
  <2>1. m.dirs[i] \in DirectoryT /\ m.dirs[i].count + 1 \in Nat
    BY <1>2, <1>3, RowTypes
  <2> DEFINE no == FALSE
             more == m.dirs[i].count + 1
  <2>2. no \in BOOLEAN /\ more \in Nat /\ row = [m.dirs[i] EXCEPT !.count = more, !.removed = no]
    BY <2>1
  <2> HIDE DEF no, more, row
  <2>3. /\ row \in DirectoryT /\ row.id = m.dirs[i].id /\ row.path = m.dirs[i].path
        /\ row.count = more /\ (row.selected <=> m.dirs[i].selected) /\ (row.removed <=> no)
    BY <2>1, <2>2 DEF DirectoryT
  <2> QED
    BY <2>3 DEF no, more
<1> HIDE DEF row
<1>7. /\ es \in Seq(DirectoryT) /\ Len(es) = Len(m.dirs) /\ es[i] = row
      /\ \A k \in 1..Len(m.dirs) : k # i => es[k] = m.dirs[k]
  BY <1>2, <1>3, <1>6
<1> HIDE DEF es
<1>8. IsLibrary(y, m.list, es, m.filesSet \cup {f}, m.watched, m.ids, m.dirIDs, m.broken)
  <2>1. m.filesSet \cup {f} \in SUBSET Files
    BY <1>1, LibraryTypes
  <2> DEFINE files == m.filesSet \cup {f}
  <2> HIDE DEF files
  <2>2. /\ files \in SUBSET Files
        /\ y = LibraryOf(m.list, es, files, m.watched, m.ids, m.dirIDs, m.broken)
    BY <1>5, <2>1 DEF files
  <2>3. IsLibrary(y, m.list, es, files, m.watched, m.ids, m.dirIDs, m.broken)
    BY <1>1, <1>2, <1>7, <2>2, LibraryTypes, LibraryParts
  <2> QED
    BY <2>3 DEF files
<1>9. /\ y \in Library /\ y.list = l.list /\ y.dirs = es /\ y.filesSet = l.filesSet \cup {f}
      /\ y.watched = l.watched /\ y.ids = l.ids /\ y.dirIDs = m.dirIDs /\ y.broken = l.broken
  BY <1>1, <1>8 DEF IsLibrary
<1>10. \A k \in 1..Len(es) : es[k].id = m.dirs[k].id /\ es[k].path = m.dirs[k].path
                             /\ (es[k].selected <=> m.dirs[k].selected)
  BY <1>6, <1>7
<1>11. Grown(l, y)
  <2>1. m.dirIDs >= l.dirIDs /\ GrownRows(l.dirs, l.dirIDs, m.dirs)
    BY <1>1 DEF Grown
  <2>2. Len(es) = Len(m.dirs) /\ Len(es) >= Len(l.dirs) /\ Len(l.dirs) \in Nat
    BY <1>2, <1>7, <2>1, LibraryTypes, RowTypes DEF GrownRows
  <2>3. \A k \in 1..Len(l.dirs) : es[k].id = l.dirs[k].id /\ es[k].path = l.dirs[k].path
                                 /\ (l.dirs[k].selected => es[k].selected)
    <3> SUFFICES ASSUME NEW k \in 1..Len(l.dirs)
                 PROVE  /\ es[k].id = l.dirs[k].id /\ es[k].path = l.dirs[k].path
                        /\ l.dirs[k].selected => es[k].selected
      OBVIOUS
    <3>1. k \in 1..Len(es)
      BY <1>2, <2>2
    <3> QED
      BY <1>10, <2>1, <3>1 DEF GrownRows
  <2>4. \A k \in 1..Len(es) : k > Len(l.dirs) => es[k].id >= l.dirIDs /\ es[k].selected
    BY <1>10, <2>1, <2>2 DEF GrownRows
  <2>5. GrownRows(l.dirs, l.dirIDs, es)
    <3>1. Len(es) >= Len(l.dirs)
      BY <2>2
    <3> QED
      BY <3>1, <2>3, <2>4 DEF GrownRows
  <2> QED
    BY <1>9, <2>1, <2>5 DEF Grown
<1>12. RowsAreOwn(es, m.dirIDs)
  BY <1>1, <1>7, <1>10 DEF RowsAreOwn
<1>13. RowsCover(es, l.filesSet \cup {f})
  BY <1>1, <1>3, <1>7, <1>10 DEF RowsCover
<1>14. RowsCount(es, l.filesSet \cup {f})
  <2> SUFFICES ASSUME NEW k \in 1..Len(es)
               PROVE  /\ es[k].count = Cardinality(FilesIn(l.filesSet \cup {f}, es[k].path))
                      /\ es[k].removed <=> es[k].count = 0
    BY DEF RowsCount
  <2>1. /\ l.filesSet \in SUBSET Files /\ f \notin l.filesSet
        /\ Cardinality(FilesIn(l.filesSet, es[k].path)) \in Nat
    BY LibraryTypes, FilesAreFinite
  <2>2. Cardinality(FilesIn(l.filesSet \cup {f}, es[k].path)) =
          Cardinality(FilesIn(l.filesSet, es[k].path)) + IF es[k].path = DirOf[f] THEN 1 ELSE 0
    BY <2>1, CountMore
  <2>3. m.dirs[k].count = Cardinality(FilesIn(l.filesSet, es[k].path))
    BY <1>1, <1>7, <1>10
  <2>4. CASE k = i
    <3>1. es[k].path = DirOf[f] /\ es[k].count = m.dirs[k].count + 1 /\ ~es[k].removed
      BY <1>3, <1>6, <1>7, <2>4
    <3> QED
      BY <2>1, <2>2, <2>3, <3>1
  <2>5. CASE k # i
    <3>1. es[k] = m.dirs[k] /\ es[k].path # DirOf[f]
      BY <1>1, <1>3, <1>7, <1>10, <2>5 DEF RowsAreOwn
    <3>2. es[k].removed <=> es[k].count = 0
      BY <1>1, <1>7, <3>1
    <3> QED
      BY <2>1, <2>2, <2>3, <3>1, <3>2
  <2> QED
    BY <2>4, <2>5
<1>15. ArtworksAreAt(l.list, es, m.dirIDs)
  BY <1>9, <1>11, GrownArtworks
<1>16. RepositoryInv(y)
  BY <1>9, <1>12, <1>13, <1>14, <1>15 DEF RepositoryInv
<1>17. \E j \in 1..Len(y.dirs) : a.dir = y.dirs[j].id /\ y.dirs[j].path = DirOf[f]
  BY <1>3, <1>4, <1>7, <1>9, <1>10
<1> QED
  BY <1>4, <1>9, <1>11, <1>16, <1>17

\* Files are taken out; the entries and the artworks stay.
TakenOut(x, y) ==
    /\ y \in Library /\ RepositoryInv(y)
    /\ y.list = x.list /\ y.ids = x.ids /\ y.dirIDs = x.dirIDs
    /\ KeptRows(x.dirs, y.dirs) /\ \A i \in 1..Len(x.dirs) : y.dirs[i].selected <=> x.dirs[i].selected
    /\ y.filesSet \subseteq x.filesSet

LEMMA TakenOutCompose ==
    ASSUME NEW x, NEW y, NEW z, TakenOut(x, y), TakenOut(y, z)
    PROVE  TakenOut(x, z)
BY DEF TakenOut, KeptRows

LEMMA UncountedParts ==
    ASSUME NEW x \in Library, NEW i \in 1..Len(x.dirs), NEW f, x.dirs[i].count > 0, ~x.dirs[i].removed,
           NEW y, y = Uncounted(x, i, f)
    PROVE  /\ y \in Library
           /\ y.list = x.list /\ y.ids = x.ids /\ y.dirIDs = x.dirIDs /\ y.filesSet = x.filesSet \ {f}
           /\ Len(y.dirs) = Len(x.dirs)
           /\ \A k \in 1..Len(x.dirs) : k # i => y.dirs[k] = x.dirs[k]
           /\ y.dirs[i].id = x.dirs[i].id /\ y.dirs[i].path = x.dirs[i].path
           /\ y.dirs[i].count = x.dirs[i].count - 1
           /\ (y.dirs[i].selected <=> x.dirs[i].selected)
           /\ (y.dirs[i].removed <=> y.dirs[i].count = 0)
<1> DEFINE less == x.dirs[i].count - 1
           flag == x.dirs[i].count = 1 \/ x.dirs[i].removed
           fs == x.filesSet \ {f}
           ws == x.watched \ {f}
           row == [x.dirs[i] EXCEPT !.count = less, !.removed = flag]
           es == [x.dirs EXCEPT ![i] = row]
<1>0. /\ x.dirs \in Seq(DirectoryT) /\ x.dirs[i] \in DirectoryT /\ x.dirs[i].count \in Nat
      /\ x.filesSet \in SUBSET Files /\ x.watched \in SUBSET Files /\ x.list \in Seq(ArtworkT)
      /\ x.ids \in Nat /\ x.dirIDs \in Nat /\ x.broken \in SUBSET {"removeFile", "restoreRemoved"}
      /\ i \in 1..Len(x.dirs)
  BY LibraryTypes, RowTypes
<1>1. y = [x EXCEPT !.dirs[i] = row, !.filesSet = fs, !.watched = ws]
  BY DEF Uncounted
<1>2. DOMAIN x = {"list", "dirs", "filesSet", "watched", "ids", "dirIDs", "broken"}
  BY DEF Library
<1>3. flag \in BOOLEAN /\ less \in Nat /\ (flag <=> less = 0)
  BY <1>0
<1>4. fs \in SUBSET Files /\ ws \in SUBSET Files
  BY <1>0
<1>9. /\ row \in DirectoryT /\ row.id = x.dirs[i].id /\ row.path = x.dirs[i].path
      /\ row.count = less /\ (row.selected <=> x.dirs[i].selected) /\ (row.removed <=> flag)
  BY <1>0, <1>3 DEF DirectoryT
<1> HIDE DEF less, flag, fs, ws, row
<1>5. DOMAIN y = DOMAIN x
  BY <1>1
<1>6. y = [k \in DOMAIN x |-> y[k]]
  BY <1>1
<1>7. y.dirs = es
  BY <1>1, <1>2
<1>8. /\ y.filesSet = fs /\ y.watched = ws
      /\ y.list = x.list /\ y.ids = x.ids /\ y.dirIDs = x.dirIDs /\ y.broken = x.broken
  BY <1>1, <1>2
<1>10. /\ es \in Seq(DirectoryT) /\ Len(es) = Len(x.dirs) /\ es[i] = row
       /\ \A k \in 1..Len(x.dirs) : k # i => es[k] = x.dirs[k]
  BY <1>0, <1>9
<1> HIDE DEF es
<1>11. y \in Library
  BY <1>0, <1>2, <1>4, <1>5, <1>6, <1>7, <1>8, <1>10 DEF Library
<1>12. /\ y.dirs[i].id = x.dirs[i].id /\ y.dirs[i].path = x.dirs[i].path
       /\ y.dirs[i].count = x.dirs[i].count - 1
       /\ (y.dirs[i].selected <=> x.dirs[i].selected)
       /\ (y.dirs[i].removed <=> y.dirs[i].count = 0)
  BY <1>3, <1>7, <1>9, <1>10 DEF less
<1> QED
  BY <1>7, <1>8, <1>10, <1>11, <1>12 DEF fs

LEMMA RemoveFileTakesOut ==
    ASSUME NEW x \in Library, RepositoryInv(x), NEW n \in 1..Len(x.list),
           NEW r \in [lib : Library, full : SUBSET Nat], r.lib = x,
           NEW q, q = RemoveFile(r, x.list[n])
    PROVE  /\ TakenOut(x, q.lib) /\ q \in [lib : Library, full : SUBSET Nat]
           /\ HasDirectory(x.list[n], x.dirs) => x.list[n].file \notin q.lib.filesSet
<1> DEFINE a == x.list[n]
           found == FindDirectoryByID(x.dirs, a.dir)
<1>1. /\ x.dirs \in Seq(DirectoryT) /\ Len(x.dirs) \in Nat /\ a.file \in Files /\ a.dir \in Nat
      /\ x.filesSet \in SUBSET Files /\ x.watched \in SUBSET Files /\ x.list \in Seq(ArtworkT)
      /\ x.ids \in Nat /\ x.dirIDs \in Nat /\ x.broken \in SUBSET {"removeFile", "restoreRemoved"}
  BY LibraryTypes, ArtworkTypes
<1>2. found = {j \in 1..Len(x.dirs) : x.dirs[j].id = a.dir}
  BY <1>1 DEF FindDirectoryByID
<1>3. HasDirectory(a, x.dirs) <=> found # {}
  BY <1>2 DEF HasDirectory
<1>4. TakenOut(x, x)
  BY DEF TakenOut, KeptRows
<1>5. CASE a.file \notin x.filesSet
  <2>1. q = r
    BY <1>5 DEF RemoveFile
  <2> QED
    BY <1>4, <1>5, <2>1
<1>6. CASE a.file \in x.filesSet /\ found = {}
  <2> DEFINE y == [x EXCEPT !.broken = x.broken \cup {"removeFile"}]
  <2>1. q = [r EXCEPT !.lib.broken = @ \cup {"removeFile"}]
    BY <1>6 DEF RemoveFile
  <2>2. q = [lib |-> y, full |-> r.full]
    BY <2>1
  <2>3. /\ y \in Library /\ y.dirs = x.dirs /\ y.list = x.list /\ y.filesSet = x.filesSet
        /\ y.ids = x.ids /\ y.dirIDs = x.dirIDs
    BY <1>1 DEF Library
  <2> HIDE DEF y
  <2>4. q.lib = y /\ q \in [lib : Library, full : SUBSET Nat]
    BY <2>2, <2>3
  <2>5. RepositoryInv(y)
    BY <2>3 DEF RepositoryInv
  <2>6. TakenOut(x, y)
    BY <2>3, <2>5 DEF TakenOut, KeptRows
  <2> QED
    BY <1>3, <1>6, <2>4, <2>6
<1>7. CASE a.file \in x.filesSet /\ found # {}
  <2> DEFINE i == CHOOSE j \in found : TRUE
             f == a.file
             z == Uncounted(x, i, f)
             es == z.dirs
             fs == x.filesSet \ {f}
             full == r.full \cup IF x.dirs[i].count = 1 /\ x.dirs[i].full THEN {a.dir} ELSE {}
  <2>1. i \in 1..Len(x.dirs) /\ x.dirs[i].id = a.dir
    BY <1>2, <1>7
  <2>2. q = [lib |-> z, full |-> full]
    BY <1>7 DEF RemoveFile
  <2>3. q.lib = z /\ q.full = full /\ full \in SUBSET Nat
    <3>1. full \in SUBSET Nat
      BY <1>1
    <3> HIDE DEF z, full
    <3> QED
      BY <2>2, <3>1
  <2>5. x.dirs[i].path = DirOf[f]
    BY <2>1 DEF RepositoryInv, ArtworksAreAt
  <2>6. f \in Files /\ f \in x.filesSet
    BY <1>1, <1>7
  <2> HIDE DEF i, f, full
  <2>7. x.dirs[i].count > 0 /\ ~x.dirs[i].removed
    <3>1. x.dirs[i].count = Cardinality(FilesIn(x.filesSet, x.dirs[i].path))
      BY <2>1 DEF RepositoryInv, RowsCount
    <3>2. Cardinality(FilesIn(fs, x.dirs[i].path)) = Cardinality(FilesIn(x.filesSet, x.dirs[i].path)) - 1
      BY <1>1, <2>5, <2>6, CountLess
    <3>3. fs \in SUBSET Files
      BY <1>1
    <3>4. Cardinality(FilesIn(fs, x.dirs[i].path)) \in Nat
      BY <3>3, FilesAreFinite
    <3>5. x.dirs[i].count \in Nat
      BY <1>1, <2>1, RowTypes
    <3>6. x.dirs[i].count > 0
      BY <3>1, <3>2, <3>4, <3>5
    <3> QED
      BY <2>1, <3>6 DEF RepositoryInv, RowsCount
  <2>11. /\ z \in Library
         /\ z.list = x.list /\ z.ids = x.ids /\ z.dirIDs = x.dirIDs /\ z.filesSet = fs
         /\ Len(es) = Len(x.dirs)
         /\ \A k \in 1..Len(x.dirs) : k # i => es[k] = x.dirs[k]
         /\ es[i].id = x.dirs[i].id /\ es[i].path = x.dirs[i].path
         /\ es[i].count = x.dirs[i].count - 1
         /\ (es[i].selected <=> x.dirs[i].selected)
         /\ (es[i].removed <=> es[i].count = 0)
    BY <2>1, <2>7, UncountedParts
  <2> HIDE DEF z
  <2>10. f \notin fs /\ fs \subseteq x.filesSet
    OBVIOUS
  <2>12. \A k \in 1..Len(es) : es[k].id = x.dirs[k].id /\ es[k].path = x.dirs[k].path
                               /\ (es[k].selected <=> x.dirs[k].selected)
    BY <2>11
  <2>13. RowsAreOwn(es, x.dirIDs)
    BY <2>11, <2>12 DEF RepositoryInv, RowsAreOwn
  <2>14. RowsCover(es, fs)
    BY <2>11, <2>10, <2>12 DEF RepositoryInv, RowsCover
  <2>15. RowsCount(es, fs)
    <3> SUFFICES ASSUME NEW k \in 1..Len(es)
                 PROVE  /\ es[k].count = Cardinality(FilesIn(fs, es[k].path))
                        /\ es[k].removed <=> es[k].count = 0
      BY DEF RowsCount
    <3>1. Cardinality(FilesIn(fs, es[k].path)) =
            Cardinality(FilesIn(x.filesSet, es[k].path)) - IF es[k].path = DirOf[f] THEN 1 ELSE 0
      BY <1>1, <2>6, CountLess
    <3>2. /\ x.dirs[k].count = Cardinality(FilesIn(x.filesSet, es[k].path))
          /\ (x.dirs[k].removed <=> x.dirs[k].count = 0)
      BY <2>11, <2>12 DEF RepositoryInv, RowsCount
    <3>3. Cardinality(FilesIn(x.filesSet, es[k].path)) \in Nat
      BY <1>1, FilesAreFinite
    <3> HIDE DEF fs
    <3>4. CASE k = i
      BY <2>5, <2>11, <3>1, <3>2, <3>4
    <3>5. CASE k # i
      <4>1. es[k] = x.dirs[k]
        BY <2>11, <3>5
      <4>2. es[k].path # DirOf[f]
        BY <2>1, <2>5, <2>11, <3>5, <4>1 DEF RepositoryInv, RowsAreOwn
      <4> QED
        BY <3>1, <3>2, <3>3, <4>1, <4>2
    <3> QED
      BY <3>4, <3>5
  <2>16. ArtworksAreAt(x.list, es, x.dirIDs)
    BY <2>11, <2>12 DEF RepositoryInv, ArtworksAreAt
  <2>17. RepositoryInv(z)
    BY <2>11, <2>13, <2>14, <2>15, <2>16 DEF RepositoryInv
  <2>18. TakenOut(x, z)
    BY <2>11, <2>10, <2>12, <2>17 DEF TakenOut, KeptRows
  <2>19. q \in [lib : Library, full : SUBSET Nat]
    BY <2>2, <2>3, <2>11
  <2>20. a.file \notin z.filesSet
    BY <2>10, <2>11 DEF f
  <2> QED
    BY <2>3, <2>18, <2>19, <2>20
<1> QED
  BY <1>5, <1>6, <1>7

-----------------------------------------------------------------------------
(* removeFiles and deleteItems *)

\* The files of the first i artworks that are flagged are out.
TookOut(l, i, m) ==
    \A k \in 1..i : l.list[k].removed /\ HasDirectory(l.list[k], l.dirs) => l.list[k].file \notin m.filesSet

LEMMA RemovingFlaggedTakesOut ==
    ASSUME NEW l \in Library, RepositoryInv(l), NEW r, r = RemovingFlagged(l)[Len(l.list)]
    PROVE  /\ r \in [lib : Library, full : SUBSET Nat]
           /\ TakenOut(l, r.lib) /\ TookOut(l, Len(l.list), r.lib)
<1> DEFINE n == Len(l.list)
           R == [lib : Library, full : SUBSET Nat]
           S == [i \in 0..n |-> {x \in R : TakenOut(l, x.lib) /\ TookOut(l, i, x.lib)}]
           start == [lib |-> l, full |-> {}]
<1>1. n \in Nat
  BY LibraryTypes, ArtworkTypes
<1>2. start \in S[0]
  <2>1. start \in R /\ start.lib = l
    OBVIOUS
  <2>2. TakenOut(l, l) /\ TookOut(l, 0, l)
    BY DEF TakenOut, KeptRows, TookOut
  <2> QED
    BY <1>1, <2>1, <2>2
<1>3. ASSUME NEW i \in 1..n, NEW x \in S[i - 1]
      PROVE  (IF l.list[i].removed THEN RemoveFile(x, l.list[i]) ELSE x) \in S[i]
  <2>1. x \in R /\ TakenOut(l, x.lib) /\ TookOut(l, i - 1, x.lib)
    BY <1>1, <1>3
  <2>2. \A k \in 1..i : k = i \/ k \in 1..(i - 1)
    BY <1>1
  <2> DEFINE y == IF l.list[i].removed THEN RemoveFile(x, l.list[i]) ELSE x
             m == x.lib
  <2>3. CASE l.list[i].removed
    <3>1. m \in Library /\ RepositoryInv(m) /\ m.list = l.list /\ i \in 1..Len(m.list)
      BY <2>1 DEF TakenOut
    <3>2. y = RemoveFile(x, m.list[i])
      BY <2>3, <3>1
    <3> HIDE DEF y, m
    <3>3. x.lib = m
      BY DEF m
    <3>4. /\ TakenOut(m, y.lib) /\ y \in R
          /\ HasDirectory(m.list[i], m.dirs) => m.list[i].file \notin y.lib.filesSet
      BY <2>1, <3>1, <3>2, <3>3, RemoveFileTakesOut
    <3>5. TakenOut(l, y.lib)
      BY <2>1, <3>3, <3>4, TakenOutCompose
    <3>6. HasDirectory(l.list[i], l.dirs) => HasDirectory(m.list[i], m.dirs)
      BY <2>1, <3>1, <3>3 DEF TakenOut, KeptRows, HasDirectory
    <3>7. y.lib.filesSet \subseteq m.filesSet
      BY <3>4 DEF TakenOut
    <3>8. TookOut(l, i, y.lib)
      BY <2>1, <2>2, <3>1, <3>3, <3>4, <3>6, <3>7 DEF TookOut
    <3>9. y \in S[i]
      BY <1>1, <3>4, <3>5, <3>8
    <3> QED
      BY <3>9 DEF y
  <2>4. CASE ~l.list[i].removed
    <3>1. y = x /\ TookOut(l, i, x.lib)
      BY <2>1, <2>2, <2>4 DEF TookOut
    <3> QED
      BY <1>1, <2>1, <3>1
  <2> QED
    BY <2>3, <2>4
<1> HIDE DEF S
<1>4. \A i \in 0..n : RemovingFlagged(l)[i] \in S[i]
  BY <1>1, <1>2, <1>3, RemovingFlaggedRuns
<1>5. r \in S[n]
  BY <1>1, <1>4
<1> QED
  BY <1>1, <1>5 DEF S

\* The artworks of l, with the given ones flagged.
FlaggedToo(l, indices, m) ==
    /\ SameArtworks(l.list, m.list)
    /\ \A i \in 1..Len(l.list) : /\ m.list[i].removed <=> l.list[i].removed \/ i \in indices
                                 /\ m.list[i].unavailable <=> l.list[i].unavailable

LEMMA FlaggedParts ==
    ASSUME NEW l \in Library, NEW indices, NEW m, m = Flagged(l, indices)
    PROVE  /\ m \in Library /\ FlaggedToo(l, indices, m)
           /\ m.dirs = l.dirs /\ m.filesSet = l.filesSet /\ m.ids = l.ids /\ m.dirIDs = l.dirIDs
<1> DEFINE Flag(i) == l.list[i].removed \/ i \in indices
           f == [i \in 1..Len(l.list) |-> [l.list[i] EXCEPT !.removed = Flag(i)]]
<1>1. /\ l.list \in Seq(ArtworkT) /\ Len(l.list) \in Nat /\ DOMAIN l.list = 1..Len(l.list)
      /\ \A i \in 1..Len(l.list) : l.list[i] \in ArtworkT /\ l.list[i].removed \in BOOLEAN
  BY LibraryTypes, ArtworkTypes
<1>2. ASSUME NEW i \in 1..Len(l.list)
      PROVE  /\ f[i] \in ArtworkT /\ SameArtwork(l.list[i], f[i])
             /\ (f[i].removed <=> Flag(i))
             /\ (f[i].unavailable <=> l.list[i].unavailable)
  <2> DEFINE a == l.list[i]
             value == Flag(i)
  <2>1. value \in BOOLEAN /\ a \in ArtworkT
    BY <1>1
  <2>2. f[i] = [a EXCEPT !.removed = value]
    OBVIOUS
  <2> HIDE DEF f, Flag, a, value
  <2>3. /\ f[i] \in ArtworkT /\ SameArtwork(a, f[i])
        /\ (f[i].removed <=> value) /\ (f[i].unavailable <=> a.unavailable)
    BY <2>1, <2>2 DEF ArtworkT, SameArtwork
  <2> QED
    BY <2>3 DEF a, value
<1>3. PICK list : list = [i \in 1..Len(l.list) |-> f[i]]
  OBVIOUS
<1>4. m = [l EXCEPT !.list = list]
  BY <1>1, <1>3 DEF Flagged
<1> HIDE DEF f
<1>5. list \in Seq(ArtworkT) /\ Len(list) = Len(l.list) /\ \A i \in 1..Len(l.list) : list[i] = f[i]
  BY <1>1, <1>2, <1>3, ArtworksOf
<1>6. /\ m \in Library /\ m.list = list /\ m.dirs = l.dirs /\ m.filesSet = l.filesSet
      /\ m.ids = l.ids /\ m.dirIDs = l.dirIDs
  BY <1>4, <1>5, WithList
<1> QED
  BY <1>2, <1>5, <1>6 DEF FlaggedToo, SameArtworks

\* No flagged artwork has its file accounted, unless its directory is gone.
Settled(l) ==
    \A i \in 1..Len(l.list) :
        l.list[i].removed /\ HasDirectory(l.list[i], l.dirs) => l.list[i].file \notin l.filesSet

\* What removeFiles leaves: every flagged artwork is out of the repository, and what
\* it unselects are directories of the list.
LEMMA RemovedFilesParts ==
    ASSUME NEW l \in Library, RepositoryInv(l), NEW indices, indices # {},
           NEW r, r = RemovedFiles(l, indices), NEW m, m = r.lib
    PROVE  /\ m \in Library /\ RepositoryInv(m) /\ Settled(m) /\ FlaggedToo(l, indices, m)
           /\ m.ids = l.ids /\ m.dirIDs = l.dirIDs /\ KeptRows(l.dirs, m.dirs)
           /\ SelectionInv(l) => SelectionInv(m)
           /\ r.full \in SUBSET Nat /\ r.selected \in SUBSET Nat /\ r.unselectAll \in BOOLEAN
           /\ \A x \in r.selected : \E k \in 1..Len(m.dirs) : m.dirs[k].id = x
           /\ r.unselectAll => r.selected # {}
<1> DEFINE flagged == Flagged(l, indices)
           q == RemovingFlagged(flagged)[Len(flagged.list)]
           before == q.lib.dirs
           c == ConsolidateSelectionForEmpty(before)
           taken == q.lib
           unselectAll == Cardinality(SelectedDirs(c.dirs)) + Cardinality(c.ids) # Cardinality(SelectedDirs(before))
<1>1. /\ r = [lib |-> [taken EXCEPT !.dirs = c.dirs], full |-> q.full, selected |-> c.ids,
              unselectAll |-> unselectAll]
      /\ unselectAll \in BOOLEAN
  BY DEF RemovedFiles
<1>2. /\ flagged \in Library /\ FlaggedToo(l, indices, flagged)
      /\ flagged.dirs = l.dirs /\ flagged.filesSet = l.filesSet
      /\ flagged.ids = l.ids /\ flagged.dirIDs = l.dirIDs
  BY FlaggedParts
<1> HIDE DEF flagged
<1>3. RepositoryInv(flagged)
  BY <1>2, InvCarries DEF SameRows, KeptRows, FlaggedToo
<1>4. /\ q \in [lib : Library, full : SUBSET Nat]
      /\ TakenOut(flagged, taken) /\ TookOut(flagged, Len(flagged.list), taken)
  BY <1>2, <1>3, RemovingFlaggedTakesOut
<1> HIDE DEF q
<1>5. taken \in Library /\ q.full \in SUBSET Nat /\ RepositoryInv(taken) /\ before \in Seq(DirectoryT)
  BY <1>4, LibraryTypes DEF TakenOut
<1>6. Consolidated(before, c)
  BY <1>5, ConsolidateRows
<1> HIDE DEF c
<1>7. c.dirs \in Seq(DirectoryT) /\ SameRows(before, c.dirs) /\ c.ids \in SUBSET Nat
  BY <1>6 DEF Consolidated
<1>8. /\ r.full = q.full /\ r.selected = c.ids /\ (r.unselectAll <=> unselectAll)
      /\ r.unselectAll \in BOOLEAN /\ m = [taken EXCEPT !.dirs = c.dirs]
  <2> DEFINE rest == [taken EXCEPT !.dirs = c.dirs]
             full == q.full
             ids == c.ids
  <2> HIDE DEF unselectAll, rest, full, ids
  <2>1. r = [lib |-> rest, full |-> full, selected |-> ids, unselectAll |-> unselectAll]
    BY <1>1 DEF rest, full, ids
  <2>2. r.full = full /\ r.selected = ids /\ r.unselectAll = unselectAll /\ r.lib = rest
    BY <2>1
  <2> QED
    BY <1>1, <2>2 DEF rest, full, ids
<1>9. m = [taken EXCEPT !.dirs = c.dirs]
  BY <1>8
<1> HIDE DEF taken
<1>10. /\ m \in Library /\ m.dirs = c.dirs
       /\ m.list = taken.list /\ m.filesSet = taken.filesSet
       /\ m.ids = taken.ids /\ m.dirIDs = taken.dirIDs
  BY <1>5, <1>7, <1>9, WithDirs
<1>11. /\ taken.list = flagged.list /\ taken.ids = l.ids /\ taken.dirIDs = l.dirIDs
       /\ KeptRows(l.dirs, taken.dirs)
       /\ \A i \in 1..Len(l.dirs) : taken.dirs[i].selected <=> l.dirs[i].selected
  BY <1>2, <1>4 DEF TakenOut, taken
<1>12. RepositoryInv(m)
  <2>1. SameRows(taken.dirs, m.dirs)
    BY <1>7, <1>10 DEF taken
  <2>2. SameArtworks(taken.list, m.list)
    BY <1>10 DEF SameArtworks, SameArtwork
  <2> QED
    BY <1>5, <1>10, <2>1, <2>2, InvCarries
<1>13. KeptRows(l.dirs, m.dirs)
  BY <1>7, <1>10, <1>11 DEF SameRows, KeptRows, taken
<1>14. FlaggedToo(l, indices, m)
  BY <1>2, <1>10, <1>11 DEF FlaggedToo
<1>15. Settled(m)
  <2> SUFFICES ASSUME NEW i \in 1..Len(m.list), m.list[i].removed, HasDirectory(m.list[i], m.dirs)
               PROVE  m.list[i].file \notin m.filesSet
    BY DEF Settled
  <2>1. m.list = flagged.list
    BY <1>10, <1>11
  <2>2. HasDirectory(flagged.list[i], flagged.dirs)
    BY <1>2, <1>13, <2>1 DEF HasDirectory, KeptRows
  <2>3. flagged.list[i].file \notin taken.filesSet
    BY <1>4, <2>1, <2>2 DEF TookOut, taken
  <2> QED
    BY <1>10, <2>1, <2>3
<1>16. ASSUME SelectionInv(l) PROVE SelectionInv(m)
  <2>1. Len(m.dirs) # 0 => SomeSelected(before)
    BY <1>11, <1>13, <1>16 DEF SelectionInv, SomeSelected, KeptRows, taken
  <2> QED
    BY <1>6, <1>10, <2>1 DEF SelectionInv, Consolidated
<1>17. \A x \in c.ids : \E k \in 1..Len(m.dirs) : m.dirs[k].id = x
  BY <1>6, <1>7, <1>10 DEF Consolidated, SameRows, KeptRows
<1>18. ASSUME c.ids = {} PROVE ~unselectAll
  <2>1. c.dirs = before
    BY <1>6, <1>18 DEF Consolidated
  <2>2. Cardinality(c.ids) = 0
    BY <1>18, FS_EmptySet
  <2>3. Cardinality(SelectedDirs(before)) \in Nat
    BY <1>5, SelectedCount
  <2> QED
    BY <2>1, <2>2, <2>3
<1> HIDE DEF unselectAll
<1> QED
  BY <1>5, <1>7, <1>8, <1>10, <1>11, <1>12, <1>13, <1>14, <1>15, <1>16, <1>17, <1>18

LEMMA SettledIsStale ==
    ASSUME NEW l, Settled(l)
    PROVE  StaleInv(l)
BY DEF Settled, StaleInv

\* deleteItems: the artworks at the indices go, and nothing else changes.
LEMMA DeleteItemsParts ==
    ASSUME NEW l \in Library, RepositoryInv(l), NEW indices, NEW m, m = DeleteItems(l, indices)
    PROVE  /\ m \in Library /\ RepositoryInv(m)
           /\ m.dirs = l.dirs /\ m.filesSet = l.filesSet /\ m.ids = l.ids /\ m.dirIDs = l.dirIDs
           /\ \A j \in 1..Len(m.list) : \E k \in 1..Len(l.list) : k \notin indices /\ m.list[j] = l.list[k]
<1> DEFINE list == Keeping(l.list, indices)[Len(l.list)]
<1>1. l.list \in Seq(ArtworkT) /\ ArtworksAreOwn(l.list, l.ids)
  BY LibraryTypes DEF RepositoryInv
<1>2. Kept(l.list, indices, Len(l.list), list)
  BY <1>1, KeepingItems
<1>3. m = [l EXCEPT !.list = list]
  BY DEF DeleteItems
<1> HIDE DEF list
<1>4. /\ list \in Seq(ArtworkT)
      /\ \A j \in 1..Len(list) : \E k \in 1..Len(l.list) : k \notin indices /\ list[j] = l.list[k]
      /\ \A j, k \in 1..Len(list) : list[j].id = list[k].id => j = k
  BY <1>2 DEF Kept
<1>5. /\ m \in Library /\ m.list = list
      /\ m.dirs = l.dirs /\ m.filesSet = l.filesSet /\ m.ids = l.ids /\ m.dirIDs = l.dirIDs
  BY <1>3, <1>4, WithList
<1>6. ArtworksAreOwn(list, l.ids)
  BY <1>1, <1>4 DEF ArtworksAreOwn
<1>7. ArtworksAreAt(list, l.dirs, l.dirIDs)
  BY <1>4 DEF RepositoryInv, ArtworksAreAt
<1> QED
  BY <1>4, <1>5, <1>6, <1>7 DEF RepositoryInv

-----------------------------------------------------------------------------
(* addFiles *)

\* Artworks are only appended, live and with identifiers of their own.
Added(l, m) ==
    /\ m \in Library /\ RepositoryInv(m) /\ Grown(l, m)
    /\ m.ids >= l.ids /\ Len(m.list) >= Len(l.list)
    /\ \A i \in 1..Len(l.list) : m.list[i] = l.list[i]
    /\ \A i \in 1..Len(m.list) : i > Len(l.list) => ~m.list[i].removed /\ m.list[i].id >= l.ids
    /\ StaleInv(l) => StaleInv(m)

LEMMA AddedNothing ==
    ASSUME NEW l \in Library, RepositoryInv(l)
    PROVE  Added(l, l)
<1>1. Len(l.dirs) \in Nat /\ Len(l.list) \in Nat /\ l.dirIDs \in Nat /\ l.ids \in Nat
  BY LibraryTypes, RowTypes, ArtworkTypes
<1> QED
  BY <1>1 DEF Added, Grown, GrownRows

LEMMA AddedCompose ==
    ASSUME NEW l \in Library, NEW m \in Library, NEW k \in Library, Added(l, m), Added(m, k)
    PROVE  Added(l, k)
<1>1. /\ Len(l.list) \in Nat /\ Len(m.list) \in Nat /\ Len(k.list) \in Nat
      /\ l.ids \in Nat /\ m.ids \in Nat /\ k.ids \in Nat
  BY LibraryTypes, ArtworkTypes
<1>2. Grown(l, k)
  BY GrownCompose DEF Added
<1>3. k.ids >= l.ids /\ Len(k.list) >= Len(l.list)
  BY <1>1 DEF Added
<1>4. \A i \in 1..Len(l.list) : k.list[i] = l.list[i]
  BY <1>1 DEF Added
<1>5. ASSUME NEW i \in 1..Len(k.list), i > Len(l.list)
      PROVE  ~k.list[i].removed /\ k.list[i].id >= l.ids
  <2>1. CASE i \in 1..Len(m.list)
    BY <1>5, <2>1 DEF Added
  <2>2. CASE i > Len(m.list)
    <3>1. ~k.list[i].removed /\ k.list[i].id >= m.ids
      BY <2>2 DEF Added
    <3>2. m.ids >= l.ids /\ k.list[i].id \in Nat
      BY LibraryTypes, ArtworkTypes DEF Added
    <3> QED
      BY <1>1, <3>1, <3>2
  <2> QED
    BY <1>1, <2>1, <2>2
<1> QED
  BY <1>2, <1>3, <1>4, <1>5 DEF Added

\* addArtworks: a file that is accounted brings a live artwork of its directory.
LEMMA AddFileAdds ==
    ASSUME NEW l \in Library, RepositoryInv(l), NEW f \in Files, NEW m, m = AddFile(l, f)
    PROVE  Added(l, m)
<1> DEFINE a == AccountFile(l, f)
           y == a.lib
           row == [id |-> y.ids, file |-> f, dir |-> a.dir, removed |-> FALSE, unavailable |-> FALSE]
           list == Append(y.list, row)
           watched == y.watched \cup {f}
           ids == y.ids + 1
<1>1. CASE f \notin disk \ l.filesSet
  <2>1. m = l
    BY <1>1, AccountNothing DEF AddFile
  <2> QED
    BY <2>1, AddedNothing
<1>2. CASE f \in disk \ l.filesSet
  <2>1. /\ y \in Library /\ RepositoryInv(y) /\ Grown(l, y)
        /\ y.list = l.list /\ y.watched = l.watched /\ y.ids = l.ids /\ y.broken = l.broken
        /\ y.filesSet = l.filesSet \cup {f}
        /\ \E j \in 1..Len(y.dirs) : a.dir = y.dirs[j].id /\ y.dirs[j].path = DirOf[f]
        /\ "modified" \in a.flags
    BY <1>2, AccountSomething
  <2>2. m = [y EXCEPT !.list = list, !.ids = ids, !.watched = watched]
    BY <2>1 DEF AddFile
  <2>3. PICK j \in 1..Len(y.dirs) : a.dir = y.dirs[j].id /\ y.dirs[j].path = DirOf[f]
    BY <2>1
  <2> HIDE DEF y, a
  <2>4. /\ y.list \in Seq(ArtworkT) /\ Len(y.list) \in Nat /\ y.dirs \in Seq(DirectoryT)
        /\ y.filesSet \in SUBSET Files /\ y.watched \in SUBSET Files /\ y.ids \in Nat
        /\ y.dirIDs \in Nat /\ y.broken \in SUBSET {"removeFile", "restoreRemoved"}
        /\ y.dirs[j].id \in Nat
    BY <2>1, <2>3, LibraryTypes, RowTypes, ArtworkTypes
  <2>5. /\ row \in ArtworkT /\ row.id = y.ids /\ row.file = f /\ row.dir = a.dir /\ ~row.removed
    BY <2>3, <2>4 DEF ArtworkT
  <2>6. ids \in Nat /\ ids = y.ids + 1 /\ watched \in SUBSET Files
    BY <2>4
  <2> HIDE DEF row
  <2>7. /\ list \in Seq(ArtworkT) /\ Len(list) = Len(y.list) + 1 /\ list[Len(y.list) + 1] = row
        /\ \A i \in 1..Len(y.list) : list[i] = y.list[i]
    BY <2>4, <2>5
  <2> HIDE DEF list, ids, watched
  <2>8. m = LibraryOf(list, y.dirs, y.filesSet, watched, ids, y.dirIDs, y.broken)
    BY <2>1, <2>2 DEF LibraryOf, Library
  <2>9. IsLibrary(m, list, y.dirs, y.filesSet, watched, ids, y.dirIDs, y.broken)
    BY <2>4, <2>6, <2>7, <2>8, LibraryParts
  <2>10. /\ m \in Library /\ m.list = list /\ m.dirs = y.dirs /\ m.filesSet = y.filesSet
         /\ m.ids = ids /\ m.dirIDs = y.dirIDs
    BY <2>9 DEF IsLibrary
  <2>11. \A i \in 1..Len(list) : i \in 1..Len(y.list) \/ i = Len(y.list) + 1
    BY <2>4, <2>7
  <2>12. ArtworksAreOwn(list, ids)
    <3>1. \A i \in 1..Len(y.list) : list[i].id < y.ids /\ list[i].id \in Nat
      BY <2>1, <2>4, <2>7, ArtworkTypes DEF RepositoryInv, ArtworksAreOwn
    <3>2. \A i, k \in 1..Len(y.list) : list[i].id = list[k].id => i = k
      BY <2>1, <2>7 DEF RepositoryInv, ArtworksAreOwn
    <3>3. list[Len(y.list) + 1].id = y.ids
      BY <2>5, <2>7
    <3>4. ASSUME NEW i \in 1..Len(list) PROVE list[i].id < ids
      BY <2>4, <2>6, <2>11, <3>1, <3>3
    <3>5. ASSUME NEW i \in 1..Len(list), NEW k \in 1..Len(list), list[i].id = list[k].id PROVE i = k
      BY <2>4, <2>11, <3>1, <3>2, <3>3, <3>5
    <3> QED
      BY <3>4, <3>5 DEF ArtworksAreOwn
  <2>13. ArtworksAreAt(list, y.dirs, y.dirIDs)
    <3>1. row.dir < y.dirIDs /\ \A k \in 1..Len(y.dirs) : y.dirs[k].id = row.dir => y.dirs[k].path = DirOf[row.file]
      BY <2>1, <2>3, <2>5 DEF RepositoryInv, RowsAreOwn
    <3>2. ArtworksAreAt(y.list, y.dirs, y.dirIDs)
      BY <2>1 DEF RepositoryInv
    <3> QED
      BY <2>7, <2>11, <3>1, <3>2 DEF ArtworksAreAt
  <2>14. RepositoryInv(m)
    BY <2>1, <2>10, <2>12, <2>13 DEF RepositoryInv
  <2>15. Grown(l, m)
    BY <2>1, <2>10 DEF Grown
  <2>16. \A i \in 1..Len(list) : i > Len(l.list) => ~list[i].removed /\ list[i].id >= l.ids
    <3>1. ASSUME NEW i \in 1..Len(list), i > Len(l.list)
          PROVE  list[i] = row
      BY <2>1, <2>4, <2>7, <2>11, <3>1
    <3>2. row.id >= l.ids
      BY <2>1, <2>4, <2>5
    <3> QED
      BY <2>5, <3>1, <3>2
  <2>17. ASSUME StaleInv(l) PROVE StaleInv(m)
    <3> SUFFICES ASSUME NEW i \in 1..Len(list), list[i].removed, HasDirectory(list[i], y.dirs),
                        list[i].file \in y.filesSet
                 PROVE  \E k \in 1..Len(list) : k # i /\ list[k].file = list[i].file
      BY <2>10 DEF StaleInv
    <3>1. i \in 1..Len(l.list) /\ list[i] = l.list[i]
      BY <2>1, <2>5, <2>7, <2>11
    <3>2. HasDirectory(l.list[i], l.dirs)
      BY <2>1, <3>1, GrownArtworks
    <3>3. CASE list[i].file \in l.filesSet
      <4>1. PICK k \in 1..Len(l.list) : k # i /\ l.list[k].file = l.list[i].file
        BY <2>17, <3>1, <3>2, <3>3 DEF StaleInv
      <4>2. k \in 1..Len(list) /\ list[k] = l.list[k]
        BY <2>1, <2>4, <2>7, <4>1
      <4> QED
        BY <3>1, <4>1, <4>2
    <3>4. CASE list[i].file = f
      <4>1. Len(l.list) + 1 \in 1..Len(list) /\ Len(l.list) + 1 # i /\ list[Len(l.list) + 1].file = f
        BY <2>1, <2>4, <2>5, <2>7, <3>1
      <4> QED
        BY <3>4, <4>1
    <3> QED
      BY <2>1, <3>3, <3>4
  <2> QED
    BY <2>1, <2>4, <2>6, <2>7, <2>10, <2>14, <2>15, <2>16, <2>17 DEF Added
<1> QED
  BY <1>1, <1>2

\* The files are taken one after the other, in any order.
LEMMA FilesInOrder ==
    ASSUME NEW T, IsFiniteSet(T)
    PROVE  Cardinality(T) \in Nat /\ \A i \in 1..Cardinality(T) : SetToSeq(T)[i] \in T
<1>1. Cardinality(T) \in Nat /\ ExistsBijection(1..Cardinality(T), T)
  BY FS_CardinalityType
<1>2. PICK b : b \in Bijection(1..Cardinality(T), T)
  BY <1>1, Fun_ExistsBij
<1>3. b \in [1..Cardinality(T) -> T] /\ IsInjective(b)
  BY <1>2 DEF Bijection, Injection, IsInjective
<1>4. SetToSeq(T) \in [1..Cardinality(T) -> T]
  BY <1>3 DEF SetToSeq
<1> QED
  BY <1>1, <1>4

LEMMA AddingAdds ==
    ASSUME NEW l \in Library, RepositoryInv(l), NEW files \in SUBSET Files,
           NEW m, m = Adding(l, files)[Cardinality(files)]
    PROVE  Added(l, m)
<1> DEFINE n == Cardinality(files)
           S == [i \in 0..n |-> {x \in Library : Added(l, x)}]
<1>1. n \in Nat /\ \A i \in 1..n : SetToSeq(files)[i] \in Files
  BY FilesAreFinite, FilesInOrder
<1>2. l \in S[0]
  BY <1>1, AddedNothing
<1>3. ASSUME NEW i \in 1..n, NEW x \in S[i - 1]
      PROVE  AddFile(x, SetToSeq(files)[i]) \in S[i]
  <2>1. x \in Library /\ Added(l, x) /\ RepositoryInv(x)
    BY <1>1, <1>3 DEF Added
  <2> DEFINE f == SetToSeq(files)[i]
             y == AddFile(x, f)
  <2>2. f \in Files
    BY <1>1
  <2> HIDE DEF f
  <2>3. Added(x, y)
    BY <2>1, <2>2, AddFileAdds
  <2> HIDE DEF y
  <2>4. y \in Library /\ Added(l, y)
    BY <2>1, <2>3, AddedCompose DEF Added
  <2>5. y \in S[i]
    BY <1>1, <2>4
  <2> QED
    BY <2>5 DEF y, f
<1> HIDE DEF S
<1>4. \A i \in 0..n : Adding(l, files)[i] \in S[i]
  BY <1>1, <1>2, <1>3, AddingRuns
<1>5. m \in S[n]
  BY <1>1, <1>4
<1> QED
  BY <1>1, <1>5 DEF S

\* Marking folders full changes nothing that counts.
LEMMA AddedFilesAdds ==
    ASSUME NEW l \in Library, RepositoryInv(l), NEW files \in SUBSET Files, NEW full \in BOOLEAN,
           NEW m, m = AddedFiles(l, files, full)
    PROVE  Added(l, m)
<1> DEFINE y == Adding(l, files)[Cardinality(files)]
           new == {y.list[i].dir : i \in (DOMAIN y.list) \ (DOMAIN l.list)}
           Full(i) == y.dirs[i].full \/ (full /\ y.dirs[i].id \in new)
           f == [i \in 1..Len(y.dirs) |-> [y.dirs[i] EXCEPT !.full = Full(i)]]
<1>1. Added(l, y)
  BY AddingAdds
<1>2. m = [y EXCEPT !.dirs = [i \in DOMAIN y.dirs |-> [y.dirs[i] EXCEPT !.full = Full(i)]]]
  BY DEF AddedFiles
<1> HIDE DEF y
<1>3. /\ y \in Library /\ y.dirs \in Seq(DirectoryT) /\ Len(y.dirs) \in Nat
      /\ DOMAIN y.dirs = 1..Len(y.dirs)
      /\ \A i \in 1..Len(y.dirs) : y.dirs[i] \in DirectoryT /\ y.dirs[i].full \in BOOLEAN
  BY <1>1, LibraryTypes, RowTypes DEF Added
<1>4. ASSUME NEW i \in 1..Len(y.dirs)
      PROVE  /\ f[i] \in DirectoryT /\ f[i].id = y.dirs[i].id /\ f[i].path = y.dirs[i].path
             /\ f[i].count = y.dirs[i].count /\ (f[i].removed <=> y.dirs[i].removed)
             /\ (f[i].selected <=> y.dirs[i].selected)
  <2> DEFINE value == Full(i)
             d == y.dirs[i]
  <2>1. value \in BOOLEAN /\ d \in DirectoryT
    BY <1>3
  <2>2. f[i] = [d EXCEPT !.full = value]
    OBVIOUS
  <2> HIDE DEF value, d, f, Full
  <2>3. /\ f[i] \in DirectoryT /\ f[i].id = d.id /\ f[i].path = d.path
        /\ f[i].count = d.count /\ (f[i].removed <=> d.removed) /\ (f[i].selected <=> d.selected)
    BY <2>1, <2>2, FillRow
  <2> QED
    BY <2>3 DEF d
<1>5. PICK es : es = [i \in 1..Len(y.dirs) |-> f[i]]
  OBVIOUS
<1>6. m = [y EXCEPT !.dirs = es]
  BY <1>2, <1>3, <1>5
<1> HIDE DEF f
<1>7. es \in Seq(DirectoryT) /\ Len(es) = Len(y.dirs) /\ \A i \in 1..Len(y.dirs) : es[i] = f[i]
  BY <1>3, <1>4, <1>5, RowsOf
<1>8. /\ m \in Library /\ m.dirs = es /\ m.list = y.list /\ m.filesSet = y.filesSet
      /\ m.ids = y.ids /\ m.dirIDs = y.dirIDs
  BY <1>3, <1>6, <1>7, WithDirs
<1>9. /\ SameRows(y.dirs, m.dirs) /\ SameArtworks(y.list, m.list)
      /\ \A i \in 1..Len(y.dirs) : m.dirs[i].selected <=> y.dirs[i].selected
  BY <1>4, <1>7, <1>8 DEF SameRows, KeptRows, SameArtworks, SameArtwork
<1>10. RepositoryInv(m)
  BY <1>1, <1>3, <1>8, <1>9, InvCarries DEF Added
<1>11. Grown(l, m)
  BY <1>1, <1>7, <1>8, <1>9 DEF Added, Grown, GrownRows, SameRows, KeptRows
<1>12. StaleInv(y) => StaleInv(m)
  BY <1>3, <1>8, <1>9, StaleCarries DEF SameRows
<1> QED
  BY <1>1, <1>8, <1>10, <1>11, <1>12 DEF Added

-----------------------------------------------------------------------------
(* restoreRemoved *)

\* Flagged artworks are live again and their files accounted; nothing else changes.
Restored(l, m) ==
    /\ m \in Library /\ RepositoryInv(m) /\ Grown(l, m)
    /\ m.ids = l.ids /\ SameArtworks(l.list, m.list)
    /\ \A i \in 1..Len(l.list) : m.list[i].removed => l.list[i].removed
    /\ StaleInv(l) => StaleInv(m)

LEMMA RestoredNothing ==
    ASSUME NEW l \in Library, RepositoryInv(l)
    PROVE  Restored(l, l)
BY AddedNothing DEF Restored, Added, SameArtworks, SameArtwork

LEMMA RestoredCompose ==
    ASSUME NEW l \in Library, NEW m \in Library, NEW k \in Library, Restored(l, m), Restored(m, k)
    PROVE  Restored(l, k)
<1>1. Grown(l, k)
  BY GrownCompose DEF Restored
<1>2. SameArtworks(l.list, k.list) /\ \A i \in 1..Len(l.list) : k.list[i].removed => l.list[i].removed
  BY DEF Restored, SameArtworks, SameArtwork
<1> QED
  BY <1>1, <1>2 DEF Restored

LEMMA RestoreArtworkRestores ==
    ASSUME NEW l \in Library, RepositoryInv(l), NEW i \in 1..Len(l.list), l.list[i].removed,
           NEW m, m = RestoreArtwork(l, i), NEW f, f = l.list[i].file
    PROVE  /\ Restored(l, m)
           /\ \A k \in 1..Len(l.list) : k # i => (m.list[k].removed <=> l.list[k].removed)
           /\ m.filesSet \subseteq l.filesSet \cup {f}
           /\ f \in disk \ l.filesSet => ~m.list[i].removed
<1> DEFINE a == AccountFile(l, f)
           y == a.lib
           flag == a.flags = {}
           row == [y.list[i] EXCEPT !.removed = flag]
           list == [y.list EXCEPT ![i] = row]
           broken == y.broken \cup IF a.flags = {"modified"} THEN {} ELSE {"restoreRemoved"}
<1>1. f \in Files
  BY LibraryTypes, ArtworkTypes
<1>2. /\ y \in Library /\ RepositoryInv(y) /\ Grown(l, y) /\ y.list = l.list /\ y.ids = l.ids
      /\ (flag <=> f \notin disk \ l.filesSet)
      /\ y.filesSet = IF flag THEN l.filesSet ELSE l.filesSet \cup {f}
  <2>1. CASE f \notin disk \ l.filesSet
    BY <2>1, AccountNothing, AddedNothing DEF Added
  <2>2. CASE f \in disk \ l.filesSet
    <3>1. /\ y \in Library /\ RepositoryInv(y) /\ Grown(l, y) /\ y.list = l.list /\ y.ids = l.ids
          /\ y.filesSet = l.filesSet \cup {f} /\ "modified" \in a.flags
      BY <1>1, <2>2, AccountSomething
    <3> HIDE DEF a, y
    <3>2. ~flag
      BY <3>1
    <3> QED
      BY <2>2, <3>1, <3>2
  <2> QED
    BY <2>1, <2>2
<1>3. m = [y EXCEPT !.broken = broken, !.list = list]
  BY DEF RestoreArtwork
<1>4. flag \in BOOLEAN /\ broken \in SUBSET {"removeFile", "restoreRemoved"}
  BY <1>2, LibraryTypes
<1> HIDE DEF a, y, flag, broken
<1>5. /\ y.list \in Seq(ArtworkT) /\ y.list[i] \in ArtworkT /\ i \in 1..Len(y.list)
  BY <1>2, LibraryTypes, ArtworkTypes
<1>6. row \in ArtworkT /\ SameArtwork(y.list[i], row) /\ (row.removed <=> flag)
  BY <1>4, <1>5 DEF ArtworkT, SameArtwork
<1> HIDE DEF row
<1>7. /\ list \in Seq(ArtworkT) /\ Len(list) = Len(y.list) /\ list[i] = row
      /\ \A k \in 1..Len(y.list) : k # i => list[k] = y.list[k]
  BY <1>5, <1>6
<1> HIDE DEF list
<1>8. /\ m \in Library /\ m.list = list /\ m.dirs = y.dirs /\ m.filesSet = y.filesSet
      /\ m.ids = y.ids /\ m.dirIDs = y.dirIDs
  BY <1>2, <1>3, <1>4, <1>7 DEF Library
<1>9. SameArtworks(y.list, list)
  BY <1>6, <1>7 DEF SameArtworks, SameArtwork
<1>10. RepositoryInv(m)
  <2>1. SameRows(y.dirs, m.dirs)
    BY <1>8 DEF SameRows, KeptRows
  <2> QED
    BY <1>2, <1>8, <1>9, <2>1, InvCarries
<1>11. Grown(l, m)
  BY <1>2, <1>8 DEF Grown
<1>12. \A k \in 1..Len(l.list) : k # i => (m.list[k].removed <=> l.list[k].removed)
  BY <1>2, <1>7, <1>8
<1>13. m.list[i].removed <=> flag
  BY <1>6, <1>7, <1>8
<1>14. ASSUME StaleInv(l) PROVE StaleInv(m)
  <2> SUFFICES ASSUME NEW k \in 1..Len(m.list), m.list[k].removed, HasDirectory(m.list[k], m.dirs),
                      m.list[k].file \in m.filesSet
               PROVE  \E j \in 1..Len(m.list) : j # k /\ m.list[j].file = m.list[k].file
    BY DEF StaleInv
  <2>1. Len(m.list) = Len(l.list) /\ \A j \in 1..Len(l.list) : SameArtwork(l.list[j], m.list[j])
    BY <1>2, <1>8, <1>9 DEF SameArtworks
  <2>2. m.list[k].file = l.list[k].file /\ l.list[k].removed /\ HasDirectory(l.list[k], m.dirs)
    BY <1>12, <2>1 DEF SameArtwork, HasDirectory
  <2>3. HasDirectory(l.list[k], l.dirs)
    BY <1>8, <1>11, <2>1, <2>2, GrownArtworks
  <2>4. CASE l.list[k].file \in l.filesSet
    <3>1. PICK j \in 1..Len(l.list) : j # k /\ l.list[j].file = l.list[k].file
      BY <1>14, <2>1, <2>2, <2>3, <2>4 DEF StaleInv
    <3> QED
      BY <2>1, <3>1 DEF SameArtwork
  <2>5. CASE l.list[k].file \notin l.filesSet
    <3>1. ~flag /\ l.list[k].file = f
      BY <1>2, <1>8, <2>2, <2>5
    <3>2. k # i /\ m.list[i].file = f
      BY <1>13, <2>1, <3>1 DEF SameArtwork
    <3> QED
      BY <2>1, <2>2, <3>1, <3>2
  <2> QED
    BY <2>4, <2>5
<1>15. \A k \in 1..Len(l.list) : m.list[k].removed => l.list[k].removed
  BY <1>12
<1>16. Restored(l, m)
  BY <1>2, <1>8, <1>9, <1>10, <1>11, <1>14, <1>15 DEF Restored
<1> QED
  BY <1>2, <1>8, <1>12, <1>13, <1>16

\* Artworks up to i are dealt with.
FilesDiffer(list) == \A i, j \in 1..Len(list) : list[i].file = list[j].file => i = j
Brought(l, indices, i, m) ==
    /\ Restored(l, m)
    /\ \A k \in 1..Len(l.list) : k > i \/ k \notin indices => (m.list[k].removed <=> l.list[k].removed)
    /\ m.filesSet \subseteq l.filesSet \cup {l.list[k].file : k \in 1..i}
    /\ \A k \in 1..i : k \in indices /\ l.list[k].file \in disk \ l.filesSet /\ FilesDiffer(l.list) =>
                         ~m.list[k].removed

LEMMA RestoringBrings ==
    ASSUME NEW l \in Library, RepositoryInv(l), NEW indices \in SUBSET (1..Len(l.list)),
           NEW m, m = RestoreRemoved(l, indices)
    PROVE  Brought(l, indices, Len(l.list), m)
<1> DEFINE n == Len(l.list)
           S == [i \in 0..n |-> {x \in Library : Brought(l, indices, i, x)}]
<1>1. n \in Nat
  BY LibraryTypes, ArtworkTypes
<1>2. l \in S[0]
  BY <1>1, RestoredNothing DEF Brought
<1>3. ASSUME NEW i \in 1..n, NEW x \in S[i - 1]
      PROVE  (IF i \in Restorable(l, indices) THEN RestoreArtwork(x, i) ELSE x) \in S[i]
  <2>1. x \in Library /\ Brought(l, indices, i - 1, x) /\ Restored(l, x) /\ RepositoryInv(x)
    BY <1>1, <1>3 DEF Brought, Restored
  <2>2. /\ \A k \in 1..i : k = i \/ k \in 1..(i - 1)
        /\ \A k \in 1..(i - 1) : k \in 1..i /\ k \in 1..n /\ k # i
        /\ \A k \in 1..n : k > i - 1 => k = i \/ k > i
        /\ i > i - 1 /\ \A k \in 1..n : k > i => k > i - 1 /\ k # i
    BY <1>1
  <2>3. /\ Len(x.list) = Len(l.list)
        /\ \A k \in 1..n : x.list[k].file = l.list[k].file
        /\ (x.list[i].removed <=> l.list[i].removed)
    BY <2>1, <2>2 DEF Brought, Restored, SameArtworks, SameArtwork
  <2>4. CASE i \in Restorable(l, indices)
    <3> DEFINE f == l.list[i].file
               y == RestoreArtwork(x, i)
    <3>1. i \in indices /\ x.list[i].removed /\ f = x.list[i].file /\ i \in 1..Len(x.list)
      BY <2>3, <2>4 DEF Restorable
    <3> HIDE DEF f
    <3>2. /\ Restored(x, y)
          /\ \A k \in 1..Len(x.list) : k # i => (y.list[k].removed <=> x.list[k].removed)
          /\ y.filesSet \subseteq x.filesSet \cup {f}
          /\ f \in disk \ x.filesSet => ~y.list[i].removed
      BY <2>1, <3>1, RestoreArtworkRestores
    <3> HIDE DEF y
    <3>3. y \in Library /\ Restored(l, y)
      BY <2>1, <3>2, RestoredCompose DEF Restored
    <3>4. \A k \in 1..n : k > i \/ k \notin indices => (y.list[k].removed <=> l.list[k].removed)
      BY <2>1, <2>2, <2>3, <3>1, <3>2 DEF Brought
    <3>5. y.filesSet \subseteq l.filesSet \cup {l.list[k].file : k \in 1..i}
      <4>1. x.filesSet \subseteq l.filesSet \cup {l.list[k].file : k \in 1..(i - 1)}
        BY <2>1 DEF Brought
      <4> QED
        BY <1>1, <2>2, <3>2, <4>1 DEF f
    <3>6. ASSUME NEW k \in 1..i, k \in indices, l.list[k].file \in disk \ l.filesSet, FilesDiffer(l.list)
          PROVE  ~y.list[k].removed
      <4>1. CASE k \in 1..(i - 1)
        <5>1. ~x.list[k].removed
          BY <2>1, <3>6, <4>1 DEF Brought
        <5> QED
          BY <2>2, <2>3, <3>2, <4>1, <5>1
      <4>2. CASE k = i
        <5>1. f \notin {l.list[j].file : j \in 1..(i - 1)}
          BY <2>2, <3>6, <4>2 DEF f, FilesDiffer
        <5>2. f \in disk \ x.filesSet
          BY <2>1, <3>6, <4>2, <5>1 DEF Brought, f
        <5> QED
          BY <3>2, <4>2, <5>2
      <4> QED
        BY <2>2, <4>1, <4>2
    <3>7. Brought(l, indices, i, y)
      BY <3>3, <3>4, <3>5, <3>6 DEF Brought
    <3>8. y \in S[i]
      BY <1>1, <3>3, <3>7
    <3> QED
      BY <2>4, <3>8 DEF y
  <2>5. CASE i \notin Restorable(l, indices)
    <3>1. i \in indices => ~l.list[i].removed
      BY <2>5 DEF Restorable
    <3>2. \A k \in 1..n : k > i \/ k \notin indices => (x.list[k].removed <=> l.list[k].removed)
      BY <2>1, <2>2 DEF Brought
    <3>3. x.filesSet \subseteq l.filesSet \cup {l.list[k].file : k \in 1..i}
      BY <2>1, <2>2 DEF Brought
    <3>4. \A k \in 1..i : k \in indices /\ l.list[k].file \in disk \ l.filesSet /\ FilesDiffer(l.list) =>
                            ~x.list[k].removed
      BY <2>1, <2>2, <2>3, <3>1 DEF Brought
    <3>5. Brought(l, indices, i, x)
      BY <2>1, <3>2, <3>3, <3>4 DEF Brought
    <3> QED
      BY <1>1, <2>1, <2>5, <3>5
  <2> QED
    BY <2>4, <2>5
<1> HIDE DEF S
<1>4. \A i \in 0..n : Restoring(l, indices)[i] \in S[i]
  BY <1>1, <1>2, <1>3, RestoringRuns
<1>5. m \in S[n]
  BY <1>1, <1>4 DEF RestoreRemoved
<1> QED
  BY <1>1, <1>5 DEF S

-----------------------------------------------------------------------------
(* The undo of a command *)

\* What the invariant says of a library.
LibInv(l) == l \in Library /\ RepositoryInv(l) /\ SelectionInv(l) /\ StaleInv(l)

\* Artworks stay at their indices, new ones have identifiers of their own, and of
\* those that were flagged only the given ones are live again.
Touches(l, indices, m) ==
    /\ Len(m.list) >= Len(l.list)
    /\ \A i \in 1..Len(l.list) : /\ SameArtwork(l.list[i], m.list[i])
                                 /\ l.list[i].removed /\ ~m.list[i].removed => i \in indices
    /\ \A i \in 1..Len(m.list) : i > Len(l.list) => m.list[i].id >= l.ids

\* The undo of a removal.
LEMMA RemovalUndone ==
    ASSUME NEW l, LibInv(l), disk \in SUBSET Files, NEW item \in Command,
           Means(item, l), Reselects(item, l), item.kind \in {"remove", "removeDirectory"},
           NEW m, m = Undone(l, item)
    PROVE  /\ LibInv(m) /\ Touches(l, item.indices, m)
           /\ IsConsistent(l) => \A i \in item.indices : l.list[i].file \in disk => i \in Live(m)
<1> DEFINE no == FALSE
           ds == IF item.unselectAll /\ AllAreSelected(l.dirs) THEN SelectAll(l.dirs, no) ELSE l.dirs
           x == [l EXCEPT !.dirs = ds]
           y == RestoreRemoved(x, item.indices)
           files == {f \in disk : DirOf[f] \in item.refill}
           z == AddedFiles(y, files, TRUE)
           es == RestoreSelection(z.dirs, item.selected)
<1>1. m = [z EXCEPT !.dirs = es]
  BY DEF Undone
<1>2. /\ l \in Library /\ l.dirs \in Seq(DirectoryT) /\ l.list \in Seq(ArtworkT)
      /\ Len(l.list) \in Nat /\ Len(l.dirs) \in Nat /\ no \in BOOLEAN /\ DOMAIN l.list = 1..Len(l.list)
      /\ DOMAIN l.dirs = 1..Len(l.dirs)
  BY LibraryTypes, ArtworkTypes, RowTypes DEF LibInv
<1> HIDE DEF no
<1>3. ds \in Seq(DirectoryT) /\ SameRows(l.dirs, ds)
  BY <1>2, SelectAllRows DEF SameRows, KeptRows
<1>4. ~(item.unselectAll /\ AllAreSelected(l.dirs)) => ds = l.dirs
  OBVIOUS
<1> HIDE DEF ds
<1>5. /\ x \in Library /\ x.dirs = ds /\ x.list = l.list /\ x.filesSet = l.filesSet
      /\ x.ids = l.ids /\ x.dirIDs = l.dirIDs
  BY <1>2, <1>3, WithDirs
<1> HIDE DEF x
<1>6. SameArtworks(l.list, x.list)
  BY <1>5 DEF SameArtworks, SameArtwork
<1>7. RepositoryInv(x) /\ StaleInv(x)
  BY <1>2, <1>3, <1>5, <1>6, InvCarries, StaleCarries DEF LibInv, SameRows
<1>8. item.indices \in SUBSET (1..Len(x.list))
  BY <1>5 DEF Means
<1>9. Brought(x, item.indices, Len(x.list), y)
  BY <1>5, <1>7, <1>8, RestoringBrings
<1> HIDE DEF y
<1>10. Restored(x, y) /\ y \in Library /\ RepositoryInv(y) /\ StaleInv(y) /\ Grown(x, y)
  BY <1>7, <1>9 DEF Brought, Restored
<1>11. files \in SUBSET Files
  OBVIOUS
<1> HIDE DEF files
<1>12. Added(y, z)
  <2> DEFINE yes == TRUE
  <2>1. yes \in BOOLEAN /\ z = AddedFiles(y, files, yes)
    OBVIOUS
  <2> HIDE DEF yes, z
  <2> QED
    BY <1>10, <1>11, <2>1, AddedFilesAdds
<1> HIDE DEF z
<1>13. z \in Library /\ RepositoryInv(z) /\ StaleInv(z) /\ z.dirs \in Seq(DirectoryT) /\ Len(z.dirs) \in Nat
  BY <1>10, <1>12, LibraryTypes, RowTypes DEF Added
<1>14. /\ es \in Seq(DirectoryT) /\ SameRows(z.dirs, es)
       /\ \A i \in 1..Len(z.dirs) : es[i].selected <=> z.dirs[i].selected \/ z.dirs[i].id \in item.selected
  BY <1>13, RestoreSelectionRows
<1> HIDE DEF es
<1>15. /\ m \in Library /\ m.dirs = es /\ m.list = z.list /\ m.filesSet = z.filesSet
       /\ m.ids = z.ids /\ m.dirIDs = z.dirIDs
  BY <1>1, <1>13, <1>14, WithDirs
<1>16. RepositoryInv(m) /\ StaleInv(m)
  <2>1. SameArtworks(z.list, m.list)
    BY <1>15 DEF SameArtworks, SameArtwork
  <2> QED
    BY <1>13, <1>14, <1>15, <2>1, InvCarries, StaleCarries DEF SameRows
<1>17. Grown(x, z)
  BY <1>5, <1>10, <1>12, <1>13, GrownCompose DEF Added
<1>18. SelectionInv(m)
  <2> SUFFICES ASSUME Len(m.dirs) # 0 PROVE SomeSelected(m.dirs)
    BY DEF SelectionInv
  <2>1. Len(es) = Len(z.dirs)
    BY <1>14 DEF SameRows, KeptRows
  <2>2. CASE item.unselectAll /\ AllAreSelected(l.dirs)
    <3>1. PICK i \in 1..Len(l.dirs) : l.dirs[i].id \in item.selected
      BY <2>2 DEF Reselects
    <3>2. i \in 1..Len(z.dirs) /\ z.dirs[i].id = l.dirs[i].id
      BY <1>2, <1>3, <1>5, <1>13, <1>17 DEF Grown, GrownRows, SameRows, KeptRows
    <3> QED
      BY <1>14, <1>15, <2>1, <3>1, <3>2 DEF SomeSelected
  <2>3. CASE ~(item.unselectAll /\ AllAreSelected(l.dirs))
    <3>1. SelectionInv(x)
      BY <1>4, <1>5, <2>3 DEF LibInv, SelectionInv
    <3>2. SelectionInv(z)
      BY <1>5, <1>13, <1>17, <3>1, GrownSelection
    <3> QED
      BY <1>14, <1>15, <2>1, <3>2 DEF SelectionInv, SomeSelected
  <2> QED
    BY <2>2, <2>3
<1>19. /\ SameArtworks(l.list, y.list) /\ Len(z.list) >= Len(l.list) /\ y.ids = l.ids
       /\ \A i \in 1..Len(l.list) : z.list[i] = y.list[i]
       /\ \A i \in 1..Len(z.list) : i > Len(l.list) => z.list[i].id >= l.ids
  BY <1>5, <1>10, <1>12 DEF Restored, Added, SameArtworks
<1>20. Touches(l, item.indices, m)
  <2>1. \A i \in 1..Len(l.list) : SameArtwork(l.list[i], m.list[i])
    BY <1>15, <1>19 DEF SameArtworks
  <2>2. \A i \in 1..Len(l.list) : i \notin item.indices => (y.list[i].removed <=> l.list[i].removed)
    BY <1>5, <1>9 DEF Brought
  <2> QED
    BY <1>15, <1>19, <2>1, <2>2 DEF Touches
<1>21. ASSUME IsConsistent(l), NEW i \in item.indices, l.list[i].file \in disk
       PROVE  i \in Live(m)
  <2>1. i \in 1..Len(l.list) /\ FilesDiffer(l.list)
    BY <1>2, <1>21 DEF Means, IsConsistent, FilesDiffer
  <2>2. HasDirectory(l.list[i], l.dirs)
    BY <1>2, <1>21, <2>1 DEF IsConsistent, FindDirectoryByID, HasDirectory
  <2>3. ~y.list[i].removed
    <3>1. CASE ~l.list[i].removed
      BY <1>5, <1>10, <2>1, <3>1 DEF Restored
    <3>2. CASE l.list[i].removed
      <4>1. l.list[i].file \notin l.filesSet
        BY <2>1, <2>2, <3>2 DEF LibInv, StaleInv, FilesDiffer
      <4> QED
        BY <1>5, <1>9, <1>21, <2>1, <4>1 DEF Brought
    <3> QED
      BY <3>1, <3>2
  <2>4. i \in DOMAIN m.list /\ ~m.list[i].removed
    BY <1>2, <1>15, <1>19, <2>1, <2>3, LibraryTypes, ArtworkTypes
  <2> QED
    BY <2>4 DEF Live
<1> QED
  BY <1>15, <1>16, <1>18, <1>20, <1>21 DEF LibInv

\* removeFiles, whatever it is given.
LEMMA RemovedFilesTouch ==
    ASSUME NEW l, LibInv(l), NEW indices, NEW m, m = RemovedFiles(l, indices).lib
    PROVE  /\ LibInv(m) /\ Touches(l, {}, m) /\ FlaggedToo(l, indices, m)
           /\ m.ids = l.ids /\ m.dirIDs = l.dirIDs /\ KeptRows(l.dirs, m.dirs)
           /\ Settled(l) \/ indices # {} => Settled(m)
<1>1. Len(l.list) \in Nat /\ l.ids \in Nat
  BY LibraryTypes, ArtworkTypes DEF LibInv
<1>2. CASE indices = {}
  <2>1. m = l
    BY <1>2 DEF RemovedFiles, NothingRemoved
  <2> QED
    BY <1>1, <1>2, <2>1 DEF Touches, FlaggedToo, SameArtworks, SameArtwork, KeptRows
<1>3. CASE indices # {}
  <2> DEFINE r == RemovedFiles(l, indices)
  <2>1. /\ m \in Library /\ RepositoryInv(m) /\ Settled(m) /\ FlaggedToo(l, indices, m)
        /\ m.ids = l.ids /\ m.dirIDs = l.dirIDs /\ KeptRows(l.dirs, m.dirs)
        /\ SelectionInv(l) => SelectionInv(m)
    <3>1. r = RemovedFiles(l, indices) /\ m = r.lib
      OBVIOUS
    <3> HIDE DEF r
    <3> QED
      BY <1>3, <3>1, RemovedFilesParts DEF LibInv
  <2>2. LibInv(m)
    BY <2>1, SettledIsStale DEF LibInv
  <2>3. Touches(l, {}, m)
    BY <1>1, <2>1 DEF Touches, FlaggedToo, SameArtworks
  <2> QED
    BY <2>1, <2>2, <2>3
<1> QED
  BY <1>2, <1>3

LEMMA UndoneTouches ==
    ASSUME NEW l, LibInv(l), disk \in SUBSET Files, NEW item \in Command,
           Means(item, l), Reselects(item, l), NEW m, m = Undone(l, item)
    PROVE  LibInv(m) /\ Touches(l, item.indices, m)
<1>1. CASE item.kind \in {"remove", "removeDirectory"}
  BY <1>1, RemovalUndone
<1>2. CASE item.kind = "add"
  <2>1. m = RemovedFiles(l, item.indices).lib
    BY <1>2 DEF Undone
  <2> QED
    BY <2>1, RemovedFilesTouch DEF Touches
<1>3. CASE item.kind = "edit"
  <2>1. m = l
    BY <1>3 DEF Undone
  <2>2. Len(l.list) \in Nat /\ l.ids \in Nat
    BY LibraryTypes, ArtworkTypes DEF LibInv
  <2> QED
    BY <2>1, <2>2 DEF Touches, SameArtwork
<1> QED
  BY <1>1, <1>2, <1>3 DEF Command

-----------------------------------------------------------------------------
(* The history *)

MeansOf(h, l) ==
    h # <<>> => h = <<h[1]>> /\ h[1] \in Command /\ Means(h[1], l) /\ Reselects(h[1], l)

LEMMA Remembers ==
    ASSUME NEW c \in Command, NEW l, Means(c, l), Reselects(c, l), NEW h, h = <<c>>
    PROVE  MeansOf(h, l)
BY DEF MeansOf

LEMMA Forgets ==
    ASSUME NEW l, NEW h, h = <<>>
    PROVE  MeansOf(h, l)
BY DEF MeansOf

\* Where artworks and directories stay, commands mean what they meant.
LEMMA MeansTheSame ==
    ASSUME NEW l \in Library, NEW m \in Library, NEW c, Means(c, l), Len(m.list) = Len(l.list),
           \A i \in 1..Len(l.list) : m.list[i].id = l.list[i].id
    PROVE  Means(c, m)
<1>1. c.indices \subseteq 1..Len(m.list) /\ IDs(l, c.indices) = c.ids
  BY DEF Means
<1>2. IDs(m, c.indices) = IDs(l, c.indices)
  BY <1>1 DEF IDs
<1> QED
  BY <1>1, <1>2 DEF Means

LEMMA MeansCarries ==
    ASSUME NEW l \in Library, NEW m \in Library, NEW h, MeansOf(h, l),
           SameArtworks(l.list, m.list), KeptRows(l.dirs, m.dirs)
    PROVE  MeansOf(h, m)
<1> SUFFICES ASSUME h # <<>> PROVE h = <<h[1]>> /\ h[1] \in Command /\ Means(h[1], m) /\ Reselects(h[1], m)
  BY DEF MeansOf
<1> DEFINE c == h[1]
<1>1. h = <<c>> /\ c \in Command /\ Means(c, l) /\ Reselects(c, l)
  BY DEF MeansOf
<1> HIDE DEF c
<1>2. Means(c, m)
  BY <1>1, MeansTheSame DEF SameArtworks, SameArtwork
<1>3. Reselects(c, m)
  BY <1>1 DEF Reselects, KeptRows
<1> QED
  BY <1>1, <1>2, <1>3 DEF c

\* A command about live artworks, as Record keeps it.
CommandOf(kind, indices, l, unselectAll, selected, refill) ==
    [kind |-> kind, indices |-> indices, ids |-> IDs(l, indices),
     unselectAll |-> unselectAll, selected |-> selected, refill |-> refill]

LEMMA CommandMeans ==
    ASSUME NEW l \in Library, NEW kind \in {"add", "edit", "remove", "removeDirectory"},
           NEW indices \in SUBSET Live(l), NEW unselectAll \in BOOLEAN,
           NEW selected \in SUBSET Nat, NEW refill \in SUBSET Paths,
           NEW c, c = CommandOf(kind, indices, l, unselectAll, selected, refill)
    PROVE  /\ c \in Command /\ Means(c, l)
           /\ (c.unselectAll <=> unselectAll) /\ c.selected = selected
<1>1. indices \subseteq 1..Len(l.list)
  BY LibraryTypes, ArtworkTypes DEF Live
<1>2. indices \in SUBSET Nat
  BY <1>1, LibraryTypes, ArtworkTypes
<1>3. IDs(l, indices) \in SUBSET Nat
  BY <1>1, LibraryTypes, ArtworkTypes DEF IDs
<1> DEFINE ids == IDs(l, indices)
<1>4. ids = IDs(l, indices)
  OBVIOUS
<1> HIDE DEF ids
<1>5. c = [kind |-> kind, indices |-> indices, ids |-> ids,
           unselectAll |-> unselectAll, selected |-> selected, refill |-> refill]
  BY <1>4 DEF CommandOf
<1>6. /\ c \in Command /\ c.indices = indices /\ c.ids = ids /\ (c.unselectAll <=> unselectAll)
      /\ c.selected = selected
  BY <1>2, <1>3, <1>4, <1>5 DEF Command
<1> QED
  BY <1>1, <1>4, <1>6 DEF Means

LEMMA ItemIsCommand ==
    ASSUME NEW l, NEW kind, NEW indices \in SUBSET Live(l), NEW no, no = FALSE,
           NEW c, c = Item(kind, indices, l)
    PROVE  c = CommandOf(kind, indices, l, no, {}, {})
<1>1. indices \cap Live(l) = indices
  OBVIOUS
<1> QED
  BY <1>1 DEF Item, CommandOf

Reselecting(item, unselectAll, selected) ==
    [item EXCEPT !.unselectAll = unselectAll, !.selected = selected]
Refilling(item, unselectAll, selected, refill) ==
    [item EXCEPT !.unselectAll = unselectAll, !.selected = selected, !.refill = refill]

LEMMA RemovalCommand ==
    ASSUME NEW l, NEW kind, NEW indices \in SUBSET Live(l), NEW unselectAll, NEW selected, NEW refill
    PROVE  /\ Reselecting(Item(kind, indices, l), unselectAll, selected) =
                 CommandOf(kind, indices, l, unselectAll, selected, {})
           /\ Refilling(Item(kind, indices, l), unselectAll, selected, refill) =
                 CommandOf(kind, indices, l, unselectAll, selected, refill)
<1>0. indices \cap Live(l) = indices
  OBVIOUS
<1>1. PICK ids : ids = IDs(l, indices)
  OBVIOUS
<1>2. PICK no : no = FALSE
  OBVIOUS
<1>3. PICK x : x = [kind |-> kind, indices |-> indices, ids |-> ids,
                    unselectAll |-> no, selected |-> {}, refill |-> {}]
  OBVIOUS
<1>4. Item(kind, indices, l) = x
  BY <1>0, <1>1, <1>2, <1>3 DEF Item
<1>5. PICK c, d : /\ c = [x EXCEPT !.unselectAll = unselectAll, !.selected = selected]
                  /\ d = [x EXCEPT !.unselectAll = unselectAll, !.selected = selected, !.refill = refill]
  OBVIOUS
<1>6. c = [kind |-> kind, indices |-> indices, ids |-> ids,
           unselectAll |-> unselectAll, selected |-> selected, refill |-> {}]
  BY <1>3, <1>5
<1>7. d = [kind |-> kind, indices |-> indices, ids |-> ids,
           unselectAll |-> unselectAll, selected |-> selected, refill |-> refill]
  BY <1>3, <1>5
<1>8. /\ Reselecting(Item(kind, indices, l), unselectAll, selected) = c
      /\ Refilling(Item(kind, indices, l), unselectAll, selected, refill) = d
  BY <1>4, <1>5 DEF Reselecting, Refilling
<1> QED
  BY <1>1, <1>6, <1>7, <1>8 DEF CommandOf

-----------------------------------------------------------------------------
(* The steps *)

LEMMA LiveOf ==
    ASSUME NEW l \in Library
    PROVE  /\ Live(l) = {i \in 1..Len(l.list) : ~l.list[i].removed}
           /\ RemovedItems(l) = {i \in 1..Len(l.list) : l.list[i].removed}
BY LibraryTypes, ArtworkTypes DEF Live, RemovedItems

\* Dismissing a removal drops what is flagged and the directories it has emptied.
LEMMA DismissedParts ==
    ASSUME NEW l, LibInv(l), NEW m, m = Dismissed(l)
    PROVE  /\ LibInv(m) /\ m.ids = l.ids /\ m.dirIDs = l.dirIDs
           /\ \A j \in 1..Len(m.list) : \E k \in 1..Len(l.list) : k \in Live(l) /\ m.list[j] = l.list[k]
<1> DEFINE x == DeleteItems(l, RemovedItems(l))
           es == Cleaning(x.dirs)[Len(x.dirs)]
<1>1. m = [x EXCEPT !.dirs = es]
  BY DEF Dismissed, CleanupEmptyDirectories
<1>2. /\ x \in Library /\ RepositoryInv(x)
      /\ x.dirs = l.dirs /\ x.filesSet = l.filesSet /\ x.ids = l.ids /\ x.dirIDs = l.dirIDs
      /\ \A j \in 1..Len(x.list) :
            \E k \in 1..Len(l.list) : k \notin RemovedItems(l) /\ x.list[j] = l.list[k]
  BY DeleteItemsParts DEF LibInv
<1> HIDE DEF x
<1>3. \A j \in 1..Len(x.list) : ~x.list[j].removed
                                /\ \E k \in 1..Len(l.list) : k \in Live(l) /\ x.list[j] = l.list[k]
  BY <1>2, LiveOf DEF LibInv
<1>4. x.dirs \in Seq(DirectoryT) /\ x.filesSet \in SUBSET Files /\ x.dirIDs \in Nat /\ Len(x.dirs) \in Nat
  BY <1>2, LibraryTypes, RowTypes
<1>5. RowsDiffer(x.dirs) /\ (Len(x.dirs) # 0 => SomeSelected(x.dirs))
  BY <1>2 DEF LibInv, RepositoryInv, RowsAreOwn, RowsDiffer, SelectionInv
<1>6. Cleaned(x.dirs, 0, es)
  BY <1>4, <1>5, CleaningRows
<1> HIDE DEF es
<1>7. /\ es \in Seq(DirectoryT) /\ Len(es) \in Nat /\ RowsDiffer(es)
      /\ Len(es) # 0 => SomeSelected(es)
      /\ \A i \in 1..Len(es) : \E j \in 1..Len(x.dirs) : SameRow(es[i], x.dirs[j])
      /\ \A j \in 1..Len(x.dirs) : x.dirs[j].count > 0 => \E i \in 1..Len(es) : SameRow(es[i], x.dirs[j])
  BY <1>4, <1>6, RowTypes DEF Cleaned
<1>8. /\ m \in Library /\ m.dirs = es /\ m.list = x.list /\ m.filesSet = x.filesSet
      /\ m.ids = x.ids /\ m.dirIDs = x.dirIDs
  BY <1>1, <1>2, <1>7, WithDirs
<1>9. RowsAreOwn(es, x.dirIDs)
  <2>1. \A i \in 1..Len(es) : es[i].id < x.dirIDs
    BY <1>2, <1>7 DEF RepositoryInv, RowsAreOwn, SameRow
  <2> QED
    BY <1>7, <2>1 DEF RowsAreOwn, RowsDiffer
<1>10. RowsCount(es, x.filesSet)
  BY <1>2, <1>7 DEF RepositoryInv, RowsCount, SameRow
<1>11. RowsCover(es, x.filesSet)
  <2> SUFFICES ASSUME NEW f \in x.filesSet PROVE \E i \in 1..Len(es) : es[i].path = DirOf[f]
    BY DEF RowsCover
  <2>1. PICK j \in 1..Len(x.dirs) : x.dirs[j].path = DirOf[f]
    BY <1>2 DEF RepositoryInv, RowsCover
  <2>2. x.dirs[j].count > 0
    <3>1. x.dirs[j].count = Cardinality(FilesIn(x.filesSet, x.dirs[j].path))
      BY <1>2 DEF RepositoryInv, RowsCount
    <3>2. f \in FilesIn(x.filesSet, x.dirs[j].path)
      BY <2>1 DEF FilesIn
    <3>3. /\ IsFiniteSet(FilesIn(x.filesSet, x.dirs[j].path))
          /\ Cardinality(FilesIn(x.filesSet, x.dirs[j].path)) \in Nat
      BY <1>4, FilesAreFinite
    <3>4. Cardinality(FilesIn(x.filesSet, x.dirs[j].path)) # 0
      BY <3>2, <3>3, FS_EmptySet
    <3> QED
      BY <3>1, <3>3, <3>4
  <2> QED
    BY <1>7, <2>1, <2>2 DEF SameRow
<1>12. ArtworksAreAt(x.list, es, x.dirIDs)
  BY <1>2, <1>7 DEF RepositoryInv, ArtworksAreAt, SameRow
<1>13. RepositoryInv(m)
  BY <1>2, <1>8, <1>9, <1>10, <1>11, <1>12 DEF RepositoryInv
<1>14. SelectionInv(m)
  BY <1>7, <1>8 DEF SelectionInv
<1>15. StaleInv(m)
  BY <1>3, <1>8 DEF StaleInv
<1> QED
  BY <1>2, <1>3, <1>8, <1>13, <1>14, <1>15 DEF LibInv

\* The invariant, in the parts the steps keep.
LEMMA IInvParts ==
    ASSUME IInv
    PROVE  /\ disk \in SUBSET Files /\ lost \in SUBSET Files /\ lastLost \in 0..Cardinality(Files)
           /\ LibInv(lib) /\ WithinBounds(lib) /\ MeansOf(history, lib)
BY DEF IInv, LibInv, HistoryInv, MeansOf

LEMMA IInvAgain ==
    ASSUME disk' \in SUBSET Files, lost' \in SUBSET Files, lastLost' \in 0..Cardinality(Files),
           LibInv(lib'), WithinBounds(lib'), MeansOf(history', lib')
    PROVE  IInv'
BY DEF IInv, LibInv, HistoryInv, MeansOf

LEMMA InitHolds == Init => IInv
<1> SUFFICES ASSUME Init PROVE IInv
  OBVIOUS
<1>1. /\ disk = Files /\ history = <<>> /\ lost = {} /\ lastLost = 0
      /\ lib.list = <<>> /\ lib.dirs = <<>> /\ lib.filesSet = {} /\ lib.ids = 0 /\ lib.dirIDs = 0
      /\ lib \in Library
  BY DEF Init, Empty, Library
<1>2. Cardinality(Files) \in Nat /\ MaxArtworks \in Nat /\ MaxDirs \in Nat
  BY FilesAssumption, FS_CardinalityType
<1>3. RepositoryInv(lib)
  BY <1>1 DEF RepositoryInv, RowsAreOwn, RowsCount, RowsCover, ArtworksAreOwn, ArtworksAreAt
<1>4. SelectionInv(lib) /\ StaleInv(lib)
  BY <1>1 DEF SelectionInv, StaleInv
<1>5. WithinBounds(lib)
  BY <1>1, <1>2 DEF WithinBounds
<1>6. HistoryInv
  BY <1>1 DEF HistoryInv
<1> QED
  BY <1>1, <1>2, <1>3, <1>4, <1>5, <1>6 DEF IInv

\* Artworks are added and the command records where.
LEMMA AddKeeps ==
    ASSUME IInv, NEW files \in SUBSET disk, NEW full \in BOOLEAN, Add(files, full)
    PROVE  IInv' /\ Added(lib, lib')
<1> DEFINE m == AddedFiles(lib, files, full)
           new == (DOMAIN m.list) \ (DOMAIN lib.list)
           no == FALSE
           c == Item("add", new, m)
<1>1. /\ lib' = m /\ WithinBounds(m) /\ history' = <<c>>
      /\ disk' = disk /\ lost' = lost /\ lastLost' = lastLost
  BY DEF Add, Record
<1>2. /\ LibInv(lib) /\ disk \in SUBSET Files /\ lost \in SUBSET Files
      /\ lastLost \in 0..Cardinality(Files)
  BY IInvParts
<1>3. Added(lib, m)
  BY <1>2, AddedFilesAdds DEF LibInv
<1> HIDE DEF m
<1>4. LibInv(m)
  BY <1>2, <1>3, GrownSelection DEF LibInv, Added
<1>5. new \in SUBSET Live(m)
  <2>1. /\ DOMAIN m.list = 1..Len(m.list) /\ DOMAIN lib.list = 1..Len(lib.list)
        /\ Len(m.list) \in Nat /\ Len(lib.list) \in Nat
    BY <1>2, <1>4, LibraryTypes, ArtworkTypes DEF LibInv
  <2> QED
    BY <1>3, <2>1 DEF Added, Live
<1>6. no = FALSE /\ no \in BOOLEAN /\ c = Item("add", new, m)
  OBVIOUS
<1> HIDE DEF new, no, c
<1>7. c = CommandOf("add", new, m, no, {}, {})
  BY <1>5, <1>6, ItemIsCommand
<1>8. c \in Command /\ Means(c, m) /\ (c.unselectAll <=> no)
  <2>1. {} \in SUBSET Nat /\ {} \in SUBSET Paths
    OBVIOUS
  <2> QED
    BY <1>4, <1>5, <1>6, <1>7, <2>1, CommandMeans DEF LibInv
<1>9. Reselects(c, m)
  BY <1>6, <1>8 DEF Reselects
<1>10. MeansOf(history', lib')
  BY <1>1, <1>8, <1>9, Remembers
<1>11. IInv'
  BY <1>1, <1>2, <1>4, <1>10, IInvAgain
<1> QED
  BY <1>1, <1>3, <1>11

\* A removal records what it flags and what brings the selection back.
LEMMA RemovalKeeps ==
    ASSUME NEW l, LibInv(l), NEW kind \in {"remove", "removeDirectory"}, NEW indices \in SUBSET Live(l),
           NEW refill \in SUBSET Paths, NEW r, r = RemovedFiles(l, indices), NEW m, m = r.lib,
           NEW c, c = CommandOf(kind, indices, l, r.unselectAll, r.selected, refill),
           NEW h, h = <<c>>
    PROVE  LibInv(m) /\ Touches(l, {}, m) /\ MeansOf(h, m) /\ m.ids = l.ids /\ m.dirIDs = l.dirIDs
<1>1. /\ LibInv(m) /\ Touches(l, {}, m) /\ FlaggedToo(l, indices, m)
      /\ m.ids = l.ids /\ m.dirIDs = l.dirIDs /\ KeptRows(l.dirs, m.dirs)
  BY RemovedFilesTouch
<1>2. /\ r.selected \in SUBSET Nat /\ r.unselectAll \in BOOLEAN
      /\ \A x \in r.selected : \E k \in 1..Len(m.dirs) : m.dirs[k].id = x
      /\ r.unselectAll => r.selected # {}
  <2>1. CASE indices = {}
    <3>1. r.selected = {} /\ r.unselectAll = FALSE
      BY <2>1 DEF RemovedFiles, NothingRemoved
    <3> QED
      BY <3>1
  <2>2. CASE indices # {}
    BY <2>2, RemovedFilesParts DEF LibInv
  <2> QED
    BY <2>1, <2>2
<1>3. /\ c \in Command /\ Means(c, l)
      /\ (c.unselectAll <=> r.unselectAll) /\ c.selected = r.selected
  <2> DEFINE u == r.unselectAll
             s == r.selected
  <2>1. u \in BOOLEAN /\ s \in SUBSET Nat /\ c = CommandOf(kind, indices, l, u, s, refill)
    BY <1>2
  <2> HIDE DEF u, s
  <2>2. c \in Command /\ Means(c, l) /\ (c.unselectAll <=> u) /\ c.selected = s
    BY <2>1, CommandMeans DEF LibInv
  <2> QED
    BY <2>2 DEF u, s
<1>4. Means(c, m)
  BY <1>1, <1>3, MeansTheSame DEF LibInv, FlaggedToo, SameArtworks, SameArtwork
<1>5. Reselects(c, m)
  BY <1>2, <1>3 DEF Reselects
<1>6. MeansOf(h, m)
  BY <1>3, <1>4, <1>5, Remembers
<1> QED
  BY <1>1, <1>6

LEMMA VisibleIsLive ==
    ASSUME NEW l, NEW path
    PROVE  Visible(l) \subseteq Live(l) /\ InDirectory(l, path) \subseteq Live(l)
BY DEF Visible, InDirectory

LEMMA RemoveSelectedKeeps ==
    ASSUME IInv, RemoveSelected
    PROVE  IInv' /\ Touches(lib, {}, lib')
<1>1. PICK indices \in (SUBSET Visible(lib)) \ {{}} :
        /\ lib' = RemovedFiles(lib, indices).lib
        /\ Record([Item("remove", indices, lib) EXCEPT
                        !.unselectAll = RemovedFiles(lib, indices).unselectAll,
                        !.selected = RemovedFiles(lib, indices).selected])
        /\ UNCHANGED <<disk, lost, lastLost>>
  BY DEF RemoveSelected
<1> DEFINE r == RemovedFiles(lib, indices)
           m == r.lib
           c == CommandOf("remove", indices, lib, r.unselectAll, r.selected, {})
<1>2. /\ LibInv(lib) /\ disk \in SUBSET Files /\ lost \in SUBSET Files
      /\ lastLost \in 0..Cardinality(Files) /\ WithinBounds(lib)
  BY IInvParts
<1>3. indices \in SUBSET Live(lib)
  BY <1>1, VisibleIsLive
<1>4. history' = <<c>>
  <2>1. history' = <<Reselecting(Item("remove", indices, lib), r.unselectAll, r.selected)>>
    BY <1>1 DEF Record, Reselecting
  <2> HIDE DEF r
  <2> QED
    BY <1>3, <2>1, RemovalCommand
<1>5. /\ r = RemovedFiles(lib, indices) /\ m = r.lib
      /\ c = CommandOf("remove", indices, lib, r.unselectAll, r.selected, {})
      /\ {} \in SUBSET Paths
  OBVIOUS
<1>6. lib' = m
  BY <1>1
<1> HIDE DEF r, m, c
<1>7. LibInv(m) /\ Touches(lib, {}, m) /\ MeansOf(history', m) /\ m.ids = lib.ids /\ m.dirIDs = lib.dirIDs
  BY <1>2, <1>3, <1>4, <1>5, RemovalKeeps
<1>8. WithinBounds(m)
  BY <1>2, <1>7 DEF WithinBounds
<1> QED
  BY <1>1, <1>2, <1>6, <1>7, <1>8, IInvAgain

LEMMA RemoveDirectoryKeeps ==
    ASSUME IInv, RemoveDirectory
    PROVE  IInv' /\ Touches(lib, {}, lib')
<1>1. PICK d \in DOMAIN lib.dirs :
        /\ lib' = RemovedFiles(lib, InDirectory(lib, lib.dirs[d].path)).lib
        /\ Record([Item("removeDirectory", InDirectory(lib, lib.dirs[d].path), lib) EXCEPT
                !.unselectAll = RemovedFiles(lib, InDirectory(lib, lib.dirs[d].path)).unselectAll,
                !.selected = RemovedFiles(lib, InDirectory(lib, lib.dirs[d].path)).selected,
                !.refill = IF lib.dirs[d].id \in RemovedFiles(lib, InDirectory(lib, lib.dirs[d].path)).full
                           THEN {lib.dirs[d].path} ELSE {}])
        /\ UNCHANGED <<disk, lost, lastLost>>
  BY DEF RemoveDirectory
<1> DEFINE indices == InDirectory(lib, lib.dirs[d].path)
           r == RemovedFiles(lib, indices)
           m == r.lib
           refill == IF lib.dirs[d].id \in r.full THEN {lib.dirs[d].path} ELSE {}
           c == CommandOf("removeDirectory", indices, lib, r.unselectAll, r.selected, refill)
<1>2. /\ LibInv(lib) /\ disk \in SUBSET Files /\ lost \in SUBSET Files
      /\ lastLost \in 0..Cardinality(Files) /\ WithinBounds(lib)
  BY IInvParts
<1>3. indices \in SUBSET Live(lib)
  BY VisibleIsLive
<1>4. history' = <<c>>
  <2>1. history' = <<Refilling(Item("removeDirectory", indices, lib), r.unselectAll, r.selected, refill)>>
    BY <1>1 DEF Record, Refilling
  <2> HIDE DEF indices, r, refill
  <2> QED
    BY <1>3, <2>1, RemovalCommand
<1>5. refill \in SUBSET Paths
  <2>1. lib.dirs \in Seq(DirectoryT)
    BY <1>2, LibraryTypes DEF LibInv
  <2>2. lib.dirs[d].path \in Paths
    BY <2>1, RowTypes
  <2> HIDE DEF r
  <2> QED
    BY <2>2
<1>6. /\ r = RemovedFiles(lib, indices) /\ m = r.lib
      /\ c = CommandOf("removeDirectory", indices, lib, r.unselectAll, r.selected, refill)
  OBVIOUS
<1>7. lib' = m
  BY <1>1
<1> HIDE DEF r, m, c, indices, refill
<1>8. LibInv(m) /\ Touches(lib, {}, m) /\ MeansOf(history', m) /\ m.ids = lib.ids /\ m.dirIDs = lib.dirIDs
  BY <1>2, <1>3, <1>4, <1>5, <1>6, RemovalKeeps
<1>9. WithinBounds(m)
  BY <1>2, <1>8 DEF WithinBounds
<1> QED
  BY <1>1, <1>2, <1>7, <1>8, <1>9, IInvAgain

LEMMA ModifyKeeps ==
    ASSUME IInv, Modify
    PROVE  IInv' /\ lib' = lib
<1> DEFINE no == FALSE
           c == Item("edit", {}, lib)
<1>1. /\ LibInv(lib) /\ disk \in SUBSET Files /\ lost \in SUBSET Files
      /\ lastLost \in 0..Cardinality(Files) /\ WithinBounds(lib)
  BY IInvParts
<1>2. history' = <<c>> /\ lib' = lib /\ disk' = disk /\ lost' = lost /\ lastLost' = lastLost
  BY DEF Modify, Record
<1>3. no = FALSE /\ no \in BOOLEAN /\ c = Item("edit", {}, lib)
  OBVIOUS
<1>4. {} \in SUBSET Live(lib) /\ {} \in SUBSET Nat /\ {} \in SUBSET Paths
  OBVIOUS
<1> HIDE DEF no, c
<1>5. c = CommandOf("edit", {}, lib, no, {}, {})
  BY <1>3, <1>4, ItemIsCommand
<1>6. c \in Command /\ Means(c, lib) /\ (c.unselectAll <=> no)
  BY <1>1, <1>3, <1>4, <1>5, CommandMeans DEF LibInv
<1>7. Reselects(c, lib)
  BY <1>3, <1>6 DEF Reselects
<1>8. MeansOf(history', lib)
  BY <1>2, <1>6, <1>7, Remembers
<1> QED
  BY <1>1, <1>2, <1>8, IInvAgain

LEMMA UndoLastActionKeeps ==
    ASSUME IInv, UndoLastAction
    PROVE  /\ IInv' /\ history # <<>> /\ history[1] \in Command /\ Means(history[1], lib)
           /\ Reselects(history[1], lib) /\ lib' = Undone(lib, history[1])
           /\ Touches(lib, history[1].indices, lib')
<1> DEFINE c == history[1]
           m == Undone(lib, c)
<1>1. /\ LibInv(lib) /\ disk \in SUBSET Files /\ lost \in SUBSET Files
      /\ lastLost \in 0..Cardinality(Files) /\ MeansOf(history, lib)
  BY IInvParts
<1>2. /\ history # <<>> /\ history' = <<>> /\ lib' = m /\ WithinBounds(m)
      /\ disk' = disk /\ lost' = lost /\ lastLost' = lastLost
  BY DEF UndoLastAction
<1>3. c \in Command /\ Means(c, lib) /\ Reselects(c, lib)
  BY <1>1, <1>2 DEF MeansOf
<1> HIDE DEF c
<1>4. LibInv(m) /\ Touches(lib, c.indices, m)
  BY <1>1, <1>3, UndoneTouches
<1> HIDE DEF m
<1>5. MeansOf(history', m)
  BY <1>2, Forgets
<1>6. IInv'
  BY <1>1, <1>2, <1>4, <1>5, IInvAgain
<1> QED
  BY <1>2, <1>3, <1>4, <1>6 DEF c, m

LEMMA DiscardLastActionKeeps ==
    ASSUME IInv, DiscardLastAction
    PROVE  /\ IInv'
           /\ \A j \in 1..Len(lib'.list) : \E k \in 1..Len(lib.list) : k \in Live(lib) /\ lib'.list[j] = lib.list[k]
<1> DEFINE m == Dismissed(lib)
<1>1. /\ LibInv(lib) /\ disk \in SUBSET Files /\ lost \in SUBSET Files
      /\ lastLost \in 0..Cardinality(Files) /\ WithinBounds(lib)
  BY IInvParts
<1>2. history' = <<>> /\ lib' = m /\ disk' = disk /\ lost' = lost /\ lastLost' = lastLost
  BY DEF DiscardLastAction
<1>3. /\ LibInv(m) /\ m.ids = lib.ids /\ m.dirIDs = lib.dirIDs
      /\ \A j \in 1..Len(m.list) : \E k \in 1..Len(lib.list) : k \in Live(lib) /\ m.list[j] = lib.list[k]
  BY <1>1, DismissedParts
<1> HIDE DEF m
<1>4. MeansOf(history', m) /\ WithinBounds(m)
  BY <1>1, <1>2, <1>3, Forgets DEF WithinBounds
<1> QED
  BY <1>1, <1>2, <1>3, <1>4, IInvAgain

\* Selecting directories keeps the invariant as long as one is selected.
LEMMA SelectingKeeps ==
    ASSUME NEW l, LibInv(l), NEW es \in Seq(DirectoryT), SameRows(l.dirs, es),
           SomeSelected(l.dirs) => SomeSelected(es), NEW m, m = [l EXCEPT !.dirs = es]
    PROVE  /\ LibInv(m) /\ m.ids = l.ids /\ m.dirIDs = l.dirIDs /\ m.list = l.list
           /\ KeptRows(l.dirs, m.dirs)
<1>1. /\ m \in Library /\ m.dirs = es /\ m.list = l.list /\ m.filesSet = l.filesSet
      /\ m.ids = l.ids /\ m.dirIDs = l.dirIDs
  BY WithDirs DEF LibInv
<1>2. SameArtworks(l.list, m.list) /\ KeptRows(l.dirs, m.dirs) /\ SameRows(l.dirs, m.dirs)
  BY <1>1 DEF SameArtworks, SameArtwork, SameRows
<1>3. RepositoryInv(m) /\ StaleInv(m)
  BY <1>1, <1>2, InvCarries, StaleCarries DEF LibInv
<1>4. SelectionInv(m)
  BY <1>1, <1>2 DEF LibInv, SelectionInv, KeptRows
<1> QED
  BY <1>1, <1>2, <1>3, <1>4 DEF LibInv

LEMMA ToggleKeeps ==
    ASSUME IInv, ToggleDirectorySelected
    PROVE  IInv' /\ lib'.list = lib.list
<1>1. PICK d \in DOMAIN lib.dirs :
        /\ lib' = [lib EXCEPT !.dirs = ChangeSelected(lib.dirs, d, ~lib.dirs[d].selected)]
        /\ UNCHANGED <<disk, history, lost, lastLost>>
  BY DEF ToggleDirectorySelected
<1> DEFINE value == ~lib.dirs[d].selected
           es == ChangeSelected(lib.dirs, d, value)
<1>2. /\ LibInv(lib) /\ disk \in SUBSET Files /\ lost \in SUBSET Files
      /\ lastLost \in 0..Cardinality(Files) /\ WithinBounds(lib) /\ MeansOf(history, lib)
  BY IInvParts
<1>3. lib.dirs \in Seq(DirectoryT) /\ d \in 1..Len(lib.dirs) /\ value \in BOOLEAN
  BY <1>2, LibraryTypes, RowTypes DEF LibInv
<1>4. lib' = [lib EXCEPT !.dirs = es] /\ es = ChangeSelected(lib.dirs, d, value)
  BY <1>1
<1> HIDE DEF value, es
<1>5. es \in Seq(DirectoryT) /\ SameRows(lib.dirs, es) /\ (SomeSelected(lib.dirs) => SomeSelected(es))
  BY <1>3, <1>4, ChangeSelectedRows
<1>6. /\ LibInv(lib') /\ lib'.ids = lib.ids /\ lib'.dirIDs = lib.dirIDs /\ lib'.list = lib.list
      /\ KeptRows(lib.dirs, lib'.dirs)
  BY <1>2, <1>4, <1>5, SelectingKeeps
<1>7. MeansOf(history, lib')
  BY <1>2, <1>6, MeansCarries DEF LibInv, SameArtworks, SameArtwork
<1>8. WithinBounds(lib')
  BY <1>2, <1>6 DEF WithinBounds
<1> QED
  BY <1>1, <1>2, <1>6, <1>7, <1>8, IInvAgain

LEMMA FileLostKeeps ==
    ASSUME IInv, FileLost
    PROVE  IInv' /\ lib'.list = lib.list
<1>1. PICK f \in disk :
        /\ disk' = disk \ {f}
        /\ lost' = IF f \in lib.watched THEN lost \cup {f} ELSE lost
        /\ lib' = [lib EXCEPT !.watched = lib.watched \ {f}]
        /\ UNCHANGED <<history, lastLost>>
  BY DEF FileLost
<1>2. /\ LibInv(lib) /\ disk \in SUBSET Files /\ lost \in SUBSET Files
      /\ lastLost \in 0..Cardinality(Files) /\ WithinBounds(lib) /\ MeansOf(history, lib)
  BY IInvParts
<1>3. disk' \in SUBSET Files /\ lost' \in SUBSET Files
  BY <1>1, <1>2
<1>4. /\ lib' \in Library /\ lib'.dirs = lib.dirs /\ lib'.list = lib.list /\ lib'.filesSet = lib.filesSet
      /\ lib'.ids = lib.ids /\ lib'.dirIDs = lib.dirIDs
  BY <1>1, <1>2 DEF Library, LibInv
<1>5. LibInv(lib')
  BY <1>2, <1>4 DEF LibInv, RepositoryInv, SelectionInv, StaleInv
<1>6. MeansOf(history, lib')
  BY <1>2, <1>4, MeansCarries DEF LibInv, SameArtworks, SameArtwork, KeptRows
<1>7. WithinBounds(lib')
  BY <1>2, <1>4 DEF WithinBounds
<1> QED
  BY <1>1, <1>2, <1>3, <1>4, <1>5, <1>6, <1>7, IInvAgain

LEMMA OnAvailabilityTimerKeeps ==
    ASSUME IInv, OnAvailabilityTimer
    PROVE  /\ IInv' /\ SameArtworks(lib.list, lib'.list)
           /\ \A i \in 1..Len(lib.list) : lib'.list[i].removed <=> lib.list[i].removed
<1> DEFINE Gone(i) == lib.list[i].unavailable \/ lib.list[i].file \in lost \ disk
           f == [i \in 1..Len(lib.list) |-> [lib.list[i] EXCEPT !.unavailable = Gone(i)]]
<1>1. /\ LibInv(lib) /\ disk \in SUBSET Files /\ lost \in SUBSET Files
      /\ lastLost \in 0..Cardinality(Files) /\ WithinBounds(lib) /\ MeansOf(history, lib)
  BY IInvParts
<1>2. /\ lib \in Library /\ Len(lib.list) \in Nat /\ DOMAIN lib.list = 1..Len(lib.list)
      /\ \A i \in 1..Len(lib.list) : lib.list[i] \in ArtworkT /\ lib.list[i].unavailable \in BOOLEAN
  BY <1>1, LibraryTypes, ArtworkTypes DEF LibInv
<1>3. ASSUME NEW i \in 1..Len(lib.list)
      PROVE  f[i] \in ArtworkT /\ SameArtwork(lib.list[i], f[i]) /\ (f[i].removed <=> lib.list[i].removed)
  <2> DEFINE a == lib.list[i]
             value == Gone(i)
  <2>1. value \in BOOLEAN /\ a \in ArtworkT
    BY <1>2
  <2>2. f[i] = [a EXCEPT !.unavailable = value]
    OBVIOUS
  <2> HIDE DEF f, Gone, a, value
  <2>3. f[i] \in ArtworkT /\ SameArtwork(a, f[i]) /\ (f[i].removed <=> a.removed)
    BY <2>1, <2>2 DEF ArtworkT, SameArtwork
  <2> QED
    BY <2>3 DEF a, value
<1>4. PICK list : list = [i \in 1..Len(lib.list) |-> f[i]]
  OBVIOUS
<1>5. /\ lib' = [lib EXCEPT !.list = list]
      /\ disk' = disk /\ history' = history /\ lost' = lost /\ lastLost' = Cardinality(lost)
  BY <1>2, <1>4 DEF OnAvailabilityTimer
<1> HIDE DEF f
<1>6. list \in Seq(ArtworkT) /\ Len(list) = Len(lib.list) /\ \A i \in 1..Len(lib.list) : list[i] = f[i]
  BY <1>2, <1>3, <1>4, ArtworksOf
<1>7. /\ lib' \in Library /\ lib'.list = list /\ lib'.dirs = lib.dirs /\ lib'.filesSet = lib.filesSet
      /\ lib'.ids = lib.ids /\ lib'.dirIDs = lib.dirIDs
  BY <1>2, <1>5, <1>6, WithList
<1>8. /\ SameArtworks(lib.list, lib'.list)
      /\ \A i \in 1..Len(lib.list) : lib'.list[i].removed <=> lib.list[i].removed
  BY <1>3, <1>6, <1>7 DEF SameArtworks
<1>9. SameRows(lib.dirs, lib'.dirs) /\ KeptRows(lib.dirs, lib'.dirs)
  BY <1>7 DEF SameRows, KeptRows
<1>10. RepositoryInv(lib') /\ StaleInv(lib')
  BY <1>1, <1>7, <1>8, <1>9, InvCarries, StaleCarries DEF LibInv
<1>11. LibInv(lib')
  BY <1>1, <1>7, <1>10 DEF LibInv, SelectionInv
<1>12. MeansOf(history, lib')
  BY <1>1, <1>7, <1>8, <1>9, MeansCarries DEF LibInv
<1>13. lastLost' \in 0..Cardinality(Files)
  <2>1. IsFiniteSet(Files)
    BY FilesAssumption
  <2>2. Cardinality(lost) <= Cardinality(Files) /\ IsFiniteSet(lost)
    BY <1>1, <2>1, FS_Subset
  <2>3. Cardinality(lost) \in Nat /\ Cardinality(Files) \in Nat
    BY <2>1, <2>2, FS_CardinalityType
  <2> QED
    BY <1>5, <2>2, <2>3
<1>14. WithinBounds(lib')
  BY <1>1, <1>7 DEF WithinBounds
<1> QED
  BY <1>1, <1>5, <1>8, <1>11, <1>12, <1>13, <1>14, IInvAgain

\* With nothing to delete every item is kept.
KeptAll(list, i, s) == s \in Seq(ArtworkT) /\ Len(s) = i /\ \A j \in 1..i : s[j] = list[j]

LEMMA KeepingAll ==
    ASSUME NEW list \in Seq(ArtworkT)
    PROVE  KeptAll(list, Len(list), Keeping(list, {})[Len(list)])
<1> DEFINE S == [i \in 0..Len(list) |-> {s \in Seq(ArtworkT) : KeptAll(list, i, s)}]
<1>1. Len(list) \in Nat
  OBVIOUS
<1>2. << >> \in S[0]
  BY <1>1 DEF KeptAll
<1>3. ASSUME NEW i \in 1..Len(list), NEW s \in S[i - 1]
      PROVE  (IF i \in {} THEN s ELSE Append(s, list[i])) \in S[i]
  <2> DEFINE t == Append(s, list[i])
  <2>1. s \in Seq(ArtworkT) /\ Len(s) = i - 1 /\ \A j \in 1..(i - 1) : s[j] = list[j]
    BY <1>1, <1>3 DEF KeptAll
  <2>2. i \in Nat /\ list[i] \in ArtworkT
    BY ArtworkTypes
  <2>3. t \in Seq(ArtworkT) /\ Len(t) = i /\ t[i] = list[i] /\ \A j \in 1..(i - 1) : t[j] = s[j]
    BY <2>1, <2>2
  <2> HIDE DEF t
  <2>4. KeptAll(list, i, t)
    BY <2>1, <2>2, <2>3 DEF KeptAll
  <2>5. t \in S[i]
    BY <1>1, <2>3, <2>4
  <2> QED
    BY <2>5 DEF t
<1> HIDE DEF S
<1>4. \A i \in 0..Len(list) : Keeping(list, {})[i] \in S[i]
  BY <1>1, <1>2, <1>3, KeepingRuns
<1> QED
  BY <1>1, <1>4 DEF S

\* The command that a purge undoes first.
LEMMA BeforePurgeTouches ==
    ASSUME LibInv(lib), disk \in SUBSET Files, MeansOf(history, lib), NEW b, b = BeforePurge.lib
    PROVE  /\ LibInv(b)
           /\ history = <<>> => Touches(lib, {}, b)
           /\ history # <<>> => Touches(lib, history[1].indices, b)
<1>1. CASE history = <<>>
  <2>1. b = lib
    BY <1>1 DEF BeforePurge
  <2>2. Touches(lib, {}, lib)
    BY LibraryTypes, ArtworkTypes DEF LibInv, Touches, SameArtwork
  <2> QED
    BY <1>1, <2>1, <2>2
<1>2. CASE history # <<>>
  <2> DEFINE c == history[1]
  <2>1. b = Undone(lib, c)
    BY <1>2 DEF BeforePurge
  <2>2. c \in Command /\ Means(c, lib) /\ Reselects(c, lib)
    BY <1>2 DEF MeansOf
  <2> HIDE DEF c
  <2>3. LibInv(b) /\ Touches(lib, c.indices, b)
    BY <2>1, <2>2, UndoneTouches
  <2> QED
    BY <1>2, <2>3 DEF c
<1> QED
  BY <1>1, <1>2

LEMMA PurgeKeeps ==
    ASSUME IInv, PurgeUnavailableFiles, NEW b, b = BeforePurge.lib
    PROVE  /\ IInv'
           /\ \A j \in 1..Len(lib'.list) : \E k \in 1..Len(b.list) :
                 lib'.list[j].id = b.list[k].id /\ (b.list[k].removed => lib'.list[j].removed)
<1> DEFINE indices == Unavailable(b)
           x == RemovedFiles(b, indices).lib
           m == DeleteItems(x, indices)
<1>1. /\ LibInv(lib) /\ disk \in SUBSET Files /\ lost \in SUBSET Files
      /\ lastLost \in 0..Cardinality(Files) /\ MeansOf(history, lib)
  BY IInvParts
<1>2. /\ lib' = m /\ WithinBounds(m) /\ history' = <<>> /\ disk' = disk
      /\ (lost' = {} /\ lastLost' = 0) \/ (lost' = lost /\ lastLost' = lastLost)
  <2>1. /\ lib' = m /\ WithinBounds(lib') /\ history' = BeforePurge.history /\ disk' = disk
        /\ IF Cardinality(lost) = lastLost
           THEN lost' = {} /\ lastLost' = 0
           ELSE UNCHANGED <<lost, lastLost>>
    BY DEF PurgeUnavailableFiles
  <2>2. BeforePurge.history = <<>>
    BY DEF BeforePurge
  <2> HIDE DEF m
  <2> QED
    BY <2>1, <2>2
<1>3. LibInv(b)
  BY <1>1, BeforePurgeTouches
<1> HIDE DEF indices
<1>4. /\ LibInv(x) /\ Touches(b, {}, x) /\ FlaggedToo(b, indices, x)
      /\ indices # {} => Settled(x)
  BY <1>3, RemovedFilesTouch
<1> HIDE DEF x
<1>5. /\ m \in Library /\ RepositoryInv(m)
      /\ m.dirs = x.dirs /\ m.filesSet = x.filesSet /\ m.ids = x.ids /\ m.dirIDs = x.dirIDs
      /\ \A j \in 1..Len(m.list) : \E k \in 1..Len(x.list) : k \notin indices /\ m.list[j] = x.list[k]
  BY <1>4, DeleteItemsParts DEF LibInv
<1>6. StaleInv(m)
  <2>1. CASE indices # {}
    <3>1. Settled(m)
      BY <1>4, <1>5, <2>1 DEF Settled
    <3> QED
      BY <3>1, SettledIsStale
  <2>2. CASE indices = {}
    <3> DEFINE list == Keeping(x.list, {})[Len(x.list)]
    <3>1. x.list \in Seq(ArtworkT) /\ m = [x EXCEPT !.list = list]
      BY <1>4, <2>2, LibraryTypes DEF LibInv, DeleteItems
    <3>2. KeptAll(x.list, Len(x.list), list)
      BY <3>1, KeepingAll
    <3> HIDE DEF list, m
    <3>3. list \in Seq(ArtworkT) /\ Len(list) = Len(x.list) /\ \A j \in 1..Len(x.list) : list[j] = x.list[j]
      BY <3>2 DEF KeptAll
    <3>4. m.list = list
      BY <1>4, <3>1, <3>3, WithList DEF LibInv
    <3>5. StaleInv(x)
      BY <1>4 DEF LibInv
    <3> SUFFICES ASSUME NEW i \in 1..Len(m.list), m.list[i].removed, HasDirectory(m.list[i], m.dirs),
                        m.list[i].file \in m.filesSet
                 PROVE  \E j \in 1..Len(m.list) : j # i /\ m.list[j].file = m.list[i].file
      BY DEF StaleInv
    <3>6. i \in 1..Len(x.list) /\ m.list[i] = x.list[i]
      BY <3>3, <3>4
    <3>7. PICK j \in 1..Len(x.list) : j # i /\ x.list[j].file = x.list[i].file
      BY <1>5, <3>5, <3>6 DEF StaleInv
    <3> QED
      BY <3>3, <3>4, <3>6, <3>7
  <2> QED
    BY <2>1, <2>2
<1> HIDE DEF m
<1>7. LibInv(m)
  BY <1>4, <1>5, <1>6 DEF LibInv, SelectionInv
<1>8. lost' \in SUBSET Files /\ lastLost' \in 0..Cardinality(Files)
  BY <1>1, <1>2, FilesAssumption, FS_CardinalityType
<1>9. MeansOf(history', lib')
  BY <1>2, Forgets
<1>10. IInv'
  BY <1>1, <1>2, <1>7, <1>8, <1>9, IInvAgain
<1>11. ASSUME NEW j \in 1..Len(m.list)
       PROVE  \E k \in 1..Len(b.list) : m.list[j].id = b.list[k].id /\ (b.list[k].removed => m.list[j].removed)
  <2>1. PICK k \in 1..Len(x.list) : m.list[j] = x.list[k]
    BY <1>5
  <2>2. k \in 1..Len(b.list) /\ SameArtwork(b.list[k], x.list[k]) /\ (b.list[k].removed => x.list[k].removed)
    BY <1>4 DEF FlaggedToo, SameArtworks
  <2> QED
    BY <2>1, <2>2 DEF SameArtwork
<1> QED
  BY <1>2, <1>10, <1>11

LEMMA StepHolds == IInv /\ [Next]_vars => IInv'
<1> SUFFICES ASSUME IInv, [Next]_vars PROVE IInv'
  OBVIOUS
<1>1. CASE AddFiles
  <2>1. PICK files \in (SUBSET disk) \ {{}} : Add(files, FALSE)
    BY <1>1 DEF AddFiles
  <2> DEFINE no == FALSE
  <2>2. no \in BOOLEAN /\ Add(files, no) /\ files \in SUBSET disk
    BY <2>1
  <2> HIDE DEF no
  <2> QED
    BY <2>2, AddKeeps
<1>2. CASE AddDirectory
  <2>1. PICK path \in Paths : Add({f \in disk : DirOf[f] = path}, TRUE)
    BY <1>2 DEF AddDirectory
  <2> DEFINE yes == TRUE
             files == {f \in disk : DirOf[f] = path}
  <2>2. yes \in BOOLEAN /\ Add(files, yes) /\ files \in SUBSET disk
    BY <2>1
  <2> HIDE DEF yes, files
  <2> QED
    BY <2>2, AddKeeps
<1>3. CASE RemoveSelected
  BY <1>3, RemoveSelectedKeeps
<1>4. CASE RemoveDirectory
  BY <1>4, RemoveDirectoryKeeps
<1>5. CASE Modify
  BY <1>5, ModifyKeeps
<1>6. CASE UndoLastAction
  BY <1>6, UndoLastActionKeeps
<1>7. CASE DiscardLastAction
  BY <1>7, DiscardLastActionKeeps
<1>8. CASE ToggleDirectorySelected
  BY <1>8, ToggleKeeps
<1>9. CASE FileLost
  BY <1>9, FileLostKeeps
<1>10. CASE OnAvailabilityTimer
  BY <1>10, OnAvailabilityTimerKeeps
<1>11. CASE PurgeUnavailableFiles
  BY <1>11, PurgeKeeps
<1>12. CASE UNCHANGED vars
  <2>1. disk' = disk /\ lib' = lib /\ history' = history /\ lost' = lost /\ lastLost' = lastLost
    BY <1>12 DEF vars
  <2> QED
    BY <2>1, IInvParts, IInvAgain
<1> QED
  BY <1>1, <1>2, <1>3, <1>4, <1>5, <1>6, <1>7, <1>8, <1>9, <1>10, <1>11, <1>12 DEF Next

LEMMA InvariantHolds == Spec => []IInv
BY InitHolds, StepHolds, PTL DEF Spec

-----------------------------------------------------------------------------
(* What holds in every behaviour *)

\* Whatever is added, removed, undone, dismissed or purged, the list, the directories
\* and the history stay of their types and within the bounds of the model.
THEOREM ArtworksTypeCorrect == Spec => []TypeOK
<1>1. IInv => TypeOK
  <2> SUFFICES ASSUME IInv PROVE TypeOK
    OBVIOUS
  <2>1. /\ disk \in SUBSET Files /\ lost \in SUBSET Files /\ lastLost \in 0..Cardinality(Files)
        /\ LibInv(lib) /\ WithinBounds(lib) /\ MeansOf(history, lib)
    BY IInvParts
  <2>2. /\ lib.list \in Seq(ArtworkT) /\ lib.dirs \in Seq(DirectoryT)
        /\ lib.filesSet \in SUBSET Files /\ lib.watched \in SUBSET Files
        /\ lib.ids \in Nat /\ lib.dirIDs \in Nat
        /\ lib.broken \in SUBSET {"removeFile", "restoreRemoved"} /\ RepositoryInv(lib)
        /\ MaxArtworks \in Nat /\ MaxDirs \in Nat /\ lib.ids <= MaxArtworks /\ lib.dirIDs <= MaxDirs
        /\ Cardinality(Files) \in Nat
    BY <2>1, LibraryTypes, FilesAssumption, FS_CardinalityType DEF LibInv, WithinBounds
  <2>3. ASSUME NEW i \in 1..Len(lib.list) PROVE lib.list[i] \in Artwork
    <3>1. lib.list[i] \in ArtworkT /\ lib.list[i].id \in Nat /\ lib.list[i].dir \in Nat
      BY <2>2, ArtworkTypes
    <3>2. lib.list[i].id < lib.ids /\ lib.list[i].dir < lib.dirIDs
      BY <2>2 DEF RepositoryInv, ArtworksAreOwn, ArtworksAreAt
    <3>3. lib.list[i].id \in 0..MaxArtworks /\ lib.list[i].dir \in 0..MaxDirs
      BY <2>2, <3>1, <3>2
    <3> QED
      BY <3>1, <3>3 DEF ArtworkT, Artwork
  <2>4. ASSUME NEW i \in 1..Len(lib.dirs) PROVE lib.dirs[i] \in Directory
    <3>1. lib.dirs[i] \in DirectoryT /\ lib.dirs[i].id \in Nat /\ lib.dirs[i].count \in Nat
      BY <2>2, RowTypes
    <3>2. /\ lib.dirs[i].id < lib.dirIDs
          /\ lib.dirs[i].count = Cardinality(FilesIn(lib.filesSet, lib.dirs[i].path))
      BY <2>2 DEF RepositoryInv, RowsAreOwn, RowsCount
    <3>3. Cardinality(FilesIn(lib.filesSet, lib.dirs[i].path)) <= Cardinality(Files)
      BY <2>2, FilesAreFinite
    <3>4. lib.dirs[i].id \in 0..MaxDirs /\ lib.dirs[i].count \in 0..Cardinality(Files)
      BY <2>2, <3>1, <3>2, <3>3
    <3> QED
      BY <3>1, <3>4 DEF DirectoryT, Directory
  <2>5. lib.list \in Seq(Artwork) /\ lib.dirs \in Seq(Directory)
    BY <2>2, <2>3, <2>4
  <2>6. Len(history) <= 1
    <3>1. CASE history = <<>>
      BY <3>1
    <3>2. CASE history # <<>>
      <4>1. PICK c : history = <<c>>
        BY <2>1, <3>2 DEF MeansOf
      <4> QED
        BY <4>1
    <3> QED
      BY <3>1, <3>2
  <2> QED
    BY <2>1, <2>2, <2>5, <2>6 DEF TypeOK
<1> QED
  BY <1>1, InvariantHolds, PTL

\* Every accounted file is counted by the one directory of its path, and a directory
\* counts nothing exactly when it is marked removed: accountFile, removeFile and
\* cleanupEmptyDirectories keep the counters true.
THEOREM CountersAreTrue == Spec => []DirectoriesCountFiles
<1>1. IInv => DirectoriesCountFiles
  <2> SUFFICES ASSUME IInv PROVE DirectoriesCountFiles
    OBVIOUS
  <2>1. lib \in Library /\ RepositoryInv(lib) /\ lib.dirs \in Seq(DirectoryT)
        /\ DOMAIN lib.dirs = 1..Len(lib.dirs)
    BY IInvParts, LibraryTypes, RowTypes DEF LibInv
  <2>2. \A path : FindDirectory(lib.dirs, path) = {i \in 1..Len(lib.dirs) : lib.dirs[i].path = path}
    BY <2>1, FoundByPath
  <2>3. ASSUME NEW f \in lib.filesSet PROVE FindDirectory(lib.dirs, DirOf[f]) # {}
    BY <2>1, <2>2 DEF RepositoryInv, RowsCover
  <2>4. ASSUME NEW i \in DOMAIN lib.dirs
        PROVE  /\ FindDirectory(lib.dirs, lib.dirs[i].path) = {i}
               /\ lib.dirs[i].count = Cardinality({f \in lib.filesSet : DirOf[f] = lib.dirs[i].path})
               /\ lib.dirs[i].removed = (lib.dirs[i].count = 0)
    <3>1. i \in 1..Len(lib.dirs)
      BY <2>1
    <3>2. FindDirectory(lib.dirs, lib.dirs[i].path) = {i}
      BY <2>1, <2>2, <3>1 DEF RepositoryInv, RowsAreOwn
    <3>3. /\ lib.dirs[i].count = Cardinality(FilesIn(lib.filesSet, lib.dirs[i].path))
          /\ lib.dirs[i].removed <=> lib.dirs[i].count = 0
          /\ lib.dirs[i].removed \in BOOLEAN
      BY <2>1, <3>1, RowTypes DEF RepositoryInv, RowsCount
    <3>4. lib.dirs[i].count = Cardinality({f \in lib.filesSet : DirOf[f] = lib.dirs[i].path})
      BY <3>3 DEF FilesIn
    <3>5. lib.dirs[i].removed = (lib.dirs[i].count = 0)
      BY <3>3
    <3> QED
      BY <3>2, <3>4, <3>5
  <2> QED
    BY <2>3, <2>4 DEF DirectoriesCountFiles
<1> QED
  BY <1>1, InvariantHolds, PTL

\* While there are directories one is selected: ChangeSelected, the removals, the undo
\* of one that had unselected all, and the cleanup never leave the view without one.
THEOREM SelectionStays == Spec => []SelectionIsNeverEmpty
<1>1. IInv => SelectionIsNeverEmpty
  <2> SUFFICES ASSUME IInv, lib.dirs # <<>> PROVE SelectedDirs(lib.dirs) # {}
    BY DEF SelectionIsNeverEmpty
  <2>1. lib.dirs \in Seq(DirectoryT) /\ SelectionInv(lib)
    BY IInvParts, LibraryTypes DEF LibInv
  <2>2. Len(lib.dirs) # 0
    BY <2>1
  <2> QED
    BY <2>1, <2>2, SelectedRows DEF SelectionInv
<1> QED
  BY <1>1, InvariantHolds, PTL

\* The indices a recorded command keeps mean its artworks as long as it can be undone:
\* nothing that moves the list leaves the history behind.
THEOREM HistoryStaysInSync == Spec => []HistoryIsInSync
<1>1. IInv => HistoryIsInSync
  <2> SUFFICES ASSUME IInv, history # <<>>
               PROVE  history[1].indices \subseteq DOMAIN lib.list /\ IDs(lib, history[1].indices) = history[1].ids
    BY DEF HistoryIsInSync
  <2>1. lib.list \in Seq(ArtworkT) /\ Means(history[1], lib)
    BY IInvParts, LibraryTypes DEF LibInv, MeansOf
  <2> QED
    BY <2>1, ArtworkTypes DEF Means
<1> QED
  BY <1>1, InvariantHolds, PTL

\* What is live again was at one of the given indices.
LEMMA TouchesOnly ==
    ASSUME NEW l, LibInv(l), NEW m \in Library, NEW indices, Touches(l, indices, m),
           NEW i \in RemovedItems(l), NEW j \in 1..Len(m.list), ~m.list[j].removed,
           l.list[i].id = m.list[j].id
    PROVE  i \in indices
<1>1. /\ i \in 1..Len(l.list) /\ l.list[i].removed /\ l.list[i].id < l.ids
      /\ l.list[i].id \in Nat /\ l.ids \in Nat /\ Len(l.list) \in Nat
  BY LiveOf, LibraryTypes, ArtworkTypes DEF LibInv, RepositoryInv, ArtworksAreOwn
<1>2. ~(j > Len(l.list))
  BY <1>1 DEF Touches
<1>3. j \in 1..Len(l.list)
  BY <1>1, <1>2
<1>4. m.list[j].id = l.list[j].id
  BY <1>3 DEF Touches, SameArtwork
<1>5. i = j
  BY <1>1, <1>3, <1>4 DEF LibInv, RepositoryInv, ArtworksAreOwn
<1> QED
  BY <1>1, <1>5 DEF Touches

\* The action of UndoTouchesItsOwn.
TouchesItsOwn ==
    \A i \in RemovedItems(lib), j \in Live(lib') :
        lib.list[i].id = lib'.list[j].id => history # <<>> /\ lib.list[i].id \in history[1].ids

LEMMA TouchedInCommand ==
    ASSUME LibInv(lib), LibInv(lib'), history # <<>>, Means(history[1], lib),
           Touches(lib, history[1].indices, lib')
    PROVE  TouchesItsOwn
<1> SUFFICES ASSUME NEW i \in RemovedItems(lib), NEW j \in Live(lib'), lib.list[i].id = lib'.list[j].id
             PROVE  lib.list[i].id \in history[1].ids
  BY DEF TouchesItsOwn
<1>1. j \in 1..Len(lib'.list) /\ ~lib'.list[j].removed /\ lib' \in Library
  BY LiveOf DEF LibInv
<1>2. i \in history[1].indices
  BY <1>1, TouchesOnly
<1>3. lib.list[i].id \in IDs(lib, history[1].indices)
  BY <1>2 DEF IDs
<1> QED
  BY <1>3 DEF Means

LEMMA TouchedNothing ==
    ASSUME LibInv(lib), LibInv(lib'), Touches(lib, {}, lib')
    PROVE  TouchesItsOwn
<1> SUFFICES ASSUME NEW i \in RemovedItems(lib), NEW j \in Live(lib'), lib.list[i].id = lib'.list[j].id
             PROVE  FALSE
  BY DEF TouchesItsOwn
<1>1. j \in 1..Len(lib'.list) /\ ~lib'.list[j].removed /\ lib' \in Library
  BY LiveOf DEF LibInv
<1> QED
  BY <1>1, TouchesOnly

\* Steps that leave identifiers and flags of the list alone bring nothing back.
LEMMA TouchesSame ==
    ASSUME NEW l, LibInv(l), NEW m, LibInv(m), SameArtworks(l.list, m.list),
           \A i \in 1..Len(l.list) : m.list[i].removed <=> l.list[i].removed
    PROVE  Touches(l, {}, m)
BY LibraryTypes, ArtworkTypes DEF LibInv, Touches, SameArtworks

LEMMA AddedTouches ==
    ASSUME NEW l, LibInv(l), NEW m, Added(l, m)
    PROVE  Touches(l, {}, m)
BY LibraryTypes, ArtworkTypes DEF LibInv, Touches, Added, SameArtwork

LEMMA PurgeTouches ==
    ASSUME IInv, PurgeUnavailableFiles
    PROVE  TouchesItsOwn
<1> SUFFICES ASSUME NEW i \in RemovedItems(lib), NEW j \in Live(lib'), lib.list[i].id = lib'.list[j].id
             PROVE  history # <<>> /\ lib.list[i].id \in history[1].ids
  BY DEF TouchesItsOwn
<1> DEFINE b == BeforePurge.lib
<1>1. /\ LibInv(lib) /\ disk \in SUBSET Files /\ MeansOf(history, lib)
      /\ LibInv(b)
      /\ history = <<>> => Touches(lib, {}, b)
      /\ history # <<>> => Touches(lib, history[1].indices, b)
  BY IInvParts, BeforePurgeTouches
<1>2. /\ LibInv(lib')
      /\ \A p \in 1..Len(lib'.list) : \E k \in 1..Len(b.list) :
            lib'.list[p].id = b.list[k].id /\ (b.list[k].removed => lib'.list[p].removed)
  BY PurgeKeeps DEF IInv, LibInv
<1> HIDE DEF b
<1>3. j \in 1..Len(lib'.list) /\ ~lib'.list[j].removed
  BY <1>2, LiveOf DEF LibInv
<1>4. PICK k \in 1..Len(b.list) : lib'.list[j].id = b.list[k].id /\ ~b.list[k].removed
  BY <1>2, <1>3
<1>5. b \in Library /\ lib.list[i].id = b.list[k].id
  BY <1>1, <1>4 DEF LibInv
<1>6. history # <<>>
  BY <1>1, <1>4, <1>5, TouchesOnly
<1>7. i \in history[1].indices
  BY <1>1, <1>4, <1>5, <1>6, TouchesOnly
<1>8. lib.list[i].id \in IDs(lib, history[1].indices)
  BY <1>7 DEF IDs
<1> QED
  BY <1>1, <1>6, <1>8 DEF MeansOf, Means

LEMMA DiscardTouches ==
    ASSUME IInv, DiscardLastAction
    PROVE  TouchesItsOwn
<1> SUFFICES ASSUME NEW i \in RemovedItems(lib), NEW j \in Live(lib'), lib.list[i].id = lib'.list[j].id
             PROVE  FALSE
  BY DEF TouchesItsOwn
<1>1. /\ LibInv(lib) /\ LibInv(lib')
      /\ \A p \in 1..Len(lib'.list) : \E k \in 1..Len(lib.list) : k \in Live(lib) /\ lib'.list[p] = lib.list[k]
  BY IInvParts, DiscardLastActionKeeps DEF IInv, LibInv
<1>2. j \in 1..Len(lib'.list) /\ i \in 1..Len(lib.list) /\ lib.list[i].removed
  BY <1>1, LiveOf DEF LibInv
<1>3. PICK k \in 1..Len(lib.list) : k \in Live(lib) /\ lib'.list[j] = lib.list[k]
  BY <1>1, <1>2
<1>4. k = i
  BY <1>1, <1>2, <1>3 DEF LibInv, RepositoryInv, ArtworksAreOwn
<1> QED
  BY <1>1, <1>2, <1>3, <1>4, LiveOf DEF LibInv

\* An artwork that was removed is live again only by the undo of the command that
\* removed it: removals, additions, dismissals and the purge, which undoes the last
\* command first, never bring back what an earlier command had flagged.
THEOREM UndoesOnlyItsOwn == Spec => UndoTouchesItsOwn
<1>1. IInv /\ IInv' /\ [Next]_vars => [TouchesItsOwn]_vars
  <2> SUFFICES ASSUME IInv, IInv', Next PROVE TouchesItsOwn
    OBVIOUS
  <2>0. LibInv(lib) /\ LibInv(lib')
    BY DEF IInv, LibInv
  <2>1. CASE AddFiles
    <3>1. PICK files \in (SUBSET disk) \ {{}} : Add(files, FALSE)
      BY <2>1 DEF AddFiles
    <3> DEFINE no == FALSE
    <3>2. no \in BOOLEAN /\ Add(files, no) /\ files \in SUBSET disk
      BY <3>1
    <3> HIDE DEF no
    <3>3. Added(lib, lib')
      BY <3>2, AddKeeps
    <3> QED
      BY <2>0, <3>3, AddedTouches, TouchedNothing
  <2>2. CASE AddDirectory
    <3>1. PICK path \in Paths : Add({f \in disk : DirOf[f] = path}, TRUE)
      BY <2>2 DEF AddDirectory
    <3> DEFINE yes == TRUE
               files == {f \in disk : DirOf[f] = path}
    <3>2. yes \in BOOLEAN /\ Add(files, yes) /\ files \in SUBSET disk
      BY <3>1
    <3> HIDE DEF yes, files
    <3>3. Added(lib, lib')
      BY <3>2, AddKeeps
    <3> QED
      BY <2>0, <3>3, AddedTouches, TouchedNothing
  <2>3. CASE RemoveSelected
    BY <2>0, <2>3, RemoveSelectedKeeps, TouchedNothing
  <2>4. CASE RemoveDirectory
    BY <2>0, <2>4, RemoveDirectoryKeeps, TouchedNothing
  <2>5. CASE Modify \/ ToggleDirectorySelected \/ FileLost
    <3>1. lib'.list = lib.list
      BY <2>5, ModifyKeeps, ToggleKeeps, FileLostKeeps
    <3>2. Touches(lib, {}, lib')
      BY <2>0, <3>1, TouchesSame DEF SameArtworks, SameArtwork
    <3> QED
      BY <2>0, <3>2, TouchedNothing
  <2>6. CASE UndoLastAction
    BY <2>0, <2>6, UndoLastActionKeeps, TouchedInCommand
  <2>7. CASE DiscardLastAction
    BY <2>7, DiscardTouches
  <2>8. CASE OnAvailabilityTimer
    BY <2>0, <2>8, OnAvailabilityTimerKeeps, TouchesSame, TouchedNothing
  <2>9. CASE PurgeUnavailableFiles
    BY <2>9, PurgeTouches
  <2> QED
    BY <2>1, <2>2, <2>3, <2>4, <2>5, <2>6, <2>7, <2>8, <2>9 DEF Next
<1>2. Spec => [][TouchesItsOwn]_vars
  BY <1>1, InvariantHolds, PTL DEF Spec
<1> QED
  BY <1>2 DEF UndoTouchesItsOwn, TouchesItsOwn

\* The action of UndoRestoresRemoved.
RestoresRemoved ==
    UndoLastAction /\ history[1].kind \in {"remove", "removeDirectory"} /\ IsConsistent(lib) =>
        \A i \in history[1].indices : lib.list[i].file \in disk => i \in Live(lib')

\* The undo of a removal brings back every artwork it removed whose file is still
\* there, unless a file is listed twice or an artwork has lost its directory entry.
THEOREM RemovedComeBack == Spec => UndoRestoresRemoved
<1>1. IInv /\ [Next]_vars => [RestoresRemoved]_vars
  <2> SUFFICES ASSUME IInv, UndoLastAction, history[1].kind \in {"remove", "removeDirectory"}, IsConsistent(lib)
               PROVE  \A i \in history[1].indices : lib.list[i].file \in disk => i \in Live(lib')
    BY DEF RestoresRemoved
  <2> DEFINE c == history[1]
             m == Undone(lib, c)
  <2>1. LibInv(lib) /\ disk \in SUBSET Files
    BY IInvParts
  <2>2. c \in Command /\ Means(c, lib) /\ Reselects(c, lib) /\ lib' = m
    BY UndoLastActionKeeps
  <2>3. c.kind \in {"remove", "removeDirectory"} /\ m = Undone(lib, c)
    OBVIOUS
  <2> HIDE DEF c, m
  <2>4. \A i \in c.indices : lib.list[i].file \in disk => i \in Live(m)
    BY <2>1, <2>2, <2>3, RemovalUndone
  <2> QED
    BY <2>2, <2>4 DEF c
<1>2. Spec => [][RestoresRemoved]_vars
  BY <1>1, InvariantHolds, PTL DEF Spec
<1> QED
  BY <1>2 DEF UndoRestoresRemoved, RestoresRemoved

====
