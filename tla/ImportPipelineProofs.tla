-------------------------- MODULE ImportPipelineProofs --------------------------
(***************************************************************************)
(* For any artworks, files, backups and imports: a backup that arrives     *)
(* late leaves the user's edits alone, backups the user asked to ignore    *)
(* stay out of the artworks, the title of an artwork does not depend on    *)
(* which of its two sources came first, and the hub uses its coordinator   *)
(* by the protocol of CoordinatorRounds until a dialog is escaped.         *)
(***************************************************************************)
EXTENDS ImportPipeline, FiniteSetTheorems, FunctionTheorems, SequenceTheorems,
        NaturalsInduction, WellFoundedInduction, TLAPS

-----------------------------------------------------------------------------
(* Operators of the model. *)

\* Every set of natural numbers that is not empty has a least element.
LEMMA LeastExists ==
    ASSUME NEW T \in SUBSET Nat, T # {}
    PROVE  \E x \in T : \A y \in T : x <= y
<1> DEFINE R == OpToRel(<, Nat)
<1>1. R = {ss \in Nat \X Nat : ss[1] < ss[2]}
  BY DEF OpToRel
<1>2. IsWellFoundedOn(R, Nat)
  BY NatLessThanWellFounded
<1> HIDE DEF R
<1>3. \E x \in T : \A y \in T : ~(<<y, x>> \in R)
  BY <1>2, WFMin, Zenon
<1>4. PICK x \in T : \A y \in T : ~(<<y, x>> \in R)
  BY <1>3
<1>5. ASSUME NEW y \in T, ~(x <= y) PROVE FALSE
  <2>1. <<y, x>> \in Nat \X Nat /\ y < x
    BY <1>5
  <2>2. <<y, x>> \in R
    BY <1>1, <2>1
  <2> QED
    BY <2>2, <1>4
<1> QED
  BY <1>4, <1>5

\* Counting the members of a set up to each of them numbers them from one.
Upto(T, i) == {j \in T : j <= i}
LEMMA Numbered ==
    ASSUME NEW m \in Nat, NEW T \in SUBSET (1..m)
    PROVE  /\ IsFiniteSet(T) /\ Cardinality(T) \in Nat
           /\ \A n \in 1..Cardinality(T) : \E i \in T : Cardinality(Upto(T, i)) = n
           /\ \A i \in T : Cardinality(Upto(T, i)) \in 1..Cardinality(T)
           /\ \A i, k \in T : Cardinality(Upto(T, i)) = Cardinality(Upto(T, k)) => i = k
<1>0. \A j \in T : j \in Nat /\ 1 <= j /\ j <= m
  OBVIOUS
<1>1. IsFiniteSet(T) /\ Cardinality(T) \in Nat
  <2>1. IsFiniteSet(1..m)
    BY FS_Interval
  <2>2. IsFiniteSet(T)
    BY <2>1, FS_Subset
  <2> QED
    BY <2>2, FS_CardinalityType
<1>2. \A i : Upto(T, i) \in SUBSET T
  BY DEF Upto
<1>3. \A i : /\ IsFiniteSet(Upto(T, i)) /\ Cardinality(Upto(T, i)) \in Nat
             /\ Cardinality(Upto(T, i)) <= Cardinality(T)
  BY <1>1, <1>2, FS_Subset, FS_CardinalityType
<1>4. ASSUME NEW n \in 1..Cardinality(T)
      PROVE  \E i \in T : Cardinality(Upto(T, i)) = n
  <2> DEFINE Enough == {p \in Nat : Cardinality(Upto(T, p)) >= n}
  <2>1. Upto(T, m) = T
    BY <1>0 DEF Upto
  <2>2. m \in Enough
    BY <1>1, <2>1
  <2>3. PICK p \in Enough : \A q \in Enough : p <= q
    <3>1. Enough # {} /\ Enough \in SUBSET Nat
      BY <2>2
    <3> HIDE DEF Enough
    <3> QED
      BY <3>1, LeastExists
  <2>4. p # 0
    <3>1. \A j \in T : ~(j <= 0)
      BY <1>0
    <3>2. Upto(T, 0) = {}
      BY <3>1 DEF Upto
    <3> QED
      BY <1>1, <2>3, <3>2, FS_EmptySet
  <2>5. p - 1 \in Nat /\ p - 1 \notin Enough
    BY <2>3, <2>4
  <2>6. \A j \in T : j <= p <=> j <= p - 1 \/ j = p
    BY <1>0, <2>3
  <2>7. ~(p <= p - 1)
    BY <2>3
  <2>8. Cardinality(Upto(T, p - 1)) < n
    BY <1>1, <1>3, <2>5
  <2>9. CASE p \notin T
    <3>1. Upto(T, p) = Upto(T, p - 1)
      BY <2>9, <2>6 DEF Upto
    <3> QED
      BY <1>1, <1>3, <2>3, <2>8, <3>1
  <2>10. CASE p \in T
    <3>1. Upto(T, p) = Upto(T, p - 1) \cup {p} /\ p \notin Upto(T, p - 1)
      <4>1. \A j : j \in Upto(T, p) <=> j \in Upto(T, p - 1) \cup {p}
        BY <2>10, <2>6 DEF Upto
      <4> QED
        BY <2>7, <4>1 DEF Upto
    <3>2. Cardinality(Upto(T, p)) = Cardinality(Upto(T, p - 1)) + 1
      BY <1>3, <3>1, FS_AddElement
    <3> QED
      BY <1>1, <1>3, <2>3, <2>8, <2>10, <3>2
  <2> QED
    BY <2>9, <2>10
<1>5. ASSUME NEW i \in T PROVE Cardinality(Upto(T, i)) \in 1..Cardinality(T)
  <2>1. i \in Upto(T, i)
    BY <1>0 DEF Upto
  <2>2. Cardinality(Upto(T, i)) # 0
    BY <1>3, <2>1, FS_EmptySet
  <2> QED
    BY <1>1, <1>3, <2>2
<1>6. ASSUME NEW i \in T, NEW k \in T, Cardinality(Upto(T, i)) = Cardinality(Upto(T, k)), i < k
      PROVE  FALSE
  <2>0. (\A j \in T : j <= i => j <= k) /\ k <= k /\ ~(k <= i)
    BY <1>0, <1>6
  <2>1. Upto(T, i) \in SUBSET Upto(T, k) /\ k \in Upto(T, k) /\ k \notin Upto(T, i)
    BY <2>0 DEF Upto
  <2>2. Upto(T, i) = Upto(T, k)
    BY <1>3, <1>6, <2>1, FS_Subset
  <2> QED
    BY <2>1, <2>2
<1>7. ASSUME NEW i \in T, NEW k \in T, Cardinality(Upto(T, i)) = Cardinality(Upto(T, k))
      PROVE  i = k
  <2>1. i \in Int /\ k \in Int /\ ~(i < k) /\ ~(k < i)
    BY <1>6, <1>7
  <2> QED
    BY <2>1
<1> QED
  BY <1>1, <1>4, <1>5, <1>7

\* Erasing batches leaves the jobs of the others, and only these.
LEMMA WithoutFacts ==
    ASSUME NEW S, NEW jobs \in Seq(S), NEW batches
    PROVE  /\ Without(jobs, batches) \in Seq(S)
           /\ Range(Without(jobs, batches)) = {j \in Range(jobs) : j.batch \notin batches}
<1> DEFINE stays == {i \in DOMAIN jobs : jobs[i].batch \notin batches}
           At(n) == CHOOSE i \in stays : Cardinality({j \in stays : j <= i}) = n
           N == Cardinality(stays)
           result == [n \in 1..N |-> jobs[At(n)]]
<1>1. Without(jobs, batches) = result
  BY DEF Without
<1>2. Len(jobs) \in Nat /\ DOMAIN jobs = 1..Len(jobs) /\ \A i \in 1..Len(jobs) : jobs[i] \in S
  BY LenProperties, ElementOfSeq
<1>3. stays \in SUBSET (1..Len(jobs))
  BY <1>2
<1>4. \A i : {j \in stays : j <= i} = Upto(stays, i)
  BY DEF Upto
<1>5. /\ N \in Nat
      /\ \A n \in 1..N : \E i \in stays : Cardinality(Upto(stays, i)) = n
      /\ \A i \in stays : Cardinality(Upto(stays, i)) \in 1..N
      /\ \A i, k \in stays : Cardinality(Upto(stays, i)) = Cardinality(Upto(stays, k)) => i = k
  <2> HIDE DEF stays
  <2> QED
    BY <1>2, <1>3, Numbered
<1>6. \A n \in 1..N : At(n) \in stays /\ Cardinality(Upto(stays, At(n))) = n
  <2> HIDE DEF stays
  <2> QED
    BY <1>4, <1>5
<1>7. \A i \in stays : At(Cardinality(Upto(stays, i))) = i
  <2> HIDE DEF At, stays
  <2> QED
    BY <1>5, <1>6
<1>8. \A i \in stays : i \in 1..Len(jobs) /\ jobs[i].batch \notin batches /\ jobs[i] \in S
  BY <1>2
<1>9. result \in Seq(S)
  <2>1. \A n \in 1..N : jobs[At(n)] \in S
    BY <1>6, <1>8
  <2> HIDE DEF At, N
  <2>2. [n \in 1..N |-> jobs[At(n)]] \in [1..N -> S]
    BY <2>1
  <2>3. [1..N -> S] \in {[1..n -> S] : n \in Nat}
    BY <1>5
  <2> QED
    BY <2>2, <2>3, SeqDef
<1>10. ASSUME NEW j \in Range(result) PROVE j \in Range(jobs) /\ j.batch \notin batches
  <2>1. PICK n \in 1..N : j = jobs[At(n)]
    BY <1>10 DEF Range
  <2>2. At(n) \in 1..Len(jobs) /\ jobs[At(n)].batch \notin batches
    BY <1>6, <1>8
  <2> HIDE DEF At, stays, N, result
  <2> QED
    BY <1>2, <2>1, <2>2 DEF Range
<1>11. ASSUME NEW j \in Range(jobs), j.batch \notin batches PROVE j \in Range(result)
  <2>1. PICK i \in DOMAIN jobs : j = jobs[i]
    BY DEF Range
  <2>2. i \in stays
    BY <1>11, <2>1
  <2>3. PICK n \in 1..N : At(n) = i
    BY <1>5, <1>7, <2>2
  <2>4. result[n] = j /\ n \in DOMAIN result
    BY <2>1, <2>3
  <2> HIDE DEF At, stays, N, result
  <2> QED
    BY <2>4 DEF Range
<1> QED
  BY <1>1, <1>9, <1>10, <1>11

\* The jobs of a snapshot: one for each of its artworks.
LEMMA JobsOfFacts ==
    ASSUME NEW artworks, IsFiniteSet(artworks), NEW kind, NEW batch
    PROVE  /\ Range(JobsOf(artworks, kind, batch)) = {Job(kind, a, batch) : a \in artworks}
           /\ \A S : (\A a \in artworks : Job(kind, a, batch) \in S)
                 => JobsOf(artworks, kind, batch) \in Seq(S)
<1> DEFINE N == Cardinality(artworks)
           Order(s) == \A i, j \in DOMAIN s : s[i] = s[j] => i = j
           order == CHOOSE s \in [1..N -> artworks] : Order(s)
           jobs == JobsOf(artworks, kind, batch)
<1>1. N \in Nat /\ ExistsBijection(1..N, artworks)
  BY FS_CardinalityType
<1>2. PICK b : b \in Bijection(1..N, artworks)
  BY <1>1, Fun_ExistsBij
<1>3. b \in [1..N -> artworks] /\ Order(b)
  <2> HIDE DEF N
  <2>1. b \in [1..N -> artworks] /\ \A i, j \in 1..N : b[i] = b[j] => i = j
    BY <1>2, Fun_BijectionProperties
  <2> QED
    BY <2>1
<1>4. order \in [1..N -> artworks] /\ Order(order)
  <2> HIDE DEF Order, N
  <2> QED
    BY <1>3
<1>5. jobs = [i \in DOMAIN order |-> Job(kind, order[i], batch)]
  BY DEF JobsOf
<1> HIDE DEF order, jobs, N
<1>6. order \in Injection(1..N, artworks)
  BY <1>4, Fun_IsInj
<1>7. order \in Surjection(1..N, artworks)
  <2>1. IsFiniteSet(1..N) /\ Cardinality(1..N) = N
    BY <1>1, FS_Interval
  <2>2. Cardinality(1..N) = Cardinality(artworks)
    BY <2>1 DEF N
  <2> QED
    BY <1>6, <2>2, FS_Injection
<1>8. Range(order) = artworks /\ DOMAIN order = 1..N /\ \A i \in 1..N : order[i] \in artworks
  BY <1>4, <1>7, Fun_SurjectionProperties
<1>9. Range(jobs) = {Job(kind, a, batch) : a \in artworks}
  <2>1. ASSUME NEW j \in Range(jobs) PROVE j \in {Job(kind, a, batch) : a \in artworks}
    BY <1>5, <1>8 DEF Range
  <2>2. ASSUME NEW a \in artworks PROVE Job(kind, a, batch) \in Range(jobs)
    <3>1. PICK i \in DOMAIN order : order[i] = a
      BY <1>8 DEF Range
    <3> QED
      BY <1>5, <3>1 DEF Range
  <2> QED
    BY <2>1, <2>2
<1>10. ASSUME NEW S, \A a \in artworks : Job(kind, a, batch) \in S PROVE jobs \in Seq(S)
  <2>1. jobs \in [1..N -> S]
    BY <1>5, <1>8, <1>10
  <2>2. [1..N -> S] \in {[1..n -> S] : n \in Nat}
    BY <1>1
  <2> QED
    BY <2>1, <2>2, SeqDef
<1> QED
  BY <1>9, <1>10 DEF jobs

Last == Job("separator", Main, INVALID_BATCH_ID)
Snapshot(artworks, kind, batch) == {Job(kind, a, batch) : a \in artworks}

\* A queue to which the jobs of a snapshot and a separator are added.
WithJobs(jobs, artworks, kind, batch) == jobs \o (JobsOf(artworks, kind, batch) \o Separator)

LEMMA Queued ==
    ASSUME NEW jobs \in Seq(JobType), NEW artworks \in SUBSET Artworks,
           NEW kind \in {"Read", "Add"}, NEW batch \in 0..MaxImports
    PROVE  /\ jobs \o JobsOf(artworks, kind, batch) \o Separator
                = WithJobs(jobs, artworks, kind, batch)
           /\ WithJobs(jobs, artworks, kind, batch) \in Seq(JobType)
           /\ Range(WithJobs(jobs, artworks, kind, batch))
                = Range(jobs) \cup Snapshot(artworks, kind, batch) \cup {Last}
<1> DEFINE new == JobsOf(artworks, kind, batch)
           last == Job("separator", Main, INVALID_BATCH_ID)
<1>1. IsFiniteSet(artworks)
  BY ImportAssumption, FS_Subset
<1>2. \A a \in artworks : Job(kind, a, batch) \in JobType
  BY DEF Job, JobType
<1>3. last \in JobType
  BY ImportAssumption DEF Job, JobType, INVALID_BATCH_ID
<1>4. Range(new) = {Job(kind, a, batch) : a \in artworks} /\ new \in Seq(JobType)
  BY <1>1, <1>2, JobsOfFacts
<1>5. Separator = <<last>>
  BY DEF Separator
<1> HIDE DEF new, last
<1>6. Separator \in Seq(JobType) /\ Range(Separator) = {last}
  BY <1>3, <1>5 DEF Range
<1>7. new \o Separator \in Seq(JobType) /\ Range(new \o Separator) = Range(new) \cup {last}
  BY <1>4, <1>6, ConcatProperties, RangeConcatenation
<1>8. /\ jobs \o (new \o Separator) \in Seq(JobType)
      /\ Range(jobs \o (new \o Separator)) = Range(jobs) \cup Range(new \o Separator)
  <2> DEFINE more == new \o Separator
  <2>1. more \in Seq(JobType)
    BY <1>7
  <2> HIDE DEF more
  <2>2. /\ jobs \o more \in Seq(JobType)
        /\ Range(jobs \o more) = Range(jobs) \cup Range(more)
    BY <2>1, ConcatProperties, RangeConcatenation
  <2> QED
    BY <2>2 DEF more
<1>9. (jobs \o new) \o Separator = jobs \o (new \o Separator)
  BY <1>4, <1>6, ConcatAssociative
<1> QED
  BY <1>4, <1>7, <1>8, <1>9 DEF new, last, Last, Snapshot, WithJobs

\* The first job of a queue and the others.
LEMMA Split ==
    ASSUME NEW S, NEW jobs \in Seq(S), jobs # <<>>
    PROVE  /\ Head(jobs) \in S /\ Tail(jobs) \in Seq(S)
           /\ Range(jobs) = {Head(jobs)} \cup Range(Tail(jobs))
<1>1. /\ Head(jobs) \in S /\ Tail(jobs) \in Seq(S) /\ Len(Tail(jobs)) = Len(jobs) - 1
      /\ \A i \in 1..Len(Tail(jobs)) : Tail(jobs)[i] = jobs[i + 1]
      /\ Head(jobs) = jobs[1]
  BY HeadTailProperties
<1>2. Len(jobs) \in Nat /\ DOMAIN jobs = 1..Len(jobs) /\ 1 \in 1..Len(jobs)
  BY EmptySeq, LenProperties
<1>3. DOMAIN Tail(jobs) = 1..(Len(jobs) - 1)
  BY <1>1, LenProperties
<1>4. ASSUME NEW j \in Range(jobs) PROVE j \in {Head(jobs)} \cup Range(Tail(jobs))
  <2>1. PICK i \in 1..Len(jobs) : j = jobs[i]
    BY <1>2 DEF Range
  <2>2. CASE i = 1
    BY <1>1, <2>1, <2>2
  <2>3. CASE i # 1
    <3>1. i - 1 \in 1..(Len(jobs) - 1) /\ (i - 1) + 1 = i
      BY <1>2, <2>3
    <3>2. Tail(jobs)[i - 1] = j
      BY <1>1, <2>1, <3>1
    <3> QED
      BY <1>3, <3>1, <3>2 DEF Range
  <2> QED
    BY <2>2, <2>3
<1>5. Head(jobs) \in Range(jobs)
  BY <1>1, <1>2 DEF Range
<1>6. ASSUME NEW j \in Range(Tail(jobs)) PROVE j \in Range(jobs)
  <2>1. PICK i \in 1..(Len(jobs) - 1) : j = Tail(jobs)[i]
    BY <1>3 DEF Range
  <2>2. i + 1 \in 1..Len(jobs) /\ j = jobs[i + 1]
    BY <1>1, <1>2, <2>1
  <2> QED
    BY <1>2, <2>2 DEF Range
<1> QED
  BY <1>1, <1>4, <1>5, <1>6

-----------------------------------------------------------------------------
(* What each initialisation makes of an artwork. *)

\* Metadata are closed under what the initialisations do with them.
LEMMA MetadataFacts ==
    /\ FileValues \subseteq Metadata /\ BackupValues \subseteq Metadata /\ Empty \in Metadata
    /\ \A m \in Metadata : m # NoBackup /\ m.keywords \subseteq Keywords
    /\ \A m, n \in Metadata :
          /\ [title |-> m.title, keywords |-> n.keywords] \in Metadata
          /\ [title |-> m.title, keywords |-> m.keywords \cup n.keywords] \in Metadata
    /\ \A m \in Metadata :
          /\ [m EXCEPT !.title = "user"] \in Metadata
          /\ [m EXCEPT !.title = "user"].title = "user"
          /\ [m EXCEPT !.title = "user"].keywords = m.keywords
<1>1. FileValues \subseteq Metadata /\ BackupValues \subseteq Metadata
  BY ImportAssumption
<1>2. Empty \in Metadata
  <2>1. Empty \in Values /\ Empty.title = "" /\ Empty.keywords = {}
    BY DEF Values, Empty
  <2>2. "" \in {v.title : v \in Values}
    BY <2>1
  <2> QED
    BY <2>2 DEF Metadata, Empty
<1>3. ASSUME NEW m \in Metadata PROVE m # NoBackup
  <2>1. m = [title |-> m.title, keywords |-> m.keywords]
    BY DEF Metadata
  <2>2. DOMAIN m = {"title", "keywords"} /\ DOMAIN NoBackup = {}
    BY <2>1 DEF NoBackup
  <2> QED
    BY <2>2
<1>4. \A m \in Metadata : m.keywords \subseteq Keywords
  BY DEF Metadata
<1>5. \A m, n \in Metadata :
        /\ [title |-> m.title, keywords |-> n.keywords] \in Metadata
        /\ [title |-> m.title, keywords |-> m.keywords \cup n.keywords] \in Metadata
  BY DEF Metadata
<1>6. ASSUME NEW m \in Metadata
      PROVE  /\ [m EXCEPT !.title = "user"] \in Metadata
             /\ [m EXCEPT !.title = "user"].title = "user"
             /\ [m EXCEPT !.title = "user"].keywords = m.keywords
  BY DEF Metadata
<1> QED
  BY <1>1, <1>2, <1>3, <1>4, <1>5, <1>6

\* What an initialisation makes of an artwork: its metadata and its flags.
Made == [content : Metadata, flags : SUBSET Flags]

\* initFromOrigin: the file wins, unless the backup came before it; then it wins
\* where it has something to say.
LEMMA OriginFacts ==
    ASSUME NEW a, content[a] \in Metadata, flags[a] \in SUBSET Flags,
           NEW origin \in Metadata, NEW overwrite \in BOOLEAN
    PROVE  LET new == InitFromOrigin(a, origin, overwrite)
               over == Has(a, "ReimportPending") \/ ~Has(a, "AlmostInitialized") \/ overwrite
           IN  /\ new \in Made
               /\ new.flags \ {"Modified"}
                    = (flags[a] \ {"Modified"}) \cup {"Initialized", "FileSize"}
               /\ over => new.content = origin
               /\ ~over => new.content.title = IF origin.title = "" THEN content[a].title
                                                ELSE origin.title
<1> DEFINE over == Has(a, "ReimportPending") \/ ~Has(a, "AlmostInitialized") \/ overwrite
           before == FromOriginBeforeStorage(a, origin)
           after == FromOriginAfterStorage(a, origin)
           chosen == IF over THEN before ELSE after
           new == InitFromOrigin(a, origin, overwrite)
<1>1. /\ before \in Made /\ before.content = origin
      /\ before.flags \ {"Modified"} = flags[a] \ {"Modified"}
  BY DEF FromOriginBeforeStorage, Made
<1>2. /\ after \in Made
      /\ after.content.title = IF origin.title = "" THEN content[a].title ELSE origin.title
      /\ after.flags \ {"Modified"} = flags[a] \ {"Modified"}
  <2>1. after.flags \in {flags[a] \cup {"Modified"}, flags[a] \ {"Modified"}}
    BY DEF FromOriginAfterStorage
  <2>2. after.flags \in SUBSET Flags /\ after.flags \ {"Modified"} = flags[a] \ {"Modified"}
    BY <2>1 DEF Flags
  <2>3. after.content.title = IF origin.title = "" THEN content[a].title ELSE origin.title
    BY DEF FromOriginAfterStorage
  <2>4. after.content \in Metadata
    <3>1. \E m, n \in {origin, content[a]} :
            after.content = [title |-> m.title, keywords |-> n.keywords]
      BY DEF FromOriginAfterStorage
    <3> HIDE DEF after
    <3>2. PICK m \in Metadata, n \in Metadata :
            after.content = [title |-> m.title, keywords |-> n.keywords]
      BY <3>1
    <3> QED
      BY <3>2, MetadataFacts
  <2>5. after = [content |-> after.content, flags |-> after.flags]
    BY DEF FromOriginAfterStorage
  <2> HIDE DEF after
  <2> QED
    BY <2>2, <2>3, <2>4, <2>5 DEF Made
<1>3. new = [chosen EXCEPT !.flags = @ \cup {"Initialized", "FileSize"}]
  BY DEF InitFromOrigin
<1> HIDE DEF before, after, over
<1>4. chosen \in Made /\ chosen.flags \ {"Modified"} = flags[a] \ {"Modified"}
  BY <1>1, <1>2
<1> HIDE DEF new, chosen
<1>5. new.content = chosen.content /\ new.flags = chosen.flags \cup {"Initialized", "FileSize"}
  BY <1>3, <1>4 DEF Made
<1>6. new \in Made
  BY <1>3, <1>4 DEF Made, Flags
<1>7. new.flags \ {"Modified"} = (flags[a] \ {"Modified"}) \cup {"Initialized", "FileSize"}
  BY <1>4, <1>5
<1>8. over => new.content = origin
  BY <1>1, <1>5 DEF chosen
<1>9. ~over => new.content.title = IF origin.title = "" THEN content[a].title ELSE origin.title
  BY <1>2, <1>5 DEF chosen
<1> QED
  BY <1>6, <1>7, <1>8, <1>9 DEF new, over

\* initFromStorage: nothing for an artwork that awaits its reimport; the backup
\* fills what is empty in one that is initialised, and is all of any other.
LEMMA BackupFacts ==
    ASSUME NEW a, content[a] \in Metadata, flags[a] \in SUBSET Flags,
           NEW backup \in Metadata
    PROVE  LET new == InitFromStorage(a, backup)
           IN  /\ new \in Made
               /\ Has(a, "ReimportPending") => new.content = content[a] /\ new.flags = flags[a]
               /\ ~Has(a, "ReimportPending") =>
                     new.flags \ {"Modified"}
                       = (flags[a] \ {"Modified"}) \cup {"AlmostInitialized"}
               /\ ~Has(a, "ReimportPending") /\ Has(a, "Initialized") =>
                     new.content.title = IF content[a].title = "" THEN backup.title
                                         ELSE content[a].title
               /\ ~Has(a, "ReimportPending") /\ ~Has(a, "Initialized") =>
                     new.content = backup
<1> DEFINE new == InitFromStorage(a, backup)
           late == FromStorageAfterOrigin(a, backup)
           early == [content |-> backup, flags |-> flags[a]]
           chosen == IF Has(a, "Initialized") THEN late ELSE early
<1>1. CASE Has(a, "ReimportPending")
  BY <1>1 DEF InitFromStorage, Made
<1>2. CASE ~Has(a, "ReimportPending")
  <2>1. early \in Made /\ early.flags \ {"Modified"} = flags[a] \ {"Modified"}
    BY DEF Made
  <2>2. late \in Made /\ late.flags \ {"Modified"} = flags[a] \ {"Modified"}
    <3>1. late.flags \in {flags[a] \cup {"Modified"}, flags[a]}
      BY DEF FromStorageAfterOrigin
    <3>2. late.flags \in SUBSET Flags /\ late.flags \ {"Modified"} = flags[a] \ {"Modified"}
      BY <3>1 DEF Flags
    <3>3. \/ late.content = [title |-> content[a].title,
                             keywords |-> content[a].keywords \cup backup.keywords]
          \/ late.content = [title |-> backup.title,
                             keywords |-> content[a].keywords \cup backup.keywords]
      BY DEF FromStorageAfterOrigin
    <3>4. content[a].keywords \cup backup.keywords = backup.keywords \cup content[a].keywords
      OBVIOUS
    <3>5. late.content \in Metadata
      <4> HIDE DEF late
      <4>1. [title |-> content[a].title,
             keywords |-> content[a].keywords \cup backup.keywords] \in Metadata
        BY MetadataFacts
      <4>2. [title |-> backup.title,
             keywords |-> backup.keywords \cup content[a].keywords] \in Metadata
        BY MetadataFacts
      <4> QED
        BY <3>3, <3>4, <4>1, <4>2
    <3>6. late = [content |-> late.content, flags |-> late.flags]
      BY DEF FromStorageAfterOrigin
    <3> HIDE DEF late
    <3> QED
      BY <3>2, <3>5, <3>6 DEF Made
  <2>3. late.content.title = IF content[a].title = "" THEN backup.title ELSE content[a].title
    BY DEF FromStorageAfterOrigin
  <2>4. new = [chosen EXCEPT !.flags = @ \cup {"AlmostInitialized"}]
    BY <1>2 DEF InitFromStorage
  <2>5. early.content = backup
    OBVIOUS
  <2> HIDE DEF late, early
  <2>6. chosen \in Made /\ chosen.flags \ {"Modified"} = flags[a] \ {"Modified"}
    BY <2>1, <2>2
  <2> HIDE DEF new, chosen
  <2>7. new.content = chosen.content /\ new.flags = chosen.flags \cup {"AlmostInitialized"}
    BY <2>4, <2>6 DEF Made
  <2>8. new \in Made
    BY <2>4, <2>6 DEF Made, Flags
  <2>9. new.flags \ {"Modified"} = (flags[a] \ {"Modified"}) \cup {"AlmostInitialized"}
    BY <2>6, <2>7
  <2>10. new.content = IF Has(a, "Initialized") THEN late.content ELSE backup
    BY <2>5, <2>7 DEF chosen
  <2> QED
    BY <1>2, <2>3, <2>8, <2>9, <2>10 DEF new
<1> QED
  BY <1>1, <1>2

Typed(a) == content[a] \in Metadata /\ flags[a] \in SUBSET Flags
Kept == {"ReimportPending", "AlmostInitialized"}

\* initializeArtworks: every artwork of the import is initialised; what it gets
\* of its file, exiftool has delivered.
LEMMA InitializedFacts ==
    ASSUME NEW a, Typed(a), file[a] \in Metadata, m_IgnoreBackupsAtImport \in BOOLEAN
    PROVE  LET new == Initialized(a)
               over == \/ Has(a, "ReimportPending") \/ ~Has(a, "AlmostInitialized")
                       \/ m_IgnoreBackupsAtImport
               origin == IF m_IsCancelled THEN Empty ELSE file[a]
           IN  /\ new \in Made /\ "Initialized" \in new.flags
               /\ new.flags \cap Kept = flags[a] \cap Kept
               /\ a \notin m_ImportQueue =>
                     new.content = Empty /\ ("FileSize" \in new.flags => Has(a, "FileSize"))
               /\ a \in m_ImportQueue =>
                     /\ m_IsCancelled => "FileSize" \notin new.flags
                     /\ over => new.content = origin
                     /\ ~over => new.content.title = IF origin.title = "" THEN content[a].title
                                                      ELSE origin.title
<1> DEFINE new == Initialized(a)
           origin == IF m_IsCancelled THEN Empty ELSE file[a]
           over == \/ Has(a, "ReimportPending") \/ ~Has(a, "AlmostInitialized")
                   \/ m_IgnoreBackupsAtImport
           read == InitFromOrigin(a, origin, m_IgnoreBackupsAtImport)
<1> USE DEF Typed
<1>1. CASE a \notin m_ImportQueue
  <2>1. new = [content |-> Empty, flags |-> (flags[a] \ {"Modified"}) \cup {"Initialized"}]
    BY <1>1 DEF Initialized, InitAsEmpty
  <2>2. new \in Made
    BY <2>1, MetadataFacts DEF Made, Flags
  <2>3. /\ new.content = Empty /\ "Initialized" \in new.flags
        /\ "FileSize" \in new.flags => Has(a, "FileSize")
    BY <2>1 DEF Has
  <2>4. new.flags \cap Kept = flags[a] \cap Kept
    BY <2>1 DEF Kept
  <2> HIDE DEF new
  <2> QED
    BY <1>1, <2>2, <2>3, <2>4, Zenon DEF new
<1>2. CASE a \in m_ImportQueue
  <2>1. origin \in Metadata
    BY MetadataFacts
  <2>2. /\ read \in Made
        /\ read.flags \ {"Modified"} = (flags[a] \ {"Modified"}) \cup {"Initialized", "FileSize"}
        /\ over => read.content = origin
        /\ ~over => read.content.title = IF origin.title = "" THEN content[a].title
                                         ELSE origin.title
    <3>1. content[a] \in Metadata /\ flags[a] \in SUBSET Flags
      OBVIOUS
    <3>2. \A o \in Metadata, w \in BOOLEAN :
            LET made == InitFromOrigin(a, o, w)
                all == Has(a, "ReimportPending") \/ ~Has(a, "AlmostInitialized") \/ w
            IN  /\ made \in Made
                /\ made.flags \ {"Modified"}
                     = (flags[a] \ {"Modified"}) \cup {"Initialized", "FileSize"}
                /\ all => made.content = o
                /\ ~all => made.content.title = IF o.title = "" THEN content[a].title
                                                ELSE o.title
      BY <3>1, OriginFacts
    <3> HIDE DEF origin
    <3> QED
      BY <2>1, <3>2
  <2>3. new = IF m_IsCancelled THEN [read EXCEPT !.flags = @ \ {"FileSize"}] ELSE read
    BY <1>2 DEF Initialized
  <2> HIDE DEF new, read
  <2>5. /\ new.content = read.content
        /\ new.flags = IF m_IsCancelled THEN read.flags \ {"FileSize"} ELSE read.flags
        /\ new \in Made
    BY <2>2, <2>3 DEF Made
  <2>6. "Initialized" \in new.flags /\ new.flags \cap Kept = flags[a] \cap Kept
    BY <2>2, <2>5 DEF Kept
  <2> QED
    BY <1>2, <2>2, <2>5, <2>6 DEF new
<1> QED
  BY <1>1, <1>2

\* OnCanInitialize: the artworks of the import, and only these, are initialised.
LEMMA EndOfImport ==
    ASSUME TypeOK, OnCanInitialize
    PROVE  /\ content' \in [Artworks -> Metadata] /\ flags' \in [Artworks -> SUBSET Flags]
           /\ \A a \in Artworks \ m_ArtworksToRead :
                 content'[a] = content[a] /\ flags'[a] = flags[a]
           /\ \A a \in m_ArtworksToRead :
                 content'[a] = Initialized(a).content /\ flags'[a] = Initialized(a).flags
<1>1. /\ content \in [Artworks -> Metadata] /\ flags \in [Artworks -> SUBSET Flags]
      /\ file \in [Artworks -> Metadata] /\ m_ArtworksToRead \subseteq Artworks
      /\ m_IgnoreBackupsAtImport \in BOOLEAN
  BY MetadataFacts DEF TypeOK
<1>2. \A a \in Artworks : Initialized(a) \in Made
  BY <1>1, InitializedFacts DEF Typed
<1>3. \A a \in Artworks : Initialized(a).content \in Metadata
                       /\ Initialized(a).flags \in SUBSET Flags
  BY <1>2 DEF Made
<1>4. /\ content' = [a \in Artworks |-> IF a \in m_ArtworksToRead THEN Initialized(a).content
                                       ELSE content[a]]
      /\ flags' = [a \in Artworks |-> IF a \in m_ArtworksToRead THEN Initialized(a).flags
                                     ELSE flags[a]]
  BY DEF OnCanInitialize, Update
<1> QED
  BY <1>1, <1>3, <1>4

\* ImportFromStorage: an artwork is left alone, or gets a backup that was read for
\* an import that is not cancelled.
Requests == {r \in m_StorageReadQueue : r.batch \notin m_CancelledImports}
LEMMA BackupsImported ==
    ASSUME TypeOK, ImportFromStorage
    PROVE  /\ content' \in [Artworks -> Metadata] /\ flags' \in [Artworks -> SUBSET Flags]
           /\ \A a \in Artworks : (\A r \in Requests : r.artwork # a)
                 => content'[a] = content[a] /\ flags'[a] = flags[a]
           /\ \A a \in Artworks : (\E r \in Requests : r.artwork = a)
                 => \E r \in Requests :
                       /\ r.artwork = a
                       /\ content'[a] = InitFromStorage(a, r.backup).content
                       /\ flags'[a] = InitFromStorage(a, r.backup).flags
<1> DEFINE Chosen(a) == CHOOSE r \in Requests : r.artwork = a
           New(a) == InitFromStorage(a, Chosen(a).backup)
           artworks == {r.artwork : r \in Requests}
<1>1. /\ content \in [Artworks -> Metadata] /\ flags \in [Artworks -> SUBSET Flags]
      /\ \A r \in Requests : r.backup \in Metadata /\ r.artwork \in Artworks
  BY DEF TypeOK, Requests
<1>2. /\ content' = [a \in Artworks |-> IF a \in artworks THEN New(a).content ELSE content[a]]
      /\ flags' = [a \in Artworks |-> IF a \in artworks THEN New(a).flags ELSE flags[a]]
  BY DEF ImportFromStorage, Update, Requests
<1>3. \A a \in artworks : Chosen(a) \in Requests /\ Chosen(a).artwork = a
  OBVIOUS
<1> HIDE DEF Chosen
<1>4. \A a \in artworks : New(a) \in Made
  <2> SUFFICES ASSUME NEW a \in artworks PROVE New(a) \in Made
    OBVIOUS
  <2>1. a \in Artworks /\ Chosen(a).backup \in Metadata
    BY <1>1, <1>3
  <2> QED
    BY <1>1, <2>1, BackupFacts
<1> HIDE DEF New
<1>5. \A a \in artworks : New(a).content \in Metadata /\ New(a).flags \in SUBSET Flags
  BY <1>4 DEF Made
<1>6. content' \in [Artworks -> Metadata] /\ flags' \in [Artworks -> SUBSET Flags]
  BY <1>1, <1>2, <1>5
<1>7. ASSUME NEW a \in Artworks, \A r \in Requests : r.artwork # a
      PROVE  content'[a] = content[a] /\ flags'[a] = flags[a]
  <2>1. a \notin artworks
    BY <1>7
  <2> QED
    BY <1>2, <2>1
<1>8. ASSUME NEW a \in Artworks, \E r \in Requests : r.artwork = a
      PROVE  \E r \in Requests :
                /\ r.artwork = a
                /\ content'[a] = InitFromStorage(a, r.backup).content
                /\ flags'[a] = InitFromStorage(a, r.backup).flags
  <2>1. a \in artworks
    BY <1>8
  <2>2. content'[a] = New(a).content /\ flags'[a] = New(a).flags
    BY <1>2, <2>1
  <2> QED
    BY <1>3, <2>1, <2>2 DEF New
<1> QED
  BY <1>6, <1>7, <1>8

-----------------------------------------------------------------------------
(* Types. *)

LEMMA InitTypes == Init => TypeOK
<1> SUFFICES ASSUME Init PROVE TypeOK
  OBVIOUS
<1> USE ImportAssumption
<1>1. emitted \in Seq(Statuses) /\ queue \in Seq(JobType)
  BY DEF Init, CoordinatorInit
<1>2. m_OpCount \in Int /\ m_StatusReported \in {0, 1} /\ lastEnded = {}
  BY DEF Init, CoordinatorInit
<1>3. /\ m_Timer \in BOOLEAN /\ reimport \in BOOLEAN /\ m_IgnoreBackupsAtImport \in BOOLEAN
      /\ m_IsCancelled \in BOOLEAN /\ ready \in BOOLEAN /\ closed \in BOOLEAN
  BY Zenon DEF Init, CoordinatorInit
<1>4. content \in [Artworks -> Metadata] /\ db \in [Artworks -> Metadata \cup {NoBackup}]
  BY MetadataFacts DEF Init
<1>5. /\ reader \in [Imports -> [pc : {"none", "running", "ended"}, left : SUBSET added]]
      /\ flags \in [Artworks -> SUBSET Flags]
      /\ asked \in [Artworks -> Answers \cup Left \cup {NoAnswer}]
      /\ m_AddWal \in [Artworks -> Metadata \cup {NoBackup}]
      /\ file \in [Artworks -> FileValues]
  BY DEF Init
<1>6. /\ main = "free" /\ imports = 0 /\ added = {} /\ m_ArtworksToRead = {} /\ posted = 0
      /\ m_ImportQueue = {} /\ m_StorageReadBatchID = 0 /\ user = "none"
      /\ busy = NoJob /\ m_StorageReadQueue = {} /\ m_CancelledImports = {}
  BY DEF Init
<1> QED
  BY <1>1, <1>2, <1>3, <1>4, <1>5, <1>6 DEF TypeOK

\* The main thread from adding files to the dialog's answer.
LEMMA HubTypes ==
    ASSUME TypeOK,
           \/ \E artworks \in (SUBSET (Artworks \ added)) \ {{}} : AddFiles(artworks)
           \/ \E artworks \in (SUBSET added) \ {{}} : Reimport(artworks)
           \/ \E choice \in Answers : Answer(choice)
           \/ MainStep \/ Escape
    PROVE  TypeOK'
<1> USE ImportAssumption DEF TypeOK
<1>1. ASSUME NEW artworks \in (SUBSET (Artworks \ added)) \ {{}}, AddFiles(artworks)
      PROVE  TypeOK'
  <2>1. queue' \in Seq(JobType)
    <3>1. imports + 1 \in 0..MaxImports /\ artworks \in SUBSET Artworks
      BY <1>1 DEF AddFiles
    <3>2. queue' = queue \o JobsOf(artworks, "Read", imports + 1) \o Separator
      BY <1>1 DEF AddFiles
    <3>3. queue \in Seq(JobType)
      OBVIOUS
    <3> HIDE DEF TypeOK
    <3>4. queue' = WithJobs(queue, artworks, "Read", imports + 1)
      BY <3>1, <3>2, <3>3, Queued
    <3> QED
      BY <3>1, <3>3, <3>4, Queued
  <2>2. UNCHANGED <<readerVars, posted, file, content, flags, busy, m_StorageReadQueue,
                    ready, m_CancelledImports, m_AddWal, db>>
    BY <1>1 DEF AddFiles
  <2>3. /\ added' = added \cup artworks /\ imports' = imports + 1 /\ imports < MaxImports
        /\ main' = "opened" /\ m_ArtworksToRead' = artworks /\ reimport' = FALSE
        /\ m_StorageReadBatchID' = imports + 1 /\ closed' = FALSE
        /\ m_IgnoreBackupsAtImport' = FALSE /\ m_IsCancelled' = FALSE /\ user' = "none"
        /\ asked' \in [Artworks -> Answers \cup Left \cup {NoAnswer}]
    BY <1>1 DEF AddFiles, InitializeImport, Overtakes, Left
  <2>4. /\ m_OpCount' = 1 /\ m_StatusReported' = 0 /\ emitted' = <<>>
        /\ m_Timer' = m_Timer /\ lastEnded' = lastEnded
    BY <1>1 DEF AddFiles, InitializeImport, Reset
  <2>5. added' \subseteq Artworks /\ added \subseteq added'
    BY <2>3
  <2>6. reader' \in [Imports -> [pc : {"none", "running", "ended"}, left : SUBSET added']]
    BY <2>2, <2>5 DEF readerVars
  <2>7. /\ emitted' \in Seq(Statuses) /\ imports' \in 0..MaxImports
        /\ m_StorageReadBatchID' \in 0..imports' /\ m_CancelledImports' \subseteq 0..imports'
    BY <2>2, <2>3, <2>4
  <2>8. m_ArtworksToRead' \subseteq added' /\ m_ImportQueue' \subseteq added'
    BY <2>2, <2>3, <2>5 DEF readerVars
  <2>9. /\ m_OpCount' \in Int /\ m_StatusReported' \in {0, 1} /\ m_Timer' \in BOOLEAN
        /\ lastEnded' \subseteq {Main, User} \cup Imports
    BY <2>4
  <2>10. /\ reimport' \in BOOLEAN /\ m_IgnoreBackupsAtImport' \in BOOLEAN
         /\ m_IsCancelled' \in BOOLEAN /\ ready' \in BOOLEAN
    BY <2>2, <2>3
  <2>11. /\ main' = "opened" /\ user' = "none" /\ closed' = FALSE
    BY <2>3
  <2>12. /\ posted' \in Nat /\ file' \in [Artworks -> FileValues]
         /\ content' \in [Artworks -> Metadata] /\ flags' \in [Artworks -> SUBSET Flags]
         /\ asked' \in [Artworks -> Answers \cup Left \cup {NoAnswer}]
         /\ busy' \in JobType \cup {NoJob}
         /\ m_StorageReadQueue' \subseteq [artwork : Artworks, batch : 0..MaxImports,
                                    backup : Metadata]
         /\ m_AddWal' \in [Artworks -> Metadata \cup {NoBackup}]
         /\ db' \in [Artworks -> Metadata \cup {NoBackup}]
    BY <2>2, <2>3
  <2> HIDE DEF TypeOK
  <2> QED
    BY <2>1, <2>5, <2>6, <2>7, <2>8, <2>9, <2>10, <2>11, <2>12 DEF TypeOK
<1>2. ASSUME NEW artworks \in (SUBSET added) \ {{}}, Reimport(artworks)
      PROVE  TypeOK'
  <2>1. flags' \in [Artworks -> SUBSET Flags]
    BY <1>2 DEF Reimport, Flags
  <2>2. /\ imports' = imports + 1 /\ imports < MaxImports /\ emitted' = <<>>
        /\ m_StorageReadBatchID' = 0 /\ m_CancelledImports' = m_CancelledImports
    BY <1>2 DEF Reimport, InitializeImport, Reset, storageVars, INVALID_BATCH_ID
  <2>3. /\ emitted' \in Seq(Statuses) /\ imports' \in 0..MaxImports
        /\ m_StorageReadBatchID' \in 0..imports' /\ m_CancelledImports' \subseteq 0..imports'
    BY <2>2
  <2>4. /\ m_OpCount' \in Int /\ m_StatusReported' \in {0, 1} /\ m_Timer' \in BOOLEAN
        /\ lastEnded' \subseteq {Main, User} \cup Imports
    BY <1>2 DEF Reimport, InitializeImport, Reset
  <2>5. /\ main' = "opened" /\ user' = "none" /\ reimport' \in BOOLEAN
        /\ m_IgnoreBackupsAtImport' \in BOOLEAN /\ m_IsCancelled' \in BOOLEAN
        /\ m_ArtworksToRead' \subseteq added /\ closed' = FALSE
        /\ asked' \in [Artworks -> Answers \cup Left \cup {NoAnswer}]
    BY <1>2 DEF Reimport, InitializeImport, Overtakes, Left
  <2>6. UNCHANGED <<readerVars, posted, file, content, added, storageVars>>
    BY <1>2 DEF Reimport
  <2> QED
    BY <2>1, <2>3, <2>4, <2>5, <2>6 DEF readerVars, storageVars
<1>3. ASSUME NEW choice \in Answers, Answer(choice) PROVE TypeOK'
  <2>1. /\ m_IgnoreBackupsAtImport' \in BOOLEAN /\ m_IsCancelled' \in BOOLEAN
        /\ closed' \in BOOLEAN
    BY <1>3 DEF Answer
  <2>2. asked' \in [Artworks -> Answers \cup Left \cup {NoAnswer}]
    BY <1>3 DEF Answer
  <2>3. m_OpCount' \in Int /\ lastEnded' \subseteq {Main, User} \cup Imports
    BY <1>3 DEF Answer, JustEnded, CountDown
  <2> QED
    BY <1>3, <2>1, <2>2, <2>3 DEF Answer, JustEnded, storageVars
<1>4. CASE AwaitClick
  BY <1>4 DEF AwaitClick, AboutToBegin, readerVars, artworkVars, storageVars
<1>5. CASE StartReader
  <2>1. reader' \in [Imports -> [pc : {"none", "running", "ended"}, left : SUBSET added]]
    BY <1>5 DEF StartReader
  <2> QED
    BY <1>5, <2>1 DEF StartReader, AboutToBegin, artworkVars, storageVars
<1>6. CASE StartAccepting
  <2>1. m_Timer' \in BOOLEAN
    BY <1>6 DEF StartAccepting, AllBegun
  <2>2. m_OpCount' \in Int /\ lastEnded' \subseteq {Main, User} \cup Imports
    BY <1>6 DEF StartAccepting, AllBegun, CountDown
  <2> QED
    BY <1>6, <2>1, <2>2 DEF StartAccepting, AllBegun, readerVars, artworkVars, storageVars
<1>7. CASE Escape
  BY <1>7 DEF Escape, Left, coordinatorVars, readerVars, storageVars
<1> QED
  BY <1>1, <1>2, <1>3, <1>4, <1>5, <1>6, <1>7 DEF MainStep

\* What reportStatus and the threads of the readings do.
LEMMA ReportTypes ==
    ASSUME TypeOK, NEW p, ReportAllDone(p)
    PROVE  /\ m_OpCount' \in Int /\ m_StatusReported' \in {0, 1} /\ m_Timer' \in BOOLEAN
           /\ lastEnded' \subseteq {Main, User} \cup Imports /\ emitted' \in Seq(Statuses)
<1>1. emitted \in Seq(Statuses) /\ "AllDone" \in Statuses
  BY DEF TypeOK, Statuses
<1>2. Append(emitted, "AllDone") \in Seq(Statuses)
  <2> HIDE DEF Statuses
  <2> QED
    BY <1>1
<1>3. emitted' \in Seq(Statuses)
  BY <1>1, <1>2 DEF ReportAllDone, ReportStatus
<1> QED
  BY <1>3 DEF ReportAllDone, ReportStatus, TypeOK

\* The end of an import, the user's edits, the import of backups, the readings.
LEMMA EndTypes ==
    ASSUME TypeOK,
           \/ OnCanInitialize \/ ImportFromStorage
           \/ \E a \in Artworks : Edit(a)
           \/ \E i \in Imports : EndReading(i) \/ \E a \in Artworks : Push(i, a)
           \/ \E p \in {Main, User} : MainReports(p)
           \/ \E p \in Imports : FinishCall(p)
    PROVE  TypeOK'
<1> USE ImportAssumption DEF TypeOK
<1>1. ASSUME NEW p, MainReports(p) PROVE TypeOK'
  <2>1. ReportAllDone(p)
    BY <1>1 DEF MainReports
  <2>2. main' \in {"free", "opened", "announced", "reading", "asking", "waiting",
                   "initializing"}
    BY <1>1 DEF MainReports
  <2> QED
    BY <1>1, <2>1, <2>2, ReportTypes DEF MainReports, readerVars, artworkVars, storageVars
<1>2. ASSUME NEW p, FinishCall(p) PROVE TypeOK'
  <2>1. ReportAllDone(p)
    BY <1>2 DEF FinishCall
  <2>2. posted' \in Nat
    BY <1>2 DEF FinishCall
  <2> QED
    BY <1>2, <2>1, <2>2, ReportTypes DEF FinishCall, hubVars, readerVars, artworkVars,
                                         storageVars
<1>3. CASE OnCanInitialize
  <2>1. content' \in [Artworks -> Metadata] /\ flags' \in [Artworks -> SUBSET Flags]
    BY <1>3, EndOfImport
  <2>2. m_CancelledImports' \subseteq 0..imports
    BY <1>3 DEF OnCanInitialize, CancelledWith
  <2>3. queue' \in Seq(JobType)
    <3> DEFINE batches == IF m_IgnoreBackupsAtImport THEN {m_StorageReadBatchID} ELSE {}
               kept == Without(queue, batches \ {INVALID_BATCH_ID})
    <3>1. kept \in Seq(JobType)
      <4>1. queue \in Seq(JobType)
        OBVIOUS
      <4> HIDE DEF TypeOK, batches
      <4> QED
        BY <4>1, WithoutFacts
    <3>2. queue' = IF m_IsCancelled THEN kept ELSE kept \o AddJobs(m_ArtworksToRead)
      BY <1>3 DEF OnCanInitialize
    <3>3. m_ArtworksToRead \in SUBSET Artworks /\ INVALID_BATCH_ID \in 0..MaxImports
      BY DEF INVALID_BATCH_ID
    <3> HIDE DEF TypeOK, kept
    <3>4. /\ AddJobs(m_ArtworksToRead)
               = JobsOf(m_ArtworksToRead, "Add", INVALID_BATCH_ID) \o Separator
          /\ kept \o AddJobs(m_ArtworksToRead)
               = WithJobs(kept, m_ArtworksToRead, "Add", INVALID_BATCH_ID)
      BY DEF AddJobs, WithJobs
    <3> QED
      BY <3>1, <3>2, <3>3, <3>4, Queued
  <2>4. posted' \in Nat
    BY <1>3 DEF OnCanInitialize
  <2>5. /\ UNCHANGED <<coordinatorVars, imports, reimport, m_StorageReadBatchID, user,
                       m_IgnoreBackupsAtImport, m_IsCancelled, reader, file, asked, added,
                       busy, m_StorageReadQueue, ready, m_AddWal, db>>
        /\ main' = "free" /\ closed' = FALSE
        /\ m_ArtworksToRead' = {} /\ m_ImportQueue' = {}
    BY <1>3 DEF OnCanInitialize
  <2> QED
    BY <2>1, <2>2, <2>3, <2>4, <2>5 DEF coordinatorVars
<1>4. ASSUME NEW a \in Artworks, Edit(a) PROVE TypeOK'
  <2>1. content' \in [Artworks -> Metadata]
    <3>1. [content[a] EXCEPT !.title = "user"] \in Metadata
      BY MetadataFacts
    <3>2. content' = [content EXCEPT ![a] = [content[a] EXCEPT !.title = "user"]]
      BY <1>4 DEF Edit
    <3> QED
      BY <3>1, <3>2
  <2>2. flags' \in [Artworks -> SUBSET Flags]
    BY <1>4 DEF Edit, Flags
  <2> QED
    BY <1>4, <2>1, <2>2 DEF Edit, coordinatorVars, hubVars, readerVars, storageVars
<1>5. CASE ImportFromStorage
  <2>1. content' \in [Artworks -> Metadata] /\ flags' \in [Artworks -> SUBSET Flags]
    BY <1>5, BackupsImported
  <2>2. /\ ready' \in BOOLEAN /\ m_StorageReadQueue' = {}
        /\ UNCHANGED <<coordinatorVars, hubVars, readerVars, posted, file, asked, added, queue,
                       busy, m_CancelledImports, m_AddWal, db>>
    BY <1>5 DEF ImportFromStorage
  <2> QED
    BY <2>1, <2>2 DEF coordinatorVars, hubVars, readerVars
<1>6. ASSUME NEW i \in Imports, EndReading(i) PROVE TypeOK'
  <2>1. m_OpCount' \in Int /\ lastEnded' \subseteq {Main, User} \cup Imports
    BY <1>6 DEF EndReading, JustEnded, CountDown
  <2>2. reader' \in [Imports -> [pc : {"none", "running", "ended"}, left : SUBSET added]]
    BY <1>6 DEF EndReading
  <2> QED
    BY <1>6, <2>1, <2>2 DEF EndReading, JustEnded, hubVars, artworkVars, storageVars
<1>7. ASSUME NEW i \in Imports, NEW a \in Artworks, Push(i, a) PROVE TypeOK'
  <2>1. reader' \in [Imports -> [pc : {"none", "running", "ended"}, left : SUBSET added]]
    BY <1>7 DEF Push
  <2>2. m_ImportQueue' \subseteq added
    BY <1>7 DEF Push
  <2> QED
    BY <1>7, <2>1, <2>2 DEF Push, coordinatorVars, hubVars, artworkVars, storageVars
<1> QED
  BY <1>1, <1>2, <1>3, <1>4, <1>5, <1>6, <1>7

\* A job is not the absence of one.
LEMMA JobFacts ==
    /\ \A job \in JobType : job # NoJob
    /\ \A kind, a, b : Job(kind, a, b) # NoJob
    /\ \A job \in JobType : job = Job(job.kind, job.artwork, job.batch)
    /\ \A k1, a1, b1, k2, a2, b2 :
          Job(k1, a1, b1) = Job(k2, a2, b2) => k1 = k2 /\ a1 = a2 /\ b1 = b2
<1>1. ASSUME NEW kind, NEW a, NEW b PROVE Job(kind, a, b) # NoJob
  <2>1. DOMAIN Job(kind, a, b) = {"kind", "artwork", "batch"} /\ DOMAIN NoJob = {}
    BY DEF Job, NoJob
  <2> QED
    BY <2>1
<1>2. \A job \in JobType : job = Job(job.kind, job.artwork, job.batch)
  BY DEF JobType, Job
<1>3. ASSUME NEW k1, NEW a1, NEW b1, NEW k2, NEW a2, NEW b2, Job(k1, a1, b1) = Job(k2, a2, b2)
      PROVE  k1 = k2 /\ a1 = a2 /\ b1 = b2
  <2>1. /\ Job(k1, a1, b1).kind = k1 /\ Job(k1, a1, b1).artwork = a1
        /\ Job(k1, a1, b1).batch = b1 /\ Job(k2, a2, b2).kind = k2
        /\ Job(k2, a2, b2).artwork = a2 /\ Job(k2, a2, b2).batch = b2
    BY DEF Job
  <2> QED
    BY <1>3, <2>1
<1> QED
  BY <1>1, <1>2, <1>3

LEMMA FlushTypes ==
    ASSUME TypeOK, NEW wal \in [Artworks -> Metadata \cup {NoBackup}],
           NEW sync, NEW signal, AfterReadWrite(wal, sync, signal) \/ Flush(wal)
    PROVE  /\ m_AddWal' \in [Artworks -> Metadata \cup {NoBackup}]
           /\ db' \in [Artworks -> Metadata \cup {NoBackup}]
<1>1. db \in [Artworks -> Metadata \cup {NoBackup}]
  BY DEF TypeOK
<1>2. CASE Flush(wal)
  BY <1>1, <1>2 DEF Flush
<1>3. CASE AfterReadWrite(wal, sync, signal)
  BY <1>1, <1>2, <1>3 DEF AfterReadWrite
<1> QED
  BY <1>2, <1>3

LEMMA WorkerTypes ==
    ASSUME TypeOK, WorkerStep
    PROVE  TypeOK'
<1>1. CASE TakeJob
  <2>1. queue \in Seq(JobType) /\ queue # <<>> /\ busy' = Head(queue) /\ queue' = Tail(queue)
    BY <1>1 DEF TypeOK, TakeJob
  <2>2. busy' \in JobType /\ queue' \in Seq(JobType)
    BY <2>1, Split
  <2> QED
    BY <1>1, <2>2 DEF TypeOK, TakeJob, coordinatorVars, hubVars, readerVars, artworkVars
<1>2. CASE ProcessSeparator
  <2>1. m_AddWal \in [Artworks -> Metadata \cup {NoBackup}]
    BY DEF TypeOK
  <2>2. /\ m_AddWal' \in [Artworks -> Metadata \cup {NoBackup}]
        /\ db' \in [Artworks -> Metadata \cup {NoBackup}]
    BY <1>2, <2>1, FlushTypes DEF ProcessSeparator
  <2> QED
    BY <1>2, <2>2 DEF TypeOK, ProcessSeparator, coordinatorVars, hubVars, readerVars, artworkVars
<1>3. ASSUME NEW sync \in BOOLEAN, NEW signal \in BOOLEAN, ProcessRead(sync, signal)
      PROVE  TypeOK'
  <2>1. m_AddWal \in [Artworks -> Metadata \cup {NoBackup}]
    BY DEF TypeOK
  <2>2. /\ m_AddWal' \in [Artworks -> Metadata \cup {NoBackup}]
        /\ db' \in [Artworks -> Metadata \cup {NoBackup}]
    BY <1>3, <2>1, FlushTypes DEF ProcessRead
  <2>3. ready' \in BOOLEAN
    BY <1>3 DEF ProcessRead, AfterReadWrite
  <2>4. m_StorageReadQueue' \subseteq [artwork : Artworks, batch : 0..MaxImports, backup : Metadata]
    <3>1. busy \in [kind : {"Read", "Add"}, artwork : Artworks, batch : 0..MaxImports]
      BY <1>3 DEF TypeOK, JobType, ProcessRead
    <3>2. db[busy.artwork] # NoBackup => db[busy.artwork] \in Metadata
      BY <3>1 DEF TypeOK
    <3>3. busy.artwork \in Artworks /\ busy.batch \in 0..MaxImports
      BY <3>1
    <3> QED
      BY <1>3, <3>2, <3>3 DEF ProcessRead, TypeOK
  <2>5. busy' = NoJob
    BY <1>3 DEF ProcessRead
  <2> QED
    BY <1>3, <2>2, <2>3, <2>4, <2>5
       DEF TypeOK, ProcessRead, coordinatorVars, hubVars, readerVars, artworkVars
<1>4. ASSUME NEW sync \in BOOLEAN, NEW signal \in BOOLEAN, ProcessAdd(sync, signal)
      PROVE  TypeOK'
  <2> DEFINE wal == [m_AddWal EXCEPT ![busy.artwork] = content[busy.artwork]]
  <2>1. wal \in [Artworks -> Metadata \cup {NoBackup}]
    <3>1. busy \in [kind : {"Read", "Add"}, artwork : Artworks, batch : 0..MaxImports]
      BY <1>4 DEF TypeOK, JobType, ProcessAdd
    <3>2. content[busy.artwork] \in Metadata
      BY <3>1 DEF TypeOK
    <3> QED
      BY <3>2 DEF TypeOK
  <2>2. AfterReadWrite(wal, sync, signal)
    BY <1>4 DEF ProcessAdd
  <2>3. ready' \in BOOLEAN
    BY <2>2 DEF AfterReadWrite
  <2> HIDE DEF wal
  <2>4. /\ m_AddWal' \in [Artworks -> Metadata \cup {NoBackup}]
        /\ db' \in [Artworks -> Metadata \cup {NoBackup}]
    BY <2>1, <2>2, FlushTypes
  <2>5. busy' = NoJob
    BY <1>4 DEF ProcessAdd
  <2> QED
    BY <1>4, <2>3, <2>4, <2>5
       DEF TypeOK, ProcessAdd, coordinatorVars, hubVars, readerVars, artworkVars
<1> QED
  BY <1>1, <1>2, <1>3, <1>4 DEF WorkerStep

LEMMA TypesHold == TypeOK /\ [Next]_vars => TypeOK'
<1> SUFFICES ASSUME TypeOK, [Next]_vars PROVE TypeOK'
  OBVIOUS
<1>1. CASE UNCHANGED vars
  BY <1>1 DEF vars, TypeOK
<1>2. CASE Next
  BY <1>2, HubTypes, EndTypes, WorkerTypes DEF Next
<1> QED
  BY <1>1, <1>2

\* The hub, the readings, the metadata of the artworks, the worker and the storage
\* keep their types, whatever dialogs are escaped.
THEOREM TypeCorrect == Spec => []TypeOK
  BY InitTypes, TypesHold, PTL DEF Spec

-----------------------------------------------------------------------------
(* What each step makes of the jobs of the worker and of the backups it read. *)

\* The jobs the worker has, queued or in hand.
InWorker == Range(queue) \cup ({busy} \ {NoJob})

\* The reading of an artwork for an import is queued, in hand, or read.
Delivered(a, b) == \E r \in m_StorageReadQueue : r.artwork = a /\ r.batch = b
BeingRead(a, b) == Job("Read", a, b) \in InWorker \/ Delivered(a, b)

\* A reading is told from the other jobs.
LEMMA Readings ==
    ASSUME NEW a, NEW b
    PROVE  /\ Job("Read", a, b) # Last
           /\ \A c, d : Job("Read", a, b) # Job("Add", c, d)
           /\ \A c, d : Job("Read", a, b) = Job("Read", c, d) <=> a = c /\ b = d
<1>1. Job("Read", a, b).kind = "Read" /\ Last.kind = "separator"
  BY DEF Job, Last
<1>2. \A c, d : Job("Add", c, d).kind = "Add"
  BY DEF Job
<1>3. \A c, d : Job("Read", c, d).artwork = c /\ Job("Read", c, d).batch = d
  BY DEF Job
<1> HIDE DEF Job
<1>4. Job("Read", a, b).artwork = a /\ Job("Read", a, b).batch = b
  BY <1>3
<1> QED
  BY <1>1, <1>2, <1>3, <1>4

\* A step that leaves the worker alone.
LEMMA WorkerStutters ==
    ASSUME UNCHANGED <<queue, busy, m_StorageReadQueue>>
    PROVE  /\ InWorker' = InWorker
           /\ \A a, b : BeingRead(a, b)' <=> BeingRead(a, b)
BY DEF InWorker, BeingRead, Delivered

LEMMA AddFilesJobs ==
    ASSUME TypeOK, NEW artworks \in SUBSET (Artworks \ added), AddFiles(artworks)
    PROVE  /\ \A job \in InWorker' :
                 \/ job \in InWorker \/ job = Last
                 \/ \E a \in artworks : job = Job("Read", a, imports + 1)
           /\ \A a, b : BeingRead(a, b)'
                        <=> BeingRead(a, b) \/ (a \in artworks /\ b = imports + 1)
<1>1. /\ queue \in Seq(JobType) /\ imports + 1 \in 0..MaxImports
      /\ artworks \in SUBSET Artworks
  BY ImportAssumption DEF TypeOK, AddFiles
<1>2. /\ queue' = queue \o JobsOf(artworks, "Read", imports + 1) \o Separator
      /\ busy' = busy /\ m_StorageReadQueue' = m_StorageReadQueue
  BY DEF AddFiles
<1>3. \A j : j \in Range(queue') <=> \/ j \in Range(queue) \/ j = Last
                                     \/ \E a \in artworks : j = Job("Read", a, imports + 1)
  <2>1. queue' = WithJobs(queue, artworks, "Read", imports + 1)
    BY <1>1, <1>2, Queued
  <2>2. Range(queue') = Range(queue) \cup Snapshot(artworks, "Read", imports + 1) \cup {Last}
    BY <1>1, <2>1, Queued
  <2> QED
    BY <2>2 DEF Snapshot
<1>4. \A j : j \in InWorker' <=> \/ j \in InWorker \/ j = Last
                                 \/ \E a \in artworks : j = Job("Read", a, imports + 1)
  BY <1>2, <1>3 DEF InWorker
<1>6. \A a, b : Delivered(a, b)' <=> Delivered(a, b)
  BY <1>2 DEF Delivered
<1>7. ASSUME NEW a, NEW b
      PROVE  BeingRead(a, b)' <=> BeingRead(a, b) \/ (a \in artworks /\ b = imports + 1)
  <2>1. BeingRead(a, b)' <=> Job("Read", a, b) \in InWorker' \/ Delivered(a, b)'
    BY DEF BeingRead
  <2>2. /\ Job("Read", a, b) # Last
        /\ \A c : Job("Read", a, b) = Job("Read", c, imports + 1) <=> a = c /\ b = imports + 1
    BY Readings
  <2> QED
    BY <1>4, <1>6, <2>1, <2>2 DEF BeingRead
<1> QED
  BY <1>4, <1>7

\* The end of an import erases the readings of its batch when its backups are to
\* be ignored, and has its artworks saved unless it is cancelled.
LEMMA EndOfImportJobs ==
    ASSUME TypeOK, OnCanInitialize
    PROVE  /\ \A job \in InWorker' : \/ job \in InWorker \/ job = Last
                                   \/ \E a \in m_ArtworksToRead : job = Job("Add", a, 0)
           /\ \A a, b : BeingRead(a, b)' => BeingRead(a, b)
           /\ \A a, b : \/ ~BeingRead(a, b) \/ BeingRead(a, b)'
                        \/ (m_IgnoreBackupsAtImport /\ b = m_StorageReadBatchID)
<1> DEFINE batches == IF m_IgnoreBackupsAtImport THEN {m_StorageReadBatchID} ELSE {}
           erased == batches \ {INVALID_BATCH_ID}
           kept == Without(queue, erased)
<1>1. queue \in Seq(JobType) /\ m_ArtworksToRead \in SUBSET Artworks
  BY DEF TypeOK
<1>2. /\ kept \in Seq(JobType)
      /\ Range(kept) = {j \in Range(queue) : j.batch \notin erased}
  <2> HIDE DEF erased
  <2> QED
    BY <1>1, WithoutFacts
<1>3. /\ queue' = IF m_IsCancelled THEN kept ELSE kept \o AddJobs(m_ArtworksToRead)
      /\ busy' = busy /\ m_StorageReadQueue' = m_StorageReadQueue
  BY DEF OnCanInitialize
<1>4. \A j : j \in Range(kept \o AddJobs(m_ArtworksToRead))
               <=> \/ j \in Range(kept) \/ j = Last
                   \/ \E a \in m_ArtworksToRead : j = Job("Add", a, 0)
  <2>1. 0 \in 0..MaxImports
    BY ImportAssumption
  <2>2. kept \o AddJobs(m_ArtworksToRead) = WithJobs(kept, m_ArtworksToRead, "Add", 0)
    BY DEF AddJobs, INVALID_BATCH_ID, WithJobs
  <2> HIDE DEF kept
  <2>3. Range(WithJobs(kept, m_ArtworksToRead, "Add", 0))
          = Range(kept) \cup Snapshot(m_ArtworksToRead, "Add", 0) \cup {Last}
    <3>1. /\ kept \in Seq(JobType) /\ m_ArtworksToRead \in SUBSET Artworks
          /\ "Add" \in {"Read", "Add"}
      BY <1>1, <1>2
    <3> QED
      BY ONLY <2>1, <3>1, Queued
  <2> QED
    BY <2>2, <2>3 DEF Snapshot
<1>5. \A b \in erased : m_IgnoreBackupsAtImport /\ b = m_StorageReadBatchID
  OBVIOUS
<1> HIDE DEF erased, kept
<1>6. /\ Range(kept) \subseteq Range(queue')
      /\ \A j \in Range(queue') : \/ j \in Range(kept) \/ j = Last
                                  \/ \E a \in m_ArtworksToRead : j = Job("Add", a, 0)
  BY <1>3, <1>4
<1>7. \A j \in InWorker' : \/ j \in InWorker \/ j = Last
                           \/ \E a \in m_ArtworksToRead : j = Job("Add", a, 0)
  BY <1>2, <1>3, <1>6 DEF InWorker
<1>9. \A a, b : Delivered(a, b)' <=> Delivered(a, b)
  BY <1>3 DEF Delivered
<1>10. ASSUME NEW a, NEW b
       PROVE  /\ BeingRead(a, b)' => BeingRead(a, b)
              /\ BeingRead(a, b) => BeingRead(a, b)' \/ b \in erased
  <2>1. BeingRead(a, b)' <=> Job("Read", a, b) \in InWorker' \/ Delivered(a, b)'
    BY DEF BeingRead
  <2>2. Job("Read", a, b).batch = b
    BY DEF Job
  <2>3. Job("Read", a, b) \in InWorker' => Job("Read", a, b) \in InWorker
    BY <1>7, Readings
  <2>4. Job("Read", a, b) \in InWorker => Job("Read", a, b) \in InWorker' \/ b \in erased
    BY <1>2, <1>3, <1>6, <2>2 DEF InWorker
  <2> QED
    BY <1>9, <2>1, <2>3, <2>4 DEF BeingRead
<1> QED
  BY <1>5, <1>7, <1>10

LEMMA TakeJobJobs ==
    ASSUME TypeOK, TakeJob
    PROVE  /\ InWorker' = InWorker
           /\ \A a, b : BeingRead(a, b)' <=> BeingRead(a, b)
<1>1. /\ queue \in Seq(JobType) /\ queue # <<>> /\ busy = NoJob
      /\ busy' = Head(queue) /\ queue' = Tail(queue)
      /\ m_StorageReadQueue' = m_StorageReadQueue
  BY DEF TypeOK, TakeJob
<1>2. Head(queue) # NoJob /\ Range(queue) = {Head(queue)} \cup Range(Tail(queue))
  BY <1>1, Split, JobFacts
<1>3. InWorker' = InWorker
  BY <1>1, <1>2 DEF InWorker
<1>4. \A a, b : Delivered(a, b)' <=> Delivered(a, b)
  BY <1>1 DEF Delivered
<1> QED
  BY <1>3, <1>4 DEF BeingRead

\* A reading ends with the backup of the artwork, if there is one.
LEMMA ProcessReadJobs ==
    ASSUME TypeOK, NEW sync, NEW signal, ProcessRead(sync, signal)
    PROVE  /\ InWorker' \subseteq InWorker
           /\ \A r \in m_StorageReadQueue' :
                 \/ r \in m_StorageReadQueue
                 \/ (r.backup = db[r.artwork] /\ db[r.artwork] # NoBackup)
           /\ \A a, b : BeingRead(a, b)' => BeingRead(a, b)
           /\ \A a, b : BeingRead(a, b) /\ db[a] # NoBackup => BeingRead(a, b)'
<1> DEFINE read == [artwork |-> busy.artwork, batch |-> busy.batch, backup |-> db[busy.artwork]]
<1>1. /\ busy # NoJob /\ busy.kind = "Read" /\ busy' = NoJob /\ queue' = queue
      /\ m_StorageReadQueue' = IF db[busy.artwork] = NoBackup THEN m_StorageReadQueue
                               ELSE m_StorageReadQueue \cup {read}
  BY DEF ProcessRead
<1>2. busy = Job("Read", busy.artwork, busy.batch) /\ busy \in InWorker
  BY <1>1, JobFacts DEF TypeOK, InWorker
<1>3. InWorker' \subseteq InWorker /\ InWorker \subseteq InWorker' \cup {busy}
  BY <1>1 DEF InWorker
<1>4. /\ read.artwork = busy.artwork /\ read.batch = busy.batch
      /\ read.backup = db[read.artwork]
  OBVIOUS
<1> HIDE DEF read
<1>5. \A r \in m_StorageReadQueue' :
        r \in m_StorageReadQueue \/ (r = read /\ db[read.artwork] # NoBackup)
  BY <1>1, <1>4
<1>6. ASSUME NEW a, NEW b PROVE BeingRead(a, b)' => BeingRead(a, b)
  <2>1. BeingRead(a, b)' <=> Job("Read", a, b) \in InWorker' \/ Delivered(a, b)'
    BY DEF BeingRead
  <2>2. Delivered(a, b)' => Delivered(a, b) \/ (a = busy.artwork /\ b = busy.batch)
    BY <1>4, <1>5 DEF Delivered
  <2> QED
    BY <1>2, <1>3, <2>1, <2>2 DEF BeingRead
<1>7. ASSUME NEW a, NEW b, BeingRead(a, b), db[a] # NoBackup PROVE BeingRead(a, b)'
  <2>1. BeingRead(a, b)' <=> Job("Read", a, b) \in InWorker' \/ Delivered(a, b)'
    BY DEF BeingRead
  <2>2. Delivered(a, b) => Delivered(a, b)'
    BY <1>1 DEF Delivered
  <2>3. CASE Job("Read", a, b) = busy
    <3>1. a = busy.artwork /\ b = busy.batch
      BY <1>2, <2>3, Readings
    <3>2. read \in m_StorageReadQueue'
      BY <1>1, <1>7, <3>1
    <3> QED
      BY <1>4, <2>1, <3>1, <3>2 DEF Delivered
  <2>4. CASE Job("Read", a, b) # busy
    BY <1>3, <1>7, <2>1, <2>2, <2>4 DEF BeingRead
  <2> QED
    BY <2>3, <2>4
<1> QED
  BY <1>3, <1>4, <1>5, <1>6, <1>7

\* What is saved or separates is not a reading.
LEMMA OtherJobs ==
    ASSUME TypeOK, busy # NoJob, busy.kind # "Read", busy' = NoJob,
           UNCHANGED <<queue, m_StorageReadQueue>>
    PROVE  /\ InWorker' \subseteq InWorker
           /\ \A a, b : BeingRead(a, b)' <=> BeingRead(a, b)
<1>1. InWorker' \subseteq InWorker /\ InWorker \subseteq InWorker' \cup {busy}
  BY DEF InWorker
<1>2. \A a, b : Job("Read", a, b) # busy
  BY DEF Job
<1>3. \A a, b : Delivered(a, b)' <=> Delivered(a, b)
  BY DEF Delivered
<1> QED
  BY <1>1, <1>2, <1>3 DEF BeingRead

LEMMA ImportJobs ==
    ASSUME ImportFromStorage
    PROVE  /\ InWorker' = InWorker
           /\ \A a, b : BeingRead(a, b)' => BeingRead(a, b)
           /\ \A a, b : BeingRead(a, b) => BeingRead(a, b)' \/ Delivered(a, b)
<1>1. queue' = queue /\ busy' = busy /\ m_StorageReadQueue' = {}
  BY DEF ImportFromStorage
<1>2. InWorker' = InWorker
  BY <1>1 DEF InWorker
<1>3. \A a, b : ~Delivered(a, b)'
  BY <1>1 DEF Delivered
<1> QED
  BY <1>2, <1>3 DEF BeingRead

-----------------------------------------------------------------------------
(* What the storage holds. *)

\* Only what was added is read, and a backup that was read stays what it was.
ReadsInv ==
    /\ \A a, b : BeingRead(a, b) => a \in added /\ b \in 1..imports
    /\ \A r \in m_StorageReadQueue : r.backup = db[r.artwork] /\ db[r.artwork] # NoBackup

\* What is imported for the first time is not initialised, and what is not
\* initialised the user has not edited and the program has not saved.
ArtworksInv ==
    /\ \A a \in Artworks \ added : flags[a] = {} /\ content[a] = Empty
    /\ ~reimport => \A a \in m_ArtworksToRead : "Initialized" \notin flags[a]
    /\ \A job \in InWorker : job.kind = "Add" => "Initialized" \in flags[job.artwork]
    /\ \A a \in Artworks : "Initialized" \notin flags[a] =>
          /\ content[a].title # "user" /\ m_AddWal[a] = NoBackup
          /\ db[a] # NoBackup => db[a].title # "user"

StorageInv == ReadsInv /\ ArtworksInv

LEMMA InitStorage == Init => StorageInv
<1> SUFFICES ASSUME Init PROVE StorageInv
  OBVIOUS
<1>1. /\ queue = <<>> /\ busy = NoJob /\ m_StorageReadQueue = {} /\ added = {}
      /\ m_ArtworksToRead = {}
      /\ content = [a \in Artworks |-> Empty] /\ flags = [a \in Artworks |-> {}]
      /\ m_AddWal = [a \in Artworks |-> NoBackup]
      /\ db \in [Artworks -> BackupValues \cup {NoBackup}]
  BY DEF Init
<1>2. InWorker = {} /\ \A a, b : ~BeingRead(a, b)
  BY <1>1 DEF InWorker, BeingRead, Delivered, Range
<1>3. Empty.title # "user"
  BY DEF Empty
<1>4. \A a \in Artworks : db[a] # NoBackup => db[a].title # "user"
  BY <1>1, ImportAssumption
<1> QED
  BY <1>1, <1>2, <1>3, <1>4 DEF StorageInv, ReadsInv, ArtworksInv

\* A step that changes neither the artworks nor the worker.
LEMMA StorageStutters ==
    ASSUME StorageInv,
           UNCHANGED <<queue, busy, m_StorageReadQueue, content, flags, added, reimport,
                       m_ArtworksToRead, imports, m_AddWal, db>>
    PROVE  StorageInv'
<1>1. InWorker' = InWorker /\ \A a, b : BeingRead(a, b)' <=> BeingRead(a, b)
  BY WorkerStutters
<1> QED
  BY <1>1 DEF StorageInv, ReadsInv, ArtworksInv

LEMMA StorageHolds ==
    ASSUME TypeOK, StorageInv, [Next]_vars
    PROVE  StorageInv'
<1> USE ImportAssumption
<1>0. ReadsInv /\ ArtworksInv /\ imports \in Nat
  BY DEF StorageInv, TypeOK
<1>1. ASSUME NEW artworks \in (SUBSET (Artworks \ added)) \ {{}}, AddFiles(artworks)
      PROVE  StorageInv'
  <2>1. /\ UNCHANGED <<content, flags, m_AddWal, db, m_StorageReadQueue>>
        /\ added' = added \cup artworks /\ imports' = imports + 1
        /\ m_ArtworksToRead' = artworks
    BY <1>1 DEF AddFiles, InitializeImport
  <2>2. /\ \A job \in InWorker' :
               \/ job \in InWorker \/ job = Last
               \/ \E a \in artworks : job = Job("Read", a, imports + 1)
        /\ \A a, b : BeingRead(a, b)'
                      <=> BeingRead(a, b) \/ (a \in artworks /\ b = imports + 1)
    BY <1>1, AddFilesJobs
  <2>3. ReadsInv'
    BY <1>0, <2>1, <2>2 DEF ReadsInv
  <2>4. \A job \in InWorker' : job.kind = "Add" => job \in InWorker
    BY <2>2 DEF Last, Job
  <2>5. \A a \in artworks : flags[a] = {}
    BY <1>0 DEF ArtworksInv
  <2>6. ArtworksInv'
    BY <1>0, <2>1, <2>4, <2>5 DEF ArtworksInv
  <2> QED
    BY <2>3, <2>6 DEF StorageInv
<1>2. ASSUME NEW artworks \in (SUBSET added) \ {{}}, Reimport(artworks)
      PROVE  StorageInv'
  <2>1. /\ UNCHANGED <<content, added, m_AddWal, db, m_StorageReadQueue, queue, busy>>
        /\ imports' = imports + 1 /\ reimport' = TRUE
        /\ flags' = [a \in Artworks |-> IF a \in artworks THEN flags[a] \cup {"ReimportPending"}
                                       ELSE flags[a]]
    BY <1>2 DEF Reimport, InitializeImport, storageVars
  <2>2. InWorker' = InWorker /\ \A a, b : BeingRead(a, b)' <=> BeingRead(a, b)
    BY <2>1, WorkerStutters
  <2>3. ReadsInv'
    BY <1>0, <2>1, <2>2 DEF ReadsInv
  <2>4. /\ \A a \in Artworks : "Initialized" \in flags'[a] <=> "Initialized" \in flags[a]
        /\ \A a \in Artworks \ added : flags'[a] = flags[a]
    BY <2>1
  <2>5. \A job \in InWorker : job.kind = "Add" => "Initialized" \in flags'[job.artwork]
    <3>1. \A job \in InWorker : job.kind = "Add" => job.artwork \in Artworks
      BY RangeOfSeq DEF TypeOK, InWorker, JobType
    <3> QED
      BY <1>0, <2>4, <3>1 DEF ArtworksInv
  <2>6. ArtworksInv'
    BY <1>0, <2>1, <2>2, <2>4, <2>5 DEF ArtworksInv
  <2> QED
    BY <2>3, <2>6 DEF StorageInv
<1>3. CASE OnCanInitialize
  <2>1. /\ \A a \in Artworks \ m_ArtworksToRead :
              content'[a] = content[a] /\ flags'[a] = flags[a]
        /\ \A a \in m_ArtworksToRead : "Initialized" \in flags'[a]
    <3>1. \A a \in m_ArtworksToRead : Typed(a) /\ file[a] \in Metadata
                                   /\ m_IgnoreBackupsAtImport \in BOOLEAN
      BY MetadataFacts DEF TypeOK, Typed
    <3>2. \A a \in m_ArtworksToRead : "Initialized" \in Initialized(a).flags
      BY <3>1, InitializedFacts
    <3> QED
      BY <1>3, <3>2, EndOfImport
  <2>2. /\ \A job \in InWorker' : \/ job \in InWorker \/ job = Last
                                  \/ \E a \in m_ArtworksToRead : job = Job("Add", a, 0)
        /\ \A a, b : BeingRead(a, b)' => BeingRead(a, b)
    BY <1>3, EndOfImportJobs
  <2>3. /\ UNCHANGED <<added, imports, reimport, m_AddWal, db, m_StorageReadQueue>>
        /\ m_ArtworksToRead' = {} /\ m_ArtworksToRead \subseteq added /\ added \subseteq Artworks
    BY <1>3 DEF OnCanInitialize, TypeOK
  <2>4. ReadsInv'
    BY <1>0, <2>2, <2>3 DEF ReadsInv
  <2>5. \A a \in Artworks : "Initialized" \in flags[a] => "Initialized" \in flags'[a]
    BY <2>1
  <2>6. \A job \in InWorker' : job.kind = "Add" => "Initialized" \in flags'[job.artwork]
    <3> SUFFICES ASSUME NEW job \in InWorker', job.kind = "Add"
                 PROVE  "Initialized" \in flags'[job.artwork]
      OBVIOUS
    <3>1. CASE job \in InWorker
      <4>1. job.artwork \in Artworks
        BY <3>1, RangeOfSeq DEF TypeOK, InWorker, JobType
      <4> QED
        BY <1>0, <2>5, <3>1, <4>1 DEF ArtworksInv
    <3>2. CASE job = Last
      BY <3>2 DEF Last, Job
    <3>3. CASE \E a \in m_ArtworksToRead : job = Job("Add", a, 0)
      BY <2>1, <3>3 DEF Job
    <3> QED
      BY <2>2, <3>1, <3>2, <3>3
  <2>7. ArtworksInv'
    BY <1>0, <2>1, <2>3, <2>5, <2>6 DEF ArtworksInv
  <2> QED
    BY <2>4, <2>7 DEF StorageInv
<1>4. ASSUME NEW a \in Artworks, Edit(a) PROVE StorageInv'
  <2>1. /\ UNCHANGED <<added, imports, reimport, m_ArtworksToRead, m_AddWal, db,
                       m_StorageReadQueue, queue, busy>>
        /\ "Initialized" \in flags[a]
        /\ \A b \in Artworks \ {a} : content'[b] = content[b] /\ flags'[b] = flags[b]
        /\ flags'[a] = flags[a] \cup {"Modified"}
    BY <1>4 DEF Edit, hubVars, storageVars, Has, TypeOK
  <2>2. InWorker' = InWorker /\ \A c, b : BeingRead(c, b)' <=> BeingRead(c, b)
    BY <2>1, WorkerStutters
  <2>3. ReadsInv'
    BY <1>0, <2>1, <2>2 DEF ReadsInv
  <2>4. \A b \in Artworks : "Initialized" \in flags'[b] <=> "Initialized" \in flags[b]
    BY <2>1
  <2>5. a \in added
    BY <1>0, <2>1 DEF ArtworksInv
  <2>6. \A job \in InWorker : job.kind = "Add" => job.artwork \in Artworks
    BY RangeOfSeq DEF TypeOK, InWorker, JobType
  <2>7. m_ArtworksToRead \subseteq Artworks
    BY DEF TypeOK
  <2>8. ArtworksInv'
    BY <1>0, <2>1, <2>2, <2>4, <2>5, <2>6, <2>7 DEF ArtworksInv
  <2> QED
    BY <2>3, <2>8 DEF StorageInv
<1>5. CASE ImportFromStorage
  <2>1. /\ UNCHANGED <<added, imports, reimport, m_ArtworksToRead, m_AddWal, db>>
        /\ m_StorageReadQueue' = {}
    BY <1>5 DEF ImportFromStorage, hubVars
  <2>2. InWorker' = InWorker /\ \A a, b : BeingRead(a, b)' => BeingRead(a, b)
    BY <1>5, ImportJobs
  <2>3. ReadsInv'
    BY <1>0, <2>1, <2>2 DEF ReadsInv
  <2>4. ASSUME NEW a \in Artworks
        PROVE  /\ "Initialized" \in flags'[a] <=> "Initialized" \in flags[a]
               /\ a \notin added => content'[a] = content[a] /\ flags'[a] = flags[a]
               /\ "Initialized" \notin flags[a] => content'[a].title # "user"
    <3>1. CASE \A r \in Requests : r.artwork # a
      <4>1. content'[a] = content[a] /\ flags'[a] = flags[a]
        BY <1>5, <3>1, BackupsImported
      <4> QED
        BY <1>0, <4>1 DEF ArtworksInv
    <3>2. CASE \E r \in Requests : r.artwork = a
      <4>1. PICK r \in Requests :
              /\ r.artwork = a
              /\ content'[a] = InitFromStorage(a, r.backup).content
              /\ flags'[a] = InitFromStorage(a, r.backup).flags
        BY <1>5, <3>2, BackupsImported
      <4>2. r \in m_StorageReadQueue /\ r.backup = db[a] /\ db[a] # NoBackup
        BY <1>0, <4>1 DEF Requests, ReadsInv
      <4>3. BeingRead(a, r.batch)
        BY <4>1, <4>2 DEF BeingRead, Delivered
      <4>4. a \in added
        BY <1>0, <4>3 DEF ReadsInv
      <4>5. content[a] \in Metadata /\ flags[a] \in SUBSET Flags /\ r.backup \in Metadata
        BY <4>2 DEF TypeOK
      <4> DEFINE new == InitFromStorage(a, r.backup)
      <4>6. /\ Has(a, "ReimportPending") => new.content = content[a] /\ new.flags = flags[a]
            /\ ~Has(a, "ReimportPending") =>
                 new.flags \ {"Modified"} = (flags[a] \ {"Modified"}) \cup {"AlmostInitialized"}
            /\ ~Has(a, "ReimportPending") /\ ~Has(a, "Initialized") =>
                 new.content = r.backup
        BY <4>5, BackupFacts
      <4> HIDE DEF new
      <4>7. "Initialized" \in new.flags <=> "Initialized" \in flags[a]
        BY <4>6
      <4>8. "Initialized" \notin flags[a] => new.content \in {content[a], db[a]}
        BY <4>2, <4>6 DEF Has
      <4>9. content'[a] = new.content /\ flags'[a] = new.flags
        BY <4>1 DEF new
      <4> QED
        BY <1>0, <4>2, <4>4, <4>7, <4>8, <4>9 DEF ArtworksInv
    <3> QED
      BY <3>1, <3>2
  <2>5. \A job \in InWorker : job.kind = "Add" => job.artwork \in Artworks
    BY RangeOfSeq DEF TypeOK, InWorker, JobType
  <2>6. m_ArtworksToRead \subseteq Artworks
    BY DEF TypeOK
  <2>7. ArtworksInv'
    BY <1>0, <2>1, <2>2, <2>4, <2>5, <2>6 DEF ArtworksInv
  <2> QED
    BY <2>3, <2>7 DEF StorageInv
<1>6. CASE TakeJob
  <2>1. UNCHANGED <<content, flags, added, imports, reimport, m_ArtworksToRead, m_AddWal, db,
                    m_StorageReadQueue>>
    BY <1>6 DEF TakeJob, hubVars, artworkVars
  <2>2. InWorker' = InWorker /\ \A a, b : BeingRead(a, b)' <=> BeingRead(a, b)
    BY <1>6, TakeJobJobs
  <2> QED
    BY <1>0, <2>1, <2>2 DEF StorageInv, ReadsInv, ArtworksInv
<1>7. CASE WorkerStep /\ ~TakeJob
  <2>1. UNCHANGED <<content, flags, added, imports, reimport, m_ArtworksToRead>>
    BY <1>7 DEF WorkerStep, ProcessSeparator, ProcessRead, ProcessAdd, hubVars, artworkVars
  <2>2. /\ InWorker' \subseteq InWorker
        /\ \A a, b : BeingRead(a, b)' => BeingRead(a, b)
        /\ \A r \in m_StorageReadQueue' :
              \/ r \in m_StorageReadQueue
              \/ (r.backup = db[r.artwork] /\ db[r.artwork] # NoBackup)
    <3>1. CASE \E sync, signal \in BOOLEAN : ProcessRead(sync, signal)
      BY <3>1, ProcessReadJobs
    <3>2. CASE ~\E sync, signal \in BOOLEAN : ProcessRead(sync, signal)
      <4>1. /\ busy # NoJob /\ busy.kind # "Read" /\ busy' = NoJob
            /\ UNCHANGED <<queue, m_StorageReadQueue>>
        BY <1>7, <3>2 DEF WorkerStep, ProcessSeparator, ProcessAdd
      <4> QED
        BY <4>1, OtherJobs
    <3> QED
      BY <3>1, <3>2
  <2>3. PICK wal \in [Artworks -> Metadata \cup {NoBackup}] :
          /\ Flush(wal) \/ \E sync, signal : AfterReadWrite(wal, sync, signal)
          /\ \A a \in Artworks : "Initialized" \notin flags[a] => wal[a] = NoBackup
    <3>1. CASE \E sync, signal \in BOOLEAN : ProcessAdd(sync, signal)
      <4>1. PICK sync \in BOOLEAN, signal \in BOOLEAN : ProcessAdd(sync, signal)
        BY <3>1
      <4> DEFINE wal == [m_AddWal EXCEPT ![busy.artwork] = content[busy.artwork]]
      <4>2. busy \in InWorker /\ busy.kind = "Add" /\ AfterReadWrite(wal, sync, signal)
        BY <4>1 DEF ProcessAdd, InWorker
      <4>3. busy.artwork \in Artworks
        BY <4>1, <4>2 DEF TypeOK, JobType, ProcessAdd
      <4>4. wal \in [Artworks -> Metadata \cup {NoBackup}]
        BY <4>3 DEF TypeOK
      <4>5. "Initialized" \in flags[busy.artwork]
        BY <1>0, <4>2 DEF ArtworksInv
      <4>6. \A a \in Artworks : "Initialized" \notin flags[a] => wal[a] = NoBackup
        BY <1>0, <4>3, <4>5 DEF ArtworksInv, TypeOK
      <4> HIDE DEF wal
      <4> QED
        BY <4>2, <4>4, <4>6
    <3>2. CASE ~\E sync, signal \in BOOLEAN : ProcessAdd(sync, signal)
      <4>1. Flush(m_AddWal) \/ \E sync, signal : AfterReadWrite(m_AddWal, sync, signal)
        BY <1>7, <3>2 DEF WorkerStep, ProcessSeparator, ProcessRead
      <4>2. m_AddWal \in [Artworks -> Metadata \cup {NoBackup}]
        BY DEF TypeOK
      <4> QED
        BY <1>0, <4>1, <4>2 DEF ArtworksInv
    <3> QED
      BY <3>1, <3>2
  <2>4. ASSUME NEW a \in Artworks
        PROVE  /\ db[a] # NoBackup => db'[a] = db[a]
               /\ "Initialized" \notin flags[a] => db'[a] = db[a] /\ m_AddWal'[a] = NoBackup
    BY <2>3, <2>4 DEF Flush, AfterReadWrite
  <2>5. \A r \in m_StorageReadQueue' : r.artwork \in Artworks
    BY TypesHold DEF TypeOK
  <2>6. ReadsInv'
    BY <1>0, <2>1, <2>2, <2>4, <2>5 DEF ReadsInv
  <2>7. ArtworksInv'
    BY <1>0, <2>1, <2>2, <2>4 DEF ArtworksInv
  <2> QED
    BY <2>6, <2>7 DEF StorageInv
<1>8. CASE \/ AwaitClick \/ StartReader \/ StartAccepting \/ Escape
           \/ \E choice \in Answers : Answer(choice)
           \/ \E i \in Imports : EndReading(i) \/ \E a \in Artworks : Push(i, a)
           \/ \E p \in {Main, User} : MainReports(p)
           \/ \E p \in Imports : FinishCall(p)
           \/ UNCHANGED vars
  <2>1. UNCHANGED <<queue, busy, m_StorageReadQueue, content, flags, added, reimport,
                    m_ArtworksToRead, imports, m_AddWal, db>>
    BY <1>8 DEF AwaitClick, StartReader, StartAccepting, Escape, MainReports, Answer, EndReading,
                Push, FinishCall, vars, hubVars, artworkVars, storageVars
  <2> QED
    BY <2>1, StorageStutters
<1> QED
  BY <1>1, <1>2, <1>3, <1>4, <1>5, <1>6, <1>7, <1>8 DEF Next, MainStep

\* A backup that arrives late fills what is empty: an edited title is not, and it
\* was edited after the artwork was initialised.
THEOREM LateBackupsKeepEdits == Spec => EditsSurvive
<1>1. TypeOK /\ StorageInv /\ [Next]_vars =>
        [\A a \in Artworks :
            content[a].title = "user" /\ content'[a].title # "user"
                => a \in m_ArtworksToRead /\ reimport]_vars
  <2> SUFFICES ASSUME TypeOK, StorageInv, Next, NEW a \in Artworks,
                      content[a].title = "user", content'[a].title # "user"
               PROVE  a \in m_ArtworksToRead /\ reimport
    OBVIOUS
  <2>1. "Initialized" \in flags[a]
    BY DEF StorageInv, ArtworksInv
  <2>2. CASE OnCanInitialize
    <3>1. a \in m_ArtworksToRead
      BY <2>2, EndOfImport
    <3> QED
      BY <2>1, <3>1 DEF StorageInv, ArtworksInv
  <2>3. CASE \E b \in Artworks : Edit(b)
    <3>1. PICK b \in Artworks : Edit(b)
      BY <2>3
    <3>2. content' = [content EXCEPT ![b].title = "user"]
      BY <3>1 DEF Edit
    <3>3. a # b
      BY <3>1 DEF Edit
    <3>4. content'[a] = content[a]
      BY <3>2, <3>3 DEF TypeOK
    <3> QED
      BY <3>4
  <2>4. CASE ImportFromStorage
    <3>1. \E r \in Requests : r.artwork = a
      BY <2>4, BackupsImported
    <3>2. PICK r \in Requests : /\ r.artwork = a
                                /\ content'[a] = InitFromStorage(a, r.backup).content
      BY <2>4, <3>1, BackupsImported
    <3>3. content[a] \in Metadata /\ flags[a] \in SUBSET Flags /\ r.backup \in Metadata
      BY <3>2 DEF TypeOK, Requests
    <3> DEFINE new == InitFromStorage(a, r.backup)
    <3>4. /\ Has(a, "ReimportPending") => new.content = content[a]
          /\ ~Has(a, "ReimportPending") /\ Has(a, "Initialized") =>
               new.content.title = IF content[a].title = "" THEN r.backup.title
                                   ELSE content[a].title
      BY <3>3, BackupFacts
    <3> HIDE DEF new
    <3>5. new.content.title = "user"
      BY <2>1, <3>4 DEF Has
    <3> QED
      BY <3>2, <3>5 DEF new
  <2>5. CASE ~(OnCanInitialize \/ ImportFromStorage \/ \E b \in Artworks : Edit(b))
    <3>1. content' = content
      BY <2>5 DEF Next, MainStep, WorkerStep, AddFiles, Reimport, AwaitClick, StartReader,
                  StartAccepting, Escape, MainReports, Answer, EndReading, Push, FinishCall,
                  TakeJob, ProcessSeparator, ProcessRead, ProcessAdd, artworkVars
    <3> QED
      BY <3>1
  <2> QED
    BY <2>2, <2>3, <2>4, <2>5
<1> QED
  BY <1>1, InitTypes, TypesHold, InitStorage, StorageHolds, PTL DEF Spec, EditsSurvive

-----------------------------------------------------------------------------
(* A round of the hub, while it was never left waiting. *)

Reading == imports # 0 /\ reader[imports].pc = "running"
OwnersShare == IF imports = 0 \/ main \in {"opened", "announced", "reading"} THEN 1 ELSE 0
UsersShare == IF user = "running" THEN 1 ELSE 0
ReadersShare == IF Reading THEN 1 ELSE 0

\* Only the reading of the last import is under way.
ReadersInv ==
    \A i \in Imports : /\ reader[i].pc # "none" => i <= imports
                       /\ reader[i].pc = "running" => i = imports

\* The coordinator counts the main thread, the click and the reading thread; what
\* it reports, it reports after all of them.
CountInv ==
    /\ m_OpCount = OwnersShare + UsersShare + ReadersShare
    /\ m_StatusReported = 0 <=> emitted = <<>>
    /\ lastEnded # {} => m_OpCount = 0 /\ emitted = <<>>
    /\ \A p, q \in lastEnded : p = q
    /\ emitted # <<>> => m_OpCount = 0

\* Where the main thread and the user are in an import.
MainInv ==
    /\ imports = 0 => /\ main = "free" /\ user = "none" /\ emitted = <<>> /\ posted = 0
                      /\ m_ArtworksToRead = {}
    /\ imports # 0 =>
         /\ added # {}
         /\ main = "opened" => user = "none"
         /\ main \in {"announced", "reading", "asking"} => user = "running"
         /\ main \in {"waiting", "initializing", "free"} => user = "ended"
         /\ main \in {"opened", "announced"} <=> reader[imports].pc = "none"
         /\ main = "free" => emitted # <<>> /\ m_ArtworksToRead = {}
         /\ main = "initializing" => emitted # <<>>
    /\ posted = IF main = "waiting" /\ emitted # <<>> THEN 1 ELSE 0

Round == ReadersInv /\ CountInv /\ MainInv
RoundInv == NoneLeft => Round

LEMMA InitRound == Init => RoundInv
<1> SUFFICES ASSUME Init PROVE Round
  BY DEF RoundInv
<1>1. ReadersInv
  BY DEF Init, ReadersInv
<1>2. /\ m_OpCount = 1 /\ m_StatusReported = 0 /\ lastEnded = {} /\ emitted = <<>>
      /\ imports = 0 /\ main = "free" /\ user = "none" /\ posted = 0
      /\ m_ArtworksToRead = {}
  BY DEF Init, CoordinatorInit
<1>3. CountInv /\ MainInv
  BY <1>2 DEF CountInv, MainInv, OwnersShare, UsersShare, ReadersShare, Reading
<1> QED
  BY <1>1, <1>3 DEF Round

\* That the hub was left waiting is never forgotten.
LEMMA LeftStays ==
    ASSUME TypeOK, [Next]_vars, NoneLeft'
    PROVE  NoneLeft
<1>1. CASE \E choice \in Answers : Answer(choice)
  BY <1>1 DEF Answer, NoneLeft
<1>2. CASE Escape
  <2>1. \A a \in Artworks : asked'[a] = Escaped
    BY <1>2 DEF Escape
  <2>2. Artworks = {}
    BY <2>1 DEF NoneLeft, Left
  <2> QED
    BY <2>2 DEF NoneLeft
<1>3. CASE \/ \E artworks \in (SUBSET (Artworks \ added)) \ {{}} : AddFiles(artworks)
           \/ \E artworks \in (SUBSET added) \ {{}} : Reimport(artworks)
  <2>1. asked' = [a \in Artworks |-> Overtaken] \/ asked' = asked
    BY <1>3, Zenon DEF AddFiles, Reimport, Overtakes
  <2>2. CASE asked' = [a \in Artworks |-> Overtaken]
    <3>1. Artworks = {}
      BY <2>2 DEF NoneLeft, Left
    <3> QED
      BY <3>1 DEF NoneLeft
  <2> QED
    BY <2>1, <2>2 DEF NoneLeft, Left
<1>4. CASE /\ ~Escape /\ ~\E choice \in Answers : Answer(choice)
           /\ ~\E artworks \in (SUBSET (Artworks \ added)) \ {{}} : AddFiles(artworks)
           /\ ~\E artworks \in (SUBSET added) \ {{}} : Reimport(artworks)
  <2>1. asked' = asked
    BY <1>4 DEF Next, MainStep, WorkerStep, AwaitClick, StartReader,
                StartAccepting, MainReports, EndReading, Push, FinishCall, OnCanInitialize,
                Edit, ImportFromStorage, TakeJob, ProcessSeparator, ProcessRead, ProcessAdd,
                artworkVars, vars
  <2> QED
    BY <2>1 DEF NoneLeft
<1> QED
  BY <1>1, <1>2, <1>3, <1>4

\* An import that takes the hub over from none is begun by a window that is free.
LEMMA NotOvertaking ==
    ASSUME TypeOK, NoneLeft',
           \/ \E artworks \in (SUBSET (Artworks \ added)) \ {{}} : AddFiles(artworks)
           \/ \E artworks \in (SUBSET added) \ {{}} : Reimport(artworks)
    PROVE  main = "free" /\ asked' = asked
<1>1. NoDialog /\ Overtakes /\ Artworks # {}
  <2>1. NoDialog /\ Overtakes
    BY Zenon DEF AddFiles, Reimport
  <2>2. Artworks # {}
    BY DEF TypeOK
  <2> QED
    BY <2>1, <2>2
<1>2. main # "waiting"
  BY <1>1 DEF Overtakes, NoneLeft, Left
<1> QED
  BY <1>1, <1>2 DEF Overtakes, NoDialog

LEMMA RoundStays ==
    ASSUME Round,
           UNCHANGED <<coordinatorVars, imports, main, user, reader, added, m_ArtworksToRead, posted>>
    PROVE  Round'
BY DEF Round, ReadersInv, CountInv, MainInv, OwnersShare, UsersShare, ReadersShare, Reading,
       coordinatorVars

LEMMA RoundHolds ==
    ASSUME TypeOK, RoundInv, [Next]_vars
    PROVE  RoundInv'
<1> SUFFICES ASSUME NoneLeft' PROVE Round'
  BY DEF RoundInv
<1> USE ImportAssumption
<1>0. /\ Round /\ ReadersInv /\ CountInv /\ MainInv
      /\ imports \in 0..MaxImports /\ MaxImports \in Nat /\ m_OpCount \in Int
      /\ reader \in [Imports -> [pc : {"none", "running", "ended"}, left : SUBSET added]]
      /\ emitted \in Seq(Statuses) /\ m_StatusReported \in {0, 1}
      /\ main \in {"free", "opened", "announced", "reading", "asking", "waiting",
                   "initializing"}
  BY LeftStays DEF RoundInv, Round, TypeOK
<1>e. imports # 0 => imports \in Imports
  BY DEF TypeOK, Imports
<1> USE DEF OwnersShare, UsersShare, ReadersShare, Reading
<1>1. ASSUME NEW artworks, NEW again, NEW batch, artworks # {}, main = "free",
             imports < MaxImports,
             InitializeImport(artworks, again, batch),
             UNCHANGED <<reader, posted>>, artworks \subseteq added'
      PROVE  Round'
  <2>1. /\ m_OpCount' = 1 /\ m_StatusReported' = 0 /\ emitted' = <<>> /\ lastEnded' = lastEnded
        /\ imports' = imports + 1 /\ main' = "opened" /\ user' = "none" /\ reader' = reader
        /\ posted' = posted
    BY <1>1 DEF InitializeImport, Reset
  <2>2. imports' \in Imports /\ reader[imports'].pc = "none" /\ ~(imports + 1 <= imports)
    BY <1>0, <1>1, <2>1 DEF ReadersInv, Imports
  <2>3. /\ lastEnded = {} /\ posted = 0
        /\ \A i \in Imports : reader[i].pc # "running"
    <3>1. CASE imports = 0
      BY <1>0, <3>1 DEF CountInv, MainInv, ReadersInv, Imports
    <3>2. CASE imports # 0
      <4>1. emitted # <<>> /\ m_OpCount = 0 /\ user = "ended"
        BY <1>0, <1>1, <3>2 DEF CountInv, MainInv
      <4>2. reader[imports].pc # "running" /\ lastEnded = {} /\ posted = 0
        BY <1>0, <1>1, <3>2, <4>1 DEF CountInv, MainInv
      <4> QED
        BY <1>0, <4>2 DEF ReadersInv
    <3> QED
      BY <3>1, <3>2
  <2>4. ReadersInv'
    <3>1. \A i \in Imports : reader[i].pc # "none" => i <= imports + 1
      BY <1>0 DEF ReadersInv, Imports
    <3> QED
      BY <2>1, <2>3, <3>1 DEF ReadersInv
  <2>5. CountInv'
    BY <1>0, <2>1, <2>2, <2>3 DEF CountInv
  <2>6. MainInv'
    BY <1>0, <1>1, <2>1, <2>2, <2>3 DEF MainInv
  <2> QED
    BY <2>4, <2>5, <2>6 DEF Round
<1>2. CASE AwaitClick
  <2>1. /\ main = "opened" /\ main' = "announced" /\ user' = "running"
        /\ m_OpCount' = m_OpCount + 1
        /\ UNCHANGED <<m_StatusReported, lastEnded, emitted, imports, reader, posted, added,
                       m_ArtworksToRead>>
    BY <1>2 DEF AwaitClick, AboutToBegin, readerVars, artworkVars
  <2>2. imports # 0 /\ user = "none" /\ lastEnded = {} /\ emitted = <<>>
    BY <1>0, <2>1 DEF MainInv, CountInv
  <2> QED
    BY <1>0, <2>1, <2>2 DEF Round, ReadersInv, CountInv, MainInv
<1>3. CASE StartReader
  <2>1. /\ main = "announced" /\ main' = "reading"
        /\ m_OpCount' = m_OpCount + 1
        /\ reader' = [reader EXCEPT ![imports] = [pc |-> "running", left |-> m_ArtworksToRead]]
        /\ UNCHANGED <<m_StatusReported, lastEnded, emitted, imports, posted, added, user,
                       m_ArtworksToRead>>
    BY <1>3 DEF StartReader, AboutToBegin, artworkVars
  <2>2. imports # 0 /\ lastEnded = {} /\ emitted = <<>> /\ reader[imports].pc = "none"
    BY <1>0, <2>1 DEF MainInv, CountInv
  <2>3. /\ reader'[imports].pc = "running" /\ imports \in Imports
        /\ \A i \in Imports \ {imports} : reader'[i] = reader[i]
    BY <1>0, <1>e, <2>1, <2>2
  <2>4. ReadersInv'
    BY <1>0, <2>1, <2>3 DEF ReadersInv
  <2>5. CountInv' /\ MainInv'
    BY <1>0, <2>1, <2>2, <2>3 DEF CountInv, MainInv
  <2> QED
    BY <2>4, <2>5 DEF Round
<1>4. CASE StartAccepting
  <2>1. /\ main = "reading" /\ main' = "asking"
        /\ m_OpCount' = m_OpCount - 1
        /\ lastEnded' = IF m_OpCount = 1 THEN lastEnded \cup {Main} ELSE lastEnded
        /\ UNCHANGED <<m_StatusReported, emitted, imports, posted, added, user, reader,
                       m_ArtworksToRead>>
    BY <1>4 DEF StartAccepting, AllBegun, CountDown, readerVars, artworkVars
  <2>2. imports # 0 /\ user = "running" /\ m_OpCount >= 2 /\ lastEnded = {} /\ emitted = <<>>
    BY <1>0, <2>1 DEF MainInv, CountInv
  <2> QED
    BY <1>0, <2>1, <2>2 DEF Round, ReadersInv, CountInv, MainInv
<1>5. ASSUME NEW choice, Answer(choice) PROVE Round'
  <2>1. /\ main = "asking" /\ main' = "waiting" /\ user' = "ended"
        /\ m_OpCount' = m_OpCount - 1
        /\ lastEnded' = IF m_OpCount = 1 THEN lastEnded \cup {User} ELSE lastEnded
        /\ UNCHANGED <<m_StatusReported, emitted, imports, posted, added, reader,
                       m_ArtworksToRead>>
    BY <1>5 DEF Answer, JustEnded, CountDown
  <2>2. imports # 0 /\ user = "running" /\ lastEnded = {} /\ emitted = <<>>
    BY <1>0, <2>1 DEF MainInv, CountInv
  <2> QED
    BY <1>0, <2>1, <2>2 DEF Round, ReadersInv, CountInv, MainInv
<1>6. ASSUME NEW p, ReportAllDone(p)
      PROVE  /\ main = "waiting" /\ imports # 0 /\ m_OpCount = 0 /\ posted = 0
             /\ m_StatusReported = 0 /\ emitted' # <<>> /\ m_StatusReported' = 1
             /\ lastEnded' = {} /\ m_OpCount' = 0 /\ user = "ended"
  <2>1. lastEnded = {p} /\ m_OpCount = 0 /\ emitted = <<>> /\ m_StatusReported = 0
    BY <1>0, <1>6 DEF ReportAllDone, CountInv
  <2>2. imports # 0 /\ main = "waiting" /\ posted = 0 /\ user = "ended"
    BY <1>0, <2>1 DEF CountInv, MainInv
  <2> QED
    BY <1>0, <1>6, <2>1, <2>2 DEF ReportAllDone, ReportStatus
<1>7. ASSUME NEW p, MainReports(p) PROVE Round'
  <2>1. ReportAllDone(p)
    BY <1>7 DEF MainReports
  <2>2. /\ main' = "initializing"
        /\ UNCHANGED <<imports, posted, added, reader, user, m_ArtworksToRead>>
    BY <1>6, <1>7, <2>1 DEF MainReports, readerVars, artworkVars
  <2> QED
    BY <1>0, <1>6, <2>1, <2>2 DEF Round, ReadersInv, CountInv, MainInv
<1>8. ASSUME NEW p, FinishCall(p) PROVE Round'
  <2>1. ReportAllDone(p)
    BY <1>8 DEF FinishCall
  <2>2. /\ posted' = 1
        /\ UNCHANGED <<imports, main, added, reader, user, m_ArtworksToRead>>
    BY <1>6, <1>8, <2>1 DEF FinishCall, ReportAllDone, readerVars, artworkVars, hubVars
  <2> QED
    BY <1>0, <1>6, <2>1, <2>2 DEF Round, ReadersInv, CountInv, MainInv
<1>9. CASE OnCanInitialize
  <2>1. /\ main' = "free" /\ m_ArtworksToRead' = {}
        /\ UNCHANGED <<coordinatorVars, imports, added, reader, user>>
        /\ \/ main = "initializing" /\ posted' = posted
           \/ posted > 0 /\ posted' = posted - 1
    BY <1>9 DEF OnCanInitialize
  <2>2. imports # 0 /\ emitted # <<>> /\ posted' = 0 /\ main \in {"waiting", "initializing"}
    BY <1>0, <2>1 DEF MainInv
  <2> QED
    BY <1>0, <2>1, <2>2 DEF Round, ReadersInv, CountInv, MainInv, coordinatorVars
<1>10. ASSUME NEW i \in Imports, EndReading(i) PROVE Round'
  <2>1. /\ reader[i].pc = "running"
        /\ reader' = [reader EXCEPT ![i] = [pc |-> "ended", left |-> {}]]
        /\ m_OpCount' = m_OpCount - 1
        /\ lastEnded' = IF m_OpCount = 1 THEN lastEnded \cup {i} ELSE lastEnded
        /\ UNCHANGED <<m_StatusReported, emitted, imports, posted, added, user, main,
                       m_ArtworksToRead>>
    BY <1>10 DEF EndReading, JustEnded, CountDown, hubVars, artworkVars
  <2>2. i = imports /\ imports # 0
    <3>1. i = imports
      BY <1>0, <2>1 DEF ReadersInv
    <3>2. i # 0
      BY DEF Imports
    <3> QED
      BY <3>1, <3>2
  <2>3. lastEnded = {} /\ emitted = <<>>
    BY <1>0, <2>1, <2>2 DEF CountInv
  <2>4. reader'[imports].pc = "ended" /\ \A j \in Imports \ {imports} : reader'[j] = reader[j]
    BY <1>0, <2>1, <2>2
  <2>5. ReadersInv'
    BY <1>0, <2>1, <2>2, <2>4 DEF ReadersInv
  <2>6. CountInv' /\ MainInv'
    BY <1>0, <2>1, <2>2, <2>3, <2>4 DEF CountInv, MainInv
  <2> QED
    BY <2>5, <2>6 DEF Round
<1>11. ASSUME NEW i \in Imports, NEW a, Push(i, a) PROVE Round'
  <2>1. UNCHANGED <<coordinatorVars, imports, main, user, added, m_ArtworksToRead, posted>>
    BY <1>11 DEF Push, hubVars, artworkVars
  <2>2. /\ \A j \in Imports : reader'[j].pc = reader[j].pc
    BY <1>0, <1>11 DEF Push
  <2>3. imports # 0 => reader'[imports].pc = reader[imports].pc
    BY <1>e, <2>2
  <2>4. ReadersInv'
    BY <1>0, <2>1, <2>2 DEF ReadersInv
  <2>5. CountInv' /\ MainInv'
    BY <1>0, <2>1, <2>3 DEF CountInv, MainInv, coordinatorVars
  <2> QED
    BY <2>4, <2>5 DEF Round
<1>12. CASE Escape
  <2>1. main = "asking" /\ asked' = [a \in Artworks |-> Escaped]
    BY <1>12 DEF Escape
  <2>2. imports # 0 /\ added # {} /\ added \subseteq Artworks
    BY <1>0, <2>1 DEF MainInv, TypeOK
  <2> QED
    BY <2>1, <2>2 DEF NoneLeft, Left
<1>13. CASE WorkerStep \/ ImportFromStorage \/ UNCHANGED vars \/ \E a \in Artworks : Edit(a)
  <2>1. UNCHANGED <<coordinatorVars, imports, main, user, reader, added, m_ArtworksToRead, posted>>
    BY <1>13 DEF WorkerStep, TakeJob, ProcessSeparator, ProcessRead, ProcessAdd,
                 ImportFromStorage, Edit, vars, hubVars, readerVars, artworkVars, coordinatorVars
  <2> QED
    BY <1>0, <2>1, RoundStays
<1>14. ASSUME NEW artworks \in (SUBSET (Artworks \ added)) \ {{}}, AddFiles(artworks)
       PROVE  Round'
  <2> HIDE DEF OwnersShare, UsersShare, ReadersShare, Reading
  <2>1. artworks # {} /\ artworks \subseteq added'
    BY <1>14 DEF AddFiles
  <2>2. /\ main = "free" /\ imports < MaxImports
        /\ InitializeImport(artworks, FALSE, imports + 1)
        /\ UNCHANGED <<reader, posted>>
    BY <1>14, NotOvertaking, Zenon DEF AddFiles, readerVars
  <2> QED
    BY <1>1, <2>1, <2>2, Zenon
<1>15. ASSUME NEW artworks \in (SUBSET added) \ {{}}, Reimport(artworks)
       PROVE  Round'
  <2> HIDE DEF OwnersShare, UsersShare, ReadersShare, Reading
  <2>1. artworks # {} /\ artworks \subseteq added'
    BY <1>15 DEF Reimport
  <2>2. /\ main = "free" /\ imports < MaxImports
        /\ InitializeImport(artworks, TRUE, INVALID_BATCH_ID)
        /\ UNCHANGED <<reader, posted>>
    BY <1>15, NotOvertaking, Zenon DEF Reimport, readerVars
  <2> QED
    BY <1>1, <2>1, <2>2, Zenon
<1> QED
  BY <1>2, <1>3, <1>4, <1>5, <1>7, <1>8, <1>9, <1>10, <1>11, <1>12, <1>13, <1>14, <1>15
     DEF Next, MainStep

-----------------------------------------------------------------------------
(* The protocol of the coordinator. *)

\* Where the main thread, the user and the reading thread are in a round.
RoundOwner == IF imports = 0 \/ main \in {"opened", "announced", "reading"} THEN "open"
              ELSE IF main = "free" THEN "idle" ELSE "closed"
RoundOperation == [o \in {User} \cup Imports |->
                     IF o = User THEN user ELSE IF o = imports THEN reader[o].pc ELSE "none"]
RoundCount == IF imports = 0 THEN 1 ELSE imports

LEMMA RoundStutters ==
    ASSUME UNCHANGED <<coordinatorVars, RoundOwner, RoundOperation, RoundCount>>
    PROVE  UNCHANGED Rounds!vars
BY DEF Rounds!vars, coordinatorVars, RoundOwner, RoundOperation, RoundCount

LEMMA InitIsRound == Init => Rounds!Init
<1> SUFFICES ASSUME Init PROVE Rounds!Init
  OBVIOUS
<1>1. imports = 0 /\ main = "free" /\ user = "none"
  BY DEF Init
<1>2. RoundOwner = "open" /\ RoundCount = 1
  BY <1>1 DEF RoundOwner, RoundCount
<1>3. RoundOperation = [o \in {User} \cup Imports |-> "none"]
  <2>1. 0 \notin Imports
    BY DEF Imports
  <2> QED
    BY <1>1, <2>1 DEF RoundOperation
<1>4. Rounds!CoordinatorInit
  BY Zenon DEF Init, CoordinatorInit, Rounds!CoordinatorInit
<1> QED
  BY <1>2, <1>3, <1>4 DEF Rounds!Init, RoundOwner, RoundOperation, RoundCount

LEMMA NextRound ==
    ASSUME TypeOK, RoundInv, [Next]_vars, NoneLeft'
    PROVE  Rounds!Next \/ UNCHANGED Rounds!vars
<1> USE ImportAssumption
<1>0. /\ ReadersInv /\ CountInv /\ MainInv
      /\ imports \in 0..MaxImports /\ MaxImports \in Nat
      /\ reader \in [Imports -> [pc : {"none", "running", "ended"}, left : SUBSET added]]
      /\ main \in {"free", "opened", "announced", "reading", "asking", "waiting",
                   "initializing"}
  BY LeftStays DEF RoundInv, Round, TypeOK
<1>e. imports # 0 => imports \in Imports
  BY <1>0 DEF Imports
<1>1. ASSUME NEW artworks, NEW again, NEW batch, main = "free", imports < MaxImports,
             InitializeImport(artworks, again, batch), UNCHANGED <<reader, posted>>
      PROVE  Rounds!Next \/ UNCHANGED Rounds!vars
  <2>1. /\ Reset /\ imports' = imports + 1 /\ main' = "opened" /\ user' = "none"
        /\ reader' = reader
    BY <1>1 DEF InitializeImport
  <2>2. imports' \in Imports /\ reader[imports'].pc = "none"
    <3>1. imports + 1 \in Imports /\ ~(imports + 1 <= imports)
      BY <1>0, <1>1 DEF Imports
    <3> QED
      BY <1>0, <2>1, <3>1 DEF ReadersInv
  <2>3. RoundOperation' = [o \in {User} \cup Imports |-> "none"]
    BY <2>1, <2>2 DEF RoundOperation
  <2>4. RoundOwner' = "open" /\ RoundCount' = imports + 1
    BY <1>0, <2>1 DEF RoundOwner, RoundCount
  <2>5. CASE imports = 0
    <3>1. /\ user = "none" /\ m_OpCount = 1 /\ emitted = <<>> /\ m_StatusReported = 0
      BY <1>0, <2>5
         DEF CountInv, MainInv, OwnersShare, UsersShare, ReadersShare, Reading
    <3>2. UNCHANGED coordinatorVars
      BY <2>1, <3>1 DEF Reset, coordinatorVars
    <3>3. RoundOwner = "open" /\ RoundCount = 1
      BY <2>5 DEF RoundOwner, RoundCount
    <3>4. RoundOperation = [o \in {User} \cup Imports |-> "none"]
      <4>1. 0 \notin Imports
        BY DEF Imports
      <4> QED
        BY <2>5, <3>1, <4>1 DEF RoundOperation
    <3>5. RoundCount' = RoundCount
      BY <2>4, <2>5, <3>3
    <3> QED
      BY <2>3, <2>4, <3>2, <3>3, <3>4, <3>5, RoundStutters
  <2>6. CASE imports # 0
    <3>1. RoundOwner = "idle" /\ RoundCount = imports
      BY <1>1, <2>6 DEF RoundOwner, RoundCount
    <3>2. Rounds!OpenRound
      BY <1>1, <2>1, <2>3, <2>4, <3>1
         DEF Rounds!OpenRound, Rounds!Reset, Reset, RoundOwner, RoundOperation, RoundCount
    <3> QED
      BY <3>2 DEF Rounds!Next
  <2> QED
    BY <2>5, <2>6
<1>2. CASE AwaitClick
  <2>1. /\ main = "opened" /\ main' = "announced" /\ user' = "running" /\ AboutToBegin
        /\ UNCHANGED <<imports, reader>>
    BY <1>2 DEF AwaitClick, readerVars
  <2>2. imports # 0 /\ user = "none"
    BY <1>0, <2>1 DEF MainInv
  <2>3. RoundOwner = "open" /\ RoundOwner' = "open" /\ RoundCount' = RoundCount
    BY <2>1 DEF RoundOwner, RoundCount
  <2>4. /\ RoundOperation[User] = "none"
        /\ RoundOperation' = [RoundOperation EXCEPT ![User] = "running"]
    BY <2>1, <2>2 DEF RoundOperation
  <2>5. Rounds!BeginOperation(User)
    BY <2>1, <2>3, <2>4
       DEF Rounds!BeginOperation, Rounds!AboutToBegin, AboutToBegin, RoundOwner,
           RoundOperation, RoundCount
  <2> QED
    BY <2>5 DEF Rounds!Next
<1>3. CASE StartReader
  <2>1. /\ main = "announced" /\ main' = "reading" /\ AboutToBegin
        /\ reader' = [reader EXCEPT ![imports] = [pc |-> "running", left |-> m_ArtworksToRead]]
        /\ UNCHANGED <<imports, user>>
    BY <1>3 DEF StartReader
  <2>2. imports \in Imports /\ imports # User /\ reader[imports].pc = "none"
    BY <1>0, <1>e, <2>1 DEF MainInv
  <2>3. RoundOwner = "open" /\ RoundOwner' = "open" /\ RoundCount' = RoundCount
    BY <2>1 DEF RoundOwner, RoundCount
  <2>4. PICK i \in Imports : i = imports
    BY <2>2
  <2>5. /\ RoundOperation[i] = "none"
        /\ RoundOperation' = [RoundOperation EXCEPT ![i] = "running"]
    <3>1. reader'[i].pc = "running"
      BY <1>0, <2>1, <2>4
    <3> QED
      BY <2>1, <2>2, <2>4, <3>1 DEF RoundOperation
  <2>6. Rounds!BeginOperation(i)
    BY <2>1, <2>3, <2>5
       DEF Rounds!BeginOperation, Rounds!AboutToBegin, AboutToBegin, RoundOwner,
           RoundOperation, RoundCount
  <2> QED
    BY <2>6 DEF Rounds!Next
<1>4. CASE StartAccepting
  <2>1. /\ main = "reading" /\ main' = "asking" /\ AllBegun(Main, FALSE)
        /\ UNCHANGED <<imports, user, reader>>
    BY <1>4 DEF StartAccepting, readerVars
  <2>2. imports # 0
    BY <1>0, <2>1 DEF MainInv
  <2>3. /\ RoundOwner = "open" /\ RoundOwner' = "closed" /\ RoundCount' = RoundCount
        /\ RoundOperation' = RoundOperation
    BY <2>1, <2>2 DEF RoundOwner, RoundCount, RoundOperation
  <2>4. Rounds!CloseRound
    BY <2>1, <2>3
       DEF Rounds!CloseRound, Rounds!AllBegun, Rounds!CountDown, AllBegun, CountDown,
           RoundOwner, RoundOperation, RoundCount
  <2> QED
    BY <2>4 DEF Rounds!Next
<1>5. ASSUME NEW choice, Answer(choice) PROVE Rounds!Next \/ UNCHANGED Rounds!vars
  <2>1. /\ main = "asking" /\ main' = "waiting" /\ user' = "ended" /\ JustEnded(User)
        /\ UNCHANGED <<imports, reader>>
    BY <1>5 DEF Answer
  <2>2. imports # 0 /\ user = "running"
    BY <1>0, <2>1 DEF MainInv
  <2>3. RoundOwner' = RoundOwner /\ RoundCount' = RoundCount
    BY <2>1 DEF RoundOwner, RoundCount
  <2>4. /\ RoundOperation[User] = "running"
        /\ RoundOperation' = [RoundOperation EXCEPT ![User] = "ended"]
    BY <2>1, <2>2 DEF RoundOperation
  <2>5. Rounds!EndOperation(User)
    BY <2>1, <2>3, <2>4
       DEF Rounds!EndOperation, Rounds!JustEnded, Rounds!CountDown, JustEnded, CountDown,
           RoundOwner, RoundOperation, RoundCount
  <2> QED
    BY <2>5 DEF Rounds!Next
<1>6. ASSUME NEW i \in Imports, EndReading(i) PROVE Rounds!Next \/ UNCHANGED Rounds!vars
  <2>1. /\ reader[i].pc = "running" /\ JustEnded(i)
        /\ reader' = [reader EXCEPT ![i] = [pc |-> "ended", left |-> {}]]
        /\ UNCHANGED <<imports, user, main>>
    BY <1>6 DEF EndReading, hubVars
  <2>2. i = imports /\ i # User
    BY <1>0, <2>1 DEF ReadersInv
  <2>3. RoundOwner' = RoundOwner /\ RoundCount' = RoundCount
    BY <2>1 DEF RoundOwner, RoundCount
  <2>4. /\ RoundOperation[i] = "running"
        /\ RoundOperation' = [RoundOperation EXCEPT ![i] = "ended"]
    <3>1. reader'[i].pc = "ended"
      BY <1>0, <2>1
    <3> QED
      BY <2>1, <2>2, <3>1 DEF RoundOperation
  <2>5. Rounds!EndOperation(i)
    BY <2>1, <2>3, <2>4
       DEF Rounds!EndOperation, Rounds!JustEnded, Rounds!CountDown, JustEnded, CountDown,
           RoundOwner, RoundOperation, RoundCount
  <2> QED
    BY <2>5 DEF Rounds!Next
<1>7. ASSUME NEW p \in {User, Main} \cup Imports, ReportAllDone(p),
             UNCHANGED <<imports, user, reader>>,
             main' = main \/ (main = "waiting" /\ main' = "initializing")
      PROVE  Rounds!Next \/ UNCHANGED Rounds!vars
  <2>1. RoundOwner' = RoundOwner /\ RoundCount' = RoundCount /\ RoundOperation' = RoundOperation
    BY <1>7 DEF RoundOwner, RoundCount, RoundOperation
  <2>2. Rounds!FinishCall(p)
    BY <1>7, <2>1
       DEF Rounds!FinishCall, Rounds!ReportAllDone, Rounds!ReportStatus, ReportAllDone,
           ReportStatus, Rounds!roundVars, RoundOwner, RoundOperation, RoundCount
  <2> QED
    BY <2>2 DEF Rounds!Next
<1>8. ASSUME NEW p \in {Main, User}, MainReports(p)
      PROVE  Rounds!Next \/ UNCHANGED Rounds!vars
  <2>1. ReportAllDone(p) /\ UNCHANGED <<imports, user, reader>>
    BY <1>8 DEF MainReports, readerVars
  <2>2. main = "waiting"
    BY <1>0, <2>1 DEF ReportAllDone, CountInv, MainInv, OwnersShare, UsersShare, ReadersShare,
                      Reading
  <2>3. main' = main \/ (main = "waiting" /\ main' = "initializing")
    BY <1>8, <2>2 DEF MainReports
  <2> QED
    BY <1>7, <2>1, <2>3
<1>9. ASSUME NEW p \in Imports, FinishCall(p)
      PROVE  Rounds!Next \/ UNCHANGED Rounds!vars
  <2>1. ReportAllDone(p) /\ UNCHANGED <<imports, user, reader, main>>
    BY <1>9 DEF FinishCall, hubVars, readerVars
  <2> QED
    BY <1>7, <2>1
<1>10. CASE OnCanInitialize
  <2>1. /\ main' = "free" /\ UNCHANGED <<coordinatorVars, imports, reader, user>>
        /\ main = "initializing" \/ posted > 0
    BY <1>10 DEF OnCanInitialize
  <2>2. imports # 0 /\ emitted # <<>> /\ main \in {"waiting", "initializing"}
    BY <1>0, <2>1 DEF MainInv
  <2>3. Main \notin lastEnded
    BY <1>0, <2>2 DEF CountInv
  <2>4. /\ RoundOwner = "closed" /\ RoundOwner' = "idle" /\ RoundCount' = RoundCount
        /\ RoundOperation' = RoundOperation
    BY <2>1, <2>2 DEF RoundOwner, RoundCount, RoundOperation
  <2>5. Rounds!HandleReport
    BY <2>1, <2>2, <2>3, <2>4
       DEF Rounds!HandleReport, Rounds!InsideCall, Rounds!coordinatorVars, coordinatorVars,
           RoundOwner, RoundOperation, RoundCount
  <2> QED
    BY <2>5 DEF Rounds!Next
<1>11. CASE Escape
  <2>1. main = "asking" /\ asked' = [a \in Artworks |-> Escaped]
    BY <1>11 DEF Escape
  <2>2. imports # 0 /\ added # {} /\ added \subseteq Artworks
    BY <1>0, <2>1 DEF MainInv, TypeOK
  <2> QED
    BY <2>1, <2>2 DEF NoneLeft, Left
<1>12. ASSUME NEW i \in Imports, NEW a, Push(i, a) PROVE UNCHANGED Rounds!vars
  <2>1. UNCHANGED <<coordinatorVars, imports, main, user>>
    BY <1>12 DEF Push, hubVars
  <2>2. \A j \in Imports : reader'[j].pc = reader[j].pc
    BY <1>0, <1>12 DEF Push
  <2>3. RoundOwner' = RoundOwner /\ RoundCount' = RoundCount
    BY <2>1 DEF RoundOwner, RoundCount
  <2>4. RoundOperation' = RoundOperation
    BY <1>e, <2>1, <2>2 DEF RoundOperation
  <2> QED
    BY <2>1, <2>3, <2>4, RoundStutters
<1>13. CASE WorkerStep \/ ImportFromStorage \/ UNCHANGED vars \/ \E a \in Artworks : Edit(a)
  <2>1. UNCHANGED <<coordinatorVars, imports, main, user, reader>>
    BY <1>13 DEF WorkerStep, TakeJob, ProcessSeparator, ProcessRead, ProcessAdd,
                 ImportFromStorage, Edit, vars, hubVars, readerVars, coordinatorVars
  <2>2. UNCHANGED <<RoundOwner, RoundOperation, RoundCount>>
    BY <2>1 DEF RoundOwner, RoundOperation, RoundCount
  <2> QED
    BY <2>1, <2>2, RoundStutters
<1>14. CASE \/ \E artworks \in (SUBSET (Artworks \ added)) \ {{}} : AddFiles(artworks)
            \/ \E artworks \in (SUBSET added) \ {{}} : Reimport(artworks)
  <2>1. /\ main = "free" /\ imports < MaxImports /\ UNCHANGED <<reader, posted>>
        /\ \E artworks, again, batch : InitializeImport(artworks, again, batch)
    BY <1>14, NotOvertaking, Zenon DEF AddFiles, Reimport, readerVars
  <2> QED
    BY <1>1, <2>1, Zenon
<1> QED
  BY <1>2, <1>3, <1>4, <1>5, <1>6, <1>8, <1>9, <1>10, <1>11, <1>12, <1>13, <1>14
     DEF Next, MainStep

\* Until a dialog is escaped or an import takes the hub over from a closed one,
\* imports follow the protocol of the coordinator whatever they race with, closing
\* a dialog before exiftool has ended included, so what AsyncCoordinatorProofs
\* proves of rounds holds of them: one end each, after the click and the reading.
THEOREM ImportsAreRounds == Spec => FollowsRounds
<1>1. TypeOK /\ RoundInv /\ [Next]_vars
        => [NoneLeft' => Rounds!Next \/ UNCHANGED Rounds!vars]_vars
  BY NextRound
<1> QED
  BY <1>1, InitTypes, TypesHold, InitRound, RoundHolds, InitIsRound, PTL
     DEF Spec, FollowsRounds

-----------------------------------------------------------------------------
(* Backups that are to be ignored. *)

Ignored(a) == asked[a] \in Answers /\ "ignore" \in asked[a]
Clean(a) == content[a].keywords \cap BackupKeywords = {}

\* The readings of an import: those of its batch, and of its artworks.  A reimport
\* asks for none, and marks its artworks.
BatchInv ==
    /\ reimport => /\ m_StorageReadBatchID = 0
                   /\ \A a \in m_ArtworksToRead : "ReimportPending" \in flags[a]
    /\ ~reimport => \A a \in m_ArtworksToRead :
                      \A b : BeingRead(a, b) => b = m_StorageReadBatchID
    /\ main # "free" /\ ~reimport =>
          \A a : BeingRead(a, m_StorageReadBatchID) => a \in m_ArtworksToRead

\* Who answered for an artwork: nobody before its import is answered, then the
\* hub has that answer.
AnswersInv ==
    /\ \A a \in Artworks \ added : ~Ignored(a)
    /\ ~reimport /\ main \in {"opened", "announced", "reading", "asking"} =>
          \A a \in m_ArtworksToRead : ~Ignored(a)
    /\ main \in {"waiting", "initializing"} =>
          \A a \in m_ArtworksToRead : Ignored(a) <=> m_IgnoreBackupsAtImport

\* An artwork whose backups are ignored shows none, and none is on its way: what
\* is still being read is cancelled, or the artwork awaits a reimport.
CleanInv ==
    \A a \in Artworks \ m_ArtworksToRead : Ignored(a) =>
        /\ Clean(a)
        /\ \/ "ReimportPending" \in flags[a]
           \/ \A b : BeingRead(a, b) => b \in m_CancelledImports

Ignoring == BatchInv /\ AnswersInv /\ CleanInv
IgnoreInv == NoneLeft => Ignoring

\* Once a dialog was escaped, nothing is asked any more.
AllLeft == NoneLeft \/ \A a \in Artworks : asked[a] \in Left

LEMMA InitIgnore == Init => IgnoreInv /\ AllLeft
<1> SUFFICES ASSUME Init PROVE IgnoreInv /\ AllLeft
  OBVIOUS
<1>1. /\ queue = <<>> /\ busy = NoJob /\ m_StorageReadQueue = {} /\ m_ArtworksToRead = {}
      /\ main = "free" /\ asked = [a \in Artworks |-> NoAnswer]
      /\ m_StorageReadBatchID = 0
  BY DEF Init
<1>2. \A a, b : ~BeingRead(a, b)
  BY <1>1 DEF InWorker, BeingRead, Delivered, Range
<1>3. \A a \in Artworks : ~Ignored(a)
  BY <1>1 DEF Ignored, NoAnswer, Answers
<1>4. NoneLeft
  BY <1>1 DEF NoneLeft, NoAnswer, Left, Escaped, Overtaken
<1> QED
  BY <1>1, <1>2, <1>3, <1>4 DEF IgnoreInv, Ignoring, BatchInv, AnswersInv, CleanInv, AllLeft

LEMMA AllLeftHolds ==
    ASSUME TypeOK, AllLeft, [Next]_vars
    PROVE  AllLeft'
<1>1. CASE \E choice \in Answers : Answer(choice)
  <2>1. PICK choice \in Answers : Answer(choice)
    BY <1>1
  <2>2. \A b \in Artworks : asked'[b] = IF b \in m_ArtworksToRead /\ asked[b] \notin Left
                                       THEN choice ELSE asked[b]
    BY <2>1 DEF Answer
  <2>3. choice \notin Left
    BY DEF Answers, Left, Escaped, Overtaken
  <2> QED
    BY <2>2, <2>3 DEF AllLeft, NoneLeft
<1>2. CASE Escape
  BY <1>2 DEF Escape, AllLeft, Left
<1>3. CASE \/ \E artworks \in (SUBSET (Artworks \ added)) \ {{}} : AddFiles(artworks)
           \/ \E artworks \in (SUBSET added) \ {{}} : Reimport(artworks)
  <2>1. asked' = [a \in Artworks |-> Overtaken] \/ asked' = asked
    BY <1>3, Zenon DEF AddFiles, Reimport, Overtakes
  <2> QED
    BY <2>1 DEF AllLeft, NoneLeft, Left
<1>4. CASE /\ ~Escape /\ ~\E choice \in Answers : Answer(choice)
           /\ ~\E artworks \in (SUBSET (Artworks \ added)) \ {{}} : AddFiles(artworks)
           /\ ~\E artworks \in (SUBSET added) \ {{}} : Reimport(artworks)
  <2>1. asked' = asked
    BY <1>4 DEF Next, MainStep, WorkerStep, AwaitClick, StartReader,
                StartAccepting, MainReports, EndReading, Push, FinishCall, OnCanInitialize,
                Edit, ImportFromStorage, TakeJob, ProcessSeparator, ProcessRead, ProcessAdd,
                artworkVars, vars
  <2> QED
    BY <2>1 DEF AllLeft, NoneLeft
<1> QED
  BY <1>1, <1>2, <1>3, <1>4

\* What the steps of the worker leave alone, and that they start no reading.
LEMMA WorkerReads ==
    ASSUME TypeOK, WorkerStep
    PROVE  /\ UNCHANGED <<coordinatorVars, hubVars, readerVars, posted, artworkVars,
                          m_CancelledImports>>
           /\ \A a, b : BeingRead(a, b)' => BeingRead(a, b)
           /\ \A a, b : BeingRead(a, b) /\ db[a] # NoBackup => BeingRead(a, b)'
<1>1. CASE TakeJob
  BY <1>1, TakeJobJobs DEF TakeJob
<1>2. ASSUME NEW sync, NEW signal, ProcessRead(sync, signal)
      PROVE  /\ UNCHANGED <<coordinatorVars, hubVars, readerVars, posted, artworkVars,
                            m_CancelledImports>>
             /\ \A a, b : BeingRead(a, b)' => BeingRead(a, b)
             /\ \A a, b : BeingRead(a, b) /\ db[a] # NoBackup => BeingRead(a, b)'
  BY <1>2, ProcessReadJobs DEF ProcessRead
<1>3. ASSUME NEW sync, NEW signal, ProcessAdd(sync, signal) \/ ProcessSeparator
      PROVE  /\ UNCHANGED <<coordinatorVars, hubVars, readerVars, posted, artworkVars,
                            m_CancelledImports>>
             /\ \A a, b : BeingRead(a, b)' <=> BeingRead(a, b)
  <2>1. /\ busy # NoJob /\ busy.kind # "Read" /\ busy' = NoJob
        /\ UNCHANGED <<queue, m_StorageReadQueue>>
    BY <1>3 DEF ProcessSeparator, ProcessAdd
  <2> QED
    BY <1>3, <2>1, OtherJobs DEF ProcessSeparator, ProcessAdd
<1> QED
  BY <1>1, <1>2, <1>3 DEF WorkerStep

\* Readings that go on or end, and metadata and flags that stay, keep the ignored
\* backups out.
LEMMA IgnoringStays ==
    ASSUME Ignoring,
           \A a, b : BeingRead(a, b)' => BeingRead(a, b),
           UNCHANGED <<content, flags, asked, added, reimport, m_ArtworksToRead,
                       m_StorageReadBatchID, m_IgnoreBackupsAtImport, m_CancelledImports>>,
           \/ main' = main
           \/ main = "waiting" /\ main' = "initializing"
           \/ /\ main \in {"opened", "announced", "reading", "asking"}
              /\ main' \in {"opened", "announced", "reading", "asking"}
    PROVE  Ignoring'
<1>1. /\ \A a : Ignored(a)' <=> Ignored(a)
      /\ \A a : Clean(a)' <=> Clean(a)
  BY DEF Ignored, Clean
<1>2. BatchInv'
  BY DEF Ignoring, BatchInv
<1>3. AnswersInv'
  BY <1>1 DEF Ignoring, AnswersInv
<1>4. CleanInv'
  BY <1>1 DEF Ignoring, CleanInv
<1> QED
  BY <1>2, <1>3, <1>4 DEF Ignoring

LEMMA IgnoreHolds ==
    ASSUME TypeOK, StorageInv, RoundInv, IgnoreInv, [Next]_vars
    PROVE  IgnoreInv'
<1> SUFFICES ASSUME NoneLeft' PROVE Ignoring'
  BY DEF IgnoreInv
<1> USE ImportAssumption
<1>0. /\ NoneLeft /\ Ignoring /\ BatchInv /\ AnswersInv /\ CleanInv /\ ReadsInv /\ MainInv
      /\ m_ArtworksToRead \subseteq added /\ added \subseteq Artworks
      /\ imports \in Nat
      /\ flags \in [Artworks -> SUBSET Flags]
      /\ main = "free" => m_ArtworksToRead = {}
  <2>1. NoneLeft /\ Round
    BY LeftStays DEF RoundInv
  <2> QED
    BY <2>1 DEF IgnoreInv, Ignoring, StorageInv, Round, MainInv, TypeOK
<1>1. ASSUME NEW artworks \in (SUBSET (Artworks \ added)) \ {{}}, AddFiles(artworks)
      PROVE  Ignoring'
  <2>1. /\ UNCHANGED <<content, flags, asked, m_CancelledImports>>
        /\ main = "free" /\ main' = "opened" /\ reimport' = FALSE
        /\ added' = added \cup artworks
        /\ m_ArtworksToRead' = artworks /\ m_StorageReadBatchID' = imports + 1
    BY <1>1, NotOvertaking DEF AddFiles, InitializeImport
  <2>2. \A a, b : BeingRead(a, b)' <=> BeingRead(a, b) \/ (a \in artworks /\ b = imports + 1)
    BY <1>1, AddFilesJobs
  <2>3. /\ \A a : Ignored(a)' <=> Ignored(a)
        /\ \A a : Clean(a)' <=> Clean(a)
    BY <2>1 DEF Ignored, Clean
  <2>4. BatchInv'
    BY <1>0, <2>1, <2>2 DEF BatchInv, ReadsInv
  <2>5. AnswersInv'
    BY <1>0, <2>1, <2>3 DEF AnswersInv
  <2>6. CleanInv'
    BY <1>0, <2>1, <2>2, <2>3 DEF CleanInv
  <2> QED
    BY <2>4, <2>5, <2>6 DEF Ignoring
<1>2. ASSUME NEW artworks \in (SUBSET added) \ {{}}, Reimport(artworks)
      PROVE  Ignoring'
  <2>1. /\ UNCHANGED <<content, added, asked, m_CancelledImports, queue, busy,
                       m_StorageReadQueue>>
        /\ main = "free" /\ main' = "opened" /\ reimport' = TRUE
        /\ m_ArtworksToRead' = artworks /\ m_StorageReadBatchID' = 0
        /\ flags' = [a \in Artworks |-> IF a \in artworks THEN flags[a] \cup {"ReimportPending"}
                                       ELSE flags[a]]
    BY <1>2, NotOvertaking DEF Reimport, InitializeImport, storageVars, INVALID_BATCH_ID
  <2>2. \A a, b : BeingRead(a, b)' <=> BeingRead(a, b)
    BY <2>1, WorkerStutters
  <2>3. /\ \A a : Ignored(a)' <=> Ignored(a)
        /\ \A a : Clean(a)' <=> Clean(a)
    BY <2>1 DEF Ignored, Clean
  <2>4. BatchInv'
    BY <1>0, <2>1, <2>2 DEF BatchInv
  <2>5. AnswersInv'
    BY <1>0, <2>1, <2>3 DEF AnswersInv
  <2>6. CleanInv'
    BY <1>0, <2>1, <2>2, <2>3 DEF CleanInv
  <2> QED
    BY <2>4, <2>5, <2>6 DEF Ignoring
<1>3. ASSUME NEW choice \in Answers, Answer(choice) PROVE Ignoring'
  <2>1. /\ UNCHANGED <<content, flags, added, reimport, m_ArtworksToRead, m_StorageReadBatchID,
                       m_CancelledImports, queue, busy, m_StorageReadQueue>>
        /\ main = "asking" /\ main' = "waiting"
        /\ \A a \in Artworks : asked'[a] = IF a \in m_ArtworksToRead THEN choice ELSE asked[a]
    BY <1>0, <1>3 DEF Answer, storageVars, NoneLeft
  <2>2. m_IgnoreBackupsAtImport' <=> "ignore" \in choice
    BY <1>3, Zenon DEF Answer
  <2>3. \A a, b : BeingRead(a, b)' <=> BeingRead(a, b)
    BY <2>1, WorkerStutters
  <2>4. /\ \A a \in Artworks \ m_ArtworksToRead : Ignored(a)' <=> Ignored(a)
        /\ \A a \in m_ArtworksToRead : Ignored(a)' <=> "ignore" \in choice
        /\ \A a : Clean(a)' <=> Clean(a)
    BY <1>0, <2>1 DEF Ignored, Clean
  <2>5. BatchInv'
    BY <1>0, <2>1, <2>3 DEF BatchInv
  <2>6. AnswersInv'
    BY <1>0, <2>1, <2>2, <2>4 DEF AnswersInv
  <2>7. CleanInv'
    BY <1>0, <2>1, <2>3, <2>4 DEF CleanInv
  <2> QED
    BY <2>5, <2>6, <2>7 DEF Ignoring
<1>4. CASE OnCanInitialize
  <2>1. /\ UNCHANGED <<added, asked, reimport, m_StorageReadBatchID>>
        /\ main' = "free" /\ m_ArtworksToRead' = {}
        /\ main \in {"waiting", "initializing"}
    <3>1. posted > 0 => main = "waiting"
      BY <1>0 DEF MainInv
    <3> QED
      BY <1>4, <3>1 DEF OnCanInitialize
  <2>2. /\ m_CancelledImports \subseteq m_CancelledImports'
        /\ m_IgnoreBackupsAtImport => m_StorageReadBatchID \in m_CancelledImports'
    BY <1>4 DEF OnCanInitialize, CancelledWith
  <2>3. \A a, b : BeingRead(a, b)' => BeingRead(a, b)
    BY <1>4, EndOfImportJobs
  <2>4. /\ \A a \in Artworks \ m_ArtworksToRead :
              content'[a] = content[a] /\ flags'[a] = flags[a]
        /\ \A a \in m_ArtworksToRead :
              content'[a] = Initialized(a).content /\ flags'[a] = Initialized(a).flags
    BY <1>4, EndOfImport
  <2>5. \A a : Ignored(a)' <=> Ignored(a)
    BY <2>1 DEF Ignored
  <2>6. \A a \in Artworks \ m_ArtworksToRead : Clean(a)' <=> Clean(a)
    BY <2>4 DEF Clean
  <2>7. ASSUME NEW a \in m_ArtworksToRead, m_IgnoreBackupsAtImport
        PROVE  /\ Clean(a)'
               /\ "ReimportPending" \in flags[a] => "ReimportPending" \in flags'[a]
    <3>1. /\ Typed(a) /\ file[a] \in FileValues /\ file[a] \in Metadata
          /\ m_IgnoreBackupsAtImport \in BOOLEAN
      BY MetadataFacts DEF TypeOK, Typed
    <3> DEFINE new == Initialized(a)
               origin == IF m_IsCancelled THEN Empty ELSE file[a]
    <3>2. /\ new.flags \cap Kept = flags[a] \cap Kept
          /\ a \notin m_ImportQueue => new.content = Empty
          /\ a \in m_ImportQueue => new.content = origin
      BY <2>7, <3>1, InitializedFacts
    <3> HIDE DEF new
    <3>3. new.content \in {Empty, file[a]}
      BY <3>2
    <3>4. /\ Empty.keywords \cap BackupKeywords = {}
          /\ file[a].keywords \cap BackupKeywords = {}
      BY <3>1 DEF Empty, BackupKeywords
    <3>5. content'[a].keywords \cap BackupKeywords = {}
      BY <2>4, <3>3, <3>4 DEF new
    <3>6. Clean(a)'
      BY <3>5 DEF Clean
    <3>7. "ReimportPending" \in flags[a] => "ReimportPending" \in new.flags
      BY <3>2 DEF Kept
    <3> QED
      BY <2>4, <3>6, <3>7 DEF new
  <2>8. BatchInv'
    BY <1>0, <2>1 DEF BatchInv
  <2>9. AnswersInv'
    BY <1>0, <2>1, <2>5 DEF AnswersInv
  <2>10. CleanInv'
    <3>1. ASSUME NEW a \in Artworks \ m_ArtworksToRead, Ignored(a)
          PROVE  /\ Clean(a)'
                 /\ \/ "ReimportPending" \in flags'[a]
                    \/ \A b : BeingRead(a, b)' => b \in m_CancelledImports'
      BY <1>0, <2>2, <2>3, <2>4, <2>6, <3>1 DEF CleanInv
    <3>2. ASSUME NEW a \in m_ArtworksToRead, Ignored(a)
          PROVE  /\ Clean(a)'
                 /\ \/ "ReimportPending" \in flags'[a]
                    \/ \A b : BeingRead(a, b)' => b \in m_CancelledImports'
      <4>1. m_IgnoreBackupsAtImport
        BY <1>0, <2>1, <3>2 DEF AnswersInv
      <4>2. CASE reimport
        BY <1>0, <2>7, <4>1, <4>2 DEF BatchInv
      <4>3. CASE ~reimport
        BY <1>0, <2>2, <2>3, <2>7, <4>1, <4>3 DEF BatchInv
      <4> QED
        BY <4>2, <4>3
    <3> QED
      BY <2>1, <2>5, <3>1, <3>2 DEF CleanInv
  <2> QED
    BY <2>8, <2>9, <2>10 DEF Ignoring
<1>5. ASSUME NEW e \in Artworks, Edit(e) PROVE Ignoring'
  <2>1. /\ UNCHANGED <<added, asked, reimport, m_ArtworksToRead, m_StorageReadBatchID, main,
                       m_IgnoreBackupsAtImport, m_CancelledImports, queue, busy,
                       m_StorageReadQueue>>
        /\ flags' = [flags EXCEPT ![e] = @ \cup {"Modified"}]
        /\ content' = [content EXCEPT ![e].title = "user"]
    BY <1>0, <1>5 DEF Edit, hubVars, storageVars
  <2>2. \A c, b : BeingRead(c, b)' <=> BeingRead(c, b)
    BY <2>1, WorkerStutters
  <2>3. \A c \in Artworks : content'[c].keywords = content[c].keywords
    <3>1. content'[e].keywords = content[e].keywords
      BY <2>1, MetadataFacts DEF TypeOK
    <3>2. \A c \in Artworks \ {e} : content'[c] = content[c]
      BY <2>1 DEF TypeOK
    <3> QED
      BY <3>1, <3>2
  <2>4. \A c \in Artworks : /\ Ignored(c)' <=> Ignored(c)
                            /\ Clean(c)' <=> Clean(c)
    BY <2>1, <2>3 DEF Ignored, Clean
  <2>5. \A c \in Artworks : "ReimportPending" \in flags[c] => "ReimportPending" \in flags'[c]
    BY <1>0, <2>1
  <2>6. BatchInv'
    BY <1>0, <2>1, <2>2, <2>5 DEF BatchInv
  <2>7. UNCHANGED <<added, m_ArtworksToRead, reimport, main, m_IgnoreBackupsAtImport,
                    m_CancelledImports>>
    BY <2>1
  <2>8. AnswersInv'
    BY <1>0, <2>4, <2>7 DEF AnswersInv
  <2>9. CleanInv'
    BY <1>0, <2>2, <2>4, <2>5, <2>7 DEF CleanInv
  <2> QED
    BY <2>6, <2>8, <2>9 DEF Ignoring
<1>6. CASE ImportFromStorage
  <2>1. UNCHANGED <<added, asked, reimport, m_ArtworksToRead, m_StorageReadBatchID, main,
                    m_IgnoreBackupsAtImport, m_CancelledImports>>
    BY <1>6 DEF ImportFromStorage, hubVars
  <2>2. \A a, b : BeingRead(a, b)' => BeingRead(a, b)
    BY <1>6, ImportJobs
  <2>3. ASSUME NEW a \in Artworks, "ReimportPending" \in flags[a]
        PROVE  content'[a] = content[a] /\ flags'[a] = flags[a]
    <3>1. CASE \A r \in Requests : r.artwork # a
      BY <1>6, <3>1, BackupsImported
    <3>2. CASE \E r \in Requests : r.artwork = a
      <4>1. PICK r \in Requests :
              /\ r.artwork = a
              /\ content'[a] = InitFromStorage(a, r.backup).content
              /\ flags'[a] = InitFromStorage(a, r.backup).flags
        BY <1>6, <3>2, BackupsImported
      <4>2. content[a] \in Metadata /\ flags[a] \in SUBSET Flags /\ r.backup \in Metadata
        BY <4>1 DEF TypeOK, Requests
      <4> QED
        BY <2>3, <4>1, <4>2, BackupFacts DEF Has
    <3> QED
      BY <3>1, <3>2
  <2>4. ASSUME NEW a \in Artworks, \A b : BeingRead(a, b) => b \in m_CancelledImports
        PROVE  content'[a] = content[a] /\ flags'[a] = flags[a]
    <3>1. \A r \in Requests : r.artwork # a
      BY <2>4 DEF Requests, BeingRead, Delivered
    <3> QED
      BY <1>6, <3>1, BackupsImported
  <2>5. \A a : Ignored(a)' <=> Ignored(a)
    BY <2>1 DEF Ignored
  <2>6. BatchInv'
    BY <1>0, <2>1, <2>2, <2>3 DEF BatchInv
  <2>7. AnswersInv'
    BY <1>0, <2>1, <2>5 DEF AnswersInv
  <2>8. CleanInv'
    BY <1>0, <2>1, <2>2, <2>3, <2>4, <2>5 DEF CleanInv, Clean
  <2> QED
    BY <2>6, <2>7, <2>8 DEF Ignoring
<1>7. CASE Escape
  <2>1. main = "asking" /\ asked' = [a \in Artworks |-> Escaped]
    BY <1>7 DEF Escape
  <2>2. added # {}
    BY <1>0, <2>1 DEF MainInv
  <2> QED
    BY <1>0, <2>1, <2>2 DEF NoneLeft, Left
<1>8. CASE \/ AwaitClick \/ StartReader \/ StartAccepting
           \/ \E i \in Imports : EndReading(i) \/ \E a \in Artworks : Push(i, a)
           \/ \E p \in {Main, User} : MainReports(p)
           \/ \E p \in Imports : FinishCall(p)
           \/ UNCHANGED vars \/ WorkerStep
  <2>1. UNCHANGED <<content, flags, asked, added, reimport, m_ArtworksToRead,
                    m_StorageReadBatchID, m_IgnoreBackupsAtImport, m_CancelledImports>>
    <3>1. CASE WorkerStep
      BY <3>1, WorkerReads DEF hubVars, artworkVars
    <3>2. CASE ~WorkerStep
      BY <1>8, <3>2 DEF AwaitClick, StartReader, StartAccepting, MainReports, EndReading, Push,
                        FinishCall, vars, hubVars, artworkVars, storageVars
    <3> QED
      BY <3>1, <3>2
  <2>2. \A a, b : BeingRead(a, b)' => BeingRead(a, b)
    <3>1. CASE WorkerStep
      BY <3>1, WorkerReads
    <3>2. CASE ~WorkerStep
      <4>1. UNCHANGED <<queue, busy, m_StorageReadQueue>>
        BY <1>8, <3>2 DEF AwaitClick, StartReader, StartAccepting, MainReports, EndReading,
                          Push, FinishCall, vars, storageVars
      <4> QED
        BY <4>1, WorkerStutters
    <3> QED
      BY <3>1, <3>2
  <2>3. \/ main' = main
        \/ main = "waiting" /\ main' = "initializing"
        \/ /\ main \in {"opened", "announced", "reading", "asking"}
           /\ main' \in {"opened", "announced", "reading", "asking"}
    <3>1. CASE AwaitClick \/ StartReader \/ StartAccepting
      BY <3>1 DEF AwaitClick, StartReader, StartAccepting
    <3>2. CASE \E p \in {Main, User} : MainReports(p)
      <4>1. main = "waiting"
        <5>1. lastEnded # {} /\ CountInv
          BY <1>0, <3>2 DEF MainReports, ReportAllDone, RoundInv, Round
        <5> QED
          BY <1>0, <5>1 DEF CountInv, MainInv, OwnersShare, UsersShare, ReadersShare, TypeOK
      <4> QED
        BY <3>2, <4>1 DEF MainReports
    <3>3. CASE WorkerStep
      BY <3>3, WorkerReads DEF hubVars
    <3>4. CASE ~(\/ WorkerStep \/ AwaitClick \/ StartReader \/ StartAccepting
                \/ \E p \in {Main, User} : MainReports(p))
      BY <1>8, <3>4 DEF EndReading, Push, FinishCall, vars, hubVars
    <3> QED
      BY <3>1, <3>2, <3>3, <3>4
  <2> QED
    BY <1>0, <2>1, <2>2, <2>3, IgnoringStays
<1> QED
  BY <1>1, <1>2, <1>3, <1>4, <1>5, <1>6, <1>7, <1>8 DEF Next, MainStep

\* What the user asked to ignore is cancelled with the batch that asked for it, or
\* refused by an artwork that awaits its reimport.  After a dialog was escaped,
\* or an import overtaken, nothing is asked.
THEOREM IgnoredBackupsStayOut == Spec => []IgnoredStaysOut
<1>1. TypeOK /\ IgnoreInv /\ AllLeft => IgnoredStaysOut
  <2>1. CASE NoneLeft
    BY <2>1 DEF IgnoreInv, Ignoring, CleanInv, Clean, Ignored, IgnoredStaysOut, TypeOK
  <2>2. CASE \A a \in Artworks : asked[a] \in Left
    <3>1. \A left \in Left : left \notin Answers
      BY DEF Left, Escaped, Overtaken, Answers
    <3> QED
      BY <2>2, <3>1 DEF IgnoredStaysOut
  <2> QED
    BY <2>1, <2>2 DEF AllLeft
<1> QED
  BY <1>1, InitTypes, TypesHold, InitStorage, StorageHolds, InitRound, RoundHolds,
     InitIgnore, IgnoreHolds, AllLeftHolds, PTL DEF Spec

-----------------------------------------------------------------------------
(* Titles from the file and from the backup, in either order. *)

Title(a) == content[a].title
Stored(a) == db[a] # NoBackup
Awaited(a) == \E b : BeingRead(a, b)

\* The titles that need no backup: that of the file, or what the user typed.
OwnTitles(a) == {file[a].title} \cup ({Title(a)} \cap {"user"})

\* An artwork whose file is not read yet shows its backup, or the backup is on its
\* way.
BackupFirst(a) ==
    /\ Has(a, "AlmostInitialized") => Stored(a) /\ Title(a) = db[a].title
    /\ Stored(a) /\ ~Has(a, "AlmostInitialized") => Awaited(a)

\* An artwork whose file was read shows the title of the file, merged with that of
\* the backup once this has come; what was stored meanwhile is the artwork's own.
FileRead(a) ==
    /\ Has(a, "AlmostInitialized") =>
          /\ Stored(a)
          /\ Title(a) \in {"user", IF file[a].title # "" THEN file[a].title ELSE db[a].title}
    /\ ~Has(a, "AlmostInitialized") => Title(a) \in {"user", file[a].title}
    /\ Stored(a) /\ ~Has(a, "AlmostInitialized") => Awaited(a) \/ db[a].title \in OwnTitles(a)
    /\ m_AddWal[a] # NoBackup /\ ~Stored(a) => m_AddWal[a].title \in OwnTitles(a)

\* The artworks whose backups count.
Counts(a) == ~Has(a, "ReimportPending") /\ ~Ignored(a)

SourcesInv ==
    /\ \A a \in Artworks : Has(a, "FileSize") => Has(a, "Initialized")
    /\ \A a, b : BeingRead(a, b) /\ b \in m_CancelledImports => Ignored(a)
    /\ \A a \in added : Counts(a) => /\ ~Has(a, "Initialized") => BackupFirst(a)
                                     /\ Has(a, "FileSize") => FileRead(a)

CommuteInv == NoneLeft => SourcesInv

LEMMA InitCommute == Init => CommuteInv
<1> SUFFICES ASSUME Init PROVE SourcesInv
  BY DEF CommuteInv
<1>1. /\ queue = <<>> /\ busy = NoJob /\ m_StorageReadQueue = {} /\ added = {}
      /\ flags = [a \in Artworks |-> {}]
  BY DEF Init
<1>2. \A a, b : ~BeingRead(a, b)
  BY <1>1 DEF InWorker, BeingRead, Delivered, Range
<1> QED
  BY <1>1, <1>2 DEF SourcesInv, Has

\* An artwork that stays as it is, with its backups, while its readings go on.
LEMMA SourceStays ==
    ASSUME NEW a, content'[a] = content[a], flags'[a] = flags[a], file' = file,
           db'[a] = db[a], m_AddWal'[a] = m_AddWal[a], Awaited(a) => Awaited(a)'
    PROVE  /\ BackupFirst(a) => BackupFirst(a)'
           /\ FileRead(a) => FileRead(a)'
BY DEF BackupFirst, FileRead, Has, Title, Stored, OwnTitles

\* The steps that leave artworks and backups alone and end no reading.
LEMMA SourcesStay ==
    ASSUME SourcesInv,
           \A a, b : BeingRead(a, b)' <=> BeingRead(a, b),
           UNCHANGED <<content, flags, file, added, m_AddWal, db, m_CancelledImports>>,
           \A a \in added : Ignored(a) => Ignored(a)',
           \A a, b : BeingRead(a, b) => a \in added
    PROVE  SourcesInv'
<1>1. \A a : /\ BackupFirst(a) => BackupFirst(a)'
             /\ FileRead(a) => FileRead(a)'
  <2> SUFFICES ASSUME NEW a PROVE /\ BackupFirst(a) => BackupFirst(a)'
                                  /\ FileRead(a) => FileRead(a)'
    OBVIOUS
  <2>1. Awaited(a) => Awaited(a)'
    BY DEF Awaited
  <2> QED
    BY <2>1, SourceStays
<1>2. \A a, flag : Has(a, flag)' <=> Has(a, flag)
  BY DEF Has
<1> QED
  BY <1>1, <1>2 DEF SourcesInv, Counts

\* The end of an import: the file is merged into the backup that came before it,
\* and only readings of artworks to be ignored are cancelled.
LEMMA EndOfImportSources ==
    ASSUME TypeOK, ReadsInv, ArtworksInv, Ignoring, SourcesInv, OnCanInitialize,
           main \in {"waiting", "initializing"}
    PROVE  SourcesInv'
<1>0. /\ BatchInv /\ AnswersInv /\ m_ArtworksToRead \subseteq added /\ added \subseteq Artworks
      /\ content \in [Artworks -> Metadata] /\ flags \in [Artworks -> SUBSET Flags]
  BY DEF Ignoring, TypeOK
<1>1. /\ UNCHANGED <<file, added, asked, m_AddWal, db, reimport>>
      /\ m_CancelledImports' = m_CancelledImports \cup
            (IF m_IgnoreBackupsAtImport THEN {m_StorageReadBatchID} ELSE {})
  BY DEF OnCanInitialize, CancelledWith
<1>2. /\ \A a, b : BeingRead(a, b)' => BeingRead(a, b)
      /\ \A a, b : \/ ~BeingRead(a, b) \/ BeingRead(a, b)'
                   \/ (m_IgnoreBackupsAtImport /\ b = m_StorageReadBatchID)
  BY EndOfImportJobs
<1>3. /\ \A a \in Artworks \ m_ArtworksToRead :
            content'[a] = content[a] /\ flags'[a] = flags[a]
      /\ \A a \in m_ArtworksToRead :
            content'[a] = Initialized(a).content /\ flags'[a] = Initialized(a).flags
  BY EndOfImport
<1>4. \A a : Ignored(a)' <=> Ignored(a)
  BY <1>1 DEF Ignored
<1>5. ASSUME NEW a, m_IgnoreBackupsAtImport, BeingRead(a, m_StorageReadBatchID)
      PROVE  a \in m_ArtworksToRead /\ Ignored(a)
  <2>1. ~reimport
    BY <1>0, <1>5, ImportAssumption DEF BatchInv, ReadsInv, TypeOK
  <2>2. a \in m_ArtworksToRead
    BY <1>0, <1>5, <2>1 DEF BatchInv
  <2> QED
    BY <1>0, <1>5, <2>2 DEF AnswersInv
<1>6. \A a, b : BeingRead(a, b)' /\ b \in m_CancelledImports' => Ignored(a)'
  BY <1>1, <1>2, <1>4, <1>5 DEF SourcesInv
<1>7. \A a : ~Ignored(a) /\ Awaited(a) => Awaited(a)'
  BY <1>2, <1>5 DEF Awaited
<1>8. ASSUME NEW a \in m_ArtworksToRead
      PROVE  /\ Has(a, "Initialized")'
             /\ Counts(a)' /\ Has(a, "FileSize")' => FileRead(a)'
  <2>1. /\ Typed(a) /\ file[a] \in Metadata /\ m_IgnoreBackupsAtImport \in BOOLEAN
        /\ a \in Artworks
    BY <1>0, MetadataFacts DEF TypeOK, Typed
  <2> DEFINE new == Initialized(a)
             over == \/ Has(a, "ReimportPending") \/ ~Has(a, "AlmostInitialized")
                     \/ m_IgnoreBackupsAtImport
             origin == IF m_IsCancelled THEN Empty ELSE file[a]
  <2>2. /\ "Initialized" \in new.flags
        /\ new.flags \cap Kept = flags[a] \cap Kept
        /\ a \notin m_ImportQueue => ("FileSize" \in new.flags => Has(a, "FileSize"))
        /\ a \in m_ImportQueue =>
              /\ m_IsCancelled => "FileSize" \notin new.flags
              /\ over => new.content = origin
              /\ ~over => new.content.title = IF origin.title = "" THEN content[a].title
                                               ELSE origin.title
    BY <2>1, InitializedFacts
  <2> HIDE DEF new
  <2>3. content'[a] = new.content /\ flags'[a] = new.flags
    BY <1>3 DEF new
  <2>4. /\ Has(a, "AlmostInitialized")' <=> Has(a, "AlmostInitialized")
        /\ Has(a, "ReimportPending")' <=> Has(a, "ReimportPending")
    BY <2>2, <2>3 DEF Has, Kept
  <2>5. ASSUME Counts(a)', Has(a, "FileSize")' PROVE FileRead(a)'
    <3>1. ~Has(a, "ReimportPending") /\ ~Ignored(a)
      BY <1>4, <2>4, <2>5 DEF Counts
    <3>2. ~Has(a, "Initialized") /\ ~m_IgnoreBackupsAtImport
      <4>1. ~reimport
        BY <1>0, <3>1 DEF BatchInv, Has
      <4> QED
        BY <1>0, <3>1, <4>1 DEF ArtworksInv, AnswersInv, Has
    <3>3. a \in m_ImportQueue /\ origin = file[a]
      BY <2>1, <2>2, <2>3, <2>5, <3>2 DEF SourcesInv, Has
    <3>4. BackupFirst(a) /\ m_AddWal[a] = NoBackup
      BY <1>0, <2>1, <3>1, <3>2 DEF SourcesInv, ArtworksInv, Counts, Has
    <3> HIDE DEF origin
    <3>5. CASE Has(a, "AlmostInitialized")
      <4>1. content'[a].title = IF file[a].title = "" THEN content[a].title ELSE file[a].title
        BY <2>2, <2>3, <3>1, <3>2, <3>3, <3>5
      <4>2. Stored(a) /\ content[a].title = db[a].title
        BY <3>4, <3>5 DEF BackupFirst, Title
      <4> QED
        BY <1>1, <2>4, <3>4, <3>5, <4>1, <4>2 DEF FileRead, Title, Stored
    <3>6. CASE ~Has(a, "AlmostInitialized")
      <4>1. content'[a].title = file[a].title
        BY <2>2, <2>3, <3>3, <3>6
      <4>2. Stored(a) => Awaited(a)'
        BY <1>7, <3>1, <3>4, <3>6 DEF BackupFirst
      <4> QED
        BY <1>1, <2>4, <3>4, <3>6, <4>1, <4>2 DEF FileRead, Title, Stored
    <3> QED
      BY <3>5, <3>6
  <2> QED
    BY <2>2, <2>3, <2>5 DEF Has
<1>9. ASSUME NEW a \in Artworks \ m_ArtworksToRead
      PROVE  /\ \A flag : Has(a, flag)' <=> Has(a, flag)
             /\ a \in added /\ Counts(a)' =>
                  /\ ~Has(a, "Initialized")' => BackupFirst(a)'
                  /\ Has(a, "FileSize")' => FileRead(a)'
  <2>1. \A flag : Has(a, flag)' <=> Has(a, flag)
    BY <1>3 DEF Has
  <2>2. ASSUME ~Ignored(a) PROVE /\ BackupFirst(a) => BackupFirst(a)'
                                 /\ FileRead(a) => FileRead(a)'
    <3>1. /\ content'[a] = content[a] /\ flags'[a] = flags[a] /\ file' = file
          /\ db'[a] = db[a] /\ m_AddWal'[a] = m_AddWal[a]
      BY <1>1, <1>3
    <3>2. Awaited(a) => Awaited(a)'
      BY <1>7, <2>2
    <3> QED
      BY <3>1, <3>2, SourceStays
  <2> QED
    BY <1>4, <2>1, <2>2 DEF SourcesInv, Counts
<1>10. \A a \in Artworks : Has(a, "FileSize")' => Has(a, "Initialized")'
  BY <1>8, <1>9 DEF SourcesInv
<1>11. \A a \in added' : Counts(a)' => /\ ~Has(a, "Initialized")' => BackupFirst(a)'
                                       /\ Has(a, "FileSize")' => FileRead(a)'
  BY <1>0, <1>1, <1>8, <1>9
<1> QED
  BY <1>6, <1>10, <1>11 DEF SourcesInv

\* Importing the backups: what is not imported is cancelled, and ignored.
LEMMA BackupSources ==
    ASSUME TypeOK, ReadsInv, SourcesInv, ImportFromStorage
    PROVE  SourcesInv'
<1>0. /\ added \subseteq Artworks
      /\ content \in [Artworks -> Metadata] /\ flags \in [Artworks -> SUBSET Flags]
  BY DEF TypeOK
<1>1. UNCHANGED <<file, added, asked, m_AddWal, db, m_CancelledImports>>
  BY DEF ImportFromStorage
<1>2. /\ \A a, b : BeingRead(a, b)' => BeingRead(a, b)
      /\ \A a, b : BeingRead(a, b) => BeingRead(a, b)' \/ Delivered(a, b)
  BY ImportJobs
<1>3. \A a : Ignored(a)' <=> Ignored(a)
  BY <1>1 DEF Ignored
<1>4. \A a, b : BeingRead(a, b)' /\ b \in m_CancelledImports' => Ignored(a)'
  BY <1>1, <1>2, <1>3 DEF SourcesInv
<1>5. ASSUME NEW a, ~Ignored(a), \A r \in Requests : r.artwork # a
      PROVE  Awaited(a) => Awaited(a)'
  <2>1. \A b : ~Delivered(a, b)
    BY <1>5 DEF SourcesInv, BeingRead, Delivered, Requests
  <2> QED
    BY <1>2, <2>1 DEF Awaited
<1>6. ASSUME NEW a \in Artworks, \A r \in Requests : r.artwork # a
      PROVE  /\ Has(a, "FileSize")' => Has(a, "Initialized")'
             /\ a \in added /\ Counts(a)' =>
                  /\ ~Has(a, "Initialized")' => BackupFirst(a)'
                  /\ Has(a, "FileSize")' => FileRead(a)'
  <2>1. content'[a] = content[a] /\ flags'[a] = flags[a]
    BY <1>6, BackupsImported
  <2>2. \A flag : Has(a, flag)' <=> Has(a, flag)
    BY <2>1 DEF Has
  <2>3. ASSUME ~Ignored(a) PROVE /\ BackupFirst(a) => BackupFirst(a)'
                                 /\ FileRead(a) => FileRead(a)'
    BY <1>1, <1>5, <1>6, <2>1, <2>3, SourceStays
  <2> QED
    BY <1>3, <2>2, <2>3 DEF SourcesInv, Counts
<1>7. ASSUME NEW a \in Artworks, \E r \in Requests : r.artwork = a
      PROVE  /\ Has(a, "FileSize")' => Has(a, "Initialized")'
             /\ Counts(a)' => /\ ~Has(a, "Initialized")' => BackupFirst(a)'
                              /\ Has(a, "FileSize")' => FileRead(a)'
  <2>1. PICK r \in Requests :
          /\ r.artwork = a
          /\ content'[a] = InitFromStorage(a, r.backup).content
          /\ flags'[a] = InitFromStorage(a, r.backup).flags
    BY <1>7, BackupsImported
  <2>2. r.backup = db[a] /\ db[a] # NoBackup /\ BeingRead(a, r.batch)
    BY <2>1 DEF ReadsInv, Requests, BeingRead, Delivered
  <2>3. content[a] \in Metadata /\ flags[a] \in SUBSET Flags /\ r.backup \in Metadata
    BY <2>1 DEF TypeOK, Requests
  <2>4. a \in added
    BY <2>2 DEF ReadsInv
  <2> DEFINE new == InitFromStorage(a, r.backup)
  <2>5. /\ Has(a, "ReimportPending") => new.content = content[a] /\ new.flags = flags[a]
        /\ ~Has(a, "ReimportPending") =>
             new.flags \ {"Modified"} = (flags[a] \ {"Modified"}) \cup {"AlmostInitialized"}
        /\ ~Has(a, "ReimportPending") /\ Has(a, "Initialized") =>
             new.content.title = IF content[a].title = "" THEN r.backup.title
                                 ELSE content[a].title
        /\ ~Has(a, "ReimportPending") /\ ~Has(a, "Initialized") => new.content = r.backup
    BY <2>3, BackupFacts
  <2> HIDE DEF new
  <2>6. content'[a] = new.content /\ flags'[a] = new.flags
    BY <2>1 DEF new
  <2>7. /\ Has(a, "FileSize")' <=> Has(a, "FileSize")
        /\ Has(a, "Initialized")' <=> Has(a, "Initialized")
        /\ Has(a, "ReimportPending")' <=> Has(a, "ReimportPending")
        /\ ~Has(a, "ReimportPending") => Has(a, "AlmostInitialized")'
    <3>1. CASE Has(a, "ReimportPending")
      BY <2>5, <2>6, <3>1 DEF Has
    <3>2. CASE ~Has(a, "ReimportPending")
      <4>1. \A flag : flag # "Modified" =>
              (flag \in flags'[a] <=> flag \in flags[a] \/ flag = "AlmostInitialized")
        BY <2>5, <2>6, <3>2
      <4> QED
        BY <3>2, <4>1 DEF Has
    <3> QED
      BY <3>1, <3>2
  <2>8. ASSUME Counts(a)', ~Has(a, "Initialized")' PROVE BackupFirst(a)'
    <3>1. content'[a] = db[a]
      BY <2>2, <2>5, <2>6, <2>7, <2>8 DEF Counts
    <3> QED
      BY <1>1, <2>2, <2>7, <2>8, <3>1 DEF BackupFirst, Counts, Title, Stored
  <2>9. ASSUME Counts(a)', Has(a, "FileSize")' PROVE FileRead(a)'
    <3>1. FileRead(a) /\ Has(a, "Initialized")
      BY <1>3, <2>4, <2>7, <2>9 DEF SourcesInv, Counts
    <3>2. content'[a].title = IF content[a].title = "" THEN db[a].title ELSE content[a].title
      BY <2>2, <2>5, <2>6, <2>7, <2>9, <3>1 DEF Counts
    <3>3. content[a].title \in {"user", file[a].title,
                                IF file[a].title # "" THEN file[a].title ELSE db[a].title}
      BY <3>1 DEF FileRead, Title
    <3>4. content'[a].title \in {"user", IF file[a].title # "" THEN file[a].title
                                         ELSE db[a].title}
      BY <3>2, <3>3
    <3> QED
      BY <1>1, <2>2, <2>7, <2>9, <3>4 DEF FileRead, Counts, Title, Stored
  <2> QED
    BY <2>7, <2>8, <2>9 DEF SourcesInv
<1>8. \A a \in Artworks : Has(a, "FileSize")' => Has(a, "Initialized")'
  BY <1>6, <1>7
<1>9. \A a \in added' : Counts(a)' => /\ ~Has(a, "Initialized")' => BackupFirst(a)'
                                      /\ Has(a, "FileSize")' => FileRead(a)'
  BY <1>0, <1>1, <1>6, <1>7
<1> QED
  BY <1>4, <1>8, <1>9 DEF SourcesInv

\* What the log holds becomes the backup of what had none; only an artwork that
\* was initialised is logged, with its own title.
LEMMA WorkerSources ==
    ASSUME TypeOK, ReadsInv, ArtworksInv, SourcesInv, WorkerStep
    PROVE  SourcesInv'
<1>0. added \subseteq Artworks /\ content \in [Artworks -> Metadata]
  BY DEF TypeOK
<1>1. /\ UNCHANGED <<content, flags, file, added, asked, m_CancelledImports>>
      /\ \A a, b : BeingRead(a, b)' => BeingRead(a, b)
      /\ \A a, b : BeingRead(a, b) /\ db[a] # NoBackup => BeingRead(a, b)'
  BY WorkerReads DEF artworkVars
<1>2. /\ \A a : Ignored(a)' <=> Ignored(a)
      /\ \A a, flag : Has(a, flag)' <=> Has(a, flag)
      /\ \A a : Counts(a)' <=> Counts(a)
  BY <1>1 DEF Ignored, Has, Counts
<1>3. \A a : Stored(a) /\ Awaited(a) => Awaited(a)'
  BY <1>1 DEF Awaited, Stored
<1>4. ASSUME NEW a \in added, Counts(a)
      PROVE  /\ Stored(a) => db'[a] = db[a]
             /\ ~Stored(a) /\ ~Has(a, "Initialized") => ~Stored(a)'
             /\ ~Stored(a) /\ Has(a, "FileSize") =>
                  /\ Stored(a)' => db'[a].title \in OwnTitles(a)
                  /\ m_AddWal'[a] # NoBackup => m_AddWal'[a].title \in OwnTitles(a)
  <2>1. a \in Artworks /\ Has(a, "FileSize") => Has(a, "Initialized")
    BY <1>0 DEF SourcesInv
  <2>2. ~Has(a, "Initialized") => m_AddWal[a] = NoBackup
    BY <1>0 DEF ArtworksInv, Has
  <2>3. ~Stored(a) /\ Has(a, "FileSize") =>
          /\ m_AddWal[a] # NoBackup => m_AddWal[a].title \in OwnTitles(a)
          /\ content[a].title \in OwnTitles(a)
    BY <1>4 DEF SourcesInv, FileRead, OwnTitles, Title
  <2>4. PICK wal \in [Artworks -> Metadata \cup {NoBackup}] :
          /\ (m_AddWal' = m_AddWal /\ db' = db) \/ Flush(wal)
               \/ \E sync, signal : AfterReadWrite(wal, sync, signal)
          /\ wal[a] = m_AddWal[a] \/ (wal[a] = content[a] /\ Has(a, "Initialized"))
    <3>1. CASE \E sync, signal \in BOOLEAN : ProcessAdd(sync, signal)
      <4>1. PICK sync \in BOOLEAN, signal \in BOOLEAN : ProcessAdd(sync, signal)
        BY <3>1
      <4> DEFINE logged == [m_AddWal EXCEPT ![busy.artwork] = content[busy.artwork]]
      <4>2. busy \in InWorker /\ busy.kind = "Add" /\ AfterReadWrite(logged, sync, signal)
        BY <4>1 DEF ProcessAdd, InWorker
      <4>3. busy.artwork \in Artworks
        BY <4>1, <4>2 DEF TypeOK, JobType, ProcessAdd
      <4>4. logged \in [Artworks -> Metadata \cup {NoBackup}]
        BY <4>3 DEF TypeOK
      <4>5. "Initialized" \in flags[busy.artwork]
        BY <4>2 DEF ArtworksInv
      <4>6. logged[a] = m_AddWal[a] \/ (logged[a] = content[a] /\ Has(a, "Initialized"))
        BY <1>0, <4>3, <4>5 DEF TypeOK, Has
      <4> HIDE DEF logged
      <4> QED
        BY <4>2, <4>4, <4>6
    <3>2. CASE ~\E sync, signal \in BOOLEAN : ProcessAdd(sync, signal)
      <4>1. \/ m_AddWal' = m_AddWal /\ db' = db
            \/ Flush(m_AddWal)
            \/ \E sync, signal : AfterReadWrite(m_AddWal, sync, signal)
        BY <3>2 DEF WorkerStep, TakeJob, ProcessSeparator, ProcessRead
      <4>2. m_AddWal \in [Artworks -> Metadata \cup {NoBackup}]
        BY DEF TypeOK
      <4> QED
        BY <4>1, <4>2
    <3> QED
      BY <3>1, <3>2
  <2>5. /\ db'[a] = db[a] \/ (~Stored(a) /\ db'[a] \in {wal[a], m_AddWal[a]})
        /\ m_AddWal'[a] \in {m_AddWal[a], wal[a], NoBackup}
    BY <1>0, <2>4 DEF Flush, AfterReadWrite, Stored
  <2>6. ~Has(a, "Initialized") => wal[a] = NoBackup
    BY <2>2, <2>4
  <2>7. ~Stored(a) /\ Has(a, "FileSize") =>
          (wal[a] # NoBackup => wal[a].title \in OwnTitles(a))
    BY <2>3, <2>4
  <2> QED
    BY <2>2, <2>3, <2>5, <2>6, <2>7 DEF Stored
<1>5. ASSUME NEW a \in added, Counts(a), ~Has(a, "Initialized") PROVE BackupFirst(a)'
  <2>1. BackupFirst(a)
    BY <1>5 DEF SourcesInv
  <2> QED
    BY <1>1, <1>2, <1>3, <1>4, <1>5, <2>1 DEF BackupFirst, Title, Stored
<1>6. ASSUME NEW a \in added, Counts(a), Has(a, "FileSize") PROVE FileRead(a)'
  <2>1. FileRead(a)
    BY <1>6 DEF SourcesInv
  <2>2. OwnTitles(a)' = OwnTitles(a) /\ Title(a)' = Title(a)
    BY <1>1 DEF OwnTitles, Title
  <2>3. CASE Stored(a)
    <3>1. db'[a] = db[a] /\ Stored(a)'
      BY <1>4, <1>6, <2>3 DEF Stored
    <3> QED
      BY <1>1, <1>2, <1>3, <2>1, <2>2, <2>3, <3>1 DEF FileRead
  <2>4. CASE ~Stored(a)
    <3>1. /\ Stored(a)' => db'[a].title \in OwnTitles(a)
          /\ m_AddWal'[a] # NoBackup => m_AddWal'[a].title \in OwnTitles(a)
      BY <1>4, <1>6, <2>4
    <3> QED
      BY <1>1, <1>2, <2>1, <2>2, <2>4, <3>1 DEF FileRead
  <2> QED
    BY <2>3, <2>4
<1>7. \A a, b : BeingRead(a, b)' /\ b \in m_CancelledImports' => Ignored(a)'
  BY <1>1, <1>2 DEF SourcesInv
<1>8. \A a \in Artworks : Has(a, "FileSize")' => Has(a, "Initialized")'
  BY <1>2 DEF SourcesInv
<1>9. \A a \in added' : Counts(a)' => /\ ~Has(a, "Initialized")' => BackupFirst(a)'
                                      /\ Has(a, "FileSize")' => FileRead(a)'
  BY <1>1, <1>2, <1>5, <1>6
<1> QED
  BY <1>7, <1>8, <1>9 DEF SourcesInv

\* An edit gives the artwork the user's title.
LEMMA EditSources ==
    ASSUME TypeOK, SourcesInv, NEW e \in Artworks, Edit(e)
    PROVE  SourcesInv'
<1>0. /\ added \subseteq Artworks /\ content \in [Artworks -> Metadata]
      /\ flags \in [Artworks -> SUBSET Flags]
  BY DEF TypeOK
<1>1. /\ UNCHANGED <<file, added, asked, m_AddWal, db, m_CancelledImports, queue, busy,
                     m_StorageReadQueue>>
      /\ content' = [content EXCEPT ![e].title = "user"]
      /\ flags' = [flags EXCEPT ![e] = @ \cup {"Modified"}]
      /\ Has(e, "Initialized")
  BY DEF Edit, storageVars
<1>2. \A a, b : BeingRead(a, b)' <=> BeingRead(a, b)
  BY <1>1, WorkerStutters
<1>3. \A a : Ignored(a)' <=> Ignored(a)
  BY <1>1 DEF Ignored
<1>4. \A a \in Artworks : \A flag : flag # "Modified" => (Has(a, flag)' <=> Has(a, flag))
  BY <1>0, <1>1 DEF Has
<1>5. \A a : Awaited(a)' <=> Awaited(a)
  BY <1>2 DEF Awaited
<1>6. \A a \in Artworks : Counts(a)' <=> Counts(a)
  BY <1>3, <1>4 DEF Counts
<1>7. ASSUME NEW a \in Artworks, a # e
      PROVE  /\ BackupFirst(a) => BackupFirst(a)'
             /\ FileRead(a) => FileRead(a)'
  <2>1. content'[a] = content[a] /\ flags'[a] = flags[a]
    BY <1>0, <1>1, <1>7
  <2> QED
    BY <1>1, <1>5, <2>1, SourceStays
<1>8. FileRead(e) => FileRead(e)'
  <2>1. content'[e].title = "user"
    BY <1>0, <1>1, MetadataFacts
  <2>2. OwnTitles(e) \subseteq OwnTitles(e)' /\ Title(e)' = "user"
    BY <1>1, <2>1 DEF OwnTitles, Title
  <2>3. /\ Has(e, "AlmostInitialized")' <=> Has(e, "AlmostInitialized")
        /\ Stored(e)' <=> Stored(e)
    BY <1>1, <1>4 DEF Stored
  <2> QED
    BY <1>1, <1>5, <2>2, <2>3 DEF FileRead
<1>9. \A a, b : BeingRead(a, b)' /\ b \in m_CancelledImports' => Ignored(a)'
  BY <1>1, <1>2, <1>3 DEF SourcesInv
<1>10. \A a \in Artworks : Has(a, "FileSize")' => Has(a, "Initialized")'
  BY <1>4 DEF SourcesInv
<1>11. \A a \in added' : Counts(a)' => /\ ~Has(a, "Initialized")' => BackupFirst(a)'
                                       /\ Has(a, "FileSize")' => FileRead(a)'
  BY <1>0, <1>1, <1>4, <1>6, <1>7, <1>8 DEF SourcesInv
<1> QED
  BY <1>9, <1>10, <1>11 DEF SourcesInv

LEMMA CommuteHolds ==
    ASSUME TypeOK, StorageInv, RoundInv, IgnoreInv, CommuteInv, [Next]_vars
    PROVE  CommuteInv'
<1> SUFFICES ASSUME NoneLeft' PROVE SourcesInv'
  BY DEF CommuteInv
<1>0. /\ NoneLeft /\ Ignoring /\ SourcesInv /\ ReadsInv /\ ArtworksInv /\ MainInv
      /\ added \subseteq Artworks /\ m_ArtworksToRead \subseteq added
      /\ flags \in [Artworks -> SUBSET Flags]
      /\ imports \in Nat /\ m_CancelledImports \subseteq 0..imports
      /\ \A a, b : BeingRead(a, b) => a \in added
  <2>1. NoneLeft
    BY LeftStays
  <2> QED
    BY <2>1 DEF IgnoreInv, CommuteInv, StorageInv, RoundInv, Round, TypeOK, ReadsInv
<1>1. ASSUME NEW artworks \in (SUBSET (Artworks \ added)) \ {{}}, AddFiles(artworks)
      PROVE  SourcesInv'
  <2>1. /\ UNCHANGED <<content, flags, file, asked, m_AddWal, db, m_CancelledImports>>
        /\ added' = added \cup artworks
    BY <1>1, NotOvertaking DEF AddFiles
  <2>2. \A a, b : BeingRead(a, b)' <=> BeingRead(a, b) \/ (a \in artworks /\ b = imports + 1)
    BY <1>1, AddFilesJobs
  <2>3. /\ \A a : Ignored(a)' <=> Ignored(a)
        /\ \A a, flag : Has(a, flag)' <=> Has(a, flag)
        /\ \A a : Counts(a)' <=> Counts(a)
    BY <2>1 DEF Ignored, Has, Counts
  <2>4. \A a : Awaited(a) => Awaited(a)'
    BY <2>2 DEF Awaited
  <2>5. \A a : /\ BackupFirst(a) => BackupFirst(a)'
               /\ FileRead(a) => FileRead(a)'
    BY <2>1, <2>4, SourceStays
  <2>6. ASSUME NEW a \in artworks
        PROVE  ~Has(a, "FileSize")' /\ BackupFirst(a)'
    <3>1. ~Has(a, "AlmostInitialized")' /\ ~Has(a, "FileSize")'
      BY <1>0, <2>3 DEF ArtworksInv, Has
    <3>2. Awaited(a)'
      BY <2>2 DEF Awaited
    <3> QED
      BY <3>1, <3>2 DEF BackupFirst
  <2>7. \A a, b : BeingRead(a, b)' /\ b \in m_CancelledImports' => Ignored(a)'
    BY <1>0, <2>1, <2>2, <2>3 DEF SourcesInv
  <2>8. \A a \in Artworks : Has(a, "FileSize")' => Has(a, "Initialized")'
    BY <1>0, <2>3 DEF SourcesInv
  <2>9. \A a \in added' : Counts(a)' => /\ ~Has(a, "Initialized")' => BackupFirst(a)'
                                        /\ Has(a, "FileSize")' => FileRead(a)'
    BY <1>0, <2>1, <2>3, <2>5, <2>6 DEF SourcesInv
  <2> QED
    BY <2>7, <2>8, <2>9 DEF SourcesInv
<1>2. ASSUME NEW artworks \in (SUBSET added) \ {{}}, Reimport(artworks)
      PROVE  SourcesInv'
  <2>1. /\ UNCHANGED <<content, file, added, asked, m_AddWal, db, m_CancelledImports, queue,
                       busy, m_StorageReadQueue>>
        /\ flags' = [a \in Artworks |-> IF a \in artworks THEN flags[a] \cup {"ReimportPending"}
                                       ELSE flags[a]]
    BY <1>2, NotOvertaking DEF Reimport, storageVars
  <2>2. \A a, b : BeingRead(a, b)' <=> BeingRead(a, b)
    BY <2>1, WorkerStutters
  <2>3. \A a : /\ Ignored(a)' <=> Ignored(a)
               /\ Awaited(a)' <=> Awaited(a)
    BY <2>1, <2>2 DEF Ignored, Awaited
  <2>4. ASSUME NEW a \in artworks PROVE ~Counts(a)'
    BY <1>0, <2>1 DEF Counts, Has
  <2>5. ASSUME NEW a \in Artworks \ artworks
        PROVE  /\ BackupFirst(a) => BackupFirst(a)'
               /\ FileRead(a) => FileRead(a)'
               /\ \A flag : Has(a, flag)' <=> Has(a, flag)
    <3>1. content'[a] = content[a] /\ flags'[a] = flags[a]
      BY <1>0, <2>1
    <3>2. \A flag : Has(a, flag)' <=> Has(a, flag)
      BY <3>1 DEF Has
    <3> QED
      BY <2>1, <2>3, <3>1, <3>2, SourceStays
  <2>6. \A a, b : BeingRead(a, b)' /\ b \in m_CancelledImports' => Ignored(a)'
    BY <1>0, <2>1, <2>2, <2>3 DEF SourcesInv
  <2>7. \A a \in Artworks : Has(a, "FileSize")' => Has(a, "Initialized")'
    BY <1>0, <2>1 DEF SourcesInv, Has
  <2>8. \A a \in added' : Counts(a)' => /\ ~Has(a, "Initialized")' => BackupFirst(a)'
                                        /\ Has(a, "FileSize")' => FileRead(a)'
    BY <1>0, <2>1, <2>3, <2>4, <2>5 DEF SourcesInv, Counts
  <2> QED
    BY <2>6, <2>7, <2>8 DEF SourcesInv
<1>3. ASSUME NEW choice \in Answers, Answer(choice) PROVE SourcesInv'
  <2>1. /\ UNCHANGED <<content, flags, file, added, m_AddWal, db, m_CancelledImports, queue,
                       busy, m_StorageReadQueue>>
        /\ main = "asking" /\ (reimport => "ignore" \in choice)
        /\ \A a \in Artworks : asked'[a] = IF a \in m_ArtworksToRead THEN choice ELSE asked[a]
    BY <1>0, <1>3 DEF Answer, storageVars, NoneLeft
  <2>2. \A a, b : BeingRead(a, b)' <=> BeingRead(a, b)
    BY <2>1, WorkerStutters
  <2>3. ASSUME NEW a \in added, Ignored(a) PROVE Ignored(a)'
    <3>1. a \in m_ArtworksToRead => reimport
      BY <1>0, <2>1, <2>3 DEF Ignoring, AnswersInv
    <3> QED
      BY <1>0, <2>1, <2>3, <3>1 DEF Ignored
  <2> QED
    BY <1>0, <2>1, <2>2, <2>3, SourcesStay
<1>4. CASE OnCanInitialize
  <2>1. main \in {"waiting", "initializing"}
    <3>1. posted > 0 => main = "waiting"
      BY <1>0 DEF MainInv
    <3> QED
      BY <1>4, <3>1 DEF OnCanInitialize
  <2> QED
    BY <1>0, <1>4, <2>1, EndOfImportSources
<1>5. CASE \E e \in Artworks : Edit(e)
  BY <1>0, <1>5, EditSources
<1>6. CASE ImportFromStorage
  BY <1>0, <1>6, BackupSources
<1>7. CASE WorkerStep
  BY <1>0, <1>7, WorkerSources
<1>8. CASE Escape
  <2>1. main = "asking" /\ asked' = [a \in Artworks |-> Escaped]
    BY <1>8 DEF Escape
  <2>2. added # {}
    BY <1>0, <2>1 DEF MainInv
  <2> QED
    BY <1>0, <2>1, <2>2 DEF NoneLeft, Left
<1>9. CASE \/ AwaitClick \/ StartReader \/ StartAccepting
           \/ \E i \in Imports : EndReading(i) \/ \E a \in Artworks : Push(i, a)
           \/ \E p \in {Main, User} : MainReports(p)
           \/ \E p \in Imports : FinishCall(p)
           \/ UNCHANGED vars
  <2>1. UNCHANGED <<content, flags, file, asked, added, m_AddWal, db, m_CancelledImports, queue,
                    busy, m_StorageReadQueue>>
    BY <1>9 DEF AwaitClick, StartReader, StartAccepting, MainReports, EndReading, Push,
                FinishCall, vars, hubVars, artworkVars, storageVars
  <2>2. \A a, b : BeingRead(a, b)' <=> BeingRead(a, b)
    BY <2>1, WorkerStutters
  <2>3. \A a \in added : Ignored(a) => Ignored(a)'
    BY <2>1 DEF Ignored
  <2> QED
    BY <1>0, <2>1, <2>2, <2>3, SourcesStay
<1> QED
  BY <1>1, <1>2, <1>3, <1>4, <1>5, <1>6, <1>7, <1>8, <1>9 DEF Next, MainStep

\* When every backup has come, the title is that of the file or, where it has none,
\* that of the backup, whichever was read first.
THEOREM SourcesMerge == Spec => []SourcesCommute
<1>1. TypeOK /\ StorageInv /\ AllLeft /\ CommuteInv => SourcesCommute
  <2> SUFFICES ASSUME TypeOK, StorageInv, AllLeft, CommuteInv, Quiet,
                      NEW a \in Artworks, Merged(a), db[a] # NoBackup
               PROVE  content[a].title = IF file[a].title # "" THEN file[a].title
                                         ELSE db[a].title
    BY DEF SourcesCommute
  <2>1. SourcesInv
    <3>1. asked[a] \notin Left
      BY DEF Merged, Answers, Left, Escaped, Overtaken
    <3> QED
      BY <3>1 DEF AllLeft, CommuteInv
  <2>2. ~Awaited(a)
    <3>1. \A b : Job("Read", a, b) \notin InWorker
      <4> SUFFICES ASSUME NEW b, Job("Read", a, b) \in InWorker PROVE FALSE
        OBVIOUS
      <4> DEFINE job == Job("Read", a, b)
      <4>1. job.kind = "Read" /\ job.artwork = a
        BY DEF Job
      <4> HIDE DEF job
      <4>2. CASE job = busy /\ busy # NoJob
        BY <4>1, <4>2 DEF Quiet, IsBeingRead
      <4>3. CASE job \in Range(queue)
        <5>1. \E i \in DOMAIN queue : queue[i] = job
          BY <4>3 DEF Range
        <5> QED
          BY <4>1, <5>1 DEF Quiet, IsBeingRead
      <4> QED
        BY <4>2, <4>3 DEF InWorker, job
    <3>2. \A b : ~Delivered(a, b)
      BY DEF Quiet, IsBeingRead, Delivered
    <3> QED
      BY <3>1, <3>2 DEF Awaited, BeingRead
  <2>3. a \in added
    BY DEF StorageInv, ArtworksInv, Merged, Has
  <2>4. FileRead(a)
    BY <2>1, <2>3 DEF SourcesInv, Counts, Merged, Ignored
  <2> QED
    BY <2>2, <2>4 DEF FileRead, Merged, Title, Stored, OwnTitles
<1> QED
  BY <1>1, InitTypes, TypesHold, InitStorage, StorageHolds, InitRound, RoundHolds,
     InitIgnore, IgnoreHolds, AllLeftHolds, InitCommute, CommuteHolds, PTL DEF Spec

================================================================================
