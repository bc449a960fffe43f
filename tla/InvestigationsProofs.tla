------------------------ MODULE InvestigationsProofs ------------------------
(***************************************************************************)
(* The cache loses a result only to another one, and what a status call    *)
(* shows was current after it was found: proofs, with the types, for any   *)
(* number of groups, revisions, calls, records and entries.                *)
(***************************************************************************)
EXTENDS Investigations, SequenceTheorems, TLAPS

-----------------------------------------------------------------------------
(* Sequences of keys, the least recently updated first                     *)

\* Taking a key out of a sequence leaves the others; it is one shorter if the key was in it.
LEMMA WithoutFacts ==
    ASSUME NEW S, NEW s \in Seq(S), NEW x
    PROVE  /\ Without(s, x) \in Seq(S)
           /\ Len(Without(s, x)) = IF x \in InSeq(s) THEN Len(s) - 1 ELSE Len(s)
           /\ InSeq(s) \ {x} \subseteq InSeq(Without(s, x))
<1>1. CASE x \notin InSeq(s)
  BY <1>1 DEF Without, InSeq
<1>2. CASE x \in InSeq(s)
  <2> DEFINE i == Position(s, x)
             front == SubSeq(s, 1, i - 1)
             back == SubSeq(s, i + 1, Len(s))
  <2>1. i \in 1..Len(s) /\ s[i] = x
    <3>1. \E n \in DOMAIN s : s[n] = x
      BY <1>2 DEF InSeq
    <3> QED
      BY <3>1 DEF Position
  <2>2. Without(s, x) = front \o back
    BY <1>2 DEF Without
  <2> HIDE DEF i
  <2>3. /\ front \in Seq(S) /\ Len(front) = i - 1
        /\ \A n \in 1..(i - 1) : front[n] = s[n]
    BY <2>1
  <2>4. /\ back \in Seq(S) /\ Len(back) = Len(s) - i
        /\ \A n \in 1..(Len(s) - i) : back[n] = s[n + i]
    BY <2>1
  <2> HIDE DEF front, back
  <2>5. /\ front \o back \in Seq(S) /\ Len(front \o back) = Len(s) - 1
        /\ \A n \in 1..(i - 1) : (front \o back)[n] = front[n]
        /\ \A n \in 1..(Len(s) - i) : (front \o back)[n + (i - 1)] = back[n]
    <3>1. /\ front \o back \in Seq(S)
          /\ Len(front \o back) = Len(front) + Len(back)
          /\ \A n \in 1..(Len(front) + Len(back)) : (front \o back)[n] =
                IF n <= Len(front) THEN front[n] ELSE back[n - Len(front)]
      BY <2>3, <2>4, ConcatProperties
    <3>2. i \in Nat \ {0} /\ Len(s) \in Nat /\ i <= Len(s)
      BY <2>1
    <3>3. ASSUME NEW n \in 1..(i - 1) PROVE (front \o back)[n] = front[n]
      BY <2>3, <2>4, <3>1, <3>2
    <3>4. ASSUME NEW n \in 1..(Len(s) - i) PROVE (front \o back)[n + (i - 1)] = back[n]
      <4> DEFINE m == n + (i - 1)
      <4>1. /\ m \in 1..(Len(front) + Len(back)) /\ ~(m <= Len(front))
            /\ m - Len(front) = n
        BY <2>3, <2>4, <3>2
      <4> HIDE DEF m
      <4>2. (front \o back)[m] = back[m - Len(front)]
        BY <3>1, <4>1
      <4>3. (front \o back)[m] = back[n]
        BY <4>1, <4>2
      <4> QED
        BY <4>3 DEF m
    <3> QED
      BY <2>3, <2>4, <3>1, <3>2, <3>3, <3>4
  <2>6. ASSUME NEW n \in 1..Len(s), s[n] # x PROVE s[n] \in InSeq(front \o back)
    <3>1. CASE n < i
      <4>1. n \in 1..(i - 1) /\ n \in DOMAIN (front \o back)
        BY <2>1, <2>5, <3>1
      <4>2. (front \o back)[n] = s[n]
        BY <2>3, <2>5, <4>1
      <4> QED
        BY <4>1, <4>2 DEF InSeq
    <3>2. CASE n > i
      <4> DEFINE m == n - i
      <4>1. m \in 1..(Len(s) - i) /\ m + i = n /\ m + (i - 1) \in 1..(Len(s) - 1)
        BY <2>1, <3>2
      <4>2. (front \o back)[m + (i - 1)] = s[n]
        <5> HIDE DEF m
        <5>1. (front \o back)[m + (i - 1)] = back[m] /\ back[m] = s[m + i]
          BY <2>4, <2>5, <4>1
        <5> QED
          BY <4>1, <5>1
      <4>3. m + (i - 1) \in DOMAIN (front \o back)
        BY <2>5, <4>1
      <4> QED
        BY <4>2, <4>3 DEF InSeq
    <3> QED
      BY <2>1, <2>6, <3>1, <3>2
  <2>7. InSeq(s) \ {x} \subseteq InSeq(front \o back)
    <3>1. ASSUME NEW y \in InSeq(s), y # x PROVE y \in InSeq(front \o back)
      <4>1. PICK n \in 1..Len(s) : s[n] = y
        BY DEF InSeq
      <4> QED
        BY <2>6, <3>1, <4>1
    <3> QED
      BY <3>1
  <2> QED
    BY <1>2, <2>2, <2>5, <2>7
<1> QED
  BY <1>1, <1>2

\* Moving a key to the end keeps the others, and lengthens the sequence by a new one only.
LEMMA LaterFacts ==
    ASSUME NEW S, NEW s \in Seq(S), NEW x \in S
    PROVE  /\ Later(s, x) \in Seq(S)
           /\ Len(Later(s, x)) = IF x \in InSeq(s) THEN Len(s) ELSE Len(s) + 1
           /\ InSeq(s) \subseteq InSeq(Later(s, x))
           /\ Later(s, x)[Len(Later(s, x))] = x
<1> DEFINE w == Without(s, x)
<1>1. /\ w \in Seq(S)
      /\ Len(w) = IF x \in InSeq(s) THEN Len(s) - 1 ELSE Len(s)
      /\ InSeq(s) \ {x} \subseteq InSeq(w)
  BY WithoutFacts
<1>2. Later(s, x) = Append(w, x)
  BY DEF Later
<1> HIDE DEF w
<1>3. /\ Append(w, x) \in Seq(S) /\ Len(Append(w, x)) = Len(w) + 1
      /\ \A n \in 1..Len(w) : Append(w, x)[n] = w[n]
      /\ Append(w, x)[Len(w) + 1] = x
  BY <1>1
<1>4. InSeq(w) \cup {x} \subseteq InSeq(Append(w, x))
  BY <1>1, <1>3 DEF InSeq
<1> QED
  BY <1>1, <1>2, <1>3, <1>4

\* What is cut goes from the front.
LEMMA CutFacts ==
    ASSUME NEW S, NEW s \in Seq(S), NEW n \in Nat
    PROVE  /\ Cut(s, n) \in Seq(S)
           /\ Len(Cut(s, n)) = IF n > Len(s) THEN 0 ELSE Len(s) - n
           /\ n = 0 => Cut(s, n) = s
           /\ n < Len(s) => Cut(s, n)[Len(Cut(s, n))] = s[Len(s)]
<1> DEFINE m == IF n > Len(s) THEN Len(s) ELSE n
           t == SubSeq(s, m + 1, Len(s))
<1>1. m \in 0..Len(s) /\ Cut(s, n) = t
  BY DEF Cut
<1> HIDE DEF m
<1>2. /\ t \in Seq(S) /\ Len(t) = Len(s) - m
      /\ \A i \in 1..(Len(s) - m) : t[i] = s[i + m]
  BY <1>1
<1> HIDE DEF t
<1>3. n = 0 => t = s
  <2>1. n = 0 => m = 0
    BY DEF m
  <2> QED
    BY <1>2, <2>1
<1>4. n < Len(s) => t[Len(t)] = s[Len(s)]
  <2>1. n < Len(s) => Len(t) \in 1..(Len(s) - m) /\ Len(t) + m = Len(s)
    BY <1>1, <1>2 DEF m
  <2> QED
    BY <1>2, <2>1
<1> QED
  BY <1>1, <1>2, <1>3, <1>4 DEF m

-----------------------------------------------------------------------------
(* The cache file                                                          *)

CacheOK ==
    /\ results \in Seq(Keys) /\ failures \in Seq(Keys)
    /\ Len(results) + Len(failures) <= MaxEntries

\* What pruneLocked writes fits; a result goes only from results that were too many, and
\* never the latest.
LEMMA StoreFacts ==
    ASSUME NEW res \in Seq(Keys), NEW fails \in Seq(Keys), Store(res, fails)
    PROVE  /\ CacheOK'
           /\ Len(res) <= MaxEntries => results' = res
           /\ Len(res) > MaxEntries =>
                Len(results') = MaxEntries /\ res[Len(res)] \in InSeq(results')
<1> DEFINE excess == IF Len(res) + Len(fails) > MaxEntries
                     THEN Len(res) + Len(fails) - MaxEntries ELSE 0
           more == IF excess > Len(fails) THEN excess - Len(fails) ELSE 0
<1>1. failures' = Cut(fails, excess) /\ results' = Cut(res, more)
  BY DEF Store
<1>2. /\ MaxEntries \in Nat \ {0} /\ excess \in Nat /\ more \in Nat
      /\ Len(res) \in Nat /\ Len(fails) \in Nat
  BY InvestigationConstants
<1>3. /\ Len(res) <= MaxEntries => more = 0
      /\ Len(res) > MaxEntries => more = Len(res) - MaxEntries
  BY <1>2
<1>4. /\ failures' \in Seq(Keys)
      /\ excess > Len(fails) => Len(failures') = 0
      /\ excess <= Len(fails) => Len(failures') = Len(fails) - excess
  <2> HIDE DEF excess
  <2> QED
    BY <1>1, <1>2, CutFacts
<1>5. /\ results' \in Seq(Keys)
      /\ Len(results') = IF more > Len(res) THEN 0 ELSE Len(res) - more
      /\ more = 0 => results' = res
      /\ more < Len(res) => results'[Len(results')] = res[Len(res)]
  <2> HIDE DEF more
  <2> QED
    BY <1>1, <1>2, CutFacts
<1>6. Len(results') + Len(failures') <= MaxEntries
  <2>1. CASE excess > Len(fails)
    <3>1. more = Len(res) - MaxEntries
      BY <1>2, <2>1
    <3>2. Len(failures') = 0 /\ Len(results') = MaxEntries
      BY <1>2, <1>4, <1>5, <2>1, <3>1
    <3> QED
      BY <1>2, <3>2
  <2>2. CASE excess <= Len(fails)
    <3>1. more = 0 /\ Len(results') = Len(res)
      BY <1>2, <1>5, <2>2
    <3>2. Len(failures') = Len(fails) - excess
      BY <1>4, <2>2
    <3> QED
      BY <1>2, <3>1, <3>2
  <2> QED
    BY <1>2, <2>1, <2>2
<1> HIDE DEF excess, more
<1>7. Len(res) > MaxEntries =>
        Len(results') = MaxEntries /\ res[Len(res)] \in InSeq(results')
  <2>1. SUFFICES ASSUME Len(res) > MaxEntries
                 PROVE  Len(results') = MaxEntries /\ res[Len(res)] \in InSeq(results')
    OBVIOUS
  <2>2. more < Len(res) /\ Len(results') = MaxEntries
    BY <1>2, <1>3, <1>5, <2>1
  <2>3. Len(results') \in DOMAIN results'
    BY <1>2, <1>5, <2>2
  <2> QED
    BY <1>5, <2>2, <2>3 DEF InSeq
<1> QED
  BY <1>3, <1>4, <1>5, <1>6, <1>7 DEF CacheOK

\* A step on the cache: it fits, and a result that goes makes room for a new one.
CacheStep ==
    /\ CacheOK'
    /\ \A k \in InSeq(results) \ InSeq(results') :
        Len(results') = MaxEntries /\ InSeq(results') \ InSeq(results) # {}

\* Storing a success moves its key to the end of the results; one that is new takes the
\* room of the oldest at most.
LEMMA SuccessStep ==
    ASSUME CacheOK, NEW k \in Keys, StoreSuccess(k) PROVE CacheStep
<1> DEFINE res == Later(results, k)
           fails == Without(failures, k)
<1>1. /\ res \in Seq(Keys) /\ InSeq(results) \subseteq InSeq(res)
      /\ Len(res) = IF k \in InSeq(results) THEN Len(results) ELSE Len(results) + 1
      /\ res[Len(res)] = k
  BY LaterFacts DEF CacheOK
<1>2. fails \in Seq(Keys)
  BY WithoutFacts DEF CacheOK
<1>3. Store(res, fails)
  BY DEF StoreSuccess
<1>4. /\ Len(results) \in Nat /\ Len(failures) \in Nat /\ MaxEntries \in Nat
      /\ Len(results) <= MaxEntries
  BY InvestigationConstants DEF CacheOK
<1> HIDE DEF res, fails
<1>5. CASE Len(res) <= MaxEntries
  <2>1. CacheOK' /\ results' = res
    BY <1>1, <1>2, <1>3, <1>5, StoreFacts
  <2> QED
    BY <1>1, <2>1 DEF CacheStep
<1>6. CASE Len(res) > MaxEntries
  <2>1. CacheOK' /\ Len(results') = MaxEntries /\ k \in InSeq(results')
    BY <1>1, <1>2, <1>3, <1>6, StoreFacts
  <2>2. k \notin InSeq(results)
    BY <1>1, <1>4, <1>6
  <2> QED
    BY <2>1, <2>2 DEF CacheStep
<1> QED
  BY <1>1, <1>4, <1>5, <1>6

\* Recording a failure keeps every result.
LEMMA FailureStep ==
    ASSUME CacheOK, NEW k \in Keys, RecordFailure(k) PROVE CacheStep
<1>1. /\ Len(results) \in Nat /\ Len(failures) \in Nat /\ MaxEntries \in Nat
      /\ Len(results) <= MaxEntries
  BY InvestigationConstants DEF CacheOK
<1>2. CASE k \in InSeq(results)
  <2> DEFINE res == Later(results, k)
  <2>1. /\ res \in Seq(Keys) /\ InSeq(results) \subseteq InSeq(res)
        /\ Len(res) = Len(results)
    BY <1>2, LaterFacts DEF CacheOK
  <2>2. Store(res, failures)
    BY <1>2 DEF RecordFailure
  <2> HIDE DEF res
  <2>3. CacheOK' /\ results' = res
    BY <1>1, <2>1, <2>2, StoreFacts DEF CacheOK
  <2> QED
    BY <2>1, <2>3 DEF CacheStep
<1>3. CASE k \notin InSeq(results)
  <2>1. Later(failures, k) \in Seq(Keys)
    BY LaterFacts DEF CacheOK
  <2>2. CacheOK' /\ results' = results
    BY <1>1, <1>3, <2>1, StoreFacts DEF CacheOK, RecordFailure
  <2> QED
    BY <2>2 DEF CacheStep
<1> QED
  BY <1>2, <1>3

-----------------------------------------------------------------------------
(* The records in memory                                                   *)

\* Besides the types: a record in use is for some key, and the index by identity leads to
\* records in use.
RecordsOK(recs, byI) ==
    /\ recs \in [Records -> Record]
    /\ byI \in [Groups -> Records \cup {None}]
    /\ \A r \in Records : recs[r].pc # "unused" => recs[r].key \in Keys
    /\ \A g \in Groups : byI[g] # None => recs[byI[g]].pc # "unused"

MemoryOK ==
    /\ RecordsOK(records, byIdentity)
    /\ byCacheKey \in [Keys -> Records \cup {None}]
    /\ asked \in [Asks -> Ask \cup {None}]
    /\ older \subseteq Records \X Records

\* A record that is not used is of the type, whatever it is made of.
LEMMA NewRecords ==
    /\ Unused \in Record /\ Unused.pc = "unused"
    /\ \A k \in Keys, refresh \in BOOLEAN :
            /\ Queued(k, refresh) \in Record
            /\ Queued(k, refresh).pc = "queued" /\ Queued(k, refresh).key = k
    /\ \A k \in Keys :
            Recovered(k) \in Record /\ Recovered(k).pc = "over" /\ Recovered(k).key = k
BY DEF Unused, Record, Queued, Recovered, View, Working

\* What the indexes do not hold and no run works for is let go; what they hold stays.
LEMMA HoldStep ==
    ASSUME NEW recs, NEW byI, RecordsOK(recs, byI),
           NEW byK \in [Keys -> Records \cup {None}],
           NEW order, order \subseteq Records \X Records,
           Hold(recs, byI, byK, order), asked' \in [Asks -> Ask \cup {None}]
    PROVE  MemoryOK'
<1>1. /\ byIdentity' = byI /\ byCacheKey' = byK /\ older' \subseteq order
      /\ \A r \in Records : records'[r] \in {recs[r], Unused}
      /\ \A r \in Records : r \in IndexOf(byI) => records'[r] = recs[r]
      /\ records' = [r \in Records |-> records'[r]]
  BY DEF Hold
<1>2. \A r \in Records : /\ records'[r] \in Record
                         /\ records'[r].pc # "unused" => records'[r].key \in Keys
  BY <1>1, NewRecords DEF RecordsOK
<1>3. records' \in [Records -> Record]
  BY <1>1, <1>2
<1>4. ASSUME NEW g \in Groups, byI[g] # None PROVE records'[byI[g]].pc # "unused"
  <2>1. byI[g] \in Records /\ byI[g] \in IndexOf(byI)
    BY <1>4 DEF RecordsOK, IndexOf
  <2> QED
    BY <1>1, <1>4, <2>1 DEF RecordsOK
<1>5. RecordsOK(records', byI)
  BY <1>2, <1>3, <1>4 DEF RecordsOK
<1> QED
  BY <1>1, <1>5 DEF MemoryOK

\* The order after an update relates records.
LEMMA UpdatedType ==
    ASSUME MemoryOK, NEW r \in Records PROVE Updated(r) \subseteq Records \X Records
BY DEF Updated, InUse, MemoryOK

\* A new record in the indexes (Start, storeRecovered).
LEMMA InsertStep ==
    ASSUME MemoryOK, NEW r \in Records, NEW new \in Record, new.pc # "unused",
           new.key \in Keys, NEW asks \in [Asks -> Ask \cup {None}], Insert(r, new, asks)
    PROVE  MemoryOK'
<1> DEFINE g == new.key[1]
           recs == [records EXCEPT ![r] = new]
           byI == [byIdentity EXCEPT ![g] = r]
           byK == [byCacheKey EXCEPT ![new.key] = r]
           order == Updated(r)
           gone == Pruned(recs, byI, order)
           gonefrom == {q[1] : q \in {recs[p].key : p \in gone}}
           nextI == [x \in Groups |-> IF byI[x] \in gone THEN None ELSE byI[x]]
           nextK == [k \in Keys |-> IF byK[k] \in gone THEN None ELSE byK[k]]
<1>1. /\ Hold(recs, nextI, nextK, order)
      /\ asked' = [a \in Asks |->
            IF asks[a] # None /\ asks[a].group \in gonefrom THEN None ELSE asks[a]]
  BY DEF Insert
<1>2. g \in Groups
  BY DEF Keys
<1>3. order \subseteq Records \X Records
  BY UpdatedType
<1> HIDE DEF g, order, gone, gonefrom
<1>4. recs \in [Records -> Record] /\ byI \in [Groups -> Records \cup {None}]
  BY <1>2 DEF MemoryOK, RecordsOK
<1>5. /\ \A p \in Records : recs[p] = IF p = r THEN new ELSE records[p]
      /\ \A x \in Groups : byI[x] = IF x = g THEN r ELSE byIdentity[x]
  BY <1>2 DEF MemoryOK, RecordsOK
<1>6. byK \in [Keys -> Records \cup {None}]
  BY DEF MemoryOK
<1> HIDE DEF recs, byI, byK
<1>7. nextK \in [Keys -> Records \cup {None}] /\ nextI \in [Groups -> Records \cup {None}]
  BY <1>4, <1>6
<1>8. \A x \in Groups : nextI[x] # None => recs[nextI[x]].pc # "unused"
  <2>1. ASSUME NEW x \in Groups, nextI[x] # None PROVE recs[nextI[x]].pc # "unused"
    <3>1. nextI[x] = byI[x] /\ byI[x] \in Records
      BY <1>4, <2>1
    <3> QED
      BY <1>5, <2>1, <3>1 DEF MemoryOK, RecordsOK
  <2> QED
    BY <2>1
<1>9. \A p \in Records : recs[p].pc # "unused" => recs[p].key \in Keys
  BY <1>5 DEF MemoryOK, RecordsOK
<1> HIDE DEF nextI, nextK
<1>10. RecordsOK(recs, nextI)
  BY <1>4, <1>7, <1>8, <1>9 DEF RecordsOK
<1>11. asked' \in [Asks -> Ask \cup {None}]
  BY <1>1
<1> QED
  BY <1>1, <1>3, <1>7, <1>10, <1>11, HoldStep

\* A run that reports changes its record (updatePhase, finish).
LEMMA ShowStep ==
    ASSUME MemoryOK, NEW r \in Records, records[r].pc # "unused",
           NEW pc \in {"over"} \cup Working, NEW view \in View,
           NEW running \in BOOLEAN, NEW prior \in BOOLEAN,
           Show(r, pc, view, running, prior)
    PROVE  MemoryOK'
<1> DEFINE new == Shown(r, pc, view, running, prior)
           recs == [records EXCEPT ![r] = new]
           order == IF IsCurrent(r) THEN Updated(r) ELSE older
<1>1. Hold(recs, byIdentity, byCacheKey, order) /\ asked' = asked
  BY DEF Show
<1>2. records[r] \in Record
  BY DEF MemoryOK, RecordsOK
<1>3. new \in Record /\ new.pc = pc /\ new.key = records[r].key
  <2>1. pc # "unused"
    BY DEF Working
  <2>2. CASE IsCurrent(r)
    <3> DEFINE f == [records[r] EXCEPT !.pc = pc, !.view = view, !.running = running,
                       !.prior = prior, !.refresh = records[r].refresh /\ pc # "over"]
    <3>1. new = f
      BY <2>2 DEF Shown
    <3>2. (records[r].refresh /\ pc # "over") \in BOOLEAN
      BY <1>2 DEF Record
    <3>3. f \in Record /\ f.pc = pc /\ f.key = records[r].key
      BY <1>2, <3>2 DEF Record
    <3> QED
      BY <3>1, <3>3
  <2>3. CASE ~IsCurrent(r)
    <3>1. new = [records[r] EXCEPT !.pc = pc, !.prior = prior]
      BY <2>3 DEF Shown
    <3> QED
      BY <1>2, <3>1 DEF Record
  <2> QED
    BY <2>2, <2>3
<1> HIDE DEF new
<1>4. pc # "unused"
  BY DEF Working
<1>5. \A p \in Records : recs[p] = IF p = r THEN new ELSE records[p]
  BY DEF MemoryOK, RecordsOK
<1>6. recs \in [Records -> Record]
  BY <1>3 DEF MemoryOK, RecordsOK
<1> HIDE DEF recs
<1>7. RecordsOK(recs, byIdentity)
  BY <1>3, <1>4, <1>5, <1>6 DEF MemoryOK, RecordsOK
<1>8. order \subseteq Records \X Records
  BY UpdatedType DEF MemoryOK
<1> HIDE DEF order
<1> QED
  BY <1>1, <1>7, <1>8, HoldStep DEF MemoryOK

\* A run that only goes on.
LEMMA GotoStep ==
    ASSUME MemoryOK, NEW r \in Records, records[r].pc # "unused", NEW pc \in Working, Goto(r, pc)
    PROVE  MemoryOK'
<1> DEFINE new == [records[r] EXCEPT !.pc = pc]
<1>1. records[r] \in Record /\ records[r].key \in Keys
  BY DEF MemoryOK, RecordsOK
<1>2. new \in Record /\ new.pc = pc /\ new.key = records[r].key
  BY <1>1 DEF Record
<1>3. records' = [records EXCEPT ![r] = new]
  BY <1>1 DEF Goto, MemoryOK, RecordsOK
<1>4. pc # "unused"
  BY DEF Working
<1> HIDE DEF new
<1>5. \A p \in Records : records'[p] = IF p = r THEN new ELSE records[p]
  BY <1>3 DEF MemoryOK, RecordsOK
<1>6. records' \in [Records -> Record]
  BY <1>2, <1>3 DEF MemoryOK, RecordsOK
<1>7. RecordsOK(records', byIdentity)
  BY <1>1, <1>2, <1>4, <1>5, <1>6 DEF MemoryOK, RecordsOK
<1> QED
  BY <1>7 DEF Goto, MemoryOK

-----------------------------------------------------------------------------
(* The calls, and the whole                                                *)

\* Besides the types: a call that will make a record knows for which key.
CallOK(q) ==
    /\ q \in Call
    /\ q.op = "enqueue" => q.head \in Heads
    /\ q.op \in {"recover", "confirm", "store"} => q.found \in Keys
CallsOK ==
    /\ calls = [c \in Calls |-> calls[c]]
    /\ \A c \in Calls : calls[c] # None => CallOK(calls[c])

PlaceOK == published \subseteq Groups /\ head \in Heads /\ misled \in BOOLEAN /\ faults \in Nat

InvestigationInv == PlaceOK /\ MemoryOK /\ CacheOK /\ CallsOK

\* A step that ends one call or moves it on.
LEMMA OneCall ==
    ASSUME CallsOK, NEW c \in Calls, NEW q, q = None \/ CallOK(q),
           calls' = [calls EXCEPT ![c] = q]
    PROVE  CallsOK'
<1>1. \A d \in Calls : calls'[d] = IF d = c THEN q ELSE calls[d]
  BY DEF CallsOK
<1>2. calls' = [d \in Calls |-> calls'[d]]
  BY DEF CallsOK
<1> QED
  BY <1>1, <1>2 DEF CallsOK

\* What a step that leaves memory and cache alone keeps.
LEMMA SameStore ==
    ASSUME MemoryOK, CacheOK, UNCHANGED memory, UNCHANGED cache
    PROVE  MemoryOK' /\ CacheOK'
BY DEF MemoryOK, RecordsOK, CacheOK, memory, cache

\* A step that ends one call or moves it on, and changes nothing else.
LEMMA CallGoes ==
    ASSUME InvestigationInv, NEW c \in Calls, NEW q, q = None \/ CallOK(q), Proceed(c, q)
    PROVE  InvestigationInv'
<1>1. CallsOK'
  BY OneCall DEF Proceed, InvestigationInv
<1>2. MemoryOK' /\ CacheOK'
  BY SameStore DEF Proceed, InvestigationInv
<1> QED
  BY <1>1, <1>2 DEF Proceed, Changes, InvestigationInv, PlaceOK

\* A call that begins.
LEMMA CallBegins ==
    ASSUME InvestigationInv, NEW c \in Calls, NEW op \in {"start", "get"}, NEW g \in Groups,
           NEW a \in Asks \cup {None}, NEW refresh \in BOOLEAN,
           Proceed(c, NewCall(op, g, a, refresh))
    PROVE  InvestigationInv'
<1> DEFINE q == NewCall(op, g, a, refresh)
<1>1. q \in Call /\ q.op = op
  BY DEF NewCall, Call
<1> HIDE DEF q
<1>2. CallOK(q)
  BY <1>1 DEF CallOK
<1> QED
  BY <1>2, CallGoes DEF q

\* What is known of a call that goes on.
LEMMA CallFacts ==
    ASSUME InvestigationInv, NEW c \in Calls, calls[c] # None
    PROVE  /\ CallOK(calls[c]) /\ calls[c] \in Call /\ calls[c].group \in Groups
           /\ calls[c].found \in Keys \cup {None} /\ head \in Heads
           /\ \A g : Now(g) \subseteq Heads
<1>1. CallOK(calls[c]) /\ head \in Heads
  BY DEF InvestigationInv, CallsOK, PlaceOK
<1> QED
  BY <1>1 DEF CallOK, Call, Now

\* A start: it resolves and enqueues, or gives up (as a status call may).
LEMMA StartStep ==
    ASSUME InvestigationInv, NEW c \in Calls,
           \/ \E g \in Groups, a \in Asks, refresh \in BOOLEAN : BeginStart(c, g, a, refresh)
           \/ ResolveStart(c) \/ Enqueue(c) \/ GiveUp(c)
    PROVE  InvestigationInv'
<1>1. CASE \E g \in Groups, a \in Asks, refresh \in BOOLEAN : BeginStart(c, g, a, refresh)
  BY <1>1, CallBegins DEF BeginStart
<1>2. ASSUME Enqueue(c) PROVE InvestigationInv'
  <2> DEFINE q == calls[c]
             k == <<q.group, q.head>>
             now == [asked EXCEPT ![q.ask] = [group |-> q.group, refresh |-> q.refresh]]
  <2>1. /\ q # None /\ q.op = "enqueue" /\ Return(c)
        /\ \/ UNCHANGED memory
           \/ asked' = now /\ UNCHANGED <<records, byIdentity, byCacheKey, older>>
           \/ IsFree /\ Insert(Free, Queued(k, q.refresh), now)
    BY <1>2 DEF Enqueue
  <2>2. q \in Call /\ q.head \in Heads
    BY <2>1, CallFacts DEF CallOK
  <2>3. q.group \in Groups /\ q.refresh \in BOOLEAN /\ k \in Keys
    BY <2>2 DEF Call, Keys
  <2>4. now \in [Asks -> Ask \cup {None}]
    <3>1. [group |-> q.group, refresh |-> q.refresh] \in Ask
      BY <2>3 DEF Ask
    <3> QED
      BY <3>1 DEF InvestigationInv, MemoryOK
  <2>5. MemoryOK'
    <3>1. CASE UNCHANGED memory
      BY <3>1 DEF InvestigationInv, MemoryOK, RecordsOK, memory
    <3>2. CASE asked' = now /\ UNCHANGED <<records, byIdentity, byCacheKey, older>>
      BY <2>4, <3>2 DEF InvestigationInv, MemoryOK, RecordsOK
    <3>3. CASE IsFree /\ Insert(Free, Queued(k, q.refresh), now)
      <4>1. Free \in Records
        BY <3>3 DEF IsFree, Free
      <4>2. /\ Queued(k, q.refresh) \in Record /\ Queued(k, q.refresh).pc # "unused"
            /\ Queued(k, q.refresh).key \in Keys
        BY <2>3, NewRecords
      <4> HIDE DEF k, now, q
      <4> QED
        BY <2>4, <3>3, <4>1, <4>2, InsertStep DEF InvestigationInv
    <3> QED
      BY <2>1, <3>1, <3>2, <3>3
  <2>6. CallsOK' /\ CacheOK' /\ PlaceOK'
    <3>1. calls' = [calls EXCEPT ![c] = None] /\ UNCHANGED <<published, head, misled, faults>>
          /\ UNCHANGED cache
      BY <2>1 DEF Return, Changes
    <3>2. CallsOK'
      BY <3>1, OneCall DEF InvestigationInv
    <3> QED
      BY <3>1, <3>2 DEF InvestigationInv, CacheOK, PlaceOK, cache
  <2> QED
    BY <2>5, <2>6 DEF InvestigationInv
<1>3. CASE ResolveStart(c)
  <2> DEFINE q == calls[c]
             p == [q EXCEPT !.op = "enqueue", !.head = head]
  <2>1. q # None /\ Proceed(c, p)
    BY <1>3 DEF ResolveStart
  <2>2. CallOK(p)
    BY <2>1, CallFacts DEF CallOK, Call
  <2> HIDE DEF p
  <2> QED
    BY <2>1, <2>2, CallGoes
<1>4. CASE GiveUp(c)
  BY <1>4, CallGoes DEF GiveUp
<1> QED
  BY <1>1, <1>2, <1>3, <1>4

\* A status call goes on to the next read: it begins, finds a record, reads the snapshot and
\* the revision, looks the cache up and validates what it found there.
LEMMA GetStep ==
    ASSUME InvestigationInv, NEW c \in Calls,
           \/ \E g \in Groups : BeginGet(c, g)
           \/ FindRecord(c) \/ ReadSnapshot(c) \/ Answer(c) \/ LookUp(c)
           \/ ValidateRecovered(c) \/ ConfirmRecovered(c)
    PROVE  InvestigationInv'
<1> DEFINE q == calls[c]
<1>1. CASE \E g \in Groups : BeginGet(c, g)
  BY <1>1, CallBegins DEF BeginGet
<1>2. ASSUME NEW op \in {"found", "resolve", "confirm", "store"}, q # None,
             op \in {"confirm", "store"} => q.found \in Keys,
             Proceed(c, [q EXCEPT !.op = op])
      PROVE  InvestigationInv'
  <2> DEFINE p == [q EXCEPT !.op = op]
  <2>1. CallOK(p)
    BY <1>2, CallFacts DEF CallOK, Call
  <2> HIDE DEF p
  <2> QED
    BY <1>2, <2>1, CallGoes DEF p
<1>3. CASE FindRecord(c)
  <2> DEFINE r == byIdentity[q.group]
             f == [q EXCEPT !.op = "found", !.found = Key(r), !.seen = Now(q.group)]
  <2>1. q # None /\ (IF r = None THEN Proceed(c, [q EXCEPT !.op = "found"]) ELSE Proceed(c, f))
    BY <1>3 DEF FindRecord
  <2>2. CASE r = None
    BY <1>2, <2>1, <2>2
  <2>3. CASE r # None
    <3>1. Key(r) \in Keys
      BY <2>1, <2>3, CallFacts DEF InvestigationInv, MemoryOK, RecordsOK, Key
    <3>2. q \in Call /\ Now(q.group) \subseteq Heads
      BY <2>1, CallFacts
    <3>3. f \in Call /\ f.op = "found"
      BY <3>1, <3>2 DEF Call
    <3>4. CallOK(f)
      BY <3>3 DEF CallOK
    <3> HIDE DEF f
    <3> QED
      BY <2>1, <2>3, <3>4, CallGoes
  <2> QED
    BY <2>2, <2>3
<1>4. CASE ReadSnapshot(c)
  BY <1>2, <1>4 DEF ReadSnapshot
<1>5. CASE Answer(c)
  <2> DEFINE p == [q EXCEPT !.op = "lookup", !.head = head]
  <2>1. q # None /\ (Proceed(c, p) \/ Answered(c))
    BY <1>5 DEF Answer
  <2>2. CASE Proceed(c, p)
    <3>1. CallOK(p)
      BY <2>1, CallFacts DEF CallOK, Call
    <3> HIDE DEF p
    <3> QED
      BY <2>2, <3>1, CallGoes
  <2>3. CASE Answered(c)
    <3>1. CallsOK'
      BY <2>3, OneCall DEF Answered, InvestigationInv
    <3>2. MemoryOK' /\ CacheOK'
      BY <2>3, SameStore DEF Answered, InvestigationInv
    <3>3. misled' \in BOOLEAN
      BY <2>3 DEF Answered, InvestigationInv, PlaceOK
    <3> QED
      BY <2>3, <3>1, <3>2, <3>3 DEF Answered, Changes, InvestigationInv, PlaceOK
  <2> QED
    BY <2>1, <2>2, <2>3
<1>6. CASE LookUp(c)
  <2> DEFINE k == <<q.group, q.head>>
             p == [q EXCEPT !.op = "recover", !.head = None, !.found = k, !.seen = Now(q.group)]
  <2>1. q # None /\ Proceed(c, p) /\ k \in Keys
    BY <1>6 DEF LookUp, InvestigationInv, CacheOK, InSeq
  <2> HIDE DEF k
  <2>2. CallOK(p)
    BY <2>1, CallFacts DEF CallOK, Call
  <2> HIDE DEF p
  <2> QED
    BY <2>1, <2>2, CallGoes
<1>7. CASE ValidateRecovered(c)
  <2>1. q # None /\ q.op = "recover" /\ Proceed(c, [q EXCEPT !.op = "confirm"])
    BY <1>7 DEF ValidateRecovered
  <2>2. q.found \in Keys
    BY <2>1, CallFacts DEF CallOK
  <2> QED
    BY <1>2, <2>1, <2>2
<1>8. CASE ConfirmRecovered(c)
  <2>1. q # None /\ q.op = "confirm" /\ Proceed(c, [q EXCEPT !.op = "store"])
    BY <1>8 DEF ConfirmRecovered
  <2>2. q.found \in Keys
    BY <2>1, CallFacts DEF CallOK
  <2> QED
    BY <1>2, <2>1, <2>2
<1> QED
  BY <1>1, <1>3, <1>4, <1>5, <1>6, <1>7, <1>8

\* A status call brings a result of the cache back into the memory.
LEMMA RecoverStep ==
    ASSUME InvestigationInv, NEW c \in Calls, StoreRecovered(c) PROVE InvestigationInv'
<1> DEFINE q == calls[c]
           k == q.found
<1>1. /\ q # None /\ q.op = "store" /\ IsFree /\ Insert(Free, Recovered(k), asked)
      /\ calls' = [calls EXCEPT ![c] = None] /\ Changes /\ UNCHANGED <<cache, faults>>
      /\ misled' = (misled \/ Misleads(q))
  BY DEF StoreRecovered
<1>2. k \in Keys
  BY <1>1, CallFacts DEF CallOK
<1>3. MemoryOK'
  <2>1. Free \in Records
    BY <1>1 DEF IsFree, Free
  <2>2. /\ Recovered(k) \in Record /\ Recovered(k).pc # "unused"
        /\ Recovered(k).key \in Keys
    BY <1>2, NewRecords
  <2>3. asked \in [Asks -> Ask \cup {None}]
    BY DEF InvestigationInv, MemoryOK
  <2> HIDE DEF k
  <2> QED
    BY <1>1, <2>1, <2>2, <2>3, InsertStep DEF InvestigationInv
<1>4. CallsOK'
  BY <1>1, OneCall DEF InvestigationInv
<1>5. misled' \in BOOLEAN
  BY <1>1 DEF InvestigationInv, PlaceOK
<1> QED
  BY <1>1, <1>3, <1>4, <1>5 DEF InvestigationInv, PlaceOK, CacheOK, Changes, cache

\* A step of a run: what it reports is of the type, and what it writes fits the cache.
LEMMA RunningStep ==
    ASSUME InvestigationInv, NEW r \in Records, RunStep(r)
    PROVE  InvestigationInv' /\ CacheStep
<1>1. /\ Run /\ records[r].pc # "unused"
      /\ faults' \in {faults, faults + 1}
  BY DEF RunStep, Acquire, TimeOut, Investigated, NotInvestigated, ValidateBeforePublish,
         CompareRevision, PublishResult, FallBack, ReturnPrevious, FaultyWrite, Working
<1>2. /\ MemoryOK /\ CacheOK /\ records[r] \in Record /\ Key(r) \in Keys
      /\ records[r].running \in BOOLEAN /\ records[r].prior \in BOOLEAN
  BY <1>1 DEF InvestigationInv, MemoryOK, RecordsOK, Record, Key
<1>3. UNCHANGED cache => CacheStep
  BY <1>2 DEF CacheOK, CacheStep, cache
<1>4. (UNCHANGED cache \/ StoreSuccess(Key(r)) \/ RecordFailure(Key(r))) => CacheStep
  BY <1>2, <1>3, SuccessStep, FailureStep
<1>5. CacheStep
  <2>1. UNCHANGED cache \/ StoreSuccess(Key(r)) \/ RecordFailure(Key(r))
    BY DEF RunStep, Acquire, TimeOut, Investigated, NotInvestigated, ValidateBeforePublish,
           CompareRevision, PublishResult, FallBack, ReturnPrevious, FaultyWrite
  <2> QED
    BY <1>4, <2>1
<1>6. ASSUME NEW view \in View, Finish(r, view) PROVE MemoryOK'
  BY <1>1, <1>2, <1>6, ShowStep DEF Finish
<1>7. ASSUME NEW pc \in Working, NEW view \in View, NEW prior \in BOOLEAN,
             UpdatePhase(r, pc, view, prior)
      PROVE  MemoryOK'
  BY <1>1, <1>2, <1>7, ShowStep DEF UpdatePhase
<1>8. {"investigating", "verifying", "result", "failed", "stale"} \subseteq View
  BY DEF View
<1>9. MemoryOK'
  <2>1. CASE Acquire(r)
    <3>1. UpdatePhase(r, "investigating", "investigating", Key(r) \in InSeq(results))
      BY <2>1 DEF Acquire
    <3>2. (Key(r) \in InSeq(results)) \in BOOLEAN
      OBVIOUS
    <3>3. "investigating" \in Working
      BY DEF Working
    <3> QED
      BY <1>7, <1>8, <3>1, <3>2, <3>3
  <2>2. CASE TimeOut(r) \/ PublishResult(r) \/ ReturnPrevious(r)
    BY <1>6, <1>8, <2>2 DEF TimeOut, PublishResult, ReturnPrevious
  <2>3. CASE Investigated(r)
    <3>1. UpdatePhase(r, "verifying", "verifying", records[r].prior)
      BY <2>3 DEF Investigated
    <3>2. "verifying" \in Working
      BY DEF Working
    <3> QED
      BY <1>2, <1>7, <1>8, <3>1, <3>2
  <2>4. CASE NotInvestigated(r)
    <3>1. UpdatePhase(r, "fallingBack", "verifying", TRUE) \/ Finish(r, "failed")
      BY <2>4 DEF NotInvestigated
    <3>2. "fallingBack" \in Working
      BY DEF Working
    <3> QED
      BY <1>6, <1>7, <1>8, <3>1, <3>2
  <2>5. CASE ValidateBeforePublish(r) \/ CompareRevision(r) \/ FallBack(r)
    <3>1. \/ \E view \in {"stale", "failed", "result"} : Finish(r, view)
          \/ \E pc \in {"comparing", "validated", "returning"} : Goto(r, pc)
      BY <2>5 DEF ValidateBeforePublish, CompareRevision, FallBack
    <3>2. CASE \E view \in {"stale", "failed", "result"} : Finish(r, view)
      BY <1>6, <1>8, <3>2
    <3>3. CASE \E pc \in {"comparing", "validated", "returning"} : Goto(r, pc)
      BY <1>1, <1>2, <3>3, GotoStep DEF Working
    <3> QED
      BY <3>1, <3>2, <3>3
  <2> QED
    BY <2>1, <2>2, <2>3, <2>4, <2>5 DEF RunStep
<1>10. PlaceOK' /\ CallsOK'
  BY <1>1 DEF Run, Changes, InvestigationInv, PlaceOK, CallsOK
<1> QED
  BY <1>5, <1>9, <1>10 DEF InvestigationInv, CacheStep

\* The snapshot, the revision and the server change.
LEMMA OutsideStep ==
    ASSUME InvestigationInv, MoveHead \/ Publish \/ Restart PROVE InvestigationInv'
<1>1. CASE Restart
  <2>1. PlaceOK'
    BY <1>1 DEF Restart, Changes, InvestigationInv, PlaceOK
  <2>2. CacheOK'
    BY <1>1 DEF Restart, InvestigationInv, CacheOK, cache
  <2>3. CallsOK'
    BY <1>1 DEF Restart, CallsOK
  <2>4. MemoryOK'
    BY <1>1, NewRecords DEF Restart, MemoryOK, RecordsOK
  <2> QED
    BY <2>1, <2>2, <2>3, <2>4 DEF InvestigationInv
<1>2. CASE MoveHead \/ Publish
  <2>1. PlaceOK' /\ calls' = Saw
    BY <1>2, InvestigationConstants DEF MoveHead, Publish, InvestigationInv, PlaceOK
  <2>2. MemoryOK' /\ CacheOK'
    BY <1>2, SameStore DEF MoveHead, Publish, InvestigationInv
  <2>3. ASSUME NEW c \in Calls, calls'[c] # None PROVE CallOK(calls'[c])
    <3> DEFINE q == calls[c]
               h == {x \in {head'} : q.found # None /\ (q.group \in published' \/ q.seen # {})}
               p == [q EXCEPT !.seen = q.seen \cup h]
    <3>1. q # None /\ calls'[c] = p
      BY <2>1, <2>3 DEF Saw
    <3>2. CallOK(q)
      BY <3>1, CallFacts
    <3>3. h \subseteq Heads
      BY <2>1 DEF PlaceOK
    <3> HIDE DEF h
    <3>4. CallOK(p)
      BY <3>2, <3>3 DEF CallOK, Call
    <3> QED
      BY <3>1, <3>4
  <2>4. CallsOK'
    BY <2>1, <2>3 DEF Saw, CallsOK
  <2> QED
    BY <2>1, <2>2, <2>4 DEF InvestigationInv
<1> QED
  BY <1>1, <1>2

\* Every step keeps the invariant, and every result but for a newer one.
LEMMA InvestigationNext ==
    InvestigationInv /\ [Next]_vars => InvestigationInv' /\ CacheStep
<1> SUFFICES ASSUME InvestigationInv, [Next]_vars PROVE InvestigationInv' /\ CacheStep
  OBVIOUS
<1>1. UNCHANGED cache /\ CacheOK' => CacheStep
  BY DEF CacheStep, cache
<1>2. ASSUME NEW c \in Calls, CallStep(c) PROVE InvestigationInv' /\ CacheStep
  <2>1. InvestigationInv'
    BY <1>2, StartStep, GetStep, RecoverStep DEF CallStep
  <2>2. UNCHANGED cache
    BY <1>2 DEF CallStep, GiveUp, BeginStart, ResolveStart, Enqueue, Return, BeginGet,
                FindRecord, ReadSnapshot, Answer, Answered, LookUp, ValidateRecovered,
                ConfirmRecovered, StoreRecovered, Proceed
  <2> QED
    BY <1>1, <2>1, <2>2 DEF InvestigationInv
<1>3. ASSUME NEW r \in Records, RunStep(r) PROVE InvestigationInv' /\ CacheStep
  BY <1>3, RunningStep
<1>4. CASE MoveHead \/ Publish \/ Restart
  <2>1. UNCHANGED cache
    BY <1>4 DEF MoveHead, Publish, Restart
  <2> QED
    BY <1>1, <1>4, <2>1, OutsideStep DEF InvestigationInv
<1>5. CASE UNCHANGED vars
  <2>1. UNCHANGED memory /\ UNCHANGED cache /\ UNCHANGED <<published, head, calls, misled, faults>>
    BY <1>5 DEF vars
  <2>2. MemoryOK' /\ CacheOK'
    BY <2>1, SameStore DEF InvestigationInv
  <2> QED
    BY <1>1, <2>1, <2>2 DEF InvestigationInv, PlaceOK, CallsOK
<1> QED
  BY <1>2, <1>3, <1>4, <1>5 DEF Next

\* Everything is empty at first.
LEMMA InvestigationInit == Init => InvestigationInv
<1> SUFFICES ASSUME Init PROVE InvestigationInv
  OBVIOUS
<1>1. PlaceOK /\ CallsOK
  BY DEF Init, PlaceOK, CallsOK
<1>2. MemoryOK
  BY NewRecords DEF Init, MemoryOK, RecordsOK
<1>3. CacheOK
  <2>1. <<>> \in Seq(Keys) /\ Len(<<>>) = 0
    BY EmptySeq
  <2> QED
    BY <2>1, InvestigationConstants DEF Init, CacheOK
<1> QED
  BY <1>1, <1>2, <1>3 DEF InvestigationInv

\* The invariant holds in every reachable state of every instance.
THEOREM InvestigationInvariant == Spec => []InvestigationInv
BY InvestigationInit, InvestigationNext, PTL DEF Spec

\* Memory, indexes and calls keep their types, and the cache file never has more keys than
\* its limit, results and failures together.
THEOREM InvestigationTypes == Spec => []TypeOK
<1>1. InvestigationInv => TypeOK
  BY DEF InvestigationInv, PlaceOK, MemoryOK, RecordsOK, CacheOK, CallsOK, CallOK, TypeOK
<1> QED
  BY <1>1, InvestigationInvariant, PTL

\* A result leaves the cache only when a newer one takes its room, whatever fails and
\* whatever the limit: failures go before results, and a key stored again takes no room.
THEOREM ResultsStay == Spec => ResultsAreKept
<1>1. CacheStep =>
        [\A k \in InSeq(results) \ InSeq(results') :
            Len(results') = MaxEntries /\ InSeq(results') \ InSeq(results) # {}]_vars
  BY DEF CacheStep
<1> QED
  BY <1>1, InvestigationNext, InvestigationInvariant, PTL DEF Spec, ResultsAreKept

-----------------------------------------------------------------------------
(* What a status call shows                                                *)

Fields == {"op", "group", "head", "ask", "refresh", "found", "seen"}

\* A status call that found a result has seen the revision there is now, if its group was
\* published since; it was when the call asks for the revision, and what the call is about
\* to store was current.
CallSaw(q) ==
    /\ DOMAIN q = Fields
    /\ q.found # None /\ (q.group \in published \/ q.seen # {}) => head \in q.seen
    /\ q.found # None /\ q.op \in {"resolve", "confirm"} => q.seen # {}
    /\ q.op \in {"recover", "confirm", "store"} => q.found # None
    /\ q.op = "store" => q.found[2] \in q.seen

SawInvariant ==
    /\ DOMAIN calls = Calls
    /\ \A c \in Calls : calls[c] # None => CallSaw(calls[c])
    /\ AnswerIsCurrent

\* There are no calls at first.
LEMMA SawInit == Init => SawInvariant
BY DEF Init, SawInvariant, AnswerIsCurrent

\* A step that changes nothing a call looks at but one call, which ends or has seen what
\* there is.
LEMMA SawOne ==
    ASSUME SawInvariant, NEW c \in Calls, NEW q,
           UNCHANGED <<published, head>>, AnswerIsCurrent',
           calls' = [calls EXCEPT ![c] = q], q = None \/ CallSaw(q)
    PROVE  SawInvariant'
<1>1. \A d \in Calls : calls'[d] = IF d = c THEN q ELSE calls[d]
  BY DEF SawInvariant
<1>2. DOMAIN calls' = Calls
  BY DEF SawInvariant
<1>3. \A p : CallSaw(p)' <=> CallSaw(p)
  BY DEF CallSaw
<1>4. \A d \in Calls : calls'[d] # None => CallSaw(calls'[d])
  BY <1>1 DEF SawInvariant
<1> QED
  BY <1>2, <1>3, <1>4 DEF SawInvariant, CallSaw

\* A call goes on with what it has seen, or ends.
LEMMA SawGoes ==
    ASSUME SawInvariant, NEW c \in Calls, NEW q, Proceed(c, q), q = None \/ CallSaw(q)
    PROVE  SawInvariant'
BY SawOne DEF Proceed, Changes, SawInvariant, AnswerIsCurrent

\* A call that only moves on to an operation that asks for nothing new.
LEMMA SawSame ==
    ASSUME SawInvariant, NEW c \in Calls, NEW p, calls[c] # None, Proceed(c, p),
           DOMAIN p = Fields, p.group = calls[c].group, p.found = calls[c].found,
           p.seen = calls[c].seen, p.op \in {"enqueue", "found", "lookup"}
    PROVE  SawInvariant'
<1>1. CallSaw(calls[c])
  BY DEF SawInvariant
<1>2. CallSaw(p)
  BY <1>1 DEF CallSaw
<1> QED
  BY <1>2, SawGoes

\* A call begins without anything found.
LEMMA SawBegin ==
    ASSUME SawInvariant, NEW c \in Calls, NEW g, NEW a, NEW refresh, NEW op \in {"start", "get"},
           Proceed(c, NewCall(op, g, a, refresh))
    PROVE  SawInvariant'
<1> DEFINE q == NewCall(op, g, a, refresh)
<1>1. DOMAIN q = Fields /\ q.op = op /\ q.found = None
  BY DEF NewCall, Fields
<1> HIDE DEF q
<1>2. CallSaw(q)
  BY <1>1 DEF CallSaw
<1> QED
  BY <1>2, SawGoes DEF q

\* Start has nothing to show, and a call that gives up shows nothing.
LEMMA SawStart ==
    ASSUME SawInvariant, NEW c \in Calls,
           \/ \E g \in Groups, a \in Asks, refresh \in BOOLEAN : BeginStart(c, g, a, refresh)
           \/ ResolveStart(c) \/ Enqueue(c) \/ GiveUp(c)
    PROVE  SawInvariant'
<1>1. CASE \E g \in Groups, a \in Asks, refresh \in BOOLEAN : BeginStart(c, g, a, refresh)
  BY <1>1, SawBegin DEF BeginStart
<1>2. CASE ResolveStart(c)
  <2> DEFINE q == calls[c]
             p == [q EXCEPT !.op = "enqueue", !.head = head]
  <2>1. q # None /\ CallSaw(q) /\ Proceed(c, p)
    BY <1>2 DEF ResolveStart, SawInvariant
  <2>2. /\ DOMAIN p = Fields /\ p.group = q.group /\ p.found = q.found /\ p.seen = q.seen
        /\ p.op = "enqueue"
    BY <2>1 DEF CallSaw, Fields
  <2> HIDE DEF p
  <2> QED
    BY <2>1, <2>2, SawSame
<1>3. CASE Enqueue(c)
  <2>1. calls' = [calls EXCEPT ![c] = None] /\ UNCHANGED <<published, head, misled>>
    BY <1>3 DEF Enqueue, Return, Changes
  <2> QED
    BY <2>1, SawOne DEF SawInvariant, AnswerIsCurrent
<1>4. CASE GiveUp(c)
  BY <1>4, SawGoes DEF GiveUp
<1> QED
  BY <1>1, <1>2, <1>3, <1>4

\* A status call finds a record, or that there is none, and later reads the snapshot.
LEMMA SawFind ==
    ASSUME SawInvariant, NEW c \in Calls, FindRecord(c) \/ ReadSnapshot(c)
    PROVE  SawInvariant'
<1> DEFINE q == calls[c]
<1>1. q # None /\ CallSaw(q)
  BY DEF FindRecord, ReadSnapshot, SawInvariant
<1>2. ASSUME FindRecord(c) PROVE SawInvariant'
  <2> DEFINE r == byIdentity[q.group]
             p == [q EXCEPT !.op = "found"]
             f == [q EXCEPT !.op = "found", !.found = Key(r), !.seen = Now(q.group)]
  <2>1. Proceed(c, p) \/ Proceed(c, f)
    BY <1>2 DEF FindRecord
  <2>2. /\ DOMAIN p = Fields /\ p.group = q.group /\ p.found = q.found /\ p.seen = q.seen
        /\ p.op = "found"
    BY <1>1 DEF CallSaw, Fields
  <2>3. /\ DOMAIN f = Fields /\ f.group = q.group /\ f.seen = Now(q.group) /\ f.op = "found"
    BY <1>1 DEF CallSaw, Fields
  <2> HIDE DEF p, f
  <2>4. CallSaw(f)
    BY <2>3 DEF CallSaw, Now
  <2> QED
    BY <1>1, <2>1, <2>2, <2>4, SawSame, SawGoes
<1>3. ASSUME ReadSnapshot(c) PROVE SawInvariant'
  <2> DEFINE p == [q EXCEPT !.op = "resolve"]
  <2>1. q.group \in published /\ Proceed(c, p)
    BY <1>3 DEF ReadSnapshot
  <2>2. /\ DOMAIN p = Fields /\ p.group = q.group /\ p.found = q.found /\ p.seen = q.seen
        /\ p.op = "resolve"
    BY <1>1 DEF CallSaw, Fields
  <2> HIDE DEF p
  <2>3. CallSaw(p)
    BY <1>1, <2>1, <2>2 DEF CallSaw
  <2> QED
    BY <2>1, <2>3, SawGoes
<1> QED
  BY <1>2, <1>3

\* What a status call shows when it has asked for the revision was current: of a record, or
\* of the cache, where it was looked up in between.
LEMMA SawAnswer ==
    ASSUME SawInvariant, InvestigationInv, NEW c \in Calls, Answer(c) \/ LookUp(c)
    PROVE  SawInvariant'
<1> DEFINE q == calls[c]
<1>1. q # None /\ CallSaw(q) /\ ~misled
  BY DEF Answer, LookUp, SawInvariant, AnswerIsCurrent
<1>2. ASSUME Answer(c), q.found = None PROVE SawInvariant'
  <2> DEFINE p == [q EXCEPT !.op = "lookup", !.head = head]
  <2>1. Proceed(c, p)
    BY <1>2 DEF Answer
  <2>2. /\ DOMAIN p = Fields /\ p.group = q.group /\ p.found = q.found /\ p.seen = q.seen
        /\ p.op = "lookup"
    BY <1>1 DEF CallSaw, Fields
  <2> HIDE DEF p
  <2> QED
    BY <1>1, <2>1, <2>2, SawSame
<1>3. ASSUME Answer(c), q.found # None PROVE SawInvariant'
  <2>1. q.op = "resolve" /\ q.found = <<q.group, head>> /\ Answered(c)
    BY <1>3 DEF Answer
  <2>2. head \in q.seen
    BY <1>1, <1>3, <2>1 DEF CallSaw
  <2>3. q.found[2] = head
    BY <2>1
  <2>4. ~Misleads(q)
    BY <2>2, <2>3 DEF Misleads
  <2>5. calls' = [calls EXCEPT ![c] = None] /\ UNCHANGED <<published, head>> /\ ~misled'
    BY <1>1, <2>1, <2>4 DEF Answered, Changes
  <2> QED
    BY <2>5, SawOne DEF AnswerIsCurrent
<1>4. ASSUME LookUp(c) PROVE SawInvariant'
  <2> DEFINE k == <<q.group, q.head>>
             p == [q EXCEPT !.op = "recover", !.head = None, !.found = k,
                            !.seen = Now(q.group)]
  <2>1. Proceed(c, p)
    BY <1>4 DEF LookUp
  <2>2. /\ DOMAIN p = Fields /\ p.group = q.group /\ p.found = k /\ p.seen = Now(q.group)
        /\ p.op = "recover"
    BY <1>1 DEF CallSaw, Fields
  <2>3. k # None
    <3>1. k \in Keys
      BY <1>4 DEF LookUp, InvestigationInv, CacheOK, InSeq
    <3> QED
      BY <3>1, InvestigationConstants DEF Keys
  <2> HIDE DEF p, k
  <2>4. CallSaw(p)
    BY <2>2, <2>3 DEF CallSaw, Now
  <2> QED
    BY <2>1, <2>4, SawGoes
<1> QED
  BY <1>2, <1>3, <1>4

\* A result of the cache is shown when the snapshot, and later the revision, were read again.
LEMMA SawConfirm ==
    ASSUME SawInvariant, NEW c \in Calls,
           ValidateRecovered(c) \/ ConfirmRecovered(c) \/ StoreRecovered(c)
    PROVE  SawInvariant'
<1> DEFINE q == calls[c]
<1>1. q # None /\ CallSaw(q) /\ ~misled
  BY DEF ValidateRecovered, ConfirmRecovered, StoreRecovered, SawInvariant, AnswerIsCurrent
<1>2. ASSUME ValidateRecovered(c) PROVE SawInvariant'
  <2> DEFINE p == [q EXCEPT !.op = "confirm"]
  <2>1. q.op = "recover" /\ q.group \in published /\ Proceed(c, p)
    BY <1>2 DEF ValidateRecovered
  <2>2. /\ DOMAIN p = Fields /\ p.group = q.group /\ p.found = q.found /\ p.seen = q.seen
        /\ p.op = "confirm"
    BY <1>1 DEF CallSaw, Fields
  <2> HIDE DEF p
  <2>3. CallSaw(p)
    BY <1>1, <2>1, <2>2 DEF CallSaw
  <2> QED
    BY <2>1, <2>3, SawGoes
<1>3. ASSUME ConfirmRecovered(c) PROVE SawInvariant'
  <2> DEFINE p == [q EXCEPT !.op = "store"]
  <2>1. q.op = "confirm" /\ q.found[2] = head /\ Proceed(c, p)
    BY <1>3 DEF ConfirmRecovered
  <2>2. /\ DOMAIN p = Fields /\ p.group = q.group /\ p.found = q.found /\ p.seen = q.seen
        /\ p.op = "store"
    BY <1>1 DEF CallSaw, Fields
  <2> HIDE DEF p
  <2>3. CallSaw(p)
    BY <1>1, <2>1, <2>2 DEF CallSaw
  <2> QED
    BY <2>1, <2>3, SawGoes
<1>4. ASSUME StoreRecovered(c) PROVE SawInvariant'
  <2>1. q.op = "store" /\ calls' = [calls EXCEPT ![c] = None] /\ UNCHANGED <<published, head>>
        /\ misled' = (misled \/ Misleads(q))
    BY <1>4 DEF StoreRecovered, Changes
  <2>2. ~misled'
    BY <1>1, <2>1 DEF CallSaw, Misleads
  <2> QED
    BY <2>1, <2>2, SawOne DEF AnswerIsCurrent
<1> QED
  BY <1>2, <1>3, <1>4

\* When the snapshot or the revision changes, every call that found a result sees the new
\* revision, if its group is published or was since.
LEMMA SawMoves ==
    ASSUME SawInvariant, calls' = Saw, UNCHANGED misled PROVE SawInvariant'
<1> DEFINE Adds(q) == {h \in {head'} : q.found # None /\ (q.group \in published' \/ q.seen # {})}
           New(q) == [q EXCEPT !.seen = @ \cup Adds(q)]
           SawNow(p) ==
             /\ DOMAIN p = Fields
             /\ p.found # None /\ (p.group \in published' \/ p.seen # {}) => head' \in p.seen
             /\ p.found # None /\ p.op \in {"resolve", "confirm"} => p.seen # {}
             /\ p.op \in {"recover", "confirm", "store"} => p.found # None
             /\ p.op = "store" => p.found[2] \in p.seen
<1>1. DOMAIN calls' = Calls /\ AnswerIsCurrent'
  BY DEF Saw, SawInvariant, AnswerIsCurrent
<1>2. ASSUME NEW c \in Calls, calls'[c] # None PROVE CallSaw(calls[c]) /\ calls'[c] = New(calls[c])
  BY <1>2 DEF Saw, SawInvariant
<1>3. ASSUME NEW q, CallSaw(q) PROVE SawNow(New(q))
  <2> DEFINE p == New(q)
             a == Adds(q)
  <2>1. /\ DOMAIN p = Fields /\ p.op = q.op /\ p.found = q.found /\ p.group = q.group
        /\ p.seen = q.seen \cup a
    BY <1>3 DEF CallSaw, Fields
  <2>2. q.found # None /\ (q.group \in published' \/ q.seen # {}) => a = {head'}
    OBVIOUS
  <2>3. ~(q.found # None /\ (q.group \in published' \/ q.seen # {})) => a = {}
    OBVIOUS
  <2> HIDE DEF p, a
  <2>4. CallSaw(q)
    BY <1>3
  <2>5. SawNow(p)
    BY <2>1, <2>2, <2>3, <2>4 DEF CallSaw
  <2> QED
    BY <2>5 DEF p
<1> HIDE DEF New, SawNow
<1>4. ASSUME NEW c \in Calls, calls'[c] # None PROVE SawNow(calls'[c])
  <2>1. CallSaw(calls[c]) /\ calls'[c] = New(calls[c])
    BY <1>2, <1>4
  <2>2. SawNow(New(calls[c]))
    BY <2>1, <1>3
  <2> QED
    BY <2>1, <2>2
<1>5. ASSUME NEW c \in Calls, (calls[c] # None)' PROVE CallSaw(calls[c])'
  BY <1>4, <1>5 DEF CallSaw, SawNow
<1> QED
  BY <1>1, <1>5 DEF SawInvariant

\* Every step keeps it.
LEMMA SawNext == InvestigationInv /\ SawInvariant /\ [Next]_vars => SawInvariant'
<1> SUFFICES ASSUME InvestigationInv, SawInvariant, [Next]_vars PROVE SawInvariant'
  OBVIOUS
<1>1. ASSUME UNCHANGED <<published, head, calls, misled>> PROVE SawInvariant'
  BY <1>1 DEF SawInvariant, CallSaw, AnswerIsCurrent
<1>2. ASSUME NEW c \in Calls, CallStep(c) PROVE SawInvariant'
  <2>1. CASE \E g \in Groups : BeginGet(c, g)
    BY <2>1, SawBegin DEF BeginGet
  <2> QED
    BY <1>2, <2>1, SawStart, SawFind, SawAnswer, SawConfirm DEF CallStep
<1>3. ASSUME NEW r \in Records, RunStep(r) PROVE SawInvariant'
  <2>1. Run
    BY <1>3 DEF RunStep, Acquire, TimeOut, Investigated, NotInvestigated,
        ValidateBeforePublish, CompareRevision, PublishResult, FallBack, ReturnPrevious
  <2> QED
    BY <2>1, <1>1 DEF Run, Changes
<1>4. CASE MoveHead \/ Publish
  BY <1>4, SawMoves DEF MoveHead, Publish
<1>5. CASE Restart
  BY <1>5 DEF Restart, SawInvariant, AnswerIsCurrent
<1>6. CASE UNCHANGED vars
  BY <1>6, <1>1 DEF vars
<1> QED
  BY <1>2, <1>3, <1>4, <1>5, <1>6 DEF Next

\* However the snapshot and the source move, the result a status call shows is checked after
\* it was found: its group was published since, and its revision current then or later.
THEOREM AnswersAreCurrent == Spec => []AnswerIsCurrent
<1>1. SawInvariant => AnswerIsCurrent
  BY DEF SawInvariant
<1> QED
  BY <1>1, SawInit, SawNext, InvestigationInvariant, PTL DEF Spec
=============================================================================
