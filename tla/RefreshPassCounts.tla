------------------------- MODULE RefreshPassCounts -------------------------
(* The counters of a pass's status are those of its pool, and a pool that    *)
(* has come to rest leaves no failure open: proofs for any failures, any     *)
(* cohorts, any number of analyses at a time.                                *)
EXTENDS RefreshPassProofs, WellFoundedInduction

Number(pl, k, p) == Cardinality({i \in Subjects[k] : pl[i] = p})
TrueCounts(c, pl) == \A k \in Kinds, p \in Places : c[k][p] = Number(pl, k, p)
Settled(pl) == \A i \in Items : pl[i] \notin Open

\* The goroutines that may still do something for a failure of their cohort.
Leading == {"active", "sharing", "noting", "dropping", "sinking"}

\* A token is held for a failure that is queued, with nothing going on for its cohort; a
\* failure being analyzed is running, one that was is not open; and one that is running is
\* being worked for.
Cared(i) ==
    /\ step[i] = "held" => place[i] = "queued" /\ \A j \in Mates(i) : step[j] = "idle"
    /\ step[i] \in {"active", "alone", "again"} => place[i] = "running"
    /\ step[i] \in {"sharing", "noting", "dropping", "sinking", "sunk"} => place[i] \notin Open
    /\ place[i] = "running" /\ step[i] = "idle" => \E j \in Mates(i) : step[j] \in Leading
PoolOK == \A i \in Items : Cared(i)

Before == {"down", "recovering", "ready", "setup", "discovery", "artifacts", "planning"}

\* The pool is behind the pass, which has come to no error.
Past(p, r) ==
    p \notin Before \cup {"preflight", "analysis", "ending"} \/ (p = "ending" /\ r = "ok")

CountInv ==
    /\ pc \notin {"down", "recovering", "ready"} => TrueCounts(status.count, place)
    /\ pc = "analysis" => PoolOK
    /\ pc # "analysis" => \A i \in Items : step[i] = "idle"
    /\ pc = "preflight" => \A i \in Items : place[i] # "running"
    /\ Past(pc, result) => Settled(place)

-----------------------------------------------------------------------------
(* Least elements and cohorts *)

\* The order of the natural numbers is well founded.
LEMMA Below ==
    \E R : /\ \A T : T \subseteq Nat /\ T # {} => \E x \in T : \A y \in T : <<y, x>> \notin R
           /\ \A x, y \in Nat : x < y => <<x, y>> \in R
<1> DEFINE R == OpToRel(<, Nat)
<1>1. IsWellFoundedOn(R, Nat)
  BY NatLessThanWellFounded, Zenon
<1>2. \A x, y \in Nat : x < y => <<x, y>> \in R
  BY DEF OpToRel
<1> HIDE DEF R
<1>3. \A T : T \subseteq Nat /\ T # {} => \E x \in T : \A y \in T : <<y, x>> \notin R
  BY <1>1, WFMin
<1> QED
  BY <1>2, <1>3, Zenon

\* Failures that are any have a first.
LEMMA LeastIsOne ==
    ASSUME NEW S \in SUBSET Items, S # {}
    PROVE  Least(S) \in S /\ \A j \in S : Least(S) <= j
<1>1. S \subseteq Nat
  BY PassConstants
<1>2. PICK R :
        /\ \A T : T \subseteq Nat /\ T # {} => \E x \in T : \A y \in T : <<y, x>> \notin R
        /\ \A x, y \in Nat : x < y => <<x, y>> \in R
  BY Below, Zenon
<1>3. PICK i \in S : \A j \in S : <<j, i>> \notin R
  BY <1>1, <1>2
<1>4. \A j \in S : ~ (j < i)
  BY <1>1, <1>2, <1>3
<1>5. \A j \in S : i <= j
  BY <1>1, <1>4
<1> QED
  BY <1>5 DEF Least

\* A cohort is the same for each of its failures.
LEMMA MatesAreMates ==
    ASSUME NEW i \in Items
    PROVE  /\ Mates(i) \subseteq Items /\ i \notin Mates(i)
           /\ \A j \in Mates(i) : i \in Mates(j) /\ Mates(j) \cup {j} = Mates(i) \cup {i}
<1> DEFINE co(x) == CHOOSE c \in Cohorts : x \in c
<1>1. \A x \in Items : co(x) \in Cohorts /\ x \in co(x)
  BY PassConstants
<1>2. \A x \in Items : co(x) \subseteq Items
  BY <1>1, PassConstants
<1>3. \A j \in co(i) : co(j) = co(i)
  BY <1>1, <1>2, PassConstants
<1> HIDE DEF co
<1>4. \A x : Mates(x) = co(x) \ {x}
  BY DEF Mates, co
<1> QED
  BY <1>1, <1>2, <1>3, <1>4

-----------------------------------------------------------------------------
(* Counting *)

\* The failures of a kind, in any place, can be counted.
LEMMA Countable ==
    ASSUME NEW k \in Kinds, NEW T \in SUBSET Subjects[k]
    PROVE  Subjects[k] \subseteq Items /\ IsFiniteSet(T) /\ Cardinality(T) \in Nat
<1>1. Kinds = {"all", "build"} /\ Subjects["all"] = Items /\ Subjects["build"] = Builds
  BY DEF Kinds, Subjects
<1>2. Subjects[k] \subseteq Items
  BY <1>1, PassConstants
<1> QED
  BY <1>2, FiniteParts

\* Sets without a common element.
LEMMA Disjoint ==
    ASSUME NEW A, NEW B, IsFiniteSet(A), IsFiniteSet(B), A \cap B = {}
    PROVE  IsFiniteSet(A \cup B) /\ Cardinality(A \cup B) = Cardinality(A) + Cardinality(B)
<1>1. /\ IsFiniteSet(A \cup B)
      /\ Cardinality(A \cup B) = Cardinality(A) + Cardinality(B) - Cardinality(A \cap B)
  BY FS_Union
<1>2. Cardinality(A \cap B) = 0
  BY FS_EmptySet
<1>3. Cardinality(A) \in Nat /\ Cardinality(B) \in Nat
  BY FS_CardinalityType
<1> QED
  BY <1>1, <1>2, <1>3

\* What becomes of a number when a failure that is in the one place goes to the other.
MovesNumber(pl, i, from, to, k, p) ==
    /\ Number(pl, k, p) \in Nat
    /\ Number([pl EXCEPT ![i] = to], k, p) =
            IF i \notin Subjects[k] THEN Number(pl, k, p)
            ELSE CASE p = from -> Number(pl, k, p) - 1
                   [] p = to -> Number(pl, k, p) + 1
                   [] OTHER -> Number(pl, k, p)
    /\ i \in Subjects[k] /\ p = from => Number(pl, k, p) > 0

\* One failure changes its place.
LEMMA OneMoves ==
    ASSUME NEW pl \in [Items -> Places \cup {"none"}], NEW i \in Items, NEW from \in Places,
           NEW to \in Places, pl[i] = from, from # to, NEW k \in Kinds, NEW p \in Places
    PROVE  MovesNumber(pl, i, from, to, k, p)
<1> DEFINE S == {j \in Subjects[k] : pl[j] = p}
           T == {j \in Subjects[k] : [pl EXCEPT ![i] = to][j] = p}
<1>1. Subjects[k] \subseteq Items /\ IsFiniteSet(S) /\ Cardinality(S) \in Nat
  BY Countable
<1>2. Number(pl, k, p) = Cardinality(S) /\ Number([pl EXCEPT ![i] = to], k, p) = Cardinality(T)
  BY DEF Number
<1>3. CASE i \notin Subjects[k]
  <2>1. T = S
    BY <1>1, <1>3
  <2> QED
    BY <1>1, <1>2, <1>3, <2>1 DEF MovesNumber
<1>4. CASE i \in Subjects[k] /\ p = from
  <2>1. T = S \ {i} /\ i \in S
    BY <1>1, <1>4
  <2> HIDE DEF S, T
  <2>2. Cardinality(S \ {i}) = Cardinality(S) - 1
    BY <1>1, <2>1, FS_RemoveElement
  <2>3. S # {}
    BY <2>1
  <2>4. Cardinality(S) # 0
    BY <1>1, <2>3, FS_EmptySet
  <2> QED
    BY <1>1, <1>2, <1>4, <2>1, <2>2, <2>4 DEF MovesNumber
<1>5. CASE i \in Subjects[k] /\ p = to
  <2>1. T = S \cup {i} /\ i \notin S
    BY <1>1, <1>5
  <2> HIDE DEF S, T
  <2>2. Cardinality(S \cup {i}) = Cardinality(S) + 1
    BY <1>1, <2>1, FS_AddElement
  <2> QED
    BY <1>1, <1>2, <1>5, <2>1, <2>2 DEF MovesNumber
<1>6. CASE i \in Subjects[k] /\ p # from /\ p # to
  <2>1. T = S
    BY <1>1, <1>6
  <2> QED
    BY <1>1, <1>2, <1>6, <2>1 DEF MovesNumber
<1> QED
  BY <1>3, <1>4, <1>5, <1>6

\* Counters that are true stay so when a failure moves from where it is.
LEMMA MovedIsTrue ==
    ASSUME NEW s \in StatusType, NEW pl \in [Items -> Places \cup {"none"}],
           TrueCounts(s.count, pl), NEW i \in Items, NEW from \in Places, NEW to \in Places,
           pl[i] = from, from # to
    PROVE  TrueCounts(Moved(s, i, from, to).count, [pl EXCEPT ![i] = to])
<1> DEFINE n == [k \in Kinds |->
        IF i \notin Subjects[k] THEN s.count[k]
        ELSE [p \in Places |->
                CASE p = from /\ p # to /\ s.count[k][p] > 0 -> s.count[k][p] - 1
                  [] p = to -> s.count[k][p] + 1
                  [] OTHER -> s.count[k][p]]]
<1>1. Moved(s, i, from, to).count = n
  BY DEF Moved, StatusType
<1>2. ASSUME NEW k \in Kinds, NEW p \in Places
      PROVE  n[k][p] = Number([pl EXCEPT ![i] = to], k, p)
  <2>1. s.count[k][p] = Number(pl, k, p)
    BY DEF TrueCounts
  <2>2. MovesNumber(pl, i, from, to, k, p)
    BY OneMoves
  <2> QED
    BY <2>1, <2>2 DEF MovesNumber
<1> HIDE DEF n
<1> QED
  BY <1>1, <1>2 DEF TrueCounts

\* Counters that are true stay so when what is open is cancelled.
LEMMA ClosedIsTrue ==
    ASSUME NEW s \in StatusType, NEW pl \in [Items -> Places \cup {"none"}],
           TrueCounts(s.count, pl), NEW gone \in {{"queued"}, Open}
    PROVE  TrueCounts(Closed(s, gone).count,
                      [i \in Items |-> IF pl[i] \in gone THEN "cancelled" ELSE pl[i]])
<1> DEFINE n == [k \in Kinds |-> [p \in Places |->
        CASE p \in gone -> 0
          [] p = "cancelled" -> s.count[k][p] + (IF "queued" \in gone THEN s.count[k]["queued"] ELSE 0)
                                        + (IF "running" \in gone THEN s.count[k]["running"] ELSE 0)
          [] OTHER -> s.count[k][p]]]
           new == [i \in Items |-> IF pl[i] \in gone THEN "cancelled" ELSE pl[i]]
<1>1. Closed(s, gone).count = n
  BY DEF Closed, StatusType
<1>2. /\ {"queued", "running", "cancelled"} \subseteq Places /\ "cancelled" \notin gone
      /\ "queued" \in gone /\ gone \subseteq {"queued", "running"}
  BY DEF Places, Open
<1>3. ASSUME NEW k \in Kinds, NEW p \in Places
      PROVE  n[k][p] = Number(new, k, p)
  <2> DEFINE At(q) == {i \in Subjects[k] : pl[i] = q}
             T == {i \in Subjects[k] : new[i] = p}
  <2>1. \A q \in Places : s.count[k][q] = Cardinality(At(q))
    BY DEF TrueCounts, Number
  <2>2. \A q : IsFiniteSet(At(q)) /\ Cardinality(At(q)) \in Nat
    BY Countable
  <2>3. Subjects[k] \subseteq Items
    BY Countable
  <2>4. Number(new, k, p) = Cardinality(T)
    BY DEF Number
  <2>5. CASE p \in gone
    <3>1. T = {}
      BY <1>2, <2>3, <2>5
    <3>2. Cardinality(T) = 0
      BY <3>1, FS_EmptySet
    <3> QED
      BY <1>2, <2>4, <2>5, <3>2
  <2>6. CASE p \notin gone /\ p # "cancelled"
    <3>1. T = At(p)
      BY <2>3, <2>6
    <3> QED
      BY <2>1, <2>4, <2>6, <3>1
  <2>7. CASE p = "cancelled"
    <3> DEFINE A == At("cancelled")
               B == At("queued")
               C == IF "running" \in gone THEN At("running") ELSE {}
    <3>1. T = (A \cup B) \cup C
      BY <1>2, <2>3, <2>7
    <3>2. A \cap B = {} /\ (A \cup B) \cap C = {}
      OBVIOUS
    <3>3. /\ IsFiniteSet(A) /\ IsFiniteSet(B)
          /\ Cardinality(A) = s.count[k]["cancelled"] /\ Cardinality(B) = s.count[k]["queued"]
      BY <1>2, <2>1, <2>2
    <3>4. /\ IsFiniteSet(C)
          /\ Cardinality(C) = IF "running" \in gone THEN s.count[k]["running"] ELSE 0
      <4>1. CASE "running" \in gone
        BY <1>2, <2>1, <2>2, <4>1
      <4>2. CASE "running" \notin gone
        BY <4>2, FS_EmptySet
      <4> QED
        BY <4>1, <4>2
    <3> HIDE DEF A, B, C, T
    <3>5. IsFiniteSet(A \cup B) /\ Cardinality(A \cup B) = Cardinality(A) + Cardinality(B)
      BY <3>2, <3>3, Disjoint
    <3>6. Cardinality((A \cup B) \cup C) = Cardinality(A \cup B) + Cardinality(C)
      BY <3>2, <3>4, <3>5, Disjoint
    <3>7. Cardinality(T) = Cardinality(A) + Cardinality(B) + Cardinality(C)
      BY <3>1, <3>5, <3>6
    <3> QED
      BY <1>2, <2>4, <2>7, <3>3, <3>4, <3>7
  <2> QED
    BY <2>5, <2>6, <2>7
<1> HIDE DEF n, new
<1> QED
  BY <1>1, <1>3 DEF TrueCounts, new

-----------------------------------------------------------------------------
(* The pool *)

\* Being of the same cohort, for two failures and for three.
LEMMA SameCohort ==
    /\ \A i \in Items : \A j \in Mates(i) : j \in Items /\ j # i /\ i \in Mates(j)
    /\ \A i \in Items : \A j, m \in Mates(i) : m # j => m \in Mates(j)
BY MatesAreMates

\* A step of one goroutine, which may move one failure, cares for all if it does for the
\* two: it wakes in no cohort for which a token is held, and leaves no follower alone.
LEMMA StillCared ==
    ASSUME PoolOK, DOMAIN step = Items, DOMAIN place = Items,
           NEW i \in Items, NEW v, NEW x \in Items, NEW to,
           step' = [step EXCEPT ![i] = v], place' = [place EXCEPT ![x] = to],
           Cared(i)', Cared(x)',
           step[i] = "idle" /\ v # "idle" => \A j \in Mates(i) : step[j] # "held",
           step[i] \in Leading /\ v \notin Leading => Followers(i) = {}
    PROVE  PoolOK'
<1> SUFFICES ASSUME NEW j \in Items, j # i, j # x PROVE Cared(j)'
  BY DEF PoolOK
<1>1. step'[j] = step[j] /\ place'[j] = place[j] /\ Cared(j)
  BY DEF PoolOK
<1>2. \A m \in Mates(j) : m \in Items /\ j \in Mates(m)
  BY SameCohort
<1>3. ASSUME step[j] = "held" PROVE \A m \in Mates(j) : step'[m] = "idle"
  BY <1>1, <1>2, <1>3 DEF Cared
<1>4. ASSUME place[j] = "running", step[j] = "idle"
      PROVE  \E m \in Mates(j) : step'[m] \in Leading
  <2>1. PICK m \in Mates(j) : step[m] \in Leading
    BY <1>1, <1>4 DEF Cared
  <2>2. CASE m = i
    <3>1. j \in Followers(i)
      BY <1>2, <1>4, <2>2 DEF Followers
    <3> QED
      BY <2>1, <2>2, <3>1
  <2>3. CASE m # i
    BY <1>2, <2>1, <2>3
  <2> QED
    BY <2>2, <2>3
<1> QED
  BY <1>1, <1>3, <1>4 DEF Cared

\* What the counts and the pool are while the pool works.
InWork ==
    /\ PassInv /\ pc = "analysis" /\ PoolOK /\ TrueCounts(status.count, place)
    /\ status \in StatusType /\ place \in [Items -> Places \cup {"none"}]
    /\ DOMAIN step = Items

\* What a step of the pool leaves.
Worked == PoolOK' /\ TrueCounts(status.count, place)'

\* A move from where the failure is keeps the counters true.
LEMMA MoveCounts ==
    ASSUME InWork, NEW i \in Items, NEW from \in Places, NEW to \in Places,
           Moves(i, from, to), place[i] = from, from # to
    PROVE  TrueCounts(status.count, place)' /\ place' = [place EXCEPT ![i] = to]
<1>1. status' = Moved(status, i, from, to) /\ place' = [place EXCEPT ![i] = to]
  BY DEF Moves, Unforced
<1>2. TrueCounts(Moved(status, i, from, to).count, [place EXCEPT ![i] = to])
  BY MovedIsTrue DEF InWork
<1> HIDE DEF TrueCounts
<1> QED
  BY <1>1, <1>2 DEF TrueCounts

\* So does a step that moves none.
LEMMA QuietCounts ==
    ASSUME InWork, place' = place, status'.count = status.count
    PROVE  TrueCounts(status.count, place)' /\ \A i \in Items : place' = [place EXCEPT ![i] = place[i]]
BY DEF InWork, TrueCounts, Number

\* Steps of goroutines that move no failure: a token taken, or found to be of no use; a
\* note of a shared result, a follower sent to wait, a goroutine that ends, a wait that ends.
LEMMA QuietWork ==
    ASSUME InWork, NEW i \in Items,
           Schedule(i) \/ (Begin(i) /\ Over) \/ Note(i) \/ NotShared(i) \/ Release(i)
             \/ (Again(i) /\ ~Over)
    PROVE  Worked
<1> DEFINE Stays(x, v) ==
        /\ step' = [step EXCEPT ![x] = v]
        /\ Cared(x)'
        /\ step[x] = "idle" /\ v # "idle" => \A j \in Mates(x) : step[j] # "held"
        /\ step[x] \in Leading /\ v \notin Leading => Followers(x) = {}
<1>1. place' = place /\ status'.count = status.count
  <2>1. CASE Note(i)
    BY <2>1 DEF Note, Unforced, InWork, StatusType
  <2>2. CASE ~Note(i)
    BY <2>2 DEF Schedule, Begin, NotShared, Release, Again, Quietly
  <2> QED
    BY <2>1, <2>2
<1>2. ASSUME NEW x \in Items, NEW v, Stays(x, v) PROVE Worked
  <2>1. DOMAIN place = Items /\ place' = [place EXCEPT ![x] = place[x]]
    BY <1>1 DEF InWork
  <2>2. PoolOK'
    BY <1>2, <2>1, StillCared DEF InWork
  <2> QED
    BY <1>1, <2>2, QuietCounts DEF Worked
<1>3. PoolOK /\ DOMAIN step = Items /\ Cared(i)
  BY DEF InWork, PoolOK
<1>4. CASE Schedule(i)
  <2>1. step' = [step EXCEPT ![i] = "held"] /\ i = Least(Unscheduled) /\ Unscheduled # {}
    BY <1>4 DEF Schedule, Steps
  <2>2. i \in Unscheduled
    BY <2>1, LeastIsOne DEF Unscheduled
  <2>3. place[i] = "queued" /\ \A j \in Mates(i) \cup {i} : step[j] = "idle"
    BY <2>2 DEF Unscheduled
  <2>4. Cared(i)'
    BY <1>1, <1>3, <2>1, <2>3, SameCohort DEF Cared
  <2> QED
    BY <1>2, <2>1, <2>3, <2>4 DEF Leading
<1>5. CASE Begin(i) /\ Over
  <2>1. step' = [step EXCEPT ![i] = "idle"] /\ step[i] = "held"
    BY <1>5 DEF Begin, Steps
  <2>2. Cared(i)'
    BY <1>1, <1>3, <2>1 DEF Cared
  <2> QED
    BY <1>2, <2>1, <2>2 DEF Leading
<1>6. CASE Note(i)
  <2>1. step' = [step EXCEPT ![i] = "sharing"] /\ step[i] = "noting"
    BY <1>6 DEF Note, Steps
  <2>2. Cared(i)'
    BY <1>1, <1>3, <2>1 DEF Cared
  <2> QED
    BY <1>2, <2>1, <2>2 DEF Leading
<1>7. CASE NotShared(i)
  <2>0. step[i] = "sharing" /\ Followers(i) # {}
    BY <1>7 DEF NotShared
  <2>2. PICK f \in Items : f = Least(Followers(i)) /\ f \in Followers(i)
    BY <2>0, LeastIsOne, SameCohort DEF Followers
  <2>1. step' = [step EXCEPT ![f] = "again"] /\ step[i] = "sharing"
    BY <1>7, <2>0, <2>2 DEF NotShared, Steps
  <2>3. f \in Mates(i) /\ f \in Items /\ place[f] = "running" /\ step[f] = "idle"
    BY <2>2, SameCohort DEF Followers
  <2>4. Cared(f)'
    BY <1>1, <1>3, <2>1, <2>3 DEF Cared
  <2>5. ASSUME NEW j \in Mates(f), step[j] = "held" PROVE FALSE
    <3>1. j \in Items /\ Cared(j) /\ j # i
      BY <1>3, <2>1, <2>3, <2>5, SameCohort DEF PoolOK
    <3>2. i \in Mates(j)
      BY <2>3, <3>1, SameCohort
    <3> QED
      BY <2>1, <2>5, <3>1, <3>2 DEF Cared
  <2> QED
    BY <1>2, <2>1, <2>3, <2>4, <2>5 DEF Leading
<1>8. CASE Release(i)
  <2>1. /\ step' = [step EXCEPT ![i] = "idle"]
        /\ \/ step[i] \in {"sharing", "dropping", "sinking"} /\ Followers(i) = {}
           \/ step[i] = "sunk"
    BY <1>8 DEF Release
  <2>2. Cared(i)'
    BY <1>1, <1>3, <2>1 DEF Cared, Open
  <2> QED
    BY <1>2, <2>1, <2>2 DEF Leading
<1>9. CASE Again(i) /\ ~Over
  <2>1. step' = [step EXCEPT ![i] = "alone"] /\ step[i] = "again"
    BY <1>9 DEF Again, Steps
  <2>2. Cared(i)'
    BY <1>1, <1>3, <2>1 DEF Cared
  <2> QED
    BY <1>2, <2>1, <2>2 DEF Leading
<1> QED
  BY <1>4, <1>5, <1>6, <1>7, <1>8, <1>9

\* Steps of a goroutine that move the failure it is known by: it is begun, it ends in one
\* way or another, or it is not tried again.
LEMMA OwnWork ==
    ASSUME InWork, NEW i \in Items,
           (Begin(i) /\ ~Over) \/ Answer(i) \/ (Refuse(i) /\ Rest(i) = {}) \/ GiveUp(i)
             \/ Sink(i) \/ (Again(i) /\ Over)
    PROVE  Worked
<1>1. PoolOK /\ DOMAIN step = Items /\ DOMAIN place = Items /\ Cared(i)
  BY DEF InWork, PoolOK
<1> DEFINE Ends(from, to, v) ==
        /\ from # to /\ Moves(i, from, to) /\ place[i] = from
        /\ step' = [step EXCEPT ![i] = v] /\ step[i] # "idle"
        /\ v \notin {"held", "alone", "again"} /\ (v = "active" <=> to = "running")
        /\ step[i] \in Leading /\ v \notin Leading => Followers(i) = {}
<1>2. ASSUME NEW from \in {"queued", "running"}, NEW to \in Places \ {"queued"}, NEW v,
             Ends(from, to, v)
      PROVE  Worked
  <2>1. TrueCounts(status.count, place)' /\ place' = [place EXCEPT ![i] = to]
    BY <1>2, MoveCounts DEF Places
  <2>2. step'[i] = v /\ place'[i] = to
    BY <1>1, <1>2, <2>1
  <2>3. Cared(i)'
    BY <1>2, <2>2 DEF Cared, Open
  <2>4. PoolOK'
    BY <1>1, <1>2, <2>1, <2>3, StillCared
  <2> QED
    BY <2>1, <2>4 DEF Worked
<1>3. {"queued", "running", "completed", "failed", "cancelled"} \subseteq Places
  BY DEF Places
<1>4. CASE Begin(i) /\ ~Over
  <2>1. Moves(i, "queued", "running") /\ step' = [step EXCEPT ![i] = "active"] /\ step[i] = "held"
    BY <1>4 DEF Begin, Steps
  <2>2. place[i] = "queued"
    BY <1>1, <2>1 DEF Cared
  <2>3. Ends("queued", "running", "active")
    BY <2>1, <2>2 DEF Leading
  <2> HIDE DEF Ends
  <2> QED
    BY <1>2, <1>3, <2>3
<1>5. CASE Again(i) /\ Over
  <2>1. Moves(i, "running", "cancelled") /\ step' = [step EXCEPT ![i] = "idle"] /\ step[i] = "again"
    BY <1>5 DEF Again, Steps
  <2>2. place[i] = "running"
    BY <1>1, <2>1 DEF Cared
  <2>3. Ends("running", "cancelled", "idle")
    BY <2>1, <2>2 DEF Leading
  <2> HIDE DEF Ends
  <2> QED
    BY <1>2, <1>3, <2>3
<1>6. CASE Answer(i) \/ (Refuse(i) /\ Rest(i) = {}) \/ GiveUp(i) \/ Sink(i)
  <2>1. step[i] \in {"active", "alone"} /\ place[i] = "running"
    BY <1>1, <1>6 DEF Answer, Refuse, GiveUp, Sink, Analyzed, Cared
  <2>2. step[i] \in Leading /\ Rest(i) = {} => Followers(i) = {}
    BY <2>1 DEF Rest, Leading
  <2>3. PICK to \in {"completed", "failed", "cancelled"} : Moves(i, "running", to)
    BY <1>6 DEF Answer, Refuse, GiveUp, Sink
  <2>4. PICK v \in {"idle", "sharing", "dropping", "sinking", "sunk"} :
           /\ step' = [step EXCEPT ![i] = v]
           /\ v \in {"idle", "sunk"} => Rest(i) = {}
    <3>1. CASE Answer(i) \/ GiveUp(i)
      BY <3>1 DEF Answer, GiveUp, Steps
    <3>2. CASE Refuse(i) /\ Rest(i) = {}
      BY <3>2 DEF Refuse, Steps
    <3>3. CASE Sink(i)
      BY <2>1, <3>3 DEF Sink, Steps, Rest
    <3> QED
      BY <1>6, <3>1, <3>2, <3>3
  <2>5. Ends("running", to, v)
    BY <2>1, <2>2, <2>3, <2>4 DEF Leading
  <2> HIDE DEF Ends
  <2> QED
    BY <1>2, <1>3, <2>5
<1> QED
  BY <1>4, <1>5, <1>6

\* Steps of a goroutine that move another failure of its cohort: one is started, dropped,
\* or given the result.
LEMMA MatesWork ==
    ASSUME InWork, NEW i \in Items, StartFollower(i) \/ Drop(i) \/ Share(i)
    PROVE  Worked
<1>1. PoolOK /\ DOMAIN step = Items /\ DOMAIN place = Items /\ Cared(i)
  BY DEF InWork, PoolOK
<1>2. ASSUME NEW f \in Mates(i), NEW to \in Places, NEW v \in Leading,
             TrueCounts(status.count, place)', place' = [place EXCEPT ![f] = to],
             step' = [step EXCEPT ![i] = v], step[i] \in Leading,
             to # "queued", place[f] \in {"queued", "running"}, place[f] = "running" => to # "running",
             v = "active" <=> step[i] = "active",
             place[f] = "running" => step[f] = "idle"
      PROVE  Worked
  <2>1. f \in Items /\ f # i /\ i \in Mates(f) /\ Cared(f)
    BY <1>1, SameCohort DEF PoolOK
  <2>2. step[f] # "held"
    BY <1>2, <2>1 DEF Cared, Leading
  <2>3. step'[f] = step[f] /\ place'[f] = to /\ step'[i] = v /\ place'[i] = place[i]
    BY <1>1, <1>2, <2>1
  <2>4. Cared(f)'
    BY <1>2, <2>1, <2>2, <2>3 DEF Cared, Leading, Open
  <2>5. Cared(i)'
    BY <1>1, <1>2, <2>3 DEF Cared, Leading, Open
  <2>6. PoolOK'
    BY <1>1, <1>2, <2>1, <2>4, <2>5, StillCared DEF Leading
  <2> QED
    BY <1>2, <2>6 DEF Worked
<1>3. {"queued", "running", "completed", "failed", "cancelled"} \subseteq Places
  BY DEF Places
<1>4. CASE StartFollower(i)
  <2>1. step[i] = "active" /\ Unstarted(i) # {} /\ step' = [step EXCEPT ![i] = "active"]
    BY <1>4 DEF StartFollower, Steps
  <2>2. PICK f : f = Least(Unstarted(i)) /\ f \in Unstarted(i) /\ f \in Items
    BY <2>1, LeastIsOne, SameCohort DEF Unstarted
  <2>3. f \in Mates(i) /\ place[f] = "queued" /\ Moves(f, "queued", "running")
    BY <1>4, <2>2 DEF StartFollower, Unstarted
  <2>4. TrueCounts(status.count, place)' /\ place' = [place EXCEPT ![f] = "running"]
    BY <1>3, <2>2, <2>3, MoveCounts
  <2> QED
    BY <1>2, <1>3, <2>1, <2>3, <2>4 DEF Leading
<1>5. CASE Drop(i) \/ Share(i)
  <2>1. /\ step[i] \in {"dropping", "sinking", "sharing"} /\ Followers(i) # {}
        /\ \E v \in {"dropping", "sinking", "noting"} : step' = [step EXCEPT ![i] = v]
    BY <1>5 DEF Drop, Share, Steps
  <2>2. PICK f : f = Least(Followers(i)) /\ f \in Followers(i) /\ f \in Items
    BY <2>1, LeastIsOne, SameCohort DEF Followers
  <2>3. PICK to \in {"completed", "cancelled"} : Moves(f, "running", to)
    BY <1>5, <2>2 DEF Drop, Share
  <2>4. f \in Mates(i) /\ place[f] = "running" /\ step[f] = "idle"
    BY <2>2 DEF Followers
  <2>5. TrueCounts(status.count, place)' /\ place' = [place EXCEPT ![f] = to]
    BY <1>3, <2>2, <2>3, <2>4, MoveCounts
  <2> QED
    BY <1>2, <1>3, <2>1, <2>4, <2>5 DEF Leading
<1> QED
  BY <1>4, <1>5

\* An error of a cohort's first sends every other one, too, to be analyzed by itself.
LEMMA CohortWork ==
    ASSUME InWork, NEW i \in Items, Refuse(i), Rest(i) # {}
    PROVE  Worked
<1>1. PoolOK /\ DOMAIN step = Items /\ Cared(i)
  BY DEF InWork, PoolOK
<1>2. /\ step[i] = "active" /\ place' = place /\ status' = status
      /\ step' = [j \in Items |-> IF j \in Followers(i) \cup {i} THEN "again" ELSE step[j]]
  BY DEF Refuse, Rest, Quietly, Analyzed
<1>3. ASSUME NEW j \in Items PROVE Cared(j)'
  <2>1. Cared(j) /\ step'[j] = IF j \in Followers(i) \cup {i} THEN "again" ELSE step[j]
    BY <1>1, <1>2 DEF PoolOK
  <2>2. CASE j \in Followers(i) \cup {i}
    <3>1. place[j] = "running"
      BY <1>1, <1>2, <2>2 DEF Cared, Followers
    <3> QED
      BY <1>2, <2>1, <2>2, <3>1 DEF Cared
  <2>3. CASE j \notin Followers(i) \cup {i} /\ step[j] = "held"
    <3>1. i \notin Mates(j)
      BY <1>2, <2>1, <2>3 DEF Cared
    <3>2. \A m \in Mates(j) : m \in Items /\ step[m] = "idle" /\ m \notin Followers(i)
      <4> SUFFICES ASSUME NEW m \in Mates(j) PROVE m \in Items /\ step[m] = "idle" /\ m \notin Followers(i)
        OBVIOUS
      <4>1. m \in Items /\ step[m] = "idle"
        BY <2>1, <2>3, SameCohort DEF Cared
      <4>2. m \in Mates(i) => i \in Mates(j)
        BY <2>3, SameCohort, <4>1
      <4> QED
        BY <3>1, <4>1, <4>2 DEF Followers
    <3>3. \A m \in Mates(j) : step'[m] = "idle"
      BY <1>2, <3>1, <3>2
    <3> QED
      BY <1>2, <2>1, <2>3, <3>3 DEF Cared
  <2>4. CASE j \notin Followers(i) \cup {i} /\ step[j] # "held"
    <3>1. ASSUME place[j] = "running", step[j] = "idle"
          PROVE  \E m \in Mates(j) : step'[m] \in Leading
      <4>1. PICK m \in Mates(j) : step[m] \in Leading
        BY <2>1, <3>1 DEF Cared
      <4>2. m # i
        BY <2>4, <3>1, SameCohort DEF Followers
      <4>3. step'[m] = step[m]
        BY <1>2, <4>1, <4>2, SameCohort DEF Followers, Leading
      <4> QED
        BY <4>1, <4>3
    <3> QED
      BY <1>2, <2>1, <2>4, <3>1 DEF Cared
  <2> QED
    BY <2>2, <2>3, <2>4
<1> QED
  BY <1>2, <1>3, QuietCounts DEF Worked, PoolOK

\* So every step of the pool keeps its counters true.
LEMMA PoolCounts ==
    ASSUME InWork, NEW i \in Items, PoolStep(i)
    PROVE  Worked
BY QuietWork, OwnWork, MatesWork, CohortWork DEF PoolStep

-----------------------------------------------------------------------------
(* The other steps of a pass *)

\* A step that keeps the counters, the places and the goroutines.
LEMMA KeptCounts ==
    ASSUME CountInv, UNCHANGED <<place, step>>, status'.count = status.count,
           pc \notin {"down", "recovering", "ready", "analysis"},
           pc' \notin {"preflight", "analysis"}, Past(pc', result') => Past(pc, result)
    PROVE  CountInv'
BY DEF CountInv, TrueCounts, Number, Settled

\* The phases between those of the pool touch no counter of it.
LEMMA PhaseCounts ==
    ASSUME PassInv, CountInv,
           \/ SetUp \/ Discover \/ MarkChecked \/ MarkAnalysisCheckpoint \/ PlanPatterns
           \/ SkipPatterns \/ RecordSuppressed \/ Correlated \/ CompletePatterns
           \/ StartPublication \/ WriteOutput \/ MarkPublished \/ SkipSideEffects
    PROVE  CountInv'
<1>1. UNCHANGED <<place, step, result>>
  BY DEF SetUp, Discover, MarkChecked, MarkAnalysisCheckpoint, PlanPatterns, SkipPatterns,
         RecordSuppressed, Correlated, CompletePatterns, StartPublication, WriteOutput,
         MarkPublished, SkipSideEffects, Phase, pool
<1>2. /\ pc \notin {"down", "recovering", "ready", "analysis", "preflight", "ending"}
      /\ pc' \notin {"preflight", "analysis"} /\ (pc \in Before => pc' \in Before)
  BY DEF SetUp, Discover, MarkChecked, MarkAnalysisCheckpoint, PlanPatterns, SkipPatterns,
         RecordSuppressed, Correlated, CompletePatterns, StartPublication, WriteOutput,
         MarkPublished, SkipSideEffects, Phase, Before
<1>3. status \in StatusType
  BY DEF PassInv, GoodStatus
<1>4. status'.count = status.count
  <2>1. CASE SetUp \/ Discover \/ Correlated \/ WriteOutput
    BY <2>1 DEF SetUp, Discover, Correlated, WriteOutput, Phase, Forced, tracker
  <2>2. CASE MarkChecked \/ RecordSuppressed \/ PlanPatterns
    BY <1>3, <2>2 DEF MarkChecked, RecordSuppressed, PlanPatterns, Phase, Forced, StatusType
  <2>3. CASE MarkAnalysisCheckpoint \/ SkipPatterns \/ CompletePatterns
    BY <1>3, <2>3 DEF MarkAnalysisCheckpoint, SkipPatterns, CompletePatterns, Phase, Forced,
                      StatusType
  <2>4. CASE StartPublication \/ MarkPublished \/ SkipSideEffects
    BY <1>3, <2>4 DEF StartPublication, MarkPublished, SkipSideEffects, Phase, Forced, StatusType
  <2> QED
    BY <2>1, <2>2, <2>3, <2>4
<1> QED
  BY <1>1, <1>2, <1>4, KeptCounts DEF Past, Before

\* Nor does a correlation.
LEMMA CorrelateCounts ==
    ASSUME PassInv, CountInv, Correlate
    PROVE  CountInv'
<1>1. pc \in {"patterns", "retrying"} /\ UNCHANGED pool
  BY DEF Correlate
<1>2. PICK retry \in Nat, completed \in Nat, failed \in Nat,
           to \in {"patterns", "suppressed", "retrying"} :
        Attempt(to, retry, completed, failed)
  BY DEF Correlate
<1>3. status \in StatusType
  BY DEF PassInv, GoodStatus
<1>4. pc' = to /\ status'.count = status.count /\ UNCHANGED result
  BY <1>2, <1>3 DEF Attempt, Phase, Forced, StatusType
<1> QED
  BY <1>1, <1>4, KeptCounts DEF Past, Before, pool

\* Nor do the follow-ups, the end of a pass in the history and the wait for the next.
LEMMA LateCounts ==
    ASSUME PassInv, CountInv,
           \/ StartSideEffects \/ BeginFollowUp \/ FinishFollowUp \/ SideEffectsDone
           \/ AppendPass \/ SetSchedule
    PROVE  CountInv'
<1>1. UNCHANGED <<place, step>>
  BY DEF StartSideEffects, BeginFollowUp, FinishFollowUp, SideEffectsDone, SetFollowUp,
         AppendPass, SetSchedule, Phase, pool
<1>2. /\ pc \in {"published", "followUps", "following", "ended", "scheduling"}
      /\ pc' \notin {"preflight", "analysis"}
  BY DEF StartSideEffects, BeginFollowUp, FinishFollowUp, SideEffectsDone, SetFollowUp,
         AppendPass, SetSchedule, Phase
<1>3. status \in StatusType
  BY DEF PassInv, GoodStatus
<1>4. status'.count = status.count
  <2>1. CASE AppendPass \/ SetSchedule
    BY <2>1 DEF AppendPass, SetSchedule, Phase, Forced
  <2>2. CASE StartSideEffects \/ SideEffectsDone
    BY <1>3, <2>2 DEF StartSideEffects, SideEffectsDone, Forced, StatusType
  <2>3. CASE BeginFollowUp \/ FinishFollowUp
    <3>1. \/ UNCHANGED status
          \/ \E c, state : status' = [status EXCEPT !.followUp[c] = state]
      BY <2>3 DEF BeginFollowUp, FinishFollowUp, SetFollowUp, Forced, tracker
    <3> QED
      BY <1>3, <3>1 DEF StatusType
  <2> QED
    BY <2>1, <2>2, <2>3
<1> QED
  BY <1>1, <1>2, <1>4, KeptCounts DEF Past, Before

\* A pass that fails goes to its end with its pool as it is.
LEMMA FailCounts ==
    ASSUME CountInv, Fail
    PROVE  CountInv'
<1>1. pc \notin {"down", "recovering", "ready", "analysis"} /\ pc' = "ending" /\ result' # "ok"
  BY DEF Fail, Fallible, Systemic, Return
<1>2. UNCHANGED <<place, step, status>>
  BY DEF Fail, Return, pool, tracker
<1> QED
  BY <1>1, <1>2, KeptCounts DEF Past

\* When the pool starts no failure is being analyzed.
LEMMA PreflightCounts ==
    ASSUME CountInv, Preflight
    PROVE  CountInv'
<1>1. /\ pc = "preflight" /\ pc' = "analysis" /\ UNCHANGED <<place, step, result>>
      /\ status' = status
  BY DEF Preflight, Phase, Forced, pool
<1>2. \A i \in Items : step[i] = "idle" /\ place[i] # "running"
  BY <1>1 DEF CountInv
<1>3. PoolOK'
  BY <1>1, <1>2 DEF PoolOK, Cared
<1> QED
  BY <1>1, <1>3 DEF CountInv, TrueCounts, Number, Past

\* A pass begins with no failure, and counts none.
LEMMA BeginCounts ==
    ASSUME PassInv, CountInv, FirstPass \/ NextPass
    PROVE  CountInv'
<1>1. PICK type : BeginPass(type)
  BY DEF FirstPass, NextPass
<1>2. /\ pc' \in {"setup", "discovery", "artifacts"} /\ step' = step
      /\ place' = [i \in Items |-> "none"] /\ status' = Begun(passes + 1, type)
      /\ pc # "analysis"
  BY <1>1 DEF FirstPass, NextPass, BeginPass, Forced
<1>3. status'.count = [k \in Kinds |-> [p \in Places |-> 0]]
  BY <1>2 DEF Begun, NoStatus
<1>4. ASSUME NEW k \in Kinds, NEW p \in Places PROVE Number(place', k, p) = 0
  <2>1. {i \in Subjects[k] : place'[i] = p} = {}
    BY <1>2, Countable DEF Places
  <2> QED
    BY <2>1, FS_EmptySet DEF Number
<1>5. TrueCounts(status'.count, place')
  BY <1>3, <1>4 DEF TrueCounts
<1>6. \A i \in Items : step'[i] = "idle"
  BY <1>2 DEF CountInv
<1> QED
  BY <1>2, <1>5, <1>6 DEF CountInv, Past, Before

\* Planned failures are counted where they are put.
LEMMA PlanCounts ==
    ASSUME PassInv, CountInv, PlanAnalysisWork
    PROVE  CountInv'
<1> DEFINE at0(work, queued) ==
        [i \in Items |-> CASE i \in queued -> "queued"
                          [] i \in work \ queued -> "completed"
                          [] OTHER -> "none"]
<1>1. PICK work \in Works[passes] : \E queued \in SUBSET work :
        /\ IF work # {} THEN Phase("planning", "preflight", Planned(work, queued))
           ELSE Phase("planning", "merging",
                      [Planned(work, queued) EXCEPT !.stage["patterns"] = "skipped"])
        /\ place' = at0(work, queued)
        /\ UNCHANGED step
  BY DEF PlanAnalysisWork
<1>2. PICK queued \in SUBSET work :
        /\ IF work # {} THEN Phase("planning", "preflight", Planned(work, queued))
           ELSE Phase("planning", "merging",
                      [Planned(work, queued) EXCEPT !.stage["patterns"] = "skipped"])
        /\ place' = at0(work, queued)
        /\ UNCHANGED step
  BY <1>1
<1>3. pc = "planning" /\ pc \notin Resting
  BY DEF PlanAnalysisWork, Resting
<1>4. status \in StatusType /\ passes \in 1..MaxPasses
  BY <1>3, RunningPass
<1>5. work \in SUBSET Items
  BY <1>4, PassConstants
<1> DEFINE n == [k \in Kinds |-> [p \in Places |->
        CASE p = "queued" -> Cardinality(queued \cap Subjects[k])
          [] p = "completed" -> Cardinality((work \ queued) \cap Subjects[k])
          [] OTHER -> 0]]
<1>6. Planned(work, queued) \in StatusType /\ Planned(work, queued).count = n
  <2>1. Planned(work, queued).count = n
    BY <1>4 DEF Planned, StatusType
  <2> QED
    BY <1>4, <1>5, <2>1, PlannedIsStatus
<1>7. status'.count = n
  <2>1. CASE work # {}
    BY <1>2, <1>6, <2>1 DEF Phase, Forced
  <2>2. CASE work = {}
    <3> DEFINE s == Planned(work, queued)
    <3>1. status' = [s EXCEPT !.stage["patterns"] = "skipped"]
      BY <1>2, <2>2 DEF Phase, Forced
    <3> HIDE DEF s
    <3>2. s \in StatusType /\ s.count = n
      BY <1>6 DEF s
    <3> QED
      BY <3>1, <3>2 DEF StatusType
  <2> QED
    BY <2>1, <2>2
<1>8. ASSUME NEW k \in Kinds, NEW p \in Places
      PROVE  n[k][p] = Number(at0(work, queued), k, p)
  <2> DEFINE T == {i \in Subjects[k] : at0(work, queued)[i] = p}
  <2>1. Subjects[k] \subseteq Items /\ Number(at0(work, queued), k, p) = Cardinality(T)
    BY Countable DEF Number
  <2>2. CASE p = "queued"
    <3>1. T = queued \cap Subjects[k]
      BY <1>5, <2>1, <2>2
    <3> QED
      BY <2>1, <2>2, <3>1
  <2>3. CASE p = "completed"
    <3>1. T = (work \ queued) \cap Subjects[k]
      BY <1>5, <2>1, <2>3
    <3> QED
      BY <2>1, <2>3, <3>1
  <2>4. CASE p \notin {"queued", "completed"}
    <3>1. T = {}
      BY <2>1, <2>4 DEF Places
    <3> QED
      BY <2>1, <2>4, <3>1, FS_EmptySet
  <2> QED
    BY <2>2, <2>3, <2>4
<1>9. TrueCounts(status'.count, place')
  <2> HIDE DEF n, at0
  <2> QED
    BY <1>2, <1>7, <1>8 DEF TrueCounts
<1>10. \A i \in Items : step'[i] = "idle" /\ place'[i] # "running"
  BY <1>2, <1>3 DEF CountInv
<1>11. pc' = "preflight" \/ (pc' = "merging" /\ Settled(place'))
  <2>1. CASE work # {}
    BY <1>2, <2>1 DEF Phase
  <2>2. CASE work = {}
    BY <1>2, <2>2 DEF Phase, Settled, Open
  <2> QED
    BY <2>1, <2>2
<1> QED
  BY <1>9, <1>10, <1>11 DEF CountInv, Past, Before

\* When the pool has drained none is running; the queued ones, that are left only when
\* it was called off, are cancelled.
LEMMA DrainCounts ==
    ASSUME PassInv, CountInv, Drained
    PROVE  CountInv'
<1>1. /\ pc = "analysis" /\ pc \notin Resting /\ \A i \in Items : step[i] = "idle"
      /\ Over \/ \A i \in Items : place[i] # "queued"
      /\ status' = Closed(status, {"queued"}) /\ step' = step
      /\ place' = [i \in Items |-> IF place[i] = "queued" THEN "cancelled" ELSE place[i]]
      /\ pc' = (IF Over THEN "ending" ELSE "checkpoint")
  BY DEF Drained, Forced, Resting
<1>2. /\ status \in StatusType /\ place \in [Items -> Places \cup {"none"}]
      /\ TrueCounts(status.count, place) /\ PoolOK
  BY <1>1, RunningPass DEF CountInv
<1>3. \A i \in Items : place[i] # "running"
  BY <1>1, <1>2, SameCohort DEF PoolOK, Cared, Leading
<1>4. Settled(place')
  BY <1>1, <1>3 DEF Settled, Open
<1>5. place' = [i \in Items |-> IF place[i] \in {"queued"} THEN "cancelled" ELSE place[i]]
  BY <1>1
<1>6. TrueCounts(status'.count, place')
  BY <1>1, <1>2, <1>5, ClosedIsTrue
<1> QED
  BY <1>1, <1>4, <1>6 DEF CountInv, Past, Before

\* Putting an ended pass to rest cancels in the counters what it cancels in the pool.
LEMMA EndCounts ==
    ASSUME PassInv, CountInv, Finish \/ Leave
    PROVE  CountInv'
<1> DEFINE closed == [i \in Items |-> IF place[i] \in Open THEN "cancelled" ELSE place[i]]
<1>1. status \in StatusType /\ place \in [Items -> Places \cup {"none"}]
  BY DEF PassInv, GoodStatus
<1>2. /\ pc \in {"ending", "idle"} /\ step' = step /\ pc' \in {"ended", "exit"}
      /\ \A i \in Items : step[i] = "idle"
  BY DEF Finish, Leave, CountInv, pool
<1>3. TrueCounts(status.count, place)
  BY <1>2 DEF CountInv
<1>4. ASSUME NEW o \in Ended
      PROVE  TrueCounts(Terminal(status, o).count, closed)
  <2>1. Terminal(status, o).count = Closed(status, Open).count
    BY <1>1, TerminalIsStatus
  <2> QED
    BY <1>1, <1>3, <2>1, ClosedIsTrue
<1>5. Settled(place) => closed = place
  BY <1>1 DEF Settled
<1>6. Settled(closed)
  BY DEF Settled, Open
<1>7. TrueCounts(status'.count, place') /\ Settled(place')
  <2>1. CASE Finish /\ result = "ok"
    <3>1. status' = [status EXCEPT !.outcome = "succeeded"] /\ place' = closed
      BY <2>1 DEF Finish, Forced
    <3>2. status'.count = status.count
      BY <1>1, <3>1 DEF StatusType
    <3>3. place' = place /\ Settled(place)
      BY <1>5, <2>1, <3>1 DEF CountInv, Past, Finish
    <3> QED
      BY <1>3, <3>2, <3>3
  <2>2. CASE Finish /\ result # "ok"
    <3>1. status' = Terminal(status, OutcomeOf(result)) /\ place' = closed
      BY <2>2 DEF Finish, Forced
    <3>2. OutcomeOf(result) \in Ended
      BY DEF OutcomeOf, Ended, Outcomes
    <3> HIDE DEF closed
    <3> QED
      BY <1>4, <1>6, <3>1, <3>2
  <2>3. CASE Leave
    <3>1. place' = place /\ Settled(place)
      BY <2>3 DEF Leave, CountInv, Past, Before, pool
    <3>2. status' = status \/ status' = Terminal(status, "cancelled")
      BY <2>3 DEF Leave, Forced
    <3>3. "cancelled" \in Ended
      BY DEF Ended, Outcomes
    <3> HIDE DEF closed
    <3> QED
      BY <1>3, <1>4, <1>5, <3>1, <3>2, <3>3
  <2> QED
    BY <2>1, <2>2, <2>3
<1> QED
  BY <1>2, <1>7 DEF CountInv

\* A process that is not yet running a pass, or no more, counts nothing.
LEMMA RestCounts ==
    ASSUME CountInv, Start \/ Recover \/ Exit \/ Crash
    PROVE  CountInv'
<1>1. CASE Start \/ Recover
  <2>1. /\ pc \in {"down", "recovering"} /\ pc' \in {"recovering", "ready"}
        /\ UNCHANGED <<place, step, result>>
    BY <1>1 DEF Start, Recover, pool
  <2> QED
    BY <2>1 DEF CountInv, Past, Before
<1>2. CASE Exit \/ Crash
  BY <1>2 DEF Exit, Crash, Gone, CountInv, Past, Before
<1> QED
  BY <1>1, <1>2

\* A step of the pool, seen from the pass.
LEMMA WorkCounts ==
    ASSUME PassInv, CountInv, NEW i \in Items, PoolStep(i)
    PROVE  CountInv'
<1>1. pc = "analysis" /\ pc' = "analysis" /\ pc \notin Resting
  BY DEF PoolStep, Schedule, Begin, StartFollower, Answer, Refuse, GiveUp, Sink, Analyzed,
         Share, Note, NotShared, Drop, Release, Again, InPool, Resting
<1>2. InWork
  BY <1>1, RunningPass DEF CountInv, InWork
<1>3. PoolOK' /\ TrueCounts(status.count, place)'
  BY <1>2, PoolCounts DEF Worked
<1> QED
  BY <1>1, <1>3 DEF CountInv, Past

-----------------------------------------------------------------------------
(* Theorems *)

\* The counters and the pool keep together, with the invariant of the pass.
THEOREM CountInvariant == Spec => []CountInv
<1>1. Init => CountInv
  BY DEF Init, CountInv, Past, Before
<1>2. PassInv /\ CountInv /\ [Next]_vars => CountInv'
  <2> SUFFICES ASSUME PassInv, CountInv, [Next]_vars PROVE CountInv'
    OBVIOUS
  <2>1. CASE UNCHANGED vars \/ Stop
    <3>1. UNCHANGED <<pc, result, status, place, step>>
      BY <2>1 DEF vars, Stop, tracker, pool
    <3> QED
      BY <3>1 DEF CountInv, Past, TrueCounts, Number, Settled, PoolOK, Cared
  <2>2. CASE PassStep
    BY <2>2, RestCounts, BeginCounts, FailCounts, PhaseCounts, PlanCounts, PreflightCounts,
       WorkCounts, DrainCounts, CorrelateCounts, LateCounts, EndCounts DEF PassStep
  <2>3. CASE Crash
    BY <2>3, RestCounts
  <2> QED
    BY <2>1, <2>2, <2>3 DEF Next
<1> QED
  BY <1>1, <1>2, PassInvariant, PTL DEF Spec

\* While a pass runs each counter of the status is the number of failures the pool has in
\* that place, for any failures, cohorts, and number of analyses at a time: no failure is
\* counted twice or forgotten, and the guard against negative counters is never needed.
THEOREM CountersTrue == Spec => []CountersAreTrue
<1>1. CountInv => CountersAreTrue
  BY DEF CountInv, TrueCounts, Number, CountersAreTrue
<1> QED
  BY <1>1, CountInvariant, PTL

\* A pass whose pool is behind it, and that met no error, has left none of its failures
\* queued or running: every goroutine has done with its cohort.
THEOREM NoneIsLeft == Spec => [](Past(pc, result) => Settled(place))
<1>1. CountInv => (Past(pc, result) => Settled(place))
  BY DEF CountInv
<1> QED
  BY <1>1, CountInvariant, PTL
=============================================================================
