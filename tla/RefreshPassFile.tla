-------------------------- MODULE RefreshPassFile --------------------------
(***************************************************************************)
(* The status file is one that the next process, and the server, accept,   *)
(* its times never go back, and the history has every pass that it should: *)
(* proofs for any failures, cohorts and number of analyses at a time,      *)
(* whatever moment a process dies in.                                      *)
(***************************************************************************)
EXTENDS RefreshPassCounts

\* What validate asks of the counters, and more: none of the failures is unaccounted for.
CountsSound(s) ==
    /\ \A k \in Kinds : Accounted(s, k) = s.total[k]
    /\ s.total["build"] <= s.total["all"]
    /\ s.reused + s.shared <= s.count["all"]["completed"]
    /\ s.shared <= s.saved

\* And of the numbers of the correlation.
PatternsSound(n) ==
    /\ n.completed + n.failed <= n.eligible
    /\ n.retries <= n.attempts /\ n.suppressed <= n.failed

Sound(s) == CountsSound(s) /\ PatternsSound(s.patterns)

\* The failure its cohort is represented by, when it gets a goroutine.
First(i) ==
    /\ place[i] = "queued" /\ \A j \in Mates(i) \cup {i} : step[j] = "idle"
    /\ \A j \in Mates(i) : place[j] = "queued" => i < j

\* Those that may still be given the result of another one, and the goroutines that have
\* given one and have not yet counted it.
InWait == {i \in Items : place[i] \in Open /\ step[i] = "idle" /\ ~First(i)}
Noting == {i \in Items : step[i] = "noting"}

\* Analyses spared pay for results shared, now and later; and a shared result is completed
\* before it is counted as shared.
ShareInv ==
    /\ \A i \in Items : step[i] = "held" => \A j \in Mates(i) : place[j] = "queued" => i < j
    /\ status.shared + Cardinality(Noting) + Cardinality(InWait) <= status.saved
    /\ status.reused + status.shared + Cardinality(Noting) <= status.count["all"]["completed"]

Unplanned == {"setup", "discovery", "artifacts", "planning"}
Uncorrelated == Unplanned \cup {"preflight", "analysis", "checkpoint", "correlating"}

AcceptInv ==
    /\ Sound(status) /\ Sound(statusFile)
    /\ pc \in Unplanned => status.shared = 0
    /\ pc \in Uncorrelated => status.patterns = NoPatterns
    /\ pc = "suppressed" => status.patterns.suppressed < status.patterns.failed
    /\ pc \in {"preflight", "analysis"} => ShareInv

-----------------------------------------------------------------------------
(* Statuses *)

\* Two statuses that agree in their numbers.
SameCounts(s, t) ==
    /\ t.count = s.count /\ t.total = s.total
    /\ t.reused = s.reused /\ t.shared = s.shared /\ t.saved = s.saved
SameNumbers(s, t) == SameCounts(s, t) /\ t.patterns = s.patterns

\* What has the numbers of a sound status is sound.
LEMMA SameIsSound ==
    ASSUME NEW s, NEW t, SameNumbers(s, t), Sound(s)
    PROVE  Sound(t)
BY DEF SameNumbers, SameCounts, Sound, CountsSound, Accounted

\* The blank status is sound.
LEMMA BlankIsSound == Sound(NoStatus) /\ NoStatus.shared = 0 /\ NoStatus.patterns = NoPatterns
<1>1. /\ NoStatus.total = [k \in Kinds |-> 0] /\ NoStatus.reused = 0 /\ NoStatus.shared = 0
      /\ NoStatus.saved = 0 /\ NoStatus.patterns = NoPatterns
      /\ NoStatus.count = [k \in Kinds |-> [p \in Places |-> 0]]
  BY DEF NoStatus
<1>2. \A k \in Kinds : Accounted(NoStatus, k) = 0
  BY <1>1 DEF Accounted, Places
<1>3. {"all", "build"} = Kinds /\ "completed" \in Places
  BY DEF Kinds, Subjects, Places
<1>4. CountsSound(NoStatus)
  BY <1>1, <1>2, <1>3 DEF CountsSound
<1>5. PatternsSound(NoPatterns)
  BY DEF PatternsSound, NoPatterns
<1> QED
  BY <1>1, <1>4, <1>5 DEF Sound

\* The changes of a status that leave its numbers alone.
LEMMA FaceChanges ==
    ASSUME NEW s \in StatusType
    PROVE  /\ \A n : SameNumbers(s, [s EXCEPT !.checked = n])
           /\ \A x, v : SameNumbers(s, [s EXCEPT !.stage[x] = v])
           /\ \A x, v : SameNumbers(s, [s EXCEPT !.followUp[x] = v])
           /\ \A o : SameNumbers(s, [s EXCEPT !.outcome = o])
           /\ \A x, v, n : SameNumbers(s, [s EXCEPT !.published = n, !.stage[x] = v])
           /\ \A x, v : SameNumbers(s, [s EXCEPT !.checkpoint = TRUE, !.stage[x] = v])
<1>1. /\ \A n : SameNumbers(s, [s EXCEPT !.checked = n])
      /\ \A o : SameNumbers(s, [s EXCEPT !.outcome = o])
  BY DEF StatusType, SameNumbers, SameCounts
<1>2. /\ \A x, v : SameNumbers(s, [s EXCEPT !.stage[x] = v])
      /\ \A x, v : SameNumbers(s, [s EXCEPT !.followUp[x] = v])
  BY DEF StatusType, SameNumbers, SameCounts
<1>3. /\ \A x, v, n : SameNumbers(s, [s EXCEPT !.published = n, !.stage[x] = v])
      /\ \A x, v : SameNumbers(s, [s EXCEPT !.checkpoint = TRUE, !.stage[x] = v])
  BY DEF StatusType, SameNumbers, SameCounts
<1> QED
  BY <1>1, <1>2, <1>3

\* A failure that moves from a place where one is counted leaves the sums as they were.
LEMMA MovedIsSound ==
    ASSUME NEW s \in StatusType, NEW i \in Items, NEW from \in Places \ {"completed"},
           NEW to \in Places, from # to,
           \A k \in Kinds : i \in Subjects[k] => s.count[k][from] > 0
    PROVE  LET t == Moved(s, i, from, to)
           IN /\ \A k \in Kinds : Accounted(t, k) = Accounted(s, k)
              /\ t.total = s.total /\ t.reused = s.reused /\ t.shared = s.shared
              /\ t.saved = s.saved /\ t.patterns = s.patterns
              /\ t.count["all"]["completed"] =
                    s.count["all"]["completed"] + (IF to = "completed" THEN 1 ELSE 0)
<1> DEFINE n == [k \in Kinds |->
        IF i \notin Subjects[k] THEN s.count[k]
        ELSE [p \in Places |->
                CASE p = from /\ p # to /\ s.count[k][p] > 0 -> s.count[k][p] - 1
                  [] p = to -> s.count[k][p] + 1
                  [] OTHER -> s.count[k][p]]]
           t == Moved(s, i, from, to)
<1>1. /\ t.count = n /\ t.total = s.total /\ t.reused = s.reused /\ t.shared = s.shared
      /\ t.saved = s.saved /\ t.patterns = s.patterns
  BY DEF Moved, StatusType
<1>2. s.count \in [Kinds -> [Places -> Nat]]
  BY DEF StatusType
<1>3. ASSUME NEW k \in Kinds, NEW p \in Places
      PROVE  n[k][p] = IF i \notin Subjects[k] THEN s.count[k][p]
                       ELSE CASE p = from -> s.count[k][p] - 1
                              [] p = to -> s.count[k][p] + 1
                              [] OTHER -> s.count[k][p]
  BY <1>2
<1>4. Places = {"queued", "running", "completed", "failed", "cancelled"}
  BY DEF Places
<1> HIDE DEF t
<1>5. ASSUME NEW k \in Kinds PROVE Accounted(t, k) = Accounted(s, k)
  <2> DEFINE c(p) == s.count[k][p]
             d(p) == n[k][p]
  <2>1. \A p \in Places : c(p) \in Nat
    BY <1>2
  <2>2. \A p \in Places : d(p) = IF i \notin Subjects[k] THEN c(p)
                       ELSE CASE p = from -> c(p) - 1 [] p = to -> c(p) + 1 [] OTHER -> c(p)
    BY <1>3
  <2>3. /\ Accounted(s, k) = c("queued") + c("running") + c("completed") + c("failed") + c("cancelled")
        /\ Accounted(t, k) = d("queued") + d("running") + d("completed") + d("failed") + d("cancelled")
    BY <1>1 DEF Accounted
  <2> HIDE DEF c, d, n
  <2>4. CASE i \notin Subjects[k]
    BY <1>4, <2>2, <2>3, <2>4
  <2>5. CASE i \in Subjects[k]
    <3>1. \A p \in Places : d(p) = CASE p = from -> c(p) - 1 [] p = to -> c(p) + 1 [] OTHER -> c(p)
      BY <2>2, <2>5
    <3> QED
      BY <1>4, <2>1, <2>3, <3>1
  <2> QED
    BY <2>4, <2>5
<1>6. "all" \in Kinds /\ Subjects["all"] = Items /\ "completed" \in Places
  BY DEF Kinds, Subjects, Places
<1>7. n["all"]["completed"] = s.count["all"]["completed"] + (IF to = "completed" THEN 1 ELSE 0)
  BY <1>2, <1>3, <1>6
<1> HIDE DEF n
<1> QED
  BY <1>1, <1>5, <1>7 DEF t

\* So does what is cancelled of what was open.
LEMMA ClosedIsSound ==
    ASSUME NEW s \in StatusType, Sound(s), NEW gone \in {{"queued"}, Open}
    PROVE  LET t == Closed(s, gone)
           IN /\ Sound(t) /\ t.patterns = s.patterns /\ t.shared = s.shared
              /\ t.total = s.total /\ t.reused = s.reused /\ t.saved = s.saved
<1> DEFINE n == [k \in Kinds |-> [p \in Places |->
        CASE p \in gone -> 0
          [] p = "cancelled" -> s.count[k][p] + (IF "queued" \in gone THEN s.count[k]["queued"] ELSE 0)
                                        + (IF "running" \in gone THEN s.count[k]["running"] ELSE 0)
          [] OTHER -> s.count[k][p]]]
           t == Closed(s, gone)
<1>1. /\ t.count = n /\ t.total = s.total /\ t.reused = s.reused /\ t.shared = s.shared
      /\ t.saved = s.saved /\ t.patterns = s.patterns
  BY DEF Closed, StatusType
<1>2. s.count \in [Kinds -> [Places -> Nat]]
  BY DEF StatusType
<1>3. /\ {"queued", "running", "completed", "failed", "cancelled"} = Places
      /\ Kinds = {"all", "build"} /\ gone \in {{"queued"}, {"queued", "running"}}
  BY DEF Places, Open, Kinds, Subjects
<1> HIDE DEF t
<1>4. ASSUME NEW k \in Kinds
      PROVE  Accounted(t, k) = Accounted(s, k) /\ n[k]["completed"] = s.count[k]["completed"]
  <2> DEFINE c(p) == s.count[k][p]
             d(p) == n[k][p]
  <2>1. \A p \in Places : c(p) \in Nat
    BY <1>2
  <2>2. /\ d("queued") = 0 /\ d("completed") = c("completed") /\ d("failed") = c("failed")
        /\ d("running") = IF "running" \in gone THEN 0 ELSE c("running")
        /\ d("cancelled") = c("cancelled") + c("queued") + IF "running" \in gone THEN c("running") ELSE 0
    BY <1>3
  <2>3. /\ Accounted(s, k) = c("queued") + c("running") + c("completed") + c("failed") + c("cancelled")
        /\ Accounted(t, k) = d("queued") + d("running") + d("completed") + d("failed") + d("cancelled")
    BY <1>1 DEF Accounted
  <2>4. d("completed") = n[k]["completed"] /\ c("completed") = s.count[k]["completed"]
    OBVIOUS
  <2> HIDE DEF c, d, n
  <2> QED
    BY <1>3, <2>1, <2>2, <2>3, <2>4
<1> HIDE DEF n
<1> QED
  BY <1>1, <1>3, <1>4 DEF Sound, CountsSound, t

\* And the end of a pass.
LEMMA TerminalIsSound ==
    ASSUME NEW s \in StatusType, Sound(s), NEW o
    PROVE  Sound(Terminal(s, o))
<1> DEFINE u == Closed(s, Open)
           f == [x \in Stages |-> CASE u.stage[x] # "running" -> u.stage[x]
                                    [] o = "failed" -> "failed"
                                    [] OTHER -> "cancelled"]
           g == [c \in Components |-> IF u.followUp[c] = "running" THEN "cancelled"
                                      ELSE u.followUp[c]]
<1>1. u \in StatusType /\ Sound(u)
  BY ClosedIsStatus, ClosedIsSound DEF Open, Places
<1>2. Terminal(s, o) = [u EXCEPT !.outcome = o, !.stage = f, !.followUp = g]
  BY DEF Terminal
<1> HIDE DEF u, f, g
<1>3. SameNumbers(u, [u EXCEPT !.outcome = o, !.stage = f, !.followUp = g])
  BY <1>1 DEF StatusType, SameNumbers, SameCounts
<1> QED
  BY <1>1, <1>2, <1>3, SameIsSound

-----------------------------------------------------------------------------
(* The planning of a pass *)

\* Of each execution one failure is its first: as many are not as analyses are spared.
LEMMA SparedOnes ==
    ASSUME NEW queued \in SUBSET Items
    PROVE  LET F == {i \in queued : \A j \in Mates(i) : j \in queued => i < j}
           IN Cardinality(queued \ F) <= Cardinality(queued) - Cardinality(Executions(queued))
<1> DEFINE F == {i \in queued : \A j \in Mates(i) : j \in queued => i < j}
           E == Executions(queued)
           f == [e \in E |-> Least(e)]
<1>1. ASSUME NEW e \in E PROVE e \in SUBSET Items /\ e # {} /\ Least(e) \in e /\ Least(e) \in F
  <2>1. PICK c \in Cohorts : e = c \cap queued /\ e # {}
    BY DEF Executions
  <2>2. Least(e) \in e /\ \A j \in e : Least(e) <= j
    BY <2>1, LeastIsOne
  <2>3. PICK i : i = Least(e)
    OBVIOUS
  <2>4. i \in c /\ i \in queued /\ i \in Items /\ Items \subseteq Nat
    BY <2>1, <2>2, <2>3, PassConstants
  <2>5. Mates(i) = c \ {i}
    <3>1. \A d \in Cohorts : i \in d => d = c
      BY <2>1, <2>4, PassConstants
    <3>2. (CHOOSE d \in Cohorts : i \in d) = c
      BY <2>4, <3>1
    <3> QED
      BY <3>2 DEF Mates
  <2>6. ASSUME NEW j \in Mates(i), j \in queued PROVE i < j
    <3>1. j \in e /\ j # i /\ j \in Nat /\ i \in Nat
      BY <2>1, <2>4, <2>5, <2>6
    <3> QED
      BY <2>2, <2>3, <3>1
  <2> QED
    BY <2>1, <2>2, <2>3, <2>4, <2>6
<1>2. ASSUME NEW d \in E, NEW e \in E, Least(d) = Least(e) PROVE d = e
  <2>1. PICK a \in Cohorts, b \in Cohorts : d = a \cap queued /\ e = b \cap queued
    BY DEF Executions
  <2>2. Least(d) \in a /\ Least(d) \in b
    BY <1>1, <1>2, <2>1
  <2> QED
    BY <2>1, <2>2, PassConstants
<1>3. f \in Injection(E, F)
  <2>1. /\ f \in [E -> F] /\ DOMAIN f = E /\ \A e \in E : f[e] = Least(e)
    BY <1>1
  <2>2. \A d, e \in E : f[d] = f[e] => d = e
    BY <1>2, <2>1
  <2> HIDE DEF E, F, f
  <2> QED
    BY <2>1, <2>2 DEF Injection, IsInjective
<1>4. F \in SUBSET Items /\ queued \ F \in SUBSET Items
  OBVIOUS
<1>5. IsFiniteSet(F) /\ IsFiniteSet(queued \ F) /\ IsFiniteSet(queued)
  BY <1>4, FiniteParts
<1>6. F \cap (queued \ F) = {} /\ F \cup (queued \ F) = queued
  OBVIOUS
<1> HIDE DEF E, F, f
<1>7. IsFiniteSet(E) /\ Cardinality(E) <= Cardinality(F)
  BY <1>3, <1>5, FS_Injection
<1>8. Cardinality(queued) = Cardinality(F) + Cardinality(queued \ F)
  BY <1>5, <1>6, Disjoint
<1>9. /\ Cardinality(E) \in Nat /\ Cardinality(F) \in Nat
      /\ Cardinality(queued \ F) \in Nat /\ Cardinality(queued) \in Nat
  BY <1>5, <1>7, FS_CardinalityType
<1>10. Cardinality(queued \ F) <= Cardinality(queued) - Cardinality(E)
  BY <1>7, <1>8, <1>9
<1> QED
  BY <1>10 DEF E, F

\* What is planned is sound: all of the work is queued or reused.
LEMMA PlannedIsSound ==
    ASSUME status \in StatusType, status.shared = 0, status.patterns = NoPatterns,
           NEW work \in SUBSET Items, NEW queued \in SUBSET work
    PROVE  LET s == Planned(work, queued)
           IN /\ Sound(s) /\ s.shared = 0 /\ s.patterns = NoPatterns
              /\ s.saved = Cardinality(queued) - Cardinality(Executions(queued))
              /\ s.reused <= s.count["all"]["completed"]
<1> DEFINE all == [k \in Kinds |-> Cardinality(work \cap Subjects[k])]
           placed == [k \in Kinds |-> [p \in Places |->
                CASE p = "queued" -> Cardinality(queued \cap Subjects[k])
                  [] p = "completed" -> Cardinality((work \ queued) \cap Subjects[k])
                  [] OTHER -> 0]]
           spared == Cardinality(work \ queued)
           few == Cardinality(queued) - Cardinality(Executions(queued))
           s == Planned(work, queued)
<1>1. s = [status EXCEPT !.total = all, !.count = placed, !.reused = spared, !.saved = few]
  BY DEF Planned
<1>2. {"queued", "running", "completed", "failed", "cancelled"} = Places
  BY DEF Places
<1>3. /\ Kinds = {"all", "build"} /\ Subjects["all"] = Items
      /\ Subjects["build"] = Builds /\ Builds \subseteq Items
  BY PassConstants DEF Kinds, Subjects
<1>4. ASSUME NEW k \in Kinds
      PROVE  /\ placed[k]["queued"] + placed[k]["completed"] = all[k]
             /\ placed[k]["queued"] \in Nat /\ placed[k]["completed"] \in Nat
             /\ placed[k]["running"] = 0 /\ placed[k]["failed"] = 0 /\ placed[k]["cancelled"] = 0
  <2> DEFINE A == queued \cap Subjects[k]
             B == (work \ queued) \cap Subjects[k]
  <2>1. IsFiniteSet(A) /\ IsFiniteSet(B) /\ A \cap B = {} /\ A \cup B = work \cap Subjects[k]
    BY FiniteParts
  <2>2. placed[k]["queued"] = Cardinality(A) /\ placed[k]["completed"] = Cardinality(B)
    BY <1>2
  <2>3. all[k] = Cardinality(A \cup B)
    BY <2>1
  <2>4. placed[k]["running"] = 0 /\ placed[k]["failed"] = 0 /\ placed[k]["cancelled"] = 0
    BY <1>2
  <2> HIDE DEF A, B, placed, all
  <2>5. Cardinality(A \cup B) = Cardinality(A) + Cardinality(B)
    BY <2>1, Disjoint
  <2>6. Cardinality(A) \in Nat /\ Cardinality(B) \in Nat
    BY <2>1, FS_CardinalityType
  <2> QED
    BY <2>2, <2>3, <2>4, <2>5, <2>6
<1>5. all["build"] <= all["all"]
  <2>1. work \cap Builds \in SUBSET (work \cap Items) /\ IsFiniteSet(work \cap Items)
    BY <1>3, FiniteParts
  <2>2. Cardinality(work \cap Builds) <= Cardinality(work \cap Items)
    BY <2>1, FS_Subset
  <2> QED
    BY <1>3, <2>2
<1>6. placed["all"]["completed"] = spared /\ spared \in Nat
  <2>1. (work \ queued) \cap Items = work \ queued /\ work \ queued \in SUBSET Items
    OBVIOUS
  <2>2. Cardinality(work \ queued) \in Nat
    BY <2>1, FiniteParts
  <2> QED
    BY <1>2, <1>3, <2>1, <2>2
<1>7. few \in Nat
  BY ExecutionsAreFew
<1> HIDE DEF all, placed, spared, few, s
<1>8. /\ s.total = all /\ s.count = placed /\ s.reused = spared /\ s.saved = few
      /\ s.shared = 0 /\ s.patterns = NoPatterns
  BY <1>1 DEF StatusType
<1>9. \A k \in Kinds : Accounted(s, k) = s.total[k]
  BY <1>4, <1>8 DEF Accounted
<1>10. CountsSound(s)
  BY <1>3, <1>5, <1>6, <1>7, <1>8, <1>9 DEF CountsSound
<1>11. PatternsSound(NoPatterns)
  BY BlankIsSound DEF Sound
<1> QED
  BY <1>6, <1>8, <1>10, <1>11 DEF Sound, s, few

-----------------------------------------------------------------------------
(* The pool *)

\* A step of a goroutine, seen from the failures: it is about its cohort, opens none, and
\* leaves none to wait that did not.
Eases(i) ==
    /\ step[i] # "idle"
    /\ \A x \in Items : x \notin Mates(i) \cup {i} => step'[x] = step[x] /\ place'[x] = place[x]
    /\ \A x \in Items :
        /\ place'[x] \in Open => place[x] \in Open
        /\ place'[x] = "queued" => place[x] = "queued"
        /\ place'[x] \in Open /\ step'[x] = "idle" => step[x] = "idle"
        /\ step'[x] = "held" => step[x] = "held"

Least1 == \A i \in Items : step[i] = "held" => \A j \in Mates(i) : place[j] = "queued" => i < j

\* After such a step no other failure waits, and a token is still held for the first.
LEMMA EasesWaiting ==
    ASSUME NEW i \in Items, Eases(i), Least1
    PROVE  InWait' \subseteq InWait /\ Least1'
<1>1. Least1'
  BY SameCohort DEF Eases, Least1
<1>2. ASSUME NEW x \in InWait' PROVE x \in InWait
  <2>1. x \in Items /\ place'[x] \in Open /\ step'[x] = "idle" /\ ~First(x)'
    BY <1>2 DEF InWait
  <2>2. place[x] \in Open /\ step[x] = "idle"
    BY <2>1 DEF Eases
  <2>3. ASSUME First(x) PROVE FALSE
    <3>1. step[i] # "idle" /\ place[x] = "queued" /\ \A j \in Mates(x) : step[j] = "idle"
      BY <2>1, <2>3 DEF First, Eases
    <3>2. i # x /\ i \notin Mates(x)
      BY <2>2, <3>1
    <3>3. x \notin Mates(i)
      BY <2>1, <3>2, SameCohort
    <3>4. \A j \in Mates(x) : j \in Items /\ j \notin Mates(i) \cup {i}
      BY <2>1, <3>2, SameCohort
    <3>5. /\ place'[x] = place[x] /\ step'[x] = step[x]
          /\ \A j \in Mates(x) : place'[j] = place[j] /\ step'[j] = step[j]
      BY <2>1, <3>2, <3>3, <3>4 DEF Eases
    <3>6. Mates(x)' = Mates(x)
      BY DEF Mates
    <3> QED
      BY <2>1, <2>3, <3>5, <3>6 DEF First
  <2> QED
    BY <2>1, <2>2, <2>3 DEF InWait
<1> QED
  BY <1>1, <1>2

\* What is known while the pool works, of the status, too.
Sharing == InWork /\ AcceptInv

\* What becomes of the numbers in every step of the pool.
Keeps ==
    /\ Sound(status') /\ Sound(statusFile') /\ status'.patterns = status.patterns
    /\ status'.saved = status.saved /\ status'.reused = status.reused

\* All that the invariant looks at is finite.
LEMMA ShareNumbers ==
    ASSUME Sharing
    PROVE  /\ Least1 /\ IsFiniteSet(InWait) /\ IsFiniteSet(Noting)
           /\ Cardinality(InWait) \in Nat /\ Cardinality(Noting) \in Nat
           /\ status.shared \in Nat /\ status.saved \in Nat /\ status.reused \in Nat
           /\ status.count["all"]["completed"] \in Nat
           /\ status.shared + Cardinality(Noting) + Cardinality(InWait) <= status.saved
           /\ status.reused + status.shared + Cardinality(Noting)
                <= status.count["all"]["completed"]
           /\ status.patterns = NoPatterns /\ Sound(status) /\ Sound(statusFile)
<1>1. InWait \in SUBSET Items /\ Noting \in SUBSET Items
  BY DEF InWait, Noting
<1>2. ShareInv /\ status \in StatusType /\ status.patterns = NoPatterns
      /\ Sound(status) /\ Sound(statusFile)
  BY DEF Sharing, InWork, AcceptInv, Uncorrelated
<1>3. "all" \in Kinds /\ "completed" \in Places
  BY DEF Kinds, Subjects, Places
<1>4. /\ status.shared \in Nat /\ status.saved \in Nat /\ status.reused \in Nat
      /\ status.count["all"]["completed"] \in Nat
  BY <1>2, <1>3 DEF StatusType
<1> QED
  BY <1>1, <1>2, <1>4, FiniteParts DEF ShareInv, Least1

\* A step that keeps the sum of what is shared and what may be.
LEMMA StillSharing ==
    ASSUME Sharing, pc' = "analysis", Keeps, Least1',
           NEW n \in Nat, NEW w \in Nat,
           Cardinality(Noting)' = n, Cardinality(InWait)' = w,
           status'.shared + n + w
                <= status.shared + Cardinality(Noting) + Cardinality(InWait),
           status'.shared + n - status'.count["all"]["completed"]
                <= status.shared + Cardinality(Noting) - status.count["all"]["completed"],
           status'.shared \in Nat, status'.count["all"]["completed"] \in Nat
    PROVE  AcceptInv'
<1>1. ShareInv'
  BY ShareNumbers DEF ShareInv, Keeps, Least1
<1>2. status'.patterns = NoPatterns
  BY ShareNumbers DEF Keeps
<1> QED
  BY <1>1, <1>2 DEF AcceptInv, Keeps, Unplanned, Uncorrelated

\* A failure that moves, and what that does to the numbers.
LEMMA MoveSound ==
    ASSUME Sharing, NEW i \in Items, NEW from \in {"queued", "running"},
           NEW to \in Places \ {"queued"}, from # to, place[i] = from, Moves(i, from, to)
    PROVE  /\ Keeps /\ status'.shared = status.shared
           /\ status'.count["all"]["completed"] =
                status.count["all"]["completed"] + (IF to = "completed" THEN 1 ELSE 0)
<1> DEFINE t == Moved(status, i, from, to)
<1>1. status' = t /\ statusFile' \in {statusFile, t}
  BY DEF Moves, Unforced
<1>2. status \in StatusType /\ TrueCounts(status.count, place)
      /\ place \in [Items -> Places \cup {"none"}] /\ Sound(status) /\ Sound(statusFile)
  BY DEF Sharing, InWork, AcceptInv
<1>3. from \in Places \ {"completed"} /\ to \in Places
  BY DEF Places
<1>4. ASSUME NEW k \in Kinds, i \in Subjects[k] PROVE status.count[k][from] > 0
  <2>1. MovesNumber(place, i, from, to, k, from)
    BY <1>2, <1>3, OneMoves
  <2>2. status.count[k][from] = Number(place, k, from)
    BY <1>2, <1>3 DEF TrueCounts
  <2> QED
    BY <1>4, <2>1, <2>2 DEF MovesNumber
<1>5. /\ \A k \in Kinds : Accounted(t, k) = Accounted(status, k)
      /\ t.total = status.total /\ t.reused = status.reused /\ t.shared = status.shared
      /\ t.saved = status.saved /\ t.patterns = status.patterns
      /\ t.count["all"]["completed"] =
            status.count["all"]["completed"] + (IF to = "completed" THEN 1 ELSE 0)
  BY <1>2, <1>3, <1>4, MovedIsSound
<1> HIDE DEF t
<1>6. Sound(t)
  <2>1. /\ status.reused \in Nat /\ status.shared \in Nat
        /\ status.count["all"]["completed"] \in Nat
    BY ShareNumbers
  <2> QED
    BY <1>2, <1>5, <2>1 DEF Sound, CountsSound
<1> QED
  BY <1>1, <1>2, <1>5, <1>6 DEF Keeps

\* A quiet step that eases the wait, or moves a failure, keeps the sums.
LEMMA EasySharing ==
    ASSUME Sharing, pc' = "analysis", Keeps, status'.shared = status.shared,
           status'.count["all"]["completed"] \in Nat,
           status.count["all"]["completed"] <= status'.count["all"]["completed"],
           InWait' \subseteq InWait, Least1', Noting' = Noting
    PROVE  AcceptInv'
<1>1. IsFiniteSet(InWait) /\ Cardinality(InWait) \in Nat
  BY ShareNumbers
<1> DEFINE W == InWait'
<1>2. IsFiniteSet(W) /\ Cardinality(W) <= Cardinality(InWait)
  BY <1>1, FS_Subset
<1>3. Cardinality(W) \in Nat
  BY <1>2, FS_CardinalityType
<1>4. Cardinality(InWait)' = Cardinality(W) /\ Cardinality(Noting)' = Cardinality(Noting)
  OBVIOUS
<1> HIDE DEF W
<1>5. /\ Cardinality(Noting) \in Nat /\ status.shared \in Nat
      /\ status.count["all"]["completed"] \in Nat
  BY ShareNumbers
<1> QED
  BY <1>1, <1>2, <1>3, <1>4, <1>5, StillSharing

\* Writing nothing keeps what is written.
LEMMA QuietKeeps ==
    ASSUME Sharing, Quietly
    PROVE  /\ Keeps /\ status'.shared = status.shared
           /\ status'.count["all"]["completed"] = status.count["all"]["completed"]
           /\ status.count["all"]["completed"] \in Nat
BY ShareNumbers DEF Quietly, Keeps

\* A token is taken for the first of its cohort, or given back for it.
LEMMA TokenSharing ==
    ASSUME Sharing, NEW i \in Items, Schedule(i) \/ (Begin(i) /\ Over)
    PROVE  AcceptInv'
<1>1. /\ pc' = "analysis" /\ Quietly /\ place' = place
      /\ \/ step' = [step EXCEPT ![i] = "held"] /\ i = Least(Unscheduled) /\ Unscheduled # {}
         \/ step' = [step EXCEPT ![i] = "idle"] /\ step[i] = "held"
  BY DEF Schedule, Begin, InPool, Steps, Quietly
<1>2. PoolOK /\ DOMAIN step = Items /\ Least1 /\ \A j \in Items : Cared(j)
  BY ShareNumbers DEF Sharing, InWork, PoolOK
<1>3. Items \subseteq Nat /\ \A x : Mates(x)' = Mates(x)
  BY PassConstants DEF Mates
<1>4. CASE step' = [step EXCEPT ![i] = "held"] /\ i = Least(Unscheduled) /\ Unscheduled # {}
  <2>1. i \in Unscheduled /\ \A j \in Unscheduled : i <= j
    BY <1>4, LeastIsOne DEF Unscheduled
  <2>2. place[i] = "queued" /\ \A j \in Mates(i) \cup {i} : step[j] = "idle"
    BY <2>1 DEF Unscheduled
  <2>3. ASSUME NEW j \in Mates(i), place[j] = "queued" PROVE j \in Unscheduled /\ i < j
    <3>1. j \in Items /\ j # i /\ Mates(j) \cup {j} = Mates(i) \cup {i}
      BY MatesAreMates
    <3>2. j \in Unscheduled
      BY <2>2, <2>3, <3>1 DEF Unscheduled
    <3> QED
      BY <1>3, <2>1, <3>1, <3>2
  <2>4. Least1'
    BY <1>1, <1>2, <1>3, <1>4, <2>3 DEF Least1
  <2>5. ASSUME NEW x \in InWait' PROVE x \in InWait
    <3>1. x \in Items /\ place[x] \in Open /\ step'[x] = "idle" /\ ~First(x)'
      BY <1>1, <2>5 DEF InWait
    <3>2. x # i /\ step[x] = "idle"
      BY <1>2, <1>4, <3>1
    <3>3. ASSUME First(x) PROVE FALSE
      <4>1. CASE i \in Mates(x)
        <5>1. x < i
          BY <2>2, <3>3, <4>1 DEF First
        <5>2. x \in Mates(i) /\ place[x] = "queued"
          BY <3>1, <3>3, <4>1, SameCohort DEF First
        <5>3. i < x
          BY <2>3, <5>2
        <5> QED
          BY <1>3, <3>1, <5>1, <5>3
      <4>2. CASE i \notin Mates(x)
        <5>1. \A j \in Mates(x) \cup {x} : step'[j] = step[j] /\ place'[j] = place[j]
          BY <1>1, <1>2, <1>4, <3>1, <3>2, <4>2, SameCohort
        <5> QED
          BY <1>1, <1>3, <3>1, <3>3, <5>1 DEF First
      <4> QED
        BY <4>1, <4>2
    <3> QED
      BY <3>1, <3>2, <3>3 DEF InWait
  <2>6. Noting' = Noting
    BY <1>2, <1>4, <2>2 DEF Noting
  <2> QED
    BY <1>1, <2>4, <2>5, <2>6, EasySharing, QuietKeeps
<1>5. CASE step' = [step EXCEPT ![i] = "idle"] /\ step[i] = "held"
  <2>1. /\ place[i] = "queued" /\ \A j \in Mates(i) : step[j] = "idle"
        /\ \A j \in Mates(i) : place[j] = "queued" => i < j
    BY <1>2, <1>5 DEF Cared, Least1
  <2>2. Least1'
    BY <1>1, <1>2, <1>3, <1>5 DEF Least1
  <2>3. \A j \in Mates(i) \cup {i} : step'[j] = "idle"
    BY <1>2, <1>5, <2>1, SameCohort
  <2>4. First(i)'
    BY <1>1, <1>3, <2>1, <2>3 DEF First
  <2>5. ASSUME NEW x \in InWait' PROVE x \in InWait
    <3>1. x \in Items /\ place[x] \in Open /\ step'[x] = "idle" /\ ~First(x)' /\ x # i
      BY <1>1, <2>4, <2>5 DEF InWait
    <3>2. step[x] = "idle"
      BY <1>2, <1>5, <3>1
    <3>3. ASSUME First(x) PROVE FALSE
      <4>1. i \notin Mates(x)
        BY <1>5, <3>3 DEF First
      <4>2. \A j \in Mates(x) \cup {x} : step'[j] = step[j] /\ place'[j] = place[j]
        BY <1>1, <1>2, <1>5, <3>1, <4>1, SameCohort
      <4> QED
        BY <1>1, <1>3, <3>1, <3>3, <4>2 DEF First
    <3> QED
      BY <3>1, <3>2, <3>3 DEF InWait
  <2>6. Noting' = Noting
    BY <1>2, <1>5 DEF Noting
  <2> QED
    BY <1>1, <2>2, <2>5, <2>6, EasySharing, QuietKeeps
<1> QED
  BY <1>1, <1>4, <1>5

\* A goroutine whose follower is sent to wait, that ends, that waits no more, or whose
\* cohort is to be analyzed one by one.
LEMMA RestSharing ==
    ASSUME Sharing, NEW i \in Items,
           NotShared(i) \/ Release(i) \/ (Again(i) /\ ~Over) \/ (Refuse(i) /\ Rest(i) # {})
    PROVE  AcceptInv'
<1>1. PoolOK /\ DOMAIN step = Items /\ Least1 /\ Cared(i)
  BY ShareNumbers DEF Sharing, InWork, PoolOK
<1>2. pc' = "analysis" /\ Quietly /\ place' = place
  BY DEF NotShared, Release, Again, Refuse, Analyzed, InPool, Quietly
<1>3. CASE NotShared(i)
  <2>1. step[i] = "sharing" /\ Followers(i) # {}
    BY <1>3 DEF NotShared
  <2>2. PICK f \in Items : f = Least(Followers(i)) /\ f \in Followers(i)
    BY <2>1, LeastIsOne, SameCohort DEF Followers
  <2>3. f \in Mates(i) /\ step[f] = "idle" /\ step' = [step EXCEPT ![f] = "again"]
    BY <1>3, <2>2 DEF NotShared, Steps, Followers
  <2>4. Eases(i) /\ Noting' = Noting
    BY <1>1, <1>2, <2>1, <2>3 DEF Eases, Noting
  <2> QED
    BY <1>1, <1>2, <2>4, EasesWaiting, EasySharing, QuietKeeps
<1>4. CASE Release(i)
  <2>1. /\ step' = [step EXCEPT ![i] = "idle"]
        /\ step[i] \in {"sharing", "dropping", "sinking", "sunk"}
    BY <1>4 DEF Release
  <2>2. place[i] \notin Open
    BY <1>1, <2>1 DEF Cared
  <2>3. Eases(i) /\ Noting' = Noting
    BY <1>1, <1>2, <2>1, <2>2 DEF Eases, Noting
  <2> QED
    BY <1>1, <1>2, <2>3, EasesWaiting, EasySharing, QuietKeeps
<1>5. CASE Again(i) /\ ~Over
  <2>1. step' = [step EXCEPT ![i] = "alone"] /\ step[i] = "again"
    BY <1>5 DEF Again, Steps
  <2>2. Eases(i) /\ Noting' = Noting
    BY <1>1, <1>2, <2>1 DEF Eases, Noting
  <2> QED
    BY <1>1, <1>2, <2>2, EasesWaiting, EasySharing, QuietKeeps
<1>6. CASE Refuse(i) /\ Rest(i) # {}
  <2>1. /\ step[i] = "active"
        /\ step' = [j \in Items |-> IF j \in Followers(i) \cup {i} THEN "again" ELSE step[j]]
    BY <1>6 DEF Refuse, Rest, Analyzed
  <2>2. \A j \in Followers(i) : j \in Mates(i) /\ step[j] = "idle"
    BY DEF Followers
  <2>3. Eases(i) /\ Noting' = Noting
    BY <1>1, <1>2, <2>1, <2>2 DEF Eases, Noting
  <2> QED
    BY <1>1, <1>2, <2>3, EasesWaiting, EasySharing, QuietKeeps
<1> QED
  BY <1>3, <1>4, <1>5, <1>6

\* A failure is begun, or ends, without being a shared result.
LEMMA MovingSharing ==
    ASSUME Sharing, NEW i \in Items,
           \/ (Begin(i) /\ ~Over) \/ Answer(i) \/ (Refuse(i) /\ Rest(i) = {}) \/ GiveUp(i)
           \/ Sink(i) \/ (Again(i) /\ Over) \/ StartFollower(i) \/ Drop(i)
    PROVE  AcceptInv'
<1>1. PoolOK /\ DOMAIN step = Items /\ DOMAIN place = Items /\ Least1 /\ Cared(i)
  BY ShareNumbers DEF Sharing, InWork, PoolOK
<1>2. pc' = "analysis"
  BY DEF Begin, Answer, Refuse, GiveUp, Sink, Again, StartFollower, Drop, Analyzed, InPool
<1>3. Places = {"queued", "running", "completed", "failed", "cancelled"}
  BY DEF Places
<1>4. ASSUME NEW m \in Mates(i) \cup {i}, m \in Items, NEW from \in {"queued", "running"},
             NEW to \in Places \ {"queued"}, from # to, place[m] = from, Moves(m, from, to),
             NEW v, step' = [step EXCEPT ![i] = v], step[i] \notin {"idle", "noting"},
             v \notin {"held", "noting"}, v = "idle" => m = i /\ to # "running"
      PROVE  AcceptInv'
  <2>1. place' = [place EXCEPT ![m] = to]
    BY <1>4 DEF Moves
  <2>2. Noting' = Noting
    BY <1>1, <1>4 DEF Noting
  <2>3. Eases(i)
    <3>1. ASSUME NEW x \in Items, x \notin Mates(i) \cup {i}
          PROVE  step'[x] = step[x] /\ place'[x] = place[x]
      BY <1>1, <1>4, <2>1, <3>1
    <3>2. ASSUME NEW x \in Items
          PROVE  /\ place'[x] \in Open => place[x] \in Open
                 /\ place'[x] = "queued" => place[x] = "queued"
                 /\ step'[x] = "held" => step[x] = "held"
      BY <1>1, <1>4, <2>1 DEF Open
    <3>3. ASSUME NEW x \in Items, place'[x] \in Open, step'[x] = "idle" PROVE step[x] = "idle"
      BY <1>1, <1>3, <1>4, <2>1, <3>3 DEF Open
    <3> QED
      BY <1>4, <3>1, <3>2, <3>3 DEF Eases
  <2>4. InWait' \subseteq InWait /\ Least1'
    BY <1>1, <2>3, EasesWaiting
  <2>5. /\ Keeps /\ status'.shared = status.shared
        /\ status'.count["all"]["completed"] =
                status.count["all"]["completed"] + (IF to = "completed" THEN 1 ELSE 0)
        /\ status.count["all"]["completed"] \in Nat
    BY <1>4, MoveSound, ShareNumbers
  <2> QED
    BY <1>2, <2>2, <2>4, <2>5, EasySharing
<1>5. CASE Begin(i) /\ ~Over
  <2>1. Moves(i, "queued", "running") /\ step' = [step EXCEPT ![i] = "active"] /\ step[i] = "held"
    BY <1>5 DEF Begin, Steps
  <2>2. place[i] = "queued"
    BY <1>1, <2>1 DEF Cared
  <2> QED
    BY <1>3, <1>4, <2>1, <2>2
<1>6. CASE Again(i) /\ Over
  <2>1. Moves(i, "running", "cancelled") /\ step' = [step EXCEPT ![i] = "idle"] /\ step[i] = "again"
    BY <1>6 DEF Again, Steps
  <2>2. place[i] = "running" /\ i \in Mates(i) \cup {i}
    BY <1>1, <2>1 DEF Cared
  <2>3. ASSUME NEW v, v = "idle", step' = [step EXCEPT ![i] = v] PROVE AcceptInv'
    <3>1. /\ "cancelled" \in Places \ {"queued"} /\ "running" \in {"queued", "running"}
          /\ "running" # "cancelled" /\ "cancelled" # "running"
      BY <1>3
    <3>2. step[i] \notin {"idle", "noting"} /\ v \notin {"held", "noting"}
      BY <2>1, <2>3
    <3> QED
      BY <1>4, <2>1, <2>2, <2>3, <3>1, <3>2, Zenon
  <2> QED
    BY <2>1, <2>3
<1>7. CASE Answer(i) \/ (Refuse(i) /\ Rest(i) = {}) \/ GiveUp(i) \/ Sink(i)
  <2>1. step[i] \in {"active", "alone"} /\ place[i] = "running"
    BY <1>1, <1>7 DEF Answer, Refuse, GiveUp, Sink, Analyzed, Cared
  <2>2. PICK to \in {"completed", "failed", "cancelled"} : Moves(i, "running", to)
    BY <1>7 DEF Answer, Refuse, GiveUp, Sink
  <2>3. PICK v \in {"idle", "sharing", "dropping", "sinking", "sunk"} :
           step' = [step EXCEPT ![i] = v]
    BY <1>7 DEF Answer, Refuse, GiveUp, Sink, Steps
  <2> QED
    BY <1>3, <1>4, <2>1, <2>2, <2>3
<1>8. CASE StartFollower(i)
  <2>1. step[i] = "active" /\ Unstarted(i) # {} /\ step' = [step EXCEPT ![i] = "active"]
    BY <1>8 DEF StartFollower, Steps
  <2>2. PICK f : f = Least(Unstarted(i)) /\ f \in Unstarted(i) /\ f \in Items
    BY <2>1, LeastIsOne, SameCohort DEF Unstarted
  <2>3. f \in Mates(i) /\ place[f] = "queued" /\ Moves(f, "queued", "running")
    BY <1>8, <2>2 DEF StartFollower, Unstarted
  <2> QED
    BY <1>3, <1>4, <2>1, <2>2, <2>3
<1>9. CASE Drop(i)
  <2>1. /\ step[i] \in {"dropping", "sinking"} /\ Followers(i) # {}
        /\ step' = [step EXCEPT ![i] = step[i]]
    BY <1>9 DEF Drop, Steps
  <2>2. PICK f : f = Least(Followers(i)) /\ f \in Followers(i) /\ f \in Items
    BY <2>1, LeastIsOne, SameCohort DEF Followers
  <2>3. f \in Mates(i) /\ place[f] = "running" /\ Moves(f, "running", "cancelled")
    BY <1>9, <2>2 DEF Drop, Followers
  <2> QED
    BY <1>3, <1>4, <2>1, <2>2, <2>3
<1> QED
  BY <1>5, <1>6, <1>7, <1>8, <1>9

\* A follower is given the result: it is completed, and waits no more; the count follows.
LEMMA GivingSharing ==
    ASSUME Sharing, NEW i \in Items, Share(i)
    PROVE  AcceptInv'
<1>1. PoolOK /\ DOMAIN step = Items /\ DOMAIN place = Items /\ Least1 /\ Cared(i)
  BY ShareNumbers DEF Sharing, InWork, PoolOK
<1>2. /\ pc' = "analysis" /\ step[i] = "sharing" /\ Followers(i) # {}
      /\ step' = [step EXCEPT ![i] = "noting"]
  BY DEF Share, InPool, Steps
<1>3. PICK f : f = Least(Followers(i)) /\ f \in Followers(i) /\ f \in Items
  BY <1>2, LeastIsOne, SameCohort DEF Followers
<1>4. f \in Mates(i) /\ place[f] = "running" /\ step[f] = "idle" /\ f # i
      /\ Moves(f, "running", "completed") /\ place' = [place EXCEPT ![f] = "completed"]
  BY <1>3, SameCohort DEF Share, Followers, Moves
<1>5. Eases(i)
  BY <1>1, <1>2, <1>4 DEF Eases, Open
<1>6. InWait' \subseteq InWait \ {f} /\ f \in InWait /\ Least1'
  <2>1. f \in InWait
    BY <1>3, <1>4 DEF InWait, First, Open
  <2>2. f \notin InWait'
    BY <1>1, <1>3, <1>4 DEF InWait, Open
  <2> QED
    BY <1>1, <1>5, <2>1, <2>2, EasesWaiting
<1>7. Noting' = Noting \cup {i} /\ i \notin Noting
  BY <1>1, <1>2 DEF Noting
<1>8. /\ Keeps /\ status'.shared = status.shared
      /\ status'.count["all"]["completed"] = status.count["all"]["completed"] + 1
  <2>1. "completed" \in Places
    BY DEF Places
  <2> QED
    BY <1>3, <1>4, <2>1, MoveSound
<1>9. /\ IsFiniteSet(InWait) /\ IsFiniteSet(Noting)
      /\ Cardinality(InWait) \in Nat /\ Cardinality(Noting) \in Nat
      /\ status.shared \in Nat /\ status.count["all"]["completed"] \in Nat
  BY ShareNumbers
<1> DEFINE W == InWait'
           N == Noting'
<1>10. Cardinality(N) = Cardinality(Noting) + 1
  BY <1>7, <1>9, FS_AddElement
<1>11. Cardinality(W) \in Nat /\ Cardinality(W) <= Cardinality(InWait) - 1
  <2>1. IsFiniteSet(InWait \ {f}) /\ Cardinality(InWait \ {f}) = Cardinality(InWait) - 1
    BY <1>6, <1>9, FS_RemoveElement
  <2>2. IsFiniteSet(W) /\ Cardinality(W) <= Cardinality(InWait \ {f})
    BY <1>6, <2>1, FS_Subset
  <2> QED
    BY <2>1, <2>2, FS_CardinalityType
<1>12. Cardinality(InWait)' = Cardinality(W) /\ Cardinality(Noting)' = Cardinality(N)
  OBVIOUS
<1> HIDE DEF W, N
<1> QED
  BY <1>2, <1>6, <1>8, <1>9, <1>10, <1>11, <1>12, StillSharing

\* The count follows.
LEMMA NotingSharing ==
    ASSUME Sharing, NEW i \in Items, Note(i)
    PROVE  AcceptInv'
<1>1. PoolOK /\ DOMAIN step = Items /\ Least1 /\ Cared(i) /\ status \in StatusType
  BY ShareNumbers DEF Sharing, InWork, PoolOK
<1> DEFINE s == [status EXCEPT !.shared = @ + 1]
<1>2. /\ pc' = "analysis" /\ step[i] = "noting" /\ step' = [step EXCEPT ![i] = "sharing"]
      /\ place' = place /\ status' = s /\ statusFile' \in {statusFile, s}
  BY DEF Note, InPool, Steps, Unforced
<1>3. place[i] \notin Open
  BY <1>1, <1>2 DEF Cared
<1>4. Eases(i)
  BY <1>1, <1>2, <1>3 DEF Eases
<1>5. InWait' \subseteq InWait /\ Least1'
  BY <1>1, <1>4, EasesWaiting
<1>6. Noting' = Noting \ {i} /\ i \in Noting
  BY <1>1, <1>2 DEF Noting
<1>7. /\ IsFiniteSet(InWait) /\ IsFiniteSet(Noting)
      /\ Cardinality(InWait) \in Nat /\ Cardinality(Noting) \in Nat
      /\ status.shared \in Nat /\ status.saved \in Nat /\ status.reused \in Nat
      /\ status.count["all"]["completed"] \in Nat /\ Sound(status) /\ Sound(statusFile)
      /\ status.shared + Cardinality(Noting) + Cardinality(InWait) <= status.saved
      /\ status.reused + status.shared + Cardinality(Noting)
                <= status.count["all"]["completed"]
  BY ShareNumbers
<1> DEFINE W == InWait'
           N == Noting'
<1>8. Cardinality(N) = Cardinality(Noting) - 1 /\ Cardinality(N) \in Nat
  <2>1. IsFiniteSet(N) /\ Cardinality(N) = Cardinality(Noting) - 1
    BY <1>6, <1>7, FS_RemoveElement
  <2> QED
    BY <2>1, FS_CardinalityType
<1>9. Cardinality(W) \in Nat /\ Cardinality(W) <= Cardinality(InWait)
  <2>1. IsFiniteSet(W) /\ Cardinality(W) <= Cardinality(InWait)
    BY <1>5, <1>7, FS_Subset
  <2> QED
    BY <2>1, FS_CardinalityType
<1>10. Cardinality(InWait)' = Cardinality(W) /\ Cardinality(Noting)' = Cardinality(N)
  OBVIOUS
<1> HIDE DEF W, N
<1>11. /\ s.shared = status.shared + 1 /\ s.count = status.count /\ s.total = status.total
       /\ s.reused = status.reused /\ s.saved = status.saved /\ s.patterns = status.patterns
  BY <1>1 DEF StatusType
<1> HIDE DEF s
<1>12. Sound(s)
  BY <1>7, <1>8, <1>11 DEF Sound, CountsSound, Accounted
<1>13. Keeps
  BY <1>2, <1>7, <1>11, <1>12 DEF Keeps
<1> QED
  BY <1>2, <1>5, <1>7, <1>8, <1>9, <1>10, <1>11, <1>13, StillSharing

\* So every step of the pool keeps the file acceptable.
LEMMA PoolSharing ==
    ASSUME PassInv, CountInv, AcceptInv, NEW i \in Items, PoolStep(i)
    PROVE  AcceptInv'
<1>1. pc = "analysis" /\ pc \notin Resting
  BY DEF PoolStep, Schedule, Begin, StartFollower, Answer, Refuse, GiveUp, Sink, Analyzed,
         Share, Note, NotShared, Drop, Release, Again, InPool, Resting
<1>2. Sharing
  BY <1>1, RunningPass DEF CountInv, InWork, Sharing
<1> QED
  BY <1>2, TokenSharing, RestSharing, MovingSharing, GivingSharing, NotingSharing DEF PoolStep

-----------------------------------------------------------------------------
(* The rest of a pass *)

\* A step that writes a sound status, behind the pool or before it.
LEMMA Settles ==
    ASSUME AcceptInv, NEW s, Sound(s), Forced(s), pc' \notin {"preflight", "analysis"},
           pc' \in Unplanned => s.shared = 0,
           pc' \in Uncorrelated => s.patterns = NoPatterns,
           pc' = "suppressed" => s.patterns.suppressed < s.patterns.failed
    PROVE  AcceptInv'
<1>1. status' = s /\ statusFile' \in {s, statusFile}
  BY DEF Forced
<1> QED
  BY <1>1 DEF AcceptInv

\* A step that writes nothing, behind the pool or before it.
LEMMA Leaves ==
    ASSUME AcceptInv, status' \in {status, NoStatus}, UNCHANGED statusFile,
           pc' \notin Uncorrelated \cup {"suppressed"}
    PROVE  AcceptInv'
BY BlankIsSound DEF AcceptInv, Uncorrelated

\* A phase that writes a status with the same numbers.
LEMMA FacePhaseSound ==
    ASSUME AcceptInv, NEW p, NEW q, NEW s, SameNumbers(status, s), Phase(p, q, s),
           q \notin {"preflight", "analysis", "suppressed"},
           q \in Unplanned => p \in Unplanned, q \in Uncorrelated => p \in Uncorrelated
    PROVE  AcceptInv'
<1>1. Sound(s) /\ s.shared = status.shared /\ s.patterns = status.patterns
  BY SameIsSound DEF AcceptInv, SameNumbers, SameCounts
<1>2. pc = p /\ pc' = q /\ Forced(s)
  BY DEF Phase
<1> QED
  BY <1>1, <1>2, Settles DEF AcceptInv

\* The phases that change no number of the status.
LEMMA FacePhasesSound ==
    ASSUME PassInv, AcceptInv,
           \/ SetUp \/ Discover \/ MarkChecked \/ MarkAnalysisCheckpoint \/ SkipPatterns
           \/ Correlated \/ CompletePatterns \/ StartPublication \/ MarkPublished
           \/ SkipSideEffects \/ SetSchedule
    PROVE  AcceptInv'
<1>1. status \in StatusType /\ SameNumbers(status, status)
  BY DEF PassInv, GoodStatus, SameNumbers, SameCounts
<1>2. CASE SetUp \/ Discover \/ Correlated \/ SetSchedule
  BY <1>1, <1>2, FacePhaseSound
     DEF SetUp, Discover, Correlated, SetSchedule, Unplanned, Uncorrelated
<1>3. CASE MarkChecked
  <2>1. PICK s : s = [status EXCEPT !.checked = status.pass]
    OBVIOUS
  <2>2. SameNumbers(status, s)
    BY <1>1, <2>1, FaceChanges
  <2>3. Phase("artifacts", "planning", s)
    BY <1>3, <2>1 DEF MarkChecked
  <2> QED
    BY <2>2, <2>3, FacePhaseSound DEF Unplanned, Uncorrelated
<1>4. CASE SkipPatterns \/ CompletePatterns \/ StartPublication \/ SkipSideEffects
  <2>1. PICK p, q, x, v : Phase(p, q, [status EXCEPT !.stage[x] = v])
                          /\ q \in {"merging", "writing", "ending"}
    BY <1>4 DEF SkipPatterns, CompletePatterns, StartPublication, SkipSideEffects
  <2>2. q \notin Uncorrelated \cup Unplanned
    BY <2>1 DEF Unplanned, Uncorrelated
  <2> QED
    BY <1>1, <2>1, <2>2, FaceChanges, FacePhaseSound
<1>5. CASE MarkAnalysisCheckpoint
  <2>1. PICK s : s = [status EXCEPT !.checkpoint = TRUE, !.stage["patterns"] = "running"]
    OBVIOUS
  <2>2. SameNumbers(status, s)
    BY <1>1, <2>1, FaceChanges
  <2>3. Phase("checkpoint", "correlating", s)
    BY <1>5, <2>1 DEF MarkAnalysisCheckpoint
  <2> QED
    BY <2>2, <2>3, FacePhaseSound DEF Unplanned, Uncorrelated
<1>6. CASE MarkPublished
  <2>1. PICK s : s = [status EXCEPT !.published = status.pass,
                                !.stage["publication"] = "completed"]
    OBVIOUS
  <2>2. SameNumbers(status, s)
    BY <1>1, <2>1, FaceChanges
  <2>3. Phase("written", "published", s)
    BY <1>6, <2>1 DEF MarkPublished
  <2> QED
    BY <2>2, <2>3, FacePhaseSound DEF Unplanned, Uncorrelated
<1> QED
  BY <1>2, <1>3, <1>4, <1>5, <1>6

\* A pass begins with a blank status but for its times.
LEMMA BeginningSound ==
    ASSUME PassInv, AcceptInv, FirstPass \/ NextPass
    PROVE  AcceptInv'
<1>1. PICK type : BeginPass(type) /\ pc' \in {"setup", "discovery", "artifacts"}
  BY DEF FirstPass, NextPass
<1> DEFINE s == Begun(passes + 1, type)
<1>2. SameNumbers(NoStatus, s)
  BY BlankStatus DEF Begun, StatusType, SameNumbers, SameCounts
<1>3. Sound(s) /\ s.shared = 0 /\ s.patterns = NoPatterns
  BY <1>2, BlankIsSound, SameIsSound DEF SameNumbers, SameCounts
<1>4. Forced(s)
  BY <1>1 DEF BeginPass
<1> QED
  BY <1>1, <1>3, <1>4, Settles

\* What is planned leaves as many to wait as analyses are spared.
LEMMA PlanningSound ==
    ASSUME PassInv, CountInv, AcceptInv, PlanAnalysisWork
    PROVE  AcceptInv'
<1>1. pc = "planning" /\ pc \notin Resting /\ \A i \in Items : step[i] = "idle"
  BY DEF PlanAnalysisWork, CountInv, Resting
<1>2. /\ status \in StatusType /\ passes \in 1..MaxPasses
      /\ status.shared = 0 /\ status.patterns = NoPatterns
  BY <1>1, RunningPass DEF AcceptInv, Unplanned, Uncorrelated
<1>3. PICK work \in Works[passes], queued \in SUBSET Items :
        /\ queued \subseteq work
        /\ IF work # {} THEN Phase("planning", "preflight", Planned(work, queued))
           ELSE Phase("planning", "merging",
                      [Planned(work, queued) EXCEPT !.stage["patterns"] = "skipped"])
        /\ place' = [i \in Items |-> CASE i \in queued -> "queued"
                                       [] i \in work \ queued -> "completed"
                                       [] OTHER -> "none"]
        /\ step' = step
  <2>1. Works[passes] \in SUBSET SUBSET Items
    BY <1>2, PassConstants
  <2> QED
    BY <2>1 DEF PlanAnalysisWork
<1> DEFINE s == Planned(work, queued)
<1>4. work \in SUBSET Items /\ queued \in SUBSET Items
  BY <1>2, <1>3, PassConstants
<1>5. /\ Sound(s) /\ s.shared = 0 /\ s.patterns = NoPatterns
      /\ s.saved = Cardinality(queued) - Cardinality(Executions(queued))
      /\ s.reused <= s.count["all"]["completed"] /\ s \in StatusType
  <2>1. queued \in SUBSET work
    BY <1>3
  <2>2. s \in StatusType
    BY <1>2, <1>4, <2>1, PlannedIsStatus
  <2> QED
    BY <1>2, <1>4, <2>1, <2>2, PlannedIsSound
<1> HIDE DEF s
<1>6. CASE work # {}
  <2>1. pc' = "preflight" /\ status' = s /\ statusFile' \in {s, statusFile}
    BY <1>3, <1>6 DEF Phase, Forced, s
  <2> DEFINE F == {i \in queued : \A j \in Mates(i) : j \in queued => i < j}
             W == InWait'
             N == Noting'
  <2>2. /\ \A i \in Items : step'[i] = "idle" /\ (place'[i] = "queued" <=> i \in queued)
        /\ \A i \in Items : place'[i] \in Open => i \in queued
    BY <1>1, <1>3 DEF Open
  <2>3. \A i : Mates(i)' = Mates(i)
    BY DEF Mates
  <2>4. ASSUME NEW i \in F PROVE First(i)'
    <3>1. i \in Items /\ \A j \in Mates(i) : j \in Items
      BY <1>4, SameCohort
    <3>2. place'[i] = "queued" /\ \A j \in Mates(i) \cup {i} : step'[j] = "idle"
      BY <2>2, <3>1
    <3>3. \A j \in Mates(i) : place'[j] = "queued" => i < j
      BY <2>2, <3>1
    <3> QED
      BY <2>3, <3>2, <3>3 DEF First
  <2>5. W \subseteq queued \ F
    BY <2>2, <2>4 DEF InWait
  <2>6. N = {}
    BY <2>2 DEF Noting
  <2>7. /\ IsFiniteSet(queued \ F) /\ Cardinality(queued \ F) <= s.saved
        /\ Cardinality(queued \ F) \in Nat
    BY <1>4, <1>5, SparedOnes, FiniteParts
  <2> HIDE DEF F, W, N
  <2>8. Cardinality(W) \in Nat /\ Cardinality(W) <= Cardinality(queued \ F) /\ Cardinality(N) = 0
    BY <2>5, <2>6, <2>7, FS_Subset, FS_CardinalityType, FS_EmptySet
  <2>9. s.saved \in Nat /\ s.reused \in Nat /\ s.count["all"]["completed"] \in Nat
    BY <1>5 DEF StatusType, Kinds, Subjects, Places
  <2>10. 0 + Cardinality(N) + Cardinality(W) <= s.saved
         /\ s.reused + 0 + Cardinality(N) <= s.count["all"]["completed"]
    BY <1>5, <2>7, <2>8, <2>9
  <2>11. Cardinality(InWait)' = Cardinality(W) /\ Cardinality(Noting)' = Cardinality(N)
    BY DEF W, N
  <2>12. ShareInv'
    BY <1>5, <2>1, <2>2, <2>10, <2>11 DEF ShareInv
  <2> QED
    BY <1>5, <2>1, <2>12 DEF AcceptInv, Unplanned
<1>7. CASE work = {}
  <2> DEFINE t == [s EXCEPT !.stage["patterns"] = "skipped"]
  <2>1. pc' = "merging" /\ Forced(t)
    BY <1>3, <1>7 DEF Phase, s
  <2>2. Sound(t)
    BY <1>5, FaceChanges, SameIsSound
  <2> HIDE DEF t
  <2> QED
    BY <2>1, <2>2, Settles DEF Unplanned, Uncorrelated
<1> QED
  BY <1>6, <1>7

\* The pool begins as it was planned.
LEMMA PreflightSound ==
    ASSUME PassInv, AcceptInv, Preflight
    PROVE  AcceptInv'
<1>1. pc = "preflight" /\ pc' = "analysis" /\ status' = status /\ UNCHANGED <<place, step>>
      /\ statusFile' \in {status, statusFile}
  BY DEF Preflight, Phase, Forced, pool
<1>2. ShareInv /\ ShareInv' = ShareInv
  BY <1>1 DEF AcceptInv, ShareInv, Noting, InWait, First, Mates
<1> QED
  BY <1>1, <1>2 DEF AcceptInv, Unplanned, Uncorrelated

\* A status with other numbers of its correlation is sound if these are.
LEMMA PatternsChange ==
    ASSUME NEW s \in StatusType, Sound(s), NEW n, PatternsSound(n)
    PROVE  LET t == [s EXCEPT !.patterns = n]
           IN Sound(t) /\ t.patterns = n
<1> DEFINE t == [s EXCEPT !.patterns = n]
<1>1. SameCounts(s, t) /\ t.patterns = n
  BY DEF SameCounts, StatusType
<1> HIDE DEF t
<1>2. Sound(t)
  BY <1>1 DEF Sound, CountsSound, Accounted, SameCounts
<1> QED
  BY <1>1, <1>2 DEF t

\* The jobs to correlate, and what has come of them, add up.
LEMMA CorrelatingSound ==
    ASSUME PassInv, AcceptInv, PlanPatterns \/ Correlate \/ RecordSuppressed
    PROVE  AcceptInv'
<1>1. /\ status \in StatusType /\ Sound(status) /\ PatternsSound(status.patterns)
      /\ PatternJobs \in Nat
  BY PassConstants DEF PassInv, GoodStatus, AcceptInv, Sound
<1>2. PICK n : n = status.patterns
  OBVIOUS
<1>3. /\ DOMAIN n = {"eligible", "attempts", "retries", "completed", "failed", "suppressed"}
      /\ n \in [DOMAIN n -> Nat]
  BY <1>1, <1>2 DEF StatusType, NoPatterns
<1>4. ASSUME NEW m, PatternsSound(m), Forced([status EXCEPT !.patterns = m]),
             pc' \in {"patterns", "retrying", "suppressed"},
             pc' = "suppressed" => m.suppressed < m.failed
      PROVE  AcceptInv'
  <2>1. PICK s : s = [status EXCEPT !.patterns = m]
    OBVIOUS
  <2>2. Sound(s) /\ s.patterns = m
    BY <1>1, <1>4, <2>1, PatternsChange
  <2>3. pc' \notin Unplanned \cup Uncorrelated \cup {"preflight", "analysis"}
    BY <1>4 DEF Unplanned, Uncorrelated
  <2> QED
    BY <1>4, <2>1, <2>2, <2>3, Settles
<1>5. CASE PlanPatterns
  <2>1. PICK e \in 0..PatternJobs :
           Phase("correlating", "patterns", [status EXCEPT !.patterns.eligible = e])
    BY <1>5 DEF PlanPatterns
  <2>2. PICK m : m = [n EXCEPT !.eligible = e]
    OBVIOUS
  <2>3. Forced([status EXCEPT !.patterns = m]) /\ pc = "correlating" /\ pc' = "patterns"
    BY <1>1, <1>2, <2>1, <2>2 DEF Phase
  <2>4. n = NoPatterns
    BY <1>2, <2>3 DEF AcceptInv, Uncorrelated
  <2>5. PatternsSound(m)
    BY <1>1, <2>2, <2>4 DEF PatternsSound, NoPatterns
  <2> QED
    BY <1>4, <2>3, <2>5
<1>6. CASE Correlate
  <2>1. PICK to \in {"patterns", "suppressed", "retrying"}, retry \in {0, 1},
             completed \in {0, 1}, failed \in {0, 1} :
           /\ Attempt(to, retry, completed, failed)
           /\ completed + failed <= 1 /\ (to = "suppressed" => failed = 1)
    BY <1>6 DEF Correlate
  <2>2. PICK m : m = [n EXCEPT !.attempts = n.attempts + 1, !.retries = n.retries + retry,
                               !.completed = n.completed + completed, !.failed = n.failed + failed]
    OBVIOUS
  <2>3. Forced([status EXCEPT !.patterns = m]) /\ pc' = to
    BY <1>2, <2>1, <2>2 DEF Attempt, Phase
  <2>4. n.completed + n.failed < n.eligible
    BY <1>2, <1>6 DEF Correlate
  <2>5. /\ m.attempts = n.attempts + 1 /\ m.retries = n.retries + retry
        /\ m.completed = n.completed + completed /\ m.failed = n.failed + failed
        /\ m.eligible = n.eligible /\ m.suppressed = n.suppressed
    BY <1>3, <2>2
  <2>6. /\ n.attempts \in Nat /\ n.retries \in Nat /\ n.completed \in Nat
        /\ n.failed \in Nat /\ n.eligible \in Nat /\ n.suppressed \in Nat
    BY <1>3
  <2>7. PatternsSound(m) /\ (to = "suppressed" => m.suppressed < m.failed)
    BY <1>1, <1>2, <2>1, <2>4, <2>5, <2>6 DEF PatternsSound
  <2> QED
    BY <1>4, <2>1, <2>3, <2>7
<1>7. CASE RecordSuppressed
  <2>1. PICK m : m = [n EXCEPT !.suppressed = n.suppressed + 1]
    OBVIOUS
  <2>2. Forced([status EXCEPT !.patterns = m]) /\ pc = "suppressed" /\ pc' = "patterns"
    BY <1>1, <1>2, <1>7, <2>1 DEF RecordSuppressed, Phase
  <2>3. n.suppressed < n.failed
    BY <1>2, <2>2 DEF AcceptInv
  <2>4. /\ m.attempts = n.attempts /\ m.retries = n.retries
        /\ m.completed = n.completed /\ m.failed = n.failed
        /\ m.eligible = n.eligible /\ m.suppressed = n.suppressed + 1
        /\ n.suppressed \in Nat /\ n.failed \in Nat
    BY <1>3, <2>1
  <2>5. PatternsSound(m)
    BY <1>1, <1>2, <2>3, <2>4 DEF PatternsSound
  <2> QED
    BY <1>4, <2>2, <2>5
<1> QED
  BY <1>5, <1>6, <1>7

\* What was never scheduled is cancelled, and still accounted for.
LEMMA DrainedSound ==
    ASSUME PassInv, AcceptInv, Drained
    PROVE  AcceptInv'
<1>1. status \in StatusType /\ Sound(status) /\ pc = "analysis"
  BY DEF PassInv, GoodStatus, AcceptInv, Drained
<1>2. status.patterns = NoPatterns
  BY <1>1 DEF AcceptInv, Uncorrelated
<1>3. PICK s : s = Closed(status, {"queued"})
  OBVIOUS
<1>4. Sound(s) /\ s.patterns = NoPatterns
  BY <1>1, <1>2, <1>3, ClosedIsSound
<1>5. Forced(s) /\ pc' \in {"ending", "checkpoint"}
  BY <1>3 DEF Drained
<1> QED
  BY <1>4, <1>5, Settles DEF Unplanned

\* A follow-up component changes no number.
LEMMA FollowingSound ==
    ASSUME PassInv, AcceptInv,
           StartSideEffects \/ BeginFollowUp \/ FinishFollowUp \/ SideEffectsDone
    PROVE  AcceptInv'
<1>1. status \in StatusType /\ Sound(status)
  BY DEF PassInv, GoodStatus, AcceptInv
<1>2. pc' \in {"followUps", "following", "ending"}
  BY DEF StartSideEffects, BeginFollowUp, FinishFollowUp, SideEffectsDone, SetFollowUp
<1>3. pc' \notin Unplanned \cup Uncorrelated \cup {"suppressed", "preflight", "analysis"}
  BY <1>2 DEF Unplanned, Uncorrelated
<1>4. ASSUME NEW s, Forced(s), SameNumbers(status, s) PROVE AcceptInv'
  BY <1>1, <1>3, <1>4, SameIsSound, Settles
<1>5. CASE UNCHANGED <<status, statusFile>>
  BY <1>3, <1>5, Leaves
<1>6. CASE \E to, state, turn : SetFollowUp(to, state, turn)
  <2>1. PICK c, state : Forced([status EXCEPT !.followUp[c] = state])
    BY <1>6 DEF SetFollowUp
  <2> QED
    BY <1>1, <1>4, <2>1, FaceChanges
<1>7. CASE \E state : Forced([status EXCEPT !.stage["sideEffects"] = state])
  BY <1>1, <1>4, <1>7, FaceChanges
<1>8. \/ UNCHANGED <<status, statusFile>>
      \/ \E to, state, turn : SetFollowUp(to, state, turn)
      \/ \E state : Forced([status EXCEPT !.stage["sideEffects"] = state])
  BY DEF StartSideEffects, BeginFollowUp, FinishFollowUp, SideEffectsDone, tracker, disk
<1> QED
  BY <1>5, <1>6, <1>7, <1>8

\* A pass that ends, with what was open cancelled, and a process that takes one over.
LEMMA EndingSound ==
    ASSUME PassInv, AcceptInv, Finish \/ Leave \/ Start
    PROVE  AcceptInv'
<1>1. /\ status \in StatusType /\ Sound(status)
      /\ statusFile \in StatusType /\ Sound(statusFile)
  BY DEF PassInv, GoodStatus, AcceptInv
<1>2. pc' \in {"ended", "exit", "recovering", "ready"}
  BY DEF Finish, Leave, Start
<1>3. pc' \notin Unplanned \cup Uncorrelated \cup {"suppressed", "preflight", "analysis"}
  BY <1>2 DEF Unplanned, Uncorrelated
<1>4. ASSUME NEW s, Forced(s), Sound(s) PROVE AcceptInv'
  BY <1>3, <1>4, Settles
<1>5. CASE \/ \E o : Forced(Terminal(status, o)) \/ Forced(Terminal(statusFile, o))
           \/ Forced([status EXCEPT !.outcome = "succeeded"])
  <2>1. \A o : Sound(Terminal(status, o)) /\ Sound(Terminal(statusFile, o))
    BY <1>1, TerminalIsSound
  <2>2. Sound([status EXCEPT !.outcome = "succeeded"])
    BY <1>1, FaceChanges, SameIsSound
  <2> QED
    BY <1>4, <1>5, <2>1, <2>2
<1>6. CASE status' \in {status, statusFile, NoStatus} /\ UNCHANGED statusFile
  BY <1>1, <1>3, <1>6, BlankIsSound DEF AcceptInv
<1>7. \/ \E o : Forced(Terminal(status, o)) \/ Forced(Terminal(statusFile, o))
      \/ Forced([status EXCEPT !.outcome = "succeeded"])
      \/ status' \in {status, statusFile, NoStatus} /\ UNCHANGED statusFile
  BY DEF Finish, Leave, Start, Interrupted
<1> QED
  BY <1>5, <1>6, <1>7

\* The steps that write no status.
LEMMA QuietSound ==
    ASSUME PassInv, AcceptInv,
           Recover \/ Fail \/ WriteOutput \/ AppendPass \/ Exit \/ Crash \/ Stop \/ UNCHANGED vars
    PROVE  AcceptInv'
<1>1. CASE Recover \/ Fail \/ WriteOutput \/ AppendPass \/ Exit \/ Crash
  <2>1. /\ pc' \in {"ready", "ending", "written", "exit", "scheduling", "halted", "down"}
        /\ status' \in {status, NoStatus} /\ UNCHANGED statusFile
    BY <1>1 DEF Recover, Fail, Return, WriteOutput, AppendPass, Exit, Crash, Gone, tracker, disk
  <2> QED
    BY <2>1, Leaves DEF Unplanned, Uncorrelated
<1>2. CASE Stop \/ UNCHANGED vars
  <2>1. UNCHANGED <<pc, status, statusFile, place, step>>
    BY <1>2 DEF Stop, vars, tracker, pool, disk
  <2>2. ShareInv' = ShareInv
    BY <2>1 DEF ShareInv, Noting, InWait, First, Mates
  <2> QED
    BY <2>1, <2>2 DEF AcceptInv
<1> QED
  BY <1>1, <1>2

-----------------------------------------------------------------------------
(* What is promised of the file *)

\* The status, of memory and of the file, is one that validate accepts, with none of the
\* failures unaccounted for: analyses spared pay for results shared, and each result is
\* completed before it is counted as shared.
THEOREM AcceptInvariant == Spec => [](PassInv /\ CountInv /\ AcceptInv)
<1>1. Init => AcceptInv
  BY BlankIsSound DEF Init, AcceptInv, Unplanned, Uncorrelated
<1>2. PassInv /\ CountInv /\ AcceptInv /\ [Next]_vars => AcceptInv'
  <2> SUFFICES ASSUME PassInv, CountInv, AcceptInv, [Next]_vars PROVE AcceptInv'
    OBVIOUS
  <2>1. CASE PassStep
    BY <2>1, FacePhasesSound, BeginningSound, PlanningSound, PreflightSound, PoolSharing,
       CorrelatingSound, DrainedSound, FollowingSound, EndingSound, QuietSound DEF PassStep
  <2> QED
    BY <2>1, QuietSound DEF Next
<1> QED
  BY <1>1, <1>2, PassInvariant, CountInvariant, PTL DEF Spec

\* Whatever the moment a process dies in, or another one reads, the outcome and the counters
\* in the status file are what validate accepts, as far as Accepts has its conditions.
THEOREM FileAccepted == Spec => []FileIsAccepted
<1>1. PassInv /\ AcceptInv => FileIsAccepted
  <2> SUFFICES ASSUME PassInv, AcceptInv PROVE Accepts(statusFile)
    BY DEF FileIsAccepted
  <2>1. statusFile \in StatusType /\ Sound(statusFile)
    BY DEF PassInv, GoodStatus, AcceptInv
  <2>2. \A k \in Kinds : Accounted(statusFile, k) = statusFile.total[k] /\ statusFile.total[k] \in Nat
    BY <2>1 DEF Sound, CountsSound, StatusType
  <2> QED
    BY <2>1, <2>2 DEF Accepts, Sound, CountsSound, PatternsSound
<1> QED
  BY <1>1, AcceptInvariant, PTL

-----------------------------------------------------------------------------
(* The times of the last check and of the last publication *)

\* The times a status tells are of its pass or of an earlier one, and those of the file are
\* not ahead of those a process knows.
FreshInv ==
    /\ \A s \in {status, statusFile} :
        s.checked <= s.pass /\ s.published <= s.pass /\ s.pass <= passes
    /\ pc # "down" =>
        statusFile.checked <= status.checked /\ statusFile.published <= status.published

\* A change of a status that leaves its times, or has them be those of its pass.
OnTime(s, t) ==
    /\ t.pass = s.pass
    /\ t.checked \in {s.checked, s.pass} /\ t.published \in {s.published, s.pass}

\* All that is written in a pass changes a status so.
LEMMA ChangesOnTime ==
    ASSUME NEW s \in StatusType
    PROVE  /\ OnTime(s, s) /\ OnTime(s, [s EXCEPT !.checked = s.pass])
           /\ \A x, v : OnTime(s, [s EXCEPT !.stage[x] = v])
           /\ \A x, v : OnTime(s, [s EXCEPT !.followUp[x] = v])
           /\ \A o : OnTime(s, [s EXCEPT !.outcome = o])
           /\ \A n : OnTime(s, [s EXCEPT !.patterns = n])
           /\ \A n : OnTime(s, [s EXCEPT !.shared = n])
           /\ \A x, v : OnTime(s, [s EXCEPT !.published = s.pass, !.stage[x] = v])
           /\ \A x, v : OnTime(s, [s EXCEPT !.checkpoint = TRUE, !.stage[x] = v])
<1>1. OnTime(s, s) /\ OnTime(s, [s EXCEPT !.checked = s.pass])
  BY DEF StatusType, OnTime
<1>2. /\ \A x, v : OnTime(s, [s EXCEPT !.stage[x] = v])
      /\ \A x, v : OnTime(s, [s EXCEPT !.followUp[x] = v])
  BY DEF StatusType, OnTime
<1>3. /\ \A o : OnTime(s, [s EXCEPT !.outcome = o])
      /\ \A n : OnTime(s, [s EXCEPT !.patterns = n])
      /\ \A n : OnTime(s, [s EXCEPT !.shared = n])
  BY DEF StatusType, OnTime
<1>4. /\ \A x, v : OnTime(s, [s EXCEPT !.published = s.pass, !.stage[x] = v])
      /\ \A x, v : OnTime(s, [s EXCEPT !.checkpoint = TRUE, !.stage[x] = v])
  BY DEF StatusType, OnTime
<1> QED
  BY <1>1, <1>2, <1>3, <1>4

\* The end of a pass leaves them as they are.
LEMMA TerminalTimes ==
    ASSUME NEW s \in StatusType, NEW o
    PROVE  LET t == Terminal(s, o)
           IN t.pass = s.pass /\ t.checked = s.checked /\ t.published = s.published
<1>1. \A n, f, g :
        LET t == [[s EXCEPT !.count = n] EXCEPT !.outcome = o, !.stage = f, !.followUp = g]
        IN t.pass = s.pass /\ t.checked = s.checked /\ t.published = s.published
  BY DEF StatusType
<1> QED
  BY <1>1 DEF Terminal, Closed

\* So do the changes of its counters, and its end.
LEMMA CountsOnTime ==
    ASSUME NEW s \in StatusType
    PROVE  /\ \A i, from, to : OnTime(s, Moved(s, i, from, to))
           /\ \A gone : OnTime(s, Closed(s, gone))
           /\ \A o : OnTime(s, Terminal(s, o))
<1>1. \A n : LET t == [s EXCEPT !.count = n]
             IN t.pass = s.pass /\ t.checked = s.checked /\ t.published = s.published
  BY DEF StatusType
<1>2. /\ \A i, from, to : OnTime(s, Moved(s, i, from, to))
      /\ \A gone : OnTime(s, Closed(s, gone))
  BY <1>1 DEF Moved, Closed, OnTime
<1>3. \A o : OnTime(s, Terminal(s, o))
  BY TerminalTimes DEF OnTime
<1> QED
  BY <1>2, <1>3

\* What a step of a pass does to the times.
Dated ==
    /\ OnTime(status, status') /\ passes' = passes /\ (pc = "down" <=> pc' = "down")
    /\ statusFile' = statusFile \/ (statusFile' = status' /\ pc # "down")

\* Every step of a pass but its first dates the status so.
LEMMA PassIsDated ==
    ASSUME PassInv,
           \/ Fail \/ SetUp \/ Discover \/ MarkChecked \/ PlanAnalysisWork \/ Preflight
           \/ (\E i \in Items : PoolStep(i)) \/ Drained
           \/ MarkAnalysisCheckpoint \/ PlanPatterns \/ SkipPatterns
           \/ Correlate \/ RecordSuppressed \/ Correlated \/ CompletePatterns
    PROVE  Dated
<1>1. status \in StatusType
  BY DEF PassInv, GoodStatus
<1>2. ASSUME NEW s, OnTime(status, s), Forced(s) \/ Unforced(s), passes' = passes,
             pc # "down", pc' # "down"
      PROVE  Dated
  BY <1>2 DEF Forced, Unforced, Dated
<1>3. ASSUME NEW p, NEW q, NEW s, Phase(p, q, s), OnTime(status, s), p # "down", q # "down"
      PROVE  Dated
  BY <1>2, <1>3 DEF Phase
<1>4. ASSUME pc # "down", pc' # "down", UNCHANGED <<status, statusFile, passes>> PROVE Dated
  BY <1>1, <1>4, ChangesOnTime DEF Dated
<1>5. CASE Fail
  <2>1. pc # "down" /\ pc' = "ending" /\ UNCHANGED <<status, statusFile, passes>>
    BY <1>5 DEF Fail, Fallible, Systemic, Return, tracker, disk
  <2> QED
    BY <1>4, <2>1
<1>6. CASE SetUp \/ Discover \/ MarkChecked \/ Preflight \/ Correlated
  <2>1. OnTime(status, status) /\ OnTime(status, [status EXCEPT !.checked = status.pass])
    BY <1>1, ChangesOnTime
  <2> QED
    BY <1>3, <1>6, <2>1 DEF SetUp, Discover, MarkChecked, Preflight, Correlated
<1>7. CASE PlanAnalysisWork
  <2>1. PICK work, queued :
           \/ Phase("planning", "preflight", Planned(work, queued))
           \/ Phase("planning", "merging",
                    [Planned(work, queued) EXCEPT !.stage["patterns"] = "skipped"])
    BY <1>7 DEF PlanAnalysisWork
  <2> DEFINE s == Planned(work, queued)
             t == [s EXCEPT !.stage["patterns"] = "skipped"]
  <2>2. /\ s.pass = status.pass /\ s.checked = status.checked /\ s.published = status.published
        /\ {"pass", "checked", "published"} \subseteq DOMAIN s
    BY <1>1 DEF Planned, StatusType
  <2> HIDE DEF s
  <2>3. OnTime(status, s) /\ OnTime(status, t)
    BY <2>2 DEF OnTime
  <2> HIDE DEF t
  <2> QED
    BY <1>3, <2>1, <2>3 DEF s, t
<1>8. CASE \E i \in Items : PoolStep(i)
  <2>1. PICK i \in Items : PoolStep(i)
    BY <1>8
  <2>2. pc = "analysis" /\ pc' = "analysis" /\ passes' = passes
    BY <2>1 DEF PoolStep, Schedule, Begin, StartFollower, Answer, Refuse, GiveUp, Sink,
                Analyzed, Share, Note, NotShared, Drop, Release, Again, InPool
  <2>3. \/ UNCHANGED <<status, statusFile>>
        \/ \E j, from, to : Moves(j, from, to)
        \/ Unforced([status EXCEPT !.shared = @ + 1])
    BY <2>1 DEF PoolStep, Schedule, Begin, StartFollower, Answer, Refuse, GiveUp, Sink,
                Analyzed, Share, Note, NotShared, Drop, Release, Again, Quietly
  <2>4. CASE UNCHANGED <<status, statusFile>>
    BY <1>4, <2>2, <2>4
  <2>5. CASE \E j, from, to : Moves(j, from, to)
    <3>1. PICK j, from, to : Unforced(Moved(status, j, from, to))
      BY <2>5 DEF Moves
    <3>2. OnTime(status, Moved(status, j, from, to))
      BY <1>1, CountsOnTime
    <3> QED
      BY <1>2, <2>2, <3>1, <3>2
  <2>6. CASE Unforced([status EXCEPT !.shared = @ + 1])
    <3>1. OnTime(status, [status EXCEPT !.shared = @ + 1])
      BY <1>1, ChangesOnTime
    <3> QED
      BY <1>2, <2>2, <2>6, <3>1
  <2> QED
    BY <2>3, <2>4, <2>5, <2>6
<1>9. CASE Drained
  <2>1. Forced(Closed(status, {"queued"})) /\ pc = "analysis"
        /\ pc' \in {"ending", "checkpoint"} /\ passes' = passes
    BY <1>9 DEF Drained
  <2>2. OnTime(status, Closed(status, {"queued"}))
    BY <1>1, CountsOnTime
  <2> QED
    BY <1>2, <2>1, <2>2
<1>10. CASE PlanPatterns \/ Correlate \/ RecordSuppressed
  <2>1. PICK n : Forced([status EXCEPT !.patterns = n])
    <3>1. CASE PlanPatterns
      <4>1. PICK e : Forced([status EXCEPT !.patterns.eligible = e])
        BY <3>1 DEF PlanPatterns, Phase
      <4>2. PICK n : n = [status.patterns EXCEPT !.eligible = e]
        OBVIOUS
      <4> QED
        BY <1>1, <4>1, <4>2
    <3>2. CASE Correlate
      BY <3>2 DEF Correlate, Attempt, Phase
    <3>3. CASE RecordSuppressed
      <4>1. PICK n : n = [status.patterns EXCEPT !.suppressed = @ + 1]
        OBVIOUS
      <4> QED
        BY <1>1, <3>3, <4>1 DEF RecordSuppressed, Phase
    <3> QED
      BY <1>10, <3>1, <3>2, <3>3
  <2>2. OnTime(status, [status EXCEPT !.patterns = n])
    BY <1>1, ChangesOnTime
  <2>3. passes' = passes /\ pc # "down" /\ pc' # "down"
    BY <1>10 DEF PlanPatterns, Correlate, Attempt, RecordSuppressed, Phase
  <2> QED
    BY <1>2, <2>1, <2>2, <2>3
<1>11. CASE MarkAnalysisCheckpoint \/ SkipPatterns \/ CompletePatterns
  <2>1. /\ \A x, v : OnTime(status, [status EXCEPT !.stage[x] = v])
        /\ \A x, v : OnTime(status, [status EXCEPT !.checkpoint = TRUE, !.stage[x] = v])
    BY <1>1, ChangesOnTime
  <2> QED
    BY <1>3, <1>11, <2>1 DEF MarkAnalysisCheckpoint, SkipPatterns, CompletePatterns
<1> QED
  BY <1>5, <1>6, <1>7, <1>8, <1>9, <1>10, <1>11

\* So does what follows the analysis, and the end of a pass.
LEMMA EndIsDated ==
    ASSUME PassInv,
           \/ Recover \/ StartPublication \/ WriteOutput \/ MarkPublished
           \/ SkipSideEffects \/ StartSideEffects \/ BeginFollowUp \/ FinishFollowUp
           \/ SideEffectsDone \/ Finish \/ AppendPass \/ SetSchedule \/ Leave \/ Stop
           \/ UNCHANGED vars
    PROVE  Dated
<1>1. status \in StatusType
  BY DEF PassInv, GoodStatus
<1>2. ASSUME NEW s, OnTime(status, s), Forced(s), passes' = passes, pc # "down", pc' # "down"
      PROVE  Dated
  BY <1>2 DEF Forced, Dated
<1>3. ASSUME NEW p, NEW q, NEW s, Phase(p, q, s), OnTime(status, s), p # "down", q # "down"
      PROVE  Dated
  BY <1>2, <1>3 DEF Phase
<1>4. ASSUME pc = "down" <=> pc' = "down", UNCHANGED <<status, statusFile, passes>> PROVE Dated
  BY <1>1, <1>4, ChangesOnTime DEF Dated
<1>5. CASE Recover \/ WriteOutput \/ AppendPass \/ Stop \/ UNCHANGED vars
  <2>1. (pc = "down" <=> pc' = "down") /\ UNCHANGED <<status, statusFile, passes>>
    BY <1>5 DEF Recover, WriteOutput, AppendPass, Stop, vars, tracker, disk
  <2> QED
    BY <1>4, <2>1
<1>6. CASE StartPublication \/ SkipSideEffects \/ MarkPublished \/ SetSchedule
  <2>1. /\ \A x, v : OnTime(status, [status EXCEPT !.stage[x] = v])
        /\ \A x, v : OnTime(status, [status EXCEPT !.published = status.pass, !.stage[x] = v])
        /\ OnTime(status, status)
    BY <1>1, ChangesOnTime
  <2> QED
    BY <1>3, <1>6, <2>1 DEF StartPublication, SkipSideEffects, MarkPublished, SetSchedule
<1>7. CASE StartSideEffects \/ BeginFollowUp \/ FinishFollowUp \/ SideEffectsDone
  <2>1. passes' = passes /\ pc # "down" /\ pc' # "down"
    BY <1>7 DEF StartSideEffects, BeginFollowUp, FinishFollowUp, SideEffectsDone, SetFollowUp
  <2>2. \/ UNCHANGED <<status, statusFile>>
        \/ \E to, state, turn : SetFollowUp(to, state, turn)
        \/ \E state : Forced([status EXCEPT !.stage["sideEffects"] = state])
    BY <1>7 DEF StartSideEffects, BeginFollowUp, FinishFollowUp, SideEffectsDone, tracker, disk
  <2>3. CASE UNCHANGED <<status, statusFile>>
    BY <1>4, <2>1, <2>3
  <2>4. CASE \E to, state, turn : SetFollowUp(to, state, turn)
    <3>1. PICK c, state : Forced([status EXCEPT !.followUp[c] = state])
      BY <2>4 DEF SetFollowUp
    <3>2. OnTime(status, [status EXCEPT !.followUp[c] = state])
      BY <1>1, ChangesOnTime
    <3> QED
      BY <1>2, <2>1, <3>1, <3>2
  <2>5. CASE \E state : Forced([status EXCEPT !.stage["sideEffects"] = state])
    <3>1. \A state : OnTime(status, [status EXCEPT !.stage["sideEffects"] = state])
      BY <1>1, ChangesOnTime
    <3> QED
      BY <1>2, <2>1, <2>5, <3>1
  <2> QED
    BY <2>2, <2>3, <2>4, <2>5
<1>8. CASE Finish \/ Leave
  <2>1. passes' = passes /\ pc # "down" /\ pc' # "down"
    BY <1>8 DEF Finish, Leave
  <2>2. \/ UNCHANGED <<status, statusFile>>
        \/ \E o : Forced(Terminal(status, o))
        \/ Forced([status EXCEPT !.outcome = "succeeded"])
    BY <1>8 DEF Finish, Leave
  <2>3. /\ \A o : OnTime(status, Terminal(status, o))
        /\ OnTime(status, [status EXCEPT !.outcome = "succeeded"])
    BY <1>1, ChangesOnTime, CountsOnTime
  <2> QED
    BY <1>2, <1>4, <2>1, <2>2, <2>3
<1> QED
  BY <1>5, <1>6, <1>7, <1>8

\* The times of the file do not go back.
NoTimeBack ==
    statusFile'.checked >= statusFile.checked /\ statusFile'.published >= statusFile.published

\* The times are numbers.
LEMMA TimesAreNumbers ==
    ASSUME PassInv
    PROVE  /\ \A s \in {status, statusFile} :
                s \in StatusType /\ s.checked \in Nat /\ s.published \in Nat /\ s.pass \in Nat
           /\ passes \in Nat
BY DEF PassInv, GoodStatus, StatusType

\* A step that dates the status keeps the times.
LEMMA DatedIsFresh ==
    ASSUME PassInv, FreshInv, Dated
    PROVE  FreshInv' /\ NoTimeBack
<1>1. /\ status.checked \in Nat /\ status.published \in Nat /\ status.pass \in Nat
      /\ statusFile.checked \in Nat /\ statusFile.published \in Nat /\ passes \in Nat
      /\ statusFile.pass \in Nat
  BY TimesAreNumbers
<1>2. /\ status'.pass = status.pass /\ passes' = passes
      /\ status'.checked \in {status.checked, status.pass}
      /\ status'.published \in {status.published, status.pass}
  BY DEF Dated, OnTime
<1>3. /\ status.checked <= status.pass /\ status.published <= status.pass
      /\ status.pass <= passes /\ statusFile.checked <= statusFile.pass
      /\ statusFile.published <= statusFile.pass /\ statusFile.pass <= passes
  BY DEF FreshInv
<1>4. CASE statusFile' = statusFile
  BY <1>1, <1>2, <1>3, <1>4 DEF FreshInv, Dated, NoTimeBack
<1>5. CASE statusFile' = status' /\ pc # "down"
  BY <1>1, <1>2, <1>3, <1>5 DEF FreshInv, NoTimeBack
<1> QED
  BY <1>4, <1>5 DEF Dated

\* A pass begins with the times of the one before it.
LEMMA BeginningIsFresh ==
    ASSUME PassInv, FreshInv, FirstPass \/ NextPass
    PROVE  FreshInv' /\ NoTimeBack
<1>1. PICK type : BeginPass(type) /\ pc # "down"
  BY DEF FirstPass, NextPass
<1>2. PICK s : s = Begun(passes + 1, type)
  OBVIOUS
<1>3. status' = s /\ statusFile' \in {statusFile, s} /\ passes' = passes + 1
  BY <1>1, <1>2 DEF BeginPass, Forced
<1>4. s.pass = passes + 1 /\ s.checked = status.checked /\ s.published = status.published
  BY <1>2, BlankStatus DEF Begun, StatusType
<1>5. /\ status.checked \in Nat /\ status.published \in Nat /\ status.pass \in Nat
      /\ statusFile.checked \in Nat /\ statusFile.published \in Nat /\ passes \in Nat
      /\ statusFile.pass \in Nat
  BY TimesAreNumbers
<1>6. /\ status.checked <= status.pass /\ status.published <= status.pass
      /\ status.pass <= passes /\ statusFile.checked <= statusFile.pass
      /\ statusFile.published <= statusFile.pass /\ statusFile.pass <= passes
      /\ statusFile.checked <= status.checked /\ statusFile.published <= status.published
  BY <1>1 DEF FreshInv
<1>7. CASE statusFile' = statusFile
  BY <1>3, <1>4, <1>5, <1>6, <1>7 DEF FreshInv, NoTimeBack
<1>8. CASE statusFile' = s
  BY <1>3, <1>4, <1>5, <1>6, <1>8 DEF FreshInv, NoTimeBack
<1> QED
  BY <1>3, <1>7, <1>8

\* A process reads the times of the file, which it accepts, and one that is gone leaves them.
LEMMA RestartIsFresh ==
    ASSUME PassInv, FileIsAccepted, FreshInv, Start \/ Exit \/ Crash
    PROVE  FreshInv' /\ NoTimeBack
<1>1. /\ statusFile.checked \in Nat /\ statusFile.published \in Nat /\ passes \in Nat
      /\ statusFile.pass \in Nat /\ statusFile \in StatusType
  BY TimesAreNumbers
<1>2. /\ statusFile.checked <= statusFile.pass
      /\ statusFile.published <= statusFile.pass /\ statusFile.pass <= passes
  BY DEF FreshInv
<1>3. NoStatus.pass = 0 /\ NoStatus.checked = 0 /\ NoStatus.published = 0
  BY DEF NoStatus
<1>4. CASE Exit \/ Crash
  <2>1. pc' = "down" /\ status' = NoStatus /\ UNCHANGED <<statusFile, passes>>
    BY <1>4 DEF Exit, Crash, Gone, disk
  <2> QED
    BY <1>1, <1>2, <1>3, <2>1 DEF FreshInv, NoTimeBack
<1>5. CASE Start
  <2>1. passes' = passes /\ (statusFile.pass # 0 => Readable(statusFile))
    BY <1>5 DEF Start, Readable, FileIsAccepted
  <2>2. \/ UNCHANGED statusFile /\ status' = statusFile
        \/ UNCHANGED statusFile /\ status' = NoStatus /\ statusFile.pass = 0
        \/ Forced(Interrupted(statusFile))
    BY <1>5, <2>1 DEF Start
  <2>3. CASE UNCHANGED statusFile /\ status' = statusFile
    BY <1>1, <1>2, <2>1, <2>3 DEF FreshInv, NoTimeBack
  <2>4. CASE UNCHANGED statusFile /\ status' = NoStatus /\ statusFile.pass = 0
    BY <1>1, <1>2, <1>3, <2>1, <2>4 DEF FreshInv, NoTimeBack
  <2>5. CASE Forced(Interrupted(statusFile))
    <3>1. PICK s : s = Interrupted(statusFile)
      OBVIOUS
    <3>2. status' = s /\ statusFile' \in {statusFile, s}
      BY <2>5, <3>1 DEF Forced
    <3>3. /\ s.pass = statusFile.pass /\ s.checked = statusFile.checked
          /\ s.published = statusFile.published
      BY <1>1, <3>1, TerminalTimes DEF Interrupted
    <3> QED
      BY <1>1, <1>2, <2>1, <3>2, <3>3 DEF FreshInv, NoTimeBack
  <2> QED
    BY <2>2, <2>3, <2>4, <2>5
<1> QED
  BY <1>4, <1>5

\* Every step keeps the times.
LEMMA FreshStep ==
    ASSUME PassInv, FileIsAccepted, FreshInv, [Next]_vars
    PROVE  FreshInv' /\ NoTimeBack
<1>1. CASE PassStep
  BY <1>1, PassIsDated, EndIsDated, DatedIsFresh, BeginningIsFresh, RestartIsFresh DEF PassStep
<1> QED
  BY <1>1, EndIsDated, DatedIsFresh, RestartIsFresh DEF Next

\* The times of the status and of its file are of passes begun, and the file is not ahead.
THEOREM FreshInvariant == Spec => []FreshInv
<1>1. Init => FreshInv
  BY DEF Init, FreshInv, NoStatus
<1>2. PassInv /\ FileIsAccepted /\ FreshInv /\ [Next]_vars => FreshInv'
  BY FreshStep
<1> QED
  BY <1>1, <1>2, PassInvariant, FileAccepted, PTL DEF Spec

\* The times of the last check and publication in the file never go back, across passes that
\* fail, crashes and restarts; and none is of a snapshot that was not published.
THEOREM TimesAreKept == Spec => FreshnessKept
<1> DEFINE Fresh == /\ statusFile'.checked >= statusFile.checked
                    /\ statusFile'.published >= statusFile.published
                    /\ statusFile'.published \in output'
<1>1. PassInv /\ PassInv' /\ FileIsAccepted /\ FreshInv /\ [Next]_vars => [Fresh]_vars
  <2> SUFFICES ASSUME PassInv, PassInv', FileIsAccepted, FreshInv, [Next]_vars PROVE Fresh
    OBVIOUS
  <2>1. NoTimeBack
    BY FreshStep
  <2>2. statusFile'.published \in output'
    BY DEF PassInv, GoodStatus
  <2> QED
    BY <2>1, <2>2 DEF NoTimeBack
<1>2. FreshnessKept <=> [][Fresh]_vars
  BY DEF FreshnessKept
<1> QED
  BY <1>1, <1>2, PassInvariant, FileAccepted, FreshInvariant, PTL DEF Spec

-----------------------------------------------------------------------------
(* The history of the passes *)

\* The passes of a history are in order, but for those with a failed write.
InOrder(h, sp) ==
    \A m, n \in DOMAIN h : m < n =>
        h[m].pass < h[n].pass \/ (h[m].pass \in sp /\ h[m].pass # h[n].pass)

\* A pass is in a history, has had a failed write, or has made room for newer ones.
Newer(h, p) == {q \in Recorded(h) : q > p}
Remembers(h, p, sp) ==
    p \in Recorded(h) \cup sp \/ Cardinality(Newer(h, p)) >= HistoryLimit

\* What is known of the history of memory and of the file: between two passes all are
\* remembered; and passes that the status file does not know have had a failed write.
Between == {"ready", "scheduling", "idle", "halted", "exit"}
MemoryInv ==
    /\ \A h \in {history, historyFile} : InOrder(h, spoiled) /\ Recorded(h) \subseteq 1..passes
    /\ \A p \in Recorded(history) : Remembers(historyFile, p, spoiled)
    /\ \A p \in 1..(passes - 1) :
        Remembers(historyFile, p, spoiled) /\ (pc # "down" => Remembers(history, p, spoiled))
    /\ pc \in Between /\ passes # 0 =>
        Remembers(historyFile, passes, spoiled) /\ Remembers(history, passes, spoiled)
    /\ \A p \in 1..passes : p > statusFile.pass => p \in spoiled
    /\ pc \notin {"down", "recovering", "ready", "exit", "halted"} =>
        status.pass = passes /\ passes # 0
    /\ pc = "recovering" => status.pass = statusFile.pass /\ status.pass \in 1..passes

\* More failed writes make no history worse.
LEMMA MoreSpoiled ==
    ASSUME NEW sp, NEW more, sp \subseteq more
    PROVE  /\ \A h : InOrder(h, sp) => InOrder(h, more)
           /\ \A h, p : Remembers(h, p, sp) => Remembers(h, p, more)
BY DEF InOrder, Remembers

\* A history in order has as many passes as summaries.
LEMMA RecordedOnce ==
    ASSUME NEW out, NEW h \in Seq(GoodSummaries(out)), NEW sp, InOrder(h, sp)
    PROVE  /\ IsFiniteSet(Recorded(h)) /\ Cardinality(Recorded(h)) = Len(h)
           /\ Recorded(h) \subseteq Nat
<1>1. Len(h) \in Nat /\ DOMAIN h = 1..Len(h) /\ \A n \in 1..Len(h) : h[n].pass \in Nat
  BY DEF GoodSummaries
<1> DEFINE D == 1..Len(h)
           f == [n \in D |-> h[n].pass]
<1>2. IsFiniteSet(D) /\ Cardinality(D) = Len(h)
  BY <1>1, FS_Interval
<1>3. f \in Surjection(D, Recorded(h))
  BY <1>1 DEF Surjection, Recorded
<1>4. \A m, n \in D : f[m] = f[n] => m = n
  <2> SUFFICES ASSUME NEW m \in D, NEW n \in D, f[m] = f[n], m # n PROVE FALSE
    OBVIOUS
  <2>1. m < n \/ n < m
    BY <1>1
  <2>2. h[m].pass = h[n].pass /\ h[m].pass \in Nat
    BY <1>1
  <2> QED
    BY <1>1, <2>1, <2>2 DEF InOrder
<1>5. f \in Injection(D, Recorded(h))
  BY <1>3, <1>4 DEF Surjection, Injection, IsInjective
<1>6. Recorded(h) \subseteq Nat
  BY <1>1 DEF Recorded
<1> HIDE DEF D, f
<1> QED
  BY <1>1, <1>2, <1>3, <1>5, <1>6, FS_Surjection

\* The history g, which is h with the summary x, remembers what h does.
Continues(g, h, x, sp) ==
    /\ InOrder(g, sp) /\ x.pass \in Recorded(g)
    /\ Recorded(g) \subseteq Recorded(h) \cup {x.pass}
    /\ \A p \in Nat :
        (p > x.pass => p \in sp) /\ Remembers(h, p, sp) => Remembers(g, p, sp)

\* One more summary keeps the order, if the passes after its own have had a failed write,
\* and what leaves for it has made room for newer ones.
LEMMA OneMore ==
    ASSUME NEW out, NEW h \in Seq(GoodSummaries(out)), Len(h) <= HistoryLimit,
           NEW x \in GoodSummaries(out), NEW sp, InOrder(h, sp), x.pass \notin Recorded(h),
           \A p \in Recorded(h) : p > x.pass => p \in sp
    PROVE  Continues(LastOf(Append(h, x)), h, x, sp)
<1> DEFINE G == GoodSummaries(out)
           a == Append(h, x)
           g == LastOf(a)
<1>1. HistoryLimit \in Nat \ {0}
  BY PassConstants
<1>2. /\ Len(h) \in Nat /\ DOMAIN h = 1..Len(h) /\ x.pass \in Nat
      /\ \A n \in 1..Len(h) : h[n].pass \in Nat
  BY DEF GoodSummaries
<1> HIDE DEF G
<1>3. /\ a \in Seq(G) /\ Len(a) = Len(h) + 1 /\ DOMAIN a = 1..(Len(h) + 1) /\ a # <<>>
      /\ \A n \in 1..Len(h) : a[n] = h[n]
      /\ a[Len(h) + 1] = x
  BY <1>2, AppendProperties, LenProperties DEF G
<1>4. InOrder(a, sp)
  <2> SUFFICES ASSUME NEW m \in DOMAIN a, NEW n \in DOMAIN a, m < n
               PROVE  a[m].pass < a[n].pass \/ (a[m].pass \in sp /\ a[m].pass # a[n].pass)
    BY DEF InOrder
  <2>1. m \in 1..Len(h) /\ a[m] = h[m] /\ a[m].pass \in Nat /\ a[m].pass \in Recorded(h)
    BY <1>2, <1>3 DEF Recorded
  <2>2. CASE n \in 1..Len(h)
    BY <1>2, <1>3, <2>1, <2>2 DEF InOrder
  <2>3. CASE n = Len(h) + 1
    BY <1>2, <1>3, <2>1, <2>3
  <2> QED
    BY <1>2, <1>3, <2>2, <2>3
<1> HIDE DEF a
<1>5. ASSUME Len(a) <= HistoryLimit PROVE Continues(g, h, x, sp)
  <2>1. g = a
    BY <1>1, <1>2, <1>3, <1>5 DEF LastOf
  <2>2. Recorded(a) = Recorded(h) \cup {x.pass}
    BY <1>2, <1>3 DEF Recorded
  <2>3. ASSUME NEW p \in Nat, Remembers(h, p, sp) PROVE Remembers(a, p, sp)
    <3>1. Cardinality(Newer(h, p)) < HistoryLimit /\ Cardinality(Newer(h, p)) \in Nat
      <4>1. IsFiniteSet(Recorded(h)) /\ Cardinality(Recorded(h)) = Len(h)
        BY RecordedOnce
      <4>2. Newer(h, p) \subseteq Recorded(h)
        BY DEF Newer
      <4>3. IsFiniteSet(Newer(h, p)) /\ Cardinality(Newer(h, p)) <= Len(h)
        BY <4>1, <4>2, FS_Subset
      <4>4. Cardinality(Newer(h, p)) \in Nat
        BY <4>3, FS_CardinalityType
      <4> QED
        BY <1>1, <1>2, <1>3, <1>5, <4>3, <4>4
    <3>2. p \in Recorded(h) \cup sp
      BY <1>1, <2>3, <3>1 DEF Remembers
    <3> QED
      BY <2>2, <3>2 DEF Remembers
  <2>4. Continues(a, h, x, sp)
    BY <1>4, <2>2, <2>3 DEF Continues
  <2> HIDE DEF g
  <2> QED
    BY <2>1, <2>4
<1>6. ASSUME Len(a) > HistoryLimit PROVE Continues(g, h, x, sp)
  <2>1. Len(h) = HistoryLimit /\ g = Tail(a)
    <3>1. g = Tail(a)
      BY <1>6 DEF LastOf
    <3>2. Len(h) = HistoryLimit
      <4>1. PICK n \in Nat, m \in Nat : n = Len(h) /\ m = HistoryLimit
        BY <1>1, <1>2
      <4>2. n + 1 > m /\ n <= m
        BY <1>3, <1>6, <4>1
      <4> QED
        BY <4>1, <4>2
    <3> QED
      BY <3>1, <3>2
  <2>2. /\ g \in Seq(G) /\ Len(g) = HistoryLimit /\ DOMAIN g = 1..HistoryLimit
        /\ \A n \in 1..HistoryLimit : n + 1 \in DOMAIN a /\ g[n] = a[n + 1]
    BY <1>1, <1>2, <1>3, <2>1, HeadTailProperties, LenProperties
  <2> HIDE DEF g
  <2>3. InOrder(g, sp)
    BY <1>1, <1>4, <2>2 DEF InOrder
  <2>4. g[HistoryLimit] = x /\ x.pass \in Recorded(g)
    BY <1>1, <1>3, <2>1, <2>2 DEF Recorded
  <2>5. \A n \in 1..HistoryLimit : g[n] = x \/ (n + 1 \in DOMAIN h /\ g[n] = h[n + 1])
    BY <1>1, <1>2, <1>3, <2>1, <2>2
  <2>6. Recorded(g) \subseteq Recorded(h) \cup {x.pass}
    BY <2>2, <2>5 DEF Recorded
  <2>7. Recorded(h) \subseteq Recorded(g) \cup {h[1].pass}
    <3> SUFFICES ASSUME NEW n \in 1..HistoryLimit, n # 1 PROVE h[n].pass \in Recorded(g)
      BY <1>2, <2>1 DEF Recorded
    <3>1. n - 1 \in 1..HistoryLimit /\ g[n - 1] = h[n]
      BY <1>1, <1>2, <1>3, <2>1, <2>2
    <3> QED
      BY <2>2, <3>1 DEF Recorded
  <2>8. Cardinality(Recorded(g)) = HistoryLimit
    BY <2>2, <2>3, RecordedOnce DEF G
  <2>9. ASSUME NEW p \in Nat, p > x.pass => p \in sp, Remembers(h, p, sp)
        PROVE  Remembers(g, p, sp)
    <3>1. CASE p \in sp \cup Recorded(g)
      BY <3>1 DEF Remembers
    <3>2. CASE p \notin sp \cup Recorded(g)
      <4>1. p < x.pass
        BY <1>2, <2>4, <2>9, <3>2
      <4>2. \A q \in Recorded(h) : q = p \/ q > p
        <5>1. CASE p \in Recorded(h)
          <6>1. p = h[1].pass
            BY <2>7, <3>2, <5>1
          <6> SUFFICES ASSUME NEW n \in 1..HistoryLimit, n # 1 PROVE h[n].pass > p
            BY <1>2, <2>1, <6>1 DEF Recorded
          <6>2. 1 \in DOMAIN h /\ n \in DOMAIN h /\ 1 < n
            BY <1>1, <1>2, <2>1
          <6> QED
            BY <1>2, <3>2, <6>1, <6>2 DEF InOrder
        <5>2. CASE p \notin Recorded(h)
          <6>1. Cardinality(Newer(h, p)) >= HistoryLimit
            BY <2>9, <3>2, <5>2 DEF Remembers
          <6>2. IsFiniteSet(Recorded(h)) /\ Cardinality(Recorded(h)) = HistoryLimit
            BY <2>1, RecordedOnce
          <6>3. Newer(h, p) \subseteq Recorded(h)
            BY DEF Newer
          <6>4. Newer(h, p) = Recorded(h)
            <7>1. Cardinality(Newer(h, p)) <= HistoryLimit /\ IsFiniteSet(Newer(h, p))
              BY <6>2, <6>3, FS_Subset
            <7>2. Cardinality(Newer(h, p)) \in Nat
              BY <7>1, FS_CardinalityType
            <7>3. Cardinality(Newer(h, p)) = HistoryLimit
              BY <1>1, <6>1, <7>1, <7>2
            <7> QED
              BY <6>2, <6>3, <7>3, FS_Subset
          <6> QED
            BY <6>4 DEF Newer
        <5> QED
          BY <5>1, <5>2
      <4>3. Newer(g, p) = Recorded(g)
        BY <2>6, <3>2, <4>1, <4>2 DEF Newer
      <4> QED
        BY <1>1, <2>8, <4>3 DEF Remembers
    <3> QED
      BY <3>1, <3>2
  <2> QED
    BY <2>3, <2>4, <2>6, <2>9 DEF Continues
<1>7. Continues(g, h, x, sp)
  <2> HIDE DEF g
  <2> QED
    BY <1>1, <1>2, <1>3, <1>5, <1>6
<1> QED
  BY <1>7 DEF a

\* A step of a pass that adds nothing to the history forgets nothing.
LEMMA DatedRemembers ==
    ASSUME PassInv, MemoryInv, Dated, UNCHANGED <<history, historyFile>>, spoiled \subseteq spoiled',
           pc \notin {"down", "recovering", "ready", "exit", "halted"},
           pc' \notin {"down", "recovering", "ready", "scheduling", "halted"},
           pc' \in {"idle", "exit"} => pc \in {"scheduling", "idle"}
    PROVE  MemoryInv'
<1>1. /\ passes' = passes /\ status.pass = passes /\ passes # 0 /\ status'.pass = passes
      /\ statusFile'.pass \in {statusFile.pass, passes}
  BY DEF MemoryInv, Dated, OnTime
<1>2. /\ \A h \in {history', historyFile'} : InOrder(h, spoiled') /\ Recorded(h) \subseteq 1..passes
      /\ \A p \in Recorded(history') : Remembers(historyFile', p, spoiled')
      /\ \A p \in 1..(passes - 1) :
            Remembers(historyFile', p, spoiled') /\ Remembers(history', p, spoiled')
  BY MoreSpoiled DEF MemoryInv
<1>3. ASSUME pc' \in Between
      PROVE  Remembers(historyFile', passes, spoiled') /\ Remembers(history', passes, spoiled')
  <2>1. pc \in Between
    BY <1>3 DEF Between
  <2> QED
    BY <1>1, <2>1, MoreSpoiled DEF MemoryInv
<1>4. \A p \in 1..passes : p > statusFile'.pass => p \in spoiled'
  <2>1. passes \in Nat
    BY DEF PassInv
  <2> QED
    BY <1>1, <2>1 DEF MemoryInv
<1> QED
  BY <1>1, <1>2, <1>3, <1>4 DEF MemoryInv

\* What is spoiled stays so.
LEMMA StaysSpoiled ==
    \A s : Forced(s) \/ Unforced(s) => spoiled \subseteq spoiled'
BY DEF Forced, Unforced

\* The steps up to the publication add nothing to the history.
LEMMA PassRemembers ==
    ASSUME PassInv, MemoryInv,
           \/ Fail \/ SetUp \/ Discover \/ MarkChecked \/ PlanAnalysisWork \/ Preflight
           \/ (\E i \in Items : PoolStep(i)) \/ Drained
           \/ MarkAnalysisCheckpoint \/ PlanPatterns \/ SkipPatterns
           \/ Correlate \/ RecordSuppressed \/ Correlated \/ CompletePatterns
    PROVE  MemoryInv'
<1>1. Dated
  BY PassIsDated
<1>2. CASE Fail
  <2>1. /\ UNCHANGED <<history, historyFile, spoiled>> /\ pc' = "ending"
        /\ pc \notin {"down", "recovering", "ready", "exit", "halted"}
    BY <1>2 DEF Fail, Fallible, Systemic, Return, tracker, disk
  <2> QED
    BY <1>1, <2>1, DatedRemembers
<1>3. CASE \E i \in Items : PoolStep(i)
  <2>1. PICK i \in Items : PoolStep(i)
    BY <1>3
  <2>2. pc = "analysis" /\ pc' = "analysis" /\ UNCHANGED <<history, historyFile>>
    BY <2>1 DEF PoolStep, Schedule, Begin, StartFollower, Answer, Refuse, GiveUp, Sink,
                Analyzed, Share, Note, NotShared, Drop, Release, Again, InPool
  <2>3. UNCHANGED spoiled
    BY <2>1 DEF PoolStep, Schedule, Begin, StartFollower, Answer, Refuse, GiveUp, Sink,
                Analyzed, Share, Note, NotShared, Drop, Release, Again, Moves, Quietly, Unforced
  <2> QED
    BY <1>1, <2>2, <2>3, DatedRemembers
<1>4. CASE Drained
  <2>1. /\ UNCHANGED <<history, historyFile>> /\ pc = "analysis"
        /\ pc' \in {"ending", "checkpoint"} /\ spoiled \subseteq spoiled'
    BY <1>4, StaysSpoiled DEF Drained
  <2> QED
    BY <1>1, <2>1, DatedRemembers
<1> DEFINE InPass == Walking \ {"following"}
<1>5. CASE \E p, q \in InPass : \E s : Phase(p, q, s)
  <2>1. /\ UNCHANGED <<history, historyFile>> /\ spoiled \subseteq spoiled'
        /\ pc \in Walking /\ pc' \in Walking
    BY <1>5, StaysSpoiled DEF Phase
  <2> QED
    BY <1>1, <2>1, DatedRemembers DEF Walking
<1>6. \/ Fail \/ (\E i \in Items : PoolStep(i)) \/ Drained
      \/ \E p, q \in InPass : \E s : Phase(p, q, s)
  <2>1. /\ {"setup", "discovery", "artifacts", "planning", "preflight", "analysis"} \subseteq InPass
        /\ {"checkpoint", "correlating", "patterns", "retrying", "suppressed"} \subseteq InPass
        /\ {"correlated", "merging"} \subseteq InPass
    BY DEF Walking
  <2> HIDE DEF InPass
  <2>2. CASE SetUp \/ Discover \/ MarkChecked \/ Preflight \/ Correlated
    BY <2>1, <2>2 DEF SetUp, Discover, MarkChecked, Preflight, Correlated
  <2>3. CASE MarkAnalysisCheckpoint \/ PlanPatterns \/ SkipPatterns \/ CompletePatterns
    BY <2>1, <2>3 DEF MarkAnalysisCheckpoint, PlanPatterns, SkipPatterns, CompletePatterns
  <2>4. CASE PlanAnalysisWork
    BY <2>1, <2>4 DEF PlanAnalysisWork
  <2>5. CASE Correlate \/ RecordSuppressed
    BY <2>1, <2>5 DEF Correlate, Attempt, RecordSuppressed
  <2> QED
    BY <2>2, <2>3, <2>4, <2>5
<1> QED
  BY <1>2, <1>3, <1>4, <1>5, <1>6

\* Nor do those from there to the end of the pass, and out of it.
LEMMA EndRemembers ==
    ASSUME PassInv, MemoryInv,
           \/ StartPublication \/ WriteOutput \/ MarkPublished
           \/ SkipSideEffects \/ StartSideEffects \/ BeginFollowUp \/ FinishFollowUp
           \/ SideEffectsDone \/ Finish \/ SetSchedule \/ Leave
    PROVE  MemoryInv'
<1>1. Dated
  BY EndIsDated
<1>2. ASSUME UNCHANGED <<history, historyFile>>, spoiled \subseteq spoiled',
             pc \in {"merging", "writing", "written", "published", "followUps", "following",
                     "ending", "scheduling", "idle"},
             pc' \in {"writing", "written", "published", "followUps", "following", "ending",
                      "ended", "idle", "exit"},
             pc' \in {"idle", "exit"} => pc \in {"scheduling", "idle"}
      PROVE  MemoryInv'
  BY <1>1, <1>2, DatedRemembers
<1>3. CASE StartPublication \/ MarkPublished \/ SkipSideEffects \/ SetSchedule
  BY <1>2, <1>3, StaysSpoiled
     DEF StartPublication, MarkPublished, SkipSideEffects, SetSchedule, Phase
<1>4. CASE WriteOutput
  BY <1>2, <1>4 DEF WriteOutput, tracker
<1>5. CASE StartSideEffects \/ FinishFollowUp
  BY <1>2, <1>5, StaysSpoiled DEF StartSideEffects, FinishFollowUp, SetFollowUp
<1>6. CASE BeginFollowUp
  <2>1. UNCHANGED <<history, historyFile>> /\ pc = "followUps" /\ pc' \in {"followUps", "following"}
    BY <1>6 DEF BeginFollowUp, SetFollowUp, tracker, disk
  <2>2. spoiled \subseteq spoiled'
    BY <1>6, StaysSpoiled DEF BeginFollowUp, SetFollowUp
  <2> QED
    BY <1>2, <2>1, <2>2
<1>7. CASE SideEffectsDone
  BY <1>2, <1>7, StaysSpoiled DEF SideEffectsDone
<1>8. CASE Finish \/ Leave
  BY <1>2, <1>8, StaysSpoiled DEF Finish, Leave
<1> QED
  BY <1>3, <1>4, <1>5, <1>6, <1>7, <1>8

\* A pass begins when those before it are remembered.
LEMMA BeginningRemembers ==
    ASSUME PassInv, MemoryInv, FirstPass \/ NextPass
    PROVE  MemoryInv'
<1>1. PICK type : BeginPass(type) /\ pc \in {"ready", "idle"}
                  /\ pc' \in {"setup", "discovery", "artifacts"}
  BY DEF FirstPass, NextPass
<1>2. PICK s : s = Begun(passes + 1, type)
  OBVIOUS
<1>3. passes \in Nat /\ s.pass = passes + 1
  BY <1>2, BlankStatus DEF Begun, StatusType, PassInv
<1>4. /\ Forced(s) /\ passes' = passes + 1 /\ UNCHANGED <<history, historyFile>>
      /\ status' = s /\ spoiled \subseteq spoiled'
  BY <1>1, <1>2, StaysSpoiled DEF BeginPass, Forced
<1>5. ASSUME NEW p \in 1..passes
      PROVE  Remembers(historyFile, p, spoiled) /\ Remembers(history, p, spoiled)
  <2>1. p = passes \/ p \in 1..(passes - 1)
    BY <1>3, <1>5
  <2> QED
    BY <1>1, <1>3, <2>1 DEF MemoryInv, Between
<1>6. /\ \A h \in {history', historyFile'} : InOrder(h, spoiled') /\ Recorded(h) \subseteq 1..passes
      /\ \A p \in Recorded(history') : Remembers(historyFile', p, spoiled')
  BY <1>4, MoreSpoiled DEF MemoryInv
<1>7. 1..passes \subseteq 1..passes' /\ 1..(passes' - 1) = 1..passes /\ passes' # 0
  BY <1>3, <1>4
<1>8. \A p \in 1..(passes' - 1) :
         Remembers(historyFile', p, spoiled') /\ Remembers(history', p, spoiled')
  BY <1>4, <1>5, <1>7, MoreSpoiled
<1>9. ASSUME NEW p \in 1..passes', p > statusFile'.pass PROVE p \in spoiled'
  <2>1. CASE statusFile' = s
    BY <1>3, <1>4, <1>9, <2>1
  <2>2. CASE statusFile' = statusFile /\ spoiled' = spoiled \cup {s.pass}
    <3>1. p \in 1..passes \/ p = passes + 1
      BY <1>3, <1>4, <1>9
    <3> QED
      BY <1>3, <1>9, <2>2, <3>1 DEF MemoryInv
  <2> QED
    BY <1>4, <2>1, <2>2 DEF Forced
<1>10. pc' \notin Between \cup {"down", "recovering"}
  BY <1>1 DEF Between
<1>11. \A h \in {history', historyFile'} :
          InOrder(h, spoiled') /\ Recorded(h) \subseteq 1..passes'
  BY <1>6, <1>7
<1> QED
  BY <1>3, <1>4, <1>6, <1>7, <1>8, <1>9, <1>10, <1>11 DEF MemoryInv

\* When all passes are remembered, so are those of every place.
LEMMA AllRemembered ==
    ASSUME MemoryInv, UNCHANGED <<status, statusFile, passes>>, passes \in Nat \ {0},
           spoiled \subseteq spoiled', pc' \in Between,
           pc' \notin {"down", "recovering", "ready", "exit", "halted"} => status.pass = passes,
           \A h \in {history', historyFile'} :
                InOrder(h, spoiled') /\ Recorded(h) \subseteq 1..passes,
           \A p \in 1..passes :
                Remembers(history', p, spoiled') /\ Remembers(historyFile', p, spoiled')
    PROVE  MemoryInv'
<1>1. 1..(passes - 1) \subseteq 1..passes /\ passes \in 1..passes
  OBVIOUS
<1>2. \A p \in 1..passes : p > statusFile'.pass => p \in spoiled'
  BY DEF MemoryInv
<1>3. \A p \in Recorded(history') : Remembers(historyFile', p, spoiled')
  OBVIOUS
<1>4. pc' # "recovering"
  BY DEF Between
<1>5. \A p \in 1..(passes' - 1) :
        Remembers(historyFile', p, spoiled') /\ Remembers(history', p, spoiled')
  BY <1>1
<1>6. Remembers(historyFile', passes', spoiled') /\ Remembers(history', passes', spoiled')
  BY <1>1
<1> QED
  BY <1>2, <1>3, <1>4, <1>5, <1>6 DEF MemoryInv

\* What is added to the history, of memory and of the file, is the pass that ended.
LEMMA AppendRemembers ==
    ASSUME PassInv, MemoryInv, Recover \/ AppendPass
    PROVE  MemoryInv'
<1>1. /\ AppendHistory(status) /\ UNCHANGED <<status, statusFile, passes>>
      /\ pc \in {"recovering", "ended"} /\ pc' \in Between
      /\ pc = "recovering" => pc' = "ready"
  BY DEF Recover, AppendPass, Between
<1>2. /\ passes \in Nat /\ status.pass \in 1..passes /\ passes # 0
      /\ \A p \in 1..passes : p > status.pass => p \in spoiled
  BY <1>1 DEF MemoryInv, PassInv
<1>3. PICK x : x = Summary(status)
  OBVIOUS
<1>4. x.pass = status.pass /\ x \in GoodSummaries(output)
  <2>1. GoodStatus(status, output) /\ status.outcome \in Ended
    BY <1>1 DEF PassInv, Fits
  <2> QED
    BY <1>3, <2>1, SummaryIsGood DEF Summary
<1>5. history \in Seq(GoodSummaries(output)) /\ Len(history) <= HistoryLimit
  BY DEF PassInv, GoodHistory
<1>6. ASSUME NEW p \in 1..passes, p # status.pass
      PROVE  Remembers(history, p, spoiled) /\ Remembers(historyFile, p, spoiled)
  <2>1. p \in 1..(passes - 1) \/ p \in spoiled
    BY <1>2, <1>6
  <2> QED
    BY <1>1, <2>1 DEF MemoryInv, Remembers
<1>7. /\ pc' # "recovering"
       /\ pc' \notin {"down", "recovering", "ready", "exit", "halted"} => status.pass = passes
  BY <1>1 DEF MemoryInv, Between
<1>8. CASE x.pass \in Recorded(history)
  <2>1. UNCHANGED <<history, historyFile, spoiled>>
    BY <1>1, <1>4, <1>8 DEF AppendHistory
  <2>2. \A p \in 1..passes : Remembers(history, p, spoiled) /\ Remembers(historyFile, p, spoiled)
    BY <1>4, <1>6, <1>8 DEF Remembers, MemoryInv
  <2>3. \A h \in {history, historyFile} : InOrder(h, spoiled) /\ Recorded(h) \subseteq 1..passes
    BY DEF MemoryInv
  <2> QED
    BY <1>1, <1>2, <1>7, <2>1, <2>2, <2>3, AllRemembered
<1>9. CASE x.pass \notin Recorded(history)
  <2>1. PICK g : g = LastOf(Append(history, x))
    OBVIOUS
  <2>2. /\ history' = g
        /\ \/ historyFile' = g /\ spoiled' = spoiled
           \/ historyFile' = historyFile /\ spoiled' = spoiled \cup {status.pass}
    BY <1>1, <1>3, <1>4, <1>9, <2>1 DEF AppendHistory
  <2>3. InOrder(history, spoiled) /\ \A p \in Recorded(history) : p > x.pass => p \in spoiled
    BY <1>2, <1>4 DEF MemoryInv
  <2>4. Continues(g, history, x, spoiled)
    BY <1>4, <1>5, <1>9, <2>1, <2>3, OneMore
  <2>5. spoiled \subseteq spoiled'
    BY <2>2
  <2>6. InOrder(g, spoiled') /\ Recorded(g) \subseteq 1..passes
    BY <1>2, <1>4, <2>4, <2>5, MoreSpoiled DEF Continues, MemoryInv
  <2>7. InOrder(historyFile, spoiled') /\ Recorded(historyFile) \subseteq 1..passes
    BY <2>5, MoreSpoiled DEF MemoryInv
  <2>8. ASSUME NEW p \in 1..passes PROVE Remembers(g, p, spoiled') /\ Remembers(historyFile', p, spoiled')
    <3>1. Remembers(g, p, spoiled)
      <4>1. CASE p = status.pass
        BY <1>4, <2>4, <4>1 DEF Continues, Remembers
      <4>2. CASE p # status.pass
        <5>1. p \in Nat /\ (p > x.pass => p \in spoiled) /\ Remembers(history, p, spoiled)
          BY <1>2, <1>4, <1>6, <4>2
        <5> QED
          BY <2>4, <5>1 DEF Continues
      <4> QED
        BY <4>1, <4>2
    <3>2. CASE historyFile' = g
      BY <2>5, <3>1, <3>2, MoreSpoiled
    <3>3. CASE historyFile' = historyFile /\ spoiled' = spoiled \cup {status.pass}
      <4>1. p = status.pass => p \in spoiled'
        BY <3>3
      <4>2. p # status.pass => Remembers(historyFile, p, spoiled')
        BY <1>6, <2>5, MoreSpoiled
      <4> QED
        BY <2>5, <3>1, <3>3, <4>1, <4>2, MoreSpoiled DEF Remembers
    <3> QED
      BY <2>2, <3>2, <3>3
  <2>9. /\ \A h \in {history', historyFile'} :
              InOrder(h, spoiled') /\ Recorded(h) \subseteq 1..passes
        /\ \A p \in 1..passes :
              Remembers(history', p, spoiled') /\ Remembers(historyFile', p, spoiled')
    BY <2>2, <2>6, <2>7, <2>8
  <2> QED
    BY <1>1, <1>2, <1>7, <2>5, <2>9, AllRemembered
<1> QED
  BY <1>8, <1>9

\* A process that starts has the history of the file, and remembers with it.
LEMMA StartRemembers ==
    ASSUME PassInv, FileIsAccepted, FreshInv, MemoryInv, Start
    PROVE  MemoryInv'
<1>1. /\ pc = "down" /\ pc' \in {"recovering", "ready"} /\ history' = historyFile
      /\ UNCHANGED <<historyFile, passes>>
  BY DEF Start
<1>2. /\ passes \in Nat /\ statusFile.pass \in Nat /\ statusFile.pass <= passes
      /\ statusFile \in StatusType
  BY TimesAreNumbers DEF FreshInv
<1>3. PICK s : s = Interrupted(statusFile)
  OBVIOUS
<1>4. s.pass = statusFile.pass
  BY <1>2, <1>3, TerminalTimes DEF Interrupted
<1>5. \/ statusFile.pass # 0 /\ Forced(s) /\ (pc' = "recovering" <=> statusFile' = status')
      \/ /\ statusFile.pass # 0 /\ status' = statusFile /\ pc' = "recovering"
         /\ UNCHANGED <<statusFile, spoiled>>
      \/ statusFile.pass = 0 /\ pc' = "ready" /\ UNCHANGED <<statusFile, spoiled>>
  BY <1>3 DEF Start, Readable, FileIsAccepted
<1>6. spoiled \subseteq spoiled' /\ statusFile'.pass = statusFile.pass
  BY <1>4, <1>5 DEF Forced
<1>7. /\ \A h \in {history', historyFile'} : InOrder(h, spoiled') /\ Recorded(h) \subseteq 1..passes
      /\ \A p \in 1..(passes - 1) :
            Remembers(historyFile', p, spoiled') /\ Remembers(history', p, spoiled')
  BY <1>1, <1>6, MoreSpoiled DEF MemoryInv
<1>8. \A p \in Recorded(history') : Remembers(historyFile', p, spoiled')
  BY <1>1 DEF Remembers
<1>9. \A p \in 1..passes : p > statusFile'.pass => p \in spoiled'
  BY <1>6 DEF MemoryInv
<1>10. ASSUME pc' \in Between, passes # 0 PROVE passes \in spoiled'
  <2>1. pc' = "ready"
    BY <1>1, <1>10 DEF Between
  <2>2. CASE statusFile.pass = passes
    BY <1>4, <1>5, <1>10, <2>1, <2>2 DEF Forced
  <2>3. CASE statusFile.pass # passes
    <3>1. passes \in 1..passes /\ passes > statusFile.pass
      BY <1>2, <1>10, <2>3
    <3> QED
      BY <1>6, <1>9, <3>1
  <2> QED
    BY <2>2, <2>3
<1>11. pc' = "recovering" => status'.pass = statusFile'.pass /\ status'.pass \in 1..passes
  <2>1. statusFile.pass # 0 => statusFile.pass \in 1..passes
    BY <1>2
  <2> QED
    BY <1>4, <1>5, <1>6, <2>1 DEF Forced
<1> QED
  BY <1>1, <1>7, <1>8, <1>9, <1>10, <1>11 DEF MemoryInv, Remembers

\* One that is gone leaves the file as it is.
LEMMA GoneRemembers ==
    ASSUME PassInv, MemoryInv, Exit \/ Crash \/ Stop \/ UNCHANGED vars
    PROVE  MemoryInv'
<1>1. CASE Stop \/ UNCHANGED vars
  <2>1. UNCHANGED <<pc, status, statusFile, history, historyFile, passes, spoiled>>
    BY <1>1 DEF Stop, vars, tracker, disk
  <2> QED
    BY <2>1 DEF MemoryInv
<1>2. CASE Exit \/ Crash
  <2>1. /\ pc' = "down" /\ history' = <<>> /\ UNCHANGED <<statusFile, historyFile, passes, spoiled>>
    BY <1>2 DEF Exit, Crash, Gone, disk
  <2>2. Recorded(<<>>) = {} /\ InOrder(<<>>, spoiled)
    BY DEF Recorded, InOrder
  <2> QED
    BY <2>1, <2>2 DEF MemoryInv, Between
<1> QED
  BY <1>1, <1>2

\* Between two passes every pass there was is remembered, by memory and by the file.
THEOREM MemoryInvariant == Spec => []MemoryInv
<1>1. Init => MemoryInv
  BY DEF Init, MemoryInv, InOrder, Recorded
<1>2. PassInv /\ FileIsAccepted /\ FreshInv /\ MemoryInv /\ [Next]_vars => MemoryInv'
  <2> SUFFICES ASSUME PassInv, FileIsAccepted, FreshInv, MemoryInv, [Next]_vars
               PROVE  MemoryInv'
    OBVIOUS
  <2>1. CASE PassStep
    BY <2>1, PassRemembers, EndRemembers, BeginningRemembers, AppendRemembers, StartRemembers,
       GoneRemembers DEF PassStep
  <2> QED
    BY <2>1, GoneRemembers DEF Next
<1> QED
  BY <1>1, <1>2, PassInvariant, FileAccepted, FreshInvariant, PTL DEF Spec

\* Every pass but the current one is in the history file, once, unless newer passes fill the
\* history or one of its writes failed; and they are in order, unless a pass with a failed
\* write comes before an older one.
THEOREM PassesRemembered == Spec => []PassesAreRemembered
<1>1. MemoryInv => PassesAreRemembered
  BY DEF MemoryInv, InOrder, Remembers, Newer, PassesAreRemembered
<1> QED
  BY <1>1, MemoryInvariant, PTL
=============================================================================
