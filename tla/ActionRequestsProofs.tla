------------------------ MODULE ActionRequestsProofs ------------------------
(* Type correctness of ActionRequests, for any number of requests, handlers, *)
(* crashes and failed saves.                                                 *)
EXTENDS ActionRequests, TLAPS

-----------------------------------------------------------------------------
(* The request file *)

TableOK(table) == table \in [Requests -> Entry]
StoreOK == TableOK(mem) /\ TableOK(disk) /\ saveFaults \in 0..MaxSaveFaults

\* Replacing an entry by an entry gives a table (every save site of requests.go).
LEMMA PutType ==
  ASSUME TableOK(mem), NEW r \in Requests, NEW e \in Entry
  PROVE  TableOK(Put(r, e))
BY DEF Put, TableOK

\* A save, whether it succeeds or fails, leaves tables (saveRequestsLocked).
LEMMA SaveType ==
  ASSUME StoreOK, NEW kept, NEW table, TableOK(kept), TableOK(table),
         Save(table) \/ SaveFails(kept, table)
  PROVE  StoreOK'
BY ConstantsAssumption DEF StoreOK, TableOK, Save, SaveFails

\* No work is a work reference.
LEMMA NoWorkType == NoWork \in Work
BY ConstantsAssumption DEF Work, NoWork

\* The entries the handlers write are entries.
LEMMA EntryType ==
  ASSUME NEW e \in Entry, NEW s \in Statuses, NEW f \in Finals, NEW w \in Work
  PROVE  /\ NoEntry \in Entry /\ NewEntry \in Entry /\ Cleared(s) \in Entry
         /\ Cancelling(e, f) \in Entry
         /\ [e EXCEPT !.status = s] \in Entry
         /\ [e EXCEPT !.work = w] \in Entry
<1>2. NoEntry \in Entry
  BY NoWorkType DEF NoEntry, Entry, Statuses, Finals
<1>3. ASSUME NEW x \in Entry, NEW t \in Statuses PROVE [x EXCEPT !.status = t] \in Entry
  BY DEF Entry
<1>4. NewEntry \in Entry /\ Cleared(s) \in Entry
  BY <1>2, <1>3 DEF NewEntry, Cleared, Statuses
<1>5. Cancelling(e, f) \in Entry
  BY DEF Cancelling, Entry, Statuses
<1>6. [e EXCEPT !.work = w] \in Entry
  BY DEF Entry
<1>7. QED
  BY <1>2, <1>3, <1>4, <1>5, <1>6

\* Expiring an entry, and restoring one at a restart, give an entry.
LEMMA AgedType ==
  ASSUME StoreOK
  PROVE  /\ TableOK(Aged)
         /\ \A f \in [Requests -> BOOLEAN] :
                TableOK([r \in Requests |-> Restored(Aged[r], f[r])])
<1>1. ASSUME NEW e \in Entry PROVE Expire(e) \in Entry
  <2>1. Cancelling(e, "expired") \in Entry /\ Cleared("expired") \in Entry
    BY <1>1, EntryType, NoWorkType DEF Finals, Statuses
  <2>2. QED
    BY <1>1, <2>1 DEF Expire
<1>2. TableOK(Aged)
  BY <1>1 DEF Aged, TableOK, StoreOK
<1>3. ASSUME NEW e \in Entry, NEW v \in BOOLEAN PROVE Restored(e, v) \in Entry
  <2>1. Cancelling(e, "failed") \in Entry /\ [e EXCEPT !.status = "failed"] \in Entry
    BY <1>3, EntryType, NoWorkType DEF Finals, Statuses
  <2>2. QED
    BY <1>3, <2>1 DEF Restored
<1>4. QED
  BY <1>2, <1>3 DEF TableOK

-----------------------------------------------------------------------------
(* Goroutines *)

\* An execution is numbered from one: what makes TypeOK inductive.
Working == {"plan", "create", "observe", "run", "clean", "recover"}
Numbered(x) == x.pc \in Working => x.attempt \in Attempts
GensOK(g) == g \in [Requests -> Gen] /\ \A r \in Requests : Numbered(g[r])
TypeInv == TypeOK /\ \A r \in Requests : Numbered(gen[r])

TasksOK(t) == t \in [Requests -> [Workers -> Task]]
ConfStates == {"off", "write", "reconcile", "done", "refused", "lost"}
WorldOK ==
  /\ server \in {"up", "stopping", "down"}
  /\ conf \in [Requests -> ConfStates]
  /\ box \subseteq Requests \X Attempts
  /\ made \in [Requests -> Nat]
  /\ seen \subseteq Requests /\ tracked \subseteq Requests /\ due \subseteq Requests
  /\ crashes \in 0..MaxCrashes

\* The parts of the type invariant that one action or another leaves alone.
LEMMA TypeParts == TypeInv <=> StoreOK /\ GensOK(gen) /\ TasksOK(task) /\ WorldOK
BY DEF TypeInv, Numbered, TypeOK, StoreOK, TableOK, GensOK, TasksOK, WorldOK, ConfStates

\* The same of the state after a step.
LEMMA TypePartsNext ==
  TypeInv' <=> StoreOK' /\ GensOK(gen') /\ TasksOK(task') /\ WorldOK'
BY DEF TypeInv, Numbered, TypeOK, StoreOK, TableOK, GensOK, TasksOK, WorldOK, ConfStates

\* Cancelling contexts and starting cleanups change goroutines into goroutines.
LEMMA GoroutineType ==
  ASSUME NEW g, GensOK(g), NEW t, TasksOK(t), NEW rs
  PROVE  GensOK(CancelContexts(g, rs)) /\ TasksOK(StartCleanups(t, rs))
<1>1. ASSUME NEW x \in Gen, Numbered(x)
      PROVE  [x EXCEPT !.cancelled = TRUE] \in Gen /\ Numbered([x EXCEPT !.cancelled = TRUE])
  BY <1>1 DEF Gen, Numbered
<1>2. GensOK(CancelContexts(g, rs))
  BY <1>1 DEF GensOK, CancelContexts
<1>3. Reading \in Task /\ TaskOff \in Task
  BY NoWorkType DEF Reading, TaskOff, Task, TaskStates
<1>4. TasksOK(StartCleanups(t, rs))
  BY <1>3 DEF TasksOK, StartCleanups, Workers
<1>5. QED
  BY <1>2, <1>4

\* A worker's step replaces its task by a task.
LEMMA TaskType ==
  ASSUME TasksOK(task), NEW r \in Requests, NEW w \in Workers, NEW t \in Task
  PROVE  /\ TasksOK(To(r, w, t)) /\ TasksOK(Retry(r, w))
         /\ Reading \in Task /\ TaskOff \in Task
         /\ task[r][w] \in Task
         /\ \A pc \in TaskStates : [t EXCEPT !.pc = pc] \in Task
<1>1. Reading \in Task /\ TaskOff \in Task
  BY NoWorkType DEF Reading, TaskOff, Task, TaskStates
<1>2. ASSUME NEW x \in Task PROVE TasksOK(To(r, w, x))
  BY DEF TasksOK, To
<1>3. TasksOK(Retry(r, w))
  <2>1. TasksOK(To(r, w, TaskOff)) /\ TasksOK(To(r, w, Reading))
    BY <1>1, <1>2
  <2>2. TasksOK(StartCleanups(To(r, w, TaskOff), {r}))
    <3> DEFINE x == To(r, w, TaskOff)
    <3> HIDE DEF x
    <3>1. TasksOK(x)
      BY <2>1 DEF x
    <3>2. TasksOK(StartCleanups(x, {r}))
      BY <1>1, <3>1 DEF StartCleanups, TasksOK, Workers
    <3>3. QED
      BY <3>2 DEF x
  <2>3. QED
    BY <2>1, <2>2 DEF Retry
<1>4. \A pc \in TaskStates : [t EXCEPT !.pc = pc] \in Task
  BY DEF Task
<1>5. QED
  BY <1>1, <1>2, <1>3, <1>4 DEF TasksOK

\* A generation's step replaces its record field by field.
LEMMA GenType ==
  ASSUME GensOK(gen), NEW r \in Requests
  PROVE  /\ \A pc \in GenStates \ Working : GensOK(Go(r, pc))
         /\ \A n \in Attempts : GensOK(Attempt(r, n))
         /\ \A d \in {"none", "ok", "failed", "pending"} : GensOK(Finished(r, d))
         /\ \A c \in BOOLEAN : GensOK(Leave(r, c))
         /\ GensOK([gen EXCEPT ![r].cancelled = TRUE])
         /\ GensOK([gen EXCEPT ![r] = GenOff])
         /\ gen[r].pc \in Working => \A pc \in GenStates :
                /\ GensOK(Go(r, pc))
                /\ \A d \in {"none", "ok", "failed", "pending"} :
                        GensOK(GoWith(r, pc, d))
<1> DEFINE Good(x) == x \in Gen /\ Numbered(x)
<1>1. gen[r] \in Gen /\ Numbered(gen[r])
  BY DEF GensOK
<1>2. ASSUME NEW x, Good(x) PROVE GensOK([gen EXCEPT ![r] = x])
  BY <1>2 DEF GensOK
<1>3. ASSUME NEW pc \in GenStates \ Working PROVE GensOK(Go(r, pc))
  BY <1>1 DEF GensOK, Gen, Numbered, Go
<1>4. ASSUME NEW n \in Attempts PROVE GensOK(Attempt(r, n))
  <2> DEFINE x == [gen[r] EXCEPT !.pc = "plan", !.attempt = n, !.draft = "none"]
  <2>1. n \in 0..MaxAttempts
    BY ConstantsAssumption DEF Attempts
  <2>2. x \in Gen
    BY <1>1, <2>1 DEF Gen, GenStates
  <2>3. Numbered(x)
    BY <1>1 DEF Numbered, Gen
  <2>4. Attempt(r, n) = [gen EXCEPT ![r] = x]
    BY DEF Attempt, GensOK
  <2>5. QED
    BY <1>2, <2>2, <2>3, <2>4
<1>5. ASSUME NEW d \in {"none", "ok", "failed", "pending"} PROVE GensOK(Finished(r, d))
  BY <1>1 DEF GensOK, Gen, Numbered, Finished, GoWith, GenStates, Working
<1>6. ASSUME NEW c \in BOOLEAN PROVE GensOK(Leave(r, c))
  BY <1>1 DEF GensOK, Gen, Numbered, Leave, GenStates, Working
<1>7. GensOK([gen EXCEPT ![r].cancelled = TRUE])
  BY <1>1 DEF GensOK, Gen, Numbered
<1>8. Good(GenOff)
  BY ConstantsAssumption DEF GenOff, Gen, GenStates, Numbered, Working
<1>9. ASSUME gen[r].pc \in Working, NEW pc \in GenStates
      PROVE  /\ GensOK(Go(r, pc))
             /\ \A d \in {"none", "ok", "failed", "pending"} :
                    GensOK(GoWith(r, pc, d))
  BY <1>1, <1>9 DEF GensOK, Gen, Numbered, Go, GoWith
<1>10. QED
  BY <1>2, <1>3, <1>4, <1>5, <1>6, <1>7, <1>8, <1>9

-----------------------------------------------------------------------------
(* Type correctness, action by action *)

\* A step that leaves the outside world alone keeps its type.
LEMMA WorldSame ==
  ASSUME WorldOK, UNCHANGED <<server, conf, box, made, seen, tracked, due, crashes>>
  PROVE  WorldOK'
BY DEF WorldOK

\* Expiry and reading keep the types (GetRequest, Tick).
LEMMA TickType == ASSUME TypeInv, NEW r \in Requests, Tick(r) PROVE TypeInv'
BY TypeParts, TypePartsNext DEF Tick, WorldOK, StoreOK, store, github, GensOK, TasksOK

\* Reading a request, which expires what is overdue, keeps the types.
LEMMA GetRequestType == ASSUME TypeInv, GetRequest PROVE TypeInv'
<1>1. TableOK(Aged) /\ StoreOK /\ WorldOK
  BY TypeParts, AgedType
<1>2. StoreOK'
  <2>1. CASE SaveOrKeep(Aged)
    BY <1>1, <2>1, SaveType DEF SaveOrKeep
  <2>2. CASE mem' = Aged /\ UNCHANGED <<disk, saveFaults>>
    BY <1>1, <2>2 DEF StoreOK, TableOK
  <2>3. QED
    BY <2>1, <2>2 DEF GetRequest
<1>3. GensOK(gen') /\ TasksOK(task')
  BY TypeParts, GoroutineType DEF GetRequest
<1>4. WorldOK'
  BY <1>1, WorldSame DEF GetRequest, github
<1>5. QED
  BY <1>2, <1>3, <1>4, TypePartsNext

\* Creating a request keeps the types (CreateRequest, CreateAnalysisFixRequest).
LEMMA CreateRequestType ==
  ASSUME TypeInv, NEW h \in Handlers, NEW r \in Requests,
         NEW s \in Requests \cup {NoRequest}, CreateRequest(h, r, s)
  PROVE  TypeInv'
<1> DEFINE table == [q \in Requests |->
                        CASE q = r -> NewEntry
                          [] q = s -> Cancelling(mem[q], "cancelled")
                          [] OTHER -> mem[q]]
<1>1. TableOK(mem) /\ StoreOK /\ WorldOK
  BY TypeParts DEF StoreOK
<1>2. TableOK(table)
  <2>1. NewEntry \in Entry
    BY <1>1, EntryType, NoWorkType DEF TableOK, Statuses, Finals
  <2>2. \A q \in Requests : Cancelling(mem[q], "cancelled") \in Entry
    BY <1>1, EntryType, NoWorkType DEF TableOK, Statuses, Finals
  <2>3. QED
    BY <1>1, <2>1, <2>2 DEF TableOK
<1>3. Save(table) \/ SaveFails(mem, table)
  BY DEF CreateRequest
<1>4. StoreOK'
  BY <1>1, <1>2, <1>3, SaveType
<1>5. GensOK(gen')
  <2>1. gen' = Go(r, "new") \/ gen' = gen
    BY DEF CreateRequest
  <2>2. QED
    BY <2>1, TypeParts, GenType DEF GenStates, Working
<1>6. TasksOK(task')
  <2>1. \A q \in Requests : [task[q] EXCEPT ![h].pc = "supersede"] \in [Workers -> Task]
    BY TypeParts DEF TasksOK, Task, TaskStates, Workers
  <2>2. QED
    BY <2>1, TypeParts DEF CreateRequest, TasksOK
<1>7. WorldOK'
  BY <1>1, WorldSame DEF CreateRequest, github
<1>8. QED
  BY <1>4, <1>5, <1>6, <1>7, TypePartsNext

\* An analysis fix is created like any other request.
LEMMA CreateAnalysisFixRequestType ==
  ASSUME TypeInv, NEW r \in Requests, CreateAnalysisFixRequest(r)
  PROVE  TypeInv'
<1>1. TableOK(mem) /\ StoreOK /\ WorldOK
  BY TypeParts DEF StoreOK
<1>2. TableOK(Put(r, NewEntry))
  <2>1. NewEntry \in Entry
    BY <1>1, EntryType, NoWorkType DEF TableOK, Statuses, Finals
  <2>2. QED
    BY <1>1, <2>1, PutType
<1>3. Save(Put(r, NewEntry)) \/ SaveFails(mem, Put(r, NewEntry))
  BY DEF CreateAnalysisFixRequest
<1>4. StoreOK'
  BY <1>1, <1>2, <1>3, SaveType
<1>5. GensOK(gen') /\ TasksOK(task')
  BY TypeParts, GenType DEF CreateAnalysisFixRequest, GenStates, Working
<1>6. WorldOK'
  BY <1>1, WorldSame DEF CreateAnalysisFixRequest, github
<1>7. QED
  BY <1>4, <1>5, <1>6, TypePartsNext

\* Work and entries as the observer of runtime identities writes them.
LEMMA ObservedType ==
  ASSUME TypeInv, NEW r \in Requests, NEW uid \in BOOLEAN,
         Observes(r, uid) \/ ObserveFails(r, uid)
  PROVE  StoreOK'
<1>1. TableOK(mem) /\ StoreOK /\ GensOK(gen)
  BY TypeParts DEF StoreOK
<1>2. [attempt |-> gen[r].attempt, uid |-> uid] \in Work
  BY <1>1 DEF GensOK, Gen, Work
<1>3. \A w \in Work : [mem[r] EXCEPT !.work = w] \in Entry
  BY <1>1, EntryType DEF TableOK, Statuses, Finals
<1>4. TableOK(Observed(r, uid))
  BY <1>1, <1>2, <1>3, PutType DEF Observed
<1>5. CASE UNCHANGED store
  BY <1>1, <1>5 DEF store, StoreOK, TableOK
<1>6. CASE Save(Observed(r, uid)) \/ SaveFails(mem, Observed(r, uid))
  BY <1>1, <1>4, <1>6, SaveType
<1>7. QED
  BY <1>5, <1>6 DEF Observes, ObserveFails

\* A step that leaves the tables alone keeps their types.
LEMMA StoreSame == ASSUME StoreOK, UNCHANGED store PROVE StoreOK'
BY DEF store, StoreOK, TableOK

\* What every step of a generation leaves alone.
LEMMA GenFrame ==
  ASSUME TypeInv, NEW r, NEW pc, GenStep(r, pc), StoreOK', GensOK(gen'),
         box' \subseteq Requests \X Attempts
  PROVE  TypeInv'
BY TypeParts, TypePartsNext DEF GenStep, WorldOK, TasksOK, github

\* No kind of request runs more executions than the bound.
LEMMA AttemptsBound ==
  ASSUME NEW r \in Requests
  PROVE  /\ MaxAttemptsFor(r) \in Nat
         /\ MaxAttemptsFor(r) <= MaxAttempts
BY ConstantsAssumption DEF MaxAttemptsFor

\* Generation keeps the types, one action after the other.
LEMMA GenerateType ==
  ASSUME TypeInv, NEW r \in Requests, Generate(r) \/ Timeout(r)
  PROVE  TypeInv'
<1>1. StoreOK /\ GensOK(gen) /\ TasksOK(task) /\ WorldOK /\ box \subseteq Requests \X Attempts
  BY TypeParts DEF WorldOK
<1>2. /\ gen[r] \in Gen
      /\ gen[r].pc \in Working => gen[r].attempt \in Attempts
  BY <1>1 DEF GensOK, Numbered
<1>3. \A d \in {"none", "ok", "failed", "pending"} : GensOK(Finished(r, d))
  BY <1>1, GenType
<1>4. CASE Launch(r) \/ Begin(r)
  <2>1. GensOK(gen')
    BY <1>1, <1>4, GenType DEF Launch, Begin, GenStates, Working
  <2>2. StoreOK' /\ box' = box
    BY <1>1, <1>4, StoreSame DEF Launch, Begin
  <2>3. QED
    BY <1>1, <1>4, <2>1, <2>2, GenFrame DEF Launch, Begin
<1>5. CASE Draft(r)
  <2>1. MaxAttemptsFor(r) > 0 => 1 \in Attempts
    BY AttemptsBound, ConstantsAssumption DEF Attempts
  <2>2. GensOK(gen')
    BY <1>1, <1>3, <1>5, <2>1, GenType DEF Draft, GenStates
  <2>3. StoreOK' /\ box' = box
    BY <1>1, <1>5, StoreSame DEF Draft
  <2>4. QED
    BY <1>1, <1>5, <2>2, <2>3, GenFrame DEF Draft
<1>6. CASE Plan(r)
  <2>1. GensOK(gen')
    BY <1>1, <1>3, <1>6, GenType DEF Plan, GenStep, GenStates, Working
  <2>2. StoreOK' /\ box' = box
    BY <1>1, <1>6, ObservedType DEF Plan
  <2>3. QED
    BY <1>1, <1>6, <2>1, <2>2, GenFrame DEF Plan
<1>7. CASE Create(r)
  <2>1. GensOK(gen')
    BY <1>1, <1>7, GenType DEF Create, GenStep, GenStates, Working
  <2>2. StoreOK'
    BY <1>1, <1>7, StoreSame DEF Create
  <2>3. gen[r].attempt \in Attempts
    BY <1>2, <1>7 DEF Create, GenStep, Working
  <2>4. box' \subseteq Requests \X Attempts
    BY <1>1, <1>7, <2>3 DEF Create
  <2>5. QED
    BY <1>1, <1>7, <2>1, <2>2, <2>4, GenFrame DEF Create
<1>8. CASE Observe(r) \/ Run(r)
  <2>1. gen[r].pc \in Working
    BY <1>8 DEF Observe, Run, GenStep, Working
  <2>2. GensOK(gen')
    BY <1>1, <1>8, <2>1, GenType DEF Observe, Run, GenStates
  <2>3. StoreOK' /\ box' = box
    BY <1>1, <1>8, ObservedType, StoreSame DEF Observe, Run
  <2>4. QED
    BY <1>1, <1>8, <2>2, <2>3, GenFrame DEF Observe, Run
<1>9. CASE Clean(r)
  <2>1. GensOK(gen')
    <3>1. CASE \E d \in {"none", "ok", "failed", "pending"} : gen' = Finished(r, d)
      BY <1>3, <3>1
    <3>2. CASE gen[r].attempt < MaxAttemptsFor(r) /\ gen' = Attempt(r, gen[r].attempt + 1)
      <4>1. gen[r].attempt \in Attempts
        BY <1>2, <1>9 DEF Clean, GenStep, Working
      <4>2. gen[r].attempt + 1 \in Attempts
        BY <3>2, <4>1, AttemptsBound, ConstantsAssumption DEF Attempts
      <4>3. QED
        BY <1>1, <3>2, <4>2, GenType
    <3>3. QED
      BY <1>2, <1>9, <3>1, <3>2 DEF Clean, Unconfirmed, Gen
  <2>2. StoreOK' /\ box' \subseteq Requests \X Attempts
    BY <1>1, <1>9, StoreSame DEF Clean
  <2>3. QED
    BY <1>1, <1>9, <2>1, <2>2, GenFrame DEF Clean
<1>10. CASE Recover(r)
  <2>1. GensOK(gen')
    BY <1>3, <1>10 DEF Recover, Unconfirmed
  <2>2. StoreOK'
    BY <1>1, <1>10, StoreSame, ObservedType DEF Recover
  <2>3. box' \subseteq Requests \X Attempts
    BY <1>1, <1>10 DEF Recover
  <2>4. QED
    BY <1>1, <1>10, <2>1, <2>2, <2>3, GenFrame DEF Recover
<1>11. CASE Result(r)
  <2>1. \A c \in BOOLEAN : GensOK(Leave(r, c))
    BY <1>1, GenType
  <2>2. TableOK(mem) /\ mem[r] \in Entry
    BY <1>1 DEF StoreOK, TableOK
  <2>3. /\ TableOK(Put(r, Cancelling(mem[r], "failed")))
        /\ \A st \in {"ready", "failed"} : TableOK(Put(r, [mem[r] EXCEPT !.status = st]))
    BY <2>2, PutType, EntryType, NoWorkType DEF Statuses, Finals
  <2>4. CASE Abandon(r)
    <3>1. GensOK(gen') /\ due' = due
      <4>1. \/ gen' = Leave(r, TRUE)
            \/ gen' = Leave(r, FALSE)
            \/ gen' = Leave(r, mem[r].status \in {"cancelling", "cancelled"})
        BY <2>4 DEF Abandon
      <4>2. GensOK(Leave(r, mem[r].status \in {"cancelling", "cancelled"}))
        <5>1. (mem[r].status \in {"cancelling", "cancelled"}) \in BOOLEAN
          OBVIOUS
        <5>2. QED
          BY <2>1, <5>1, Zenon
      <4>3. QED
        BY <2>1, <2>4, <4>1, <4>2 DEF Abandon
    <3>2. StoreOK'
      BY <1>1, <2>2, <2>3, <2>4, SaveType, StoreSame DEF Abandon
    <3>3. WorldOK' /\ TasksOK(task')
      BY <1>1, <1>11, <3>1 DEF Result, WorldOK, github
    <3>4. QED
      BY <3>1, <3>2, <3>3, TypePartsNext
  <2>5. CASE Conclude(r)
    <3>1. GensOK(gen') /\ due' \subseteq due
      BY <2>1, <2>5 DEF Conclude
    <3>2. StoreOK'
      BY <1>1, <2>2, <2>3, <2>5, SaveType, StoreSame DEF Conclude, SaveOrKeep
    <3>3. WorldOK' /\ TasksOK(task')
      BY <1>1, <1>11, <3>1 DEF Result, WorldOK, github
    <3>4. QED
      BY <3>1, <3>2, <3>3, TypePartsNext
  <2>6. QED
    BY <1>11, <2>4, <2>5 DEF Result
<1>12. CASE Exit(r)
  <2>1. GensOK(gen') /\ TasksOK(task')
    BY <1>1, <1>12, GenType, GoroutineType DEF Exit
  <2>2. StoreOK' /\ WorldOK'
    BY <1>1, <1>12, StoreSame, WorldSame DEF Exit, github
  <2>3. QED
    BY <2>1, <2>2, TypePartsNext
<1>13. CASE Timeout(r)
  <2>1. GensOK(gen') /\ TasksOK(task')
    BY <1>1, <1>13, GenType DEF Timeout
  <2>2. StoreOK' /\ WorldOK'
    BY <1>1, <1>13, StoreSame, WorldSame DEF Timeout, github
  <2>3. QED
    BY <2>1, <2>2, TypePartsNext
<1>14. QED
  BY <1>4, <1>5, <1>6, <1>7, <1>8, <1>9, <1>10, <1>11, <1>12, <1>13 DEF Generate

\* Cancelling keeps the types (CancelRequest).
LEMMA CancelType ==
  ASSUME TypeInv, NEW h \in Handlers, NEW r \in Requests,
         CancelRequest(h, r) \/ CancelContext(h, r)
  PROVE  TypeInv'
<1>1. StoreOK /\ GensOK(gen) /\ TasksOK(task) /\ WorldOK /\ TableOK(mem)
  BY TypeParts DEF StoreOK
<1>2. h \in Workers /\ TaskOff \in Task /\ Reading \in Task
  BY NoWorkType DEF Workers, TaskOff, Reading, Task, TaskStates
<1>3. TableOK(Put(r, Cancelling(mem[r], "cancelled")))
  BY <1>1, PutType, EntryType, NoWorkType DEF TableOK, Statuses, Finals
<1>4. [TaskOff EXCEPT !.pc = "cancel"] \in Task
  BY NoWorkType DEF TaskOff, Task, TaskStates
<1>5. CASE CancelRequest(h, r)
  <2>1. StoreOK'
    BY <1>1, <1>3, <1>5, SaveType, StoreSame DEF CancelRequest
  <2>2. TasksOK(task')
    BY <1>1, <1>2, <1>4, <1>5, TaskType DEF CancelRequest
  <2>3. GensOK(gen') /\ WorldOK'
    BY <1>1, <1>5, WorldSame DEF CancelRequest, github
  <2>4. QED
    BY <2>1, <2>2, <2>3, TypePartsNext
<1>6. CASE CancelContext(h, r)
  <2>1. StoreOK'
    BY <1>1, <1>6, ConstantsAssumption DEF CancelContext, StoreOK, TableOK
  <2>2. TasksOK(task')
    <3>1. TasksOK(To(r, h, TaskOff)) /\ TasksOK(To(r, h, Reading))
      BY <1>1, <1>2, TaskType
    <3>2. TasksOK(StartCleanups(To(r, h, TaskOff), {r}))
      BY <1>1, <3>1, GoroutineType
    <3>3. QED
      BY <1>6, <3>1, <3>2 DEF CancelContext
  <2>3. GensOK(gen') /\ WorldOK'
    BY <1>1, <1>6, GoroutineType, WorldSame DEF CancelContext, github
  <2>4. QED
    BY <2>1, <2>2, <2>3, TypePartsNext
<1>7. QED
  BY <1>5, <1>6

\* Cleaning up keeps the types (cleanupRequest, markCleanupBlocked, finalizeCleanup).
LEMMA CleanUpType ==
  ASSUME TypeInv, NEW r \in Requests, NEW w \in Workers, CleanUp(r, w)
  PROVE  TypeInv'
<1>1. StoreOK /\ GensOK(gen) /\ TasksOK(task) /\ WorldOK /\ TableOK(mem) /\ mem[r] \in Entry
  BY TypeParts DEF StoreOK, TableOK
<1>2. /\ task[r][w] \in Task /\ TaskOff \in Task
      /\ TasksOK(Retry(r, w))
      /\ \A t \in Task : TasksOK(To(r, w, t))
  <2>1. TaskOff \in Task
    BY NoWorkType DEF TaskOff, Task, TaskStates
  <2>2. TasksOK(Retry(r, w)) /\ task[r][w] \in Task
    BY <1>1, <2>1, TaskType
  <2>3. ASSUME NEW t \in Task PROVE TasksOK(To(r, w, t))
    BY <1>1, TaskType
  <2>4. QED
    BY <2>1, <2>2, <2>3
<1>3. \A pc \in TaskStates : [task[r][w] EXCEPT !.pc = pc] \in Task
  BY <1>1, <1>2, TaskType
<1>4. TasksOK(task')
  <2>1. CASE ReadEntry(r, w)
    <3>1. mem[r].work \in Work
      BY <1>1 DEF Entry
    <3>2. ASSUME NEW pc \in TaskStates, NEW b \in BOOLEAN
          PROVE  [task[r][w] EXCEPT !.pc = pc, !.work = mem[r].work, !.waits = b] \in Task
      BY <1>2, <3>1 DEF Task
    <3>3. (gen[r].pc \notin {"off", "new"}) \in BOOLEAN
      OBVIOUS
    <3>4. \A pc \in TaskStates : [task[r][w] EXCEPT !.pc = pc, !.work = mem[r].work,
                    !.waits = (gen[r].pc \notin {"off", "new"})] \in Task
      BY <3>2, <3>3, Zenon
    <3> DEFINE T(pc) == [task[r][w] EXCEPT !.pc = pc, !.work = mem[r].work,
                                    !.waits = (gen[r].pc \notin {"off", "new"})]
    <3>5. /\ T("delete") \in Task /\ T("await") \in Task /\ T("finalize") \in Task
      BY <3>4 DEF TaskStates
    <3>6. \/ task' = To(r, w, TaskOff)
          \/ task' = To(r, w, T("delete"))
          \/ task' = To(r, w, T("await"))
          \/ task' = To(r, w, T("finalize"))
      <4> HIDE DEF T
      <4>1. CASE mem[r].status # "cancelling"
        BY <2>1, <4>1 DEF ReadEntry
      <4>2. CASE mem[r].status = "cancelling" /\ mem[r].work # NoWork
        BY <2>1, <4>2 DEF ReadEntry, T
      <4>3. CASE mem[r].status = "cancelling" /\ mem[r].work = NoWork
        BY <2>1, <4>3 DEF ReadEntry, T
      <4>4. QED
        BY <4>1, <4>2, <4>3
    <3>7. QED
      BY <1>2, <3>5, <3>6
  <2>2. CASE DeleteConfirmed(r, w)
    BY <1>2, <1>3, <2>2 DEF DeleteConfirmed, TaskStates
  <2>3. CASE DeleteFails(r, w) \/ AwaitTimesOut(r, w)
    BY <1>2, <2>3 DEF DeleteFails, AwaitTimesOut
  <2>4. CASE DeleteRefused(r, w)
    BY <1>2, <1>3, <2>4 DEF DeleteRefused, TaskStates
  <2>5. CASE Awaited(r, w)
    <3>1. [task[r][w] EXCEPT !.pc = "read", !.waited = TRUE] \in Task
      BY <1>2 DEF Task, TaskStates
    <3>2. QED
      BY <1>2, <2>5, <3>1 DEF Awaited
  <2>6. CASE MarkCleanupBlocked(r, w) \/ FinalizeCleanup(r, w)
    BY <1>2, <1>3, <2>6 DEF MarkCleanupBlocked, FinalizeCleanup, TaskStates
  <2>7. QED
    BY <2>1, <2>2, <2>3, <2>4, <2>5, <2>6 DEF CleanUp
<1>5. StoreOK'
  <2>1. CASE UNCHANGED store
    BY <1>1, <2>1, StoreSame
  <2>2. CASE MarkCleanupBlocked(r, w)
    <3>1. TableOK(Put(r, Cancelling(mem[r], "failed")))
      BY <1>1, PutType, EntryType, NoWorkType DEF Statuses, Finals
    <3>2. QED
      BY <1>1, <2>1, <2>2, <3>1, SaveType DEF MarkCleanupBlocked, Blocked
  <2>3. CASE FinalizeCleanup(r, w)
    <3>1. mem[r].final \in Finals /\ Finals \ {"none"} \subseteq Statuses
      BY <1>1 DEF Entry, Finals, Statuses
    <3>2. \A s \in Statuses : Cleared(s) \in Entry
      BY <1>1, EntryType, NoWorkType DEF Finals
    <3>3. TableOK(Put(r, Cleared(IF mem[r].final = "none" THEN "cancelled" ELSE mem[r].final)))
      BY <1>1, <3>1, <3>2, PutType DEF Statuses
    <3>4. QED
      BY <1>1, <2>1, <2>3, <3>3, SaveType DEF FinalizeCleanup
  <2>4. QED
    BY <2>1, <2>2, <2>3
    DEF CleanUp, ReadEntry, DeleteConfirmed, DeleteFails, DeleteRefused, Awaited, AwaitTimesOut
<1>6. gen' = gen /\ box' \subseteq box
  BY DEF CleanUp, ReadEntry, DeleteConfirmed, DeleteFails, DeleteRefused, Awaited,
         AwaitTimesOut, MarkCleanupBlocked, FinalizeCleanup
<1>7. UNCHANGED <<server, conf, made, seen, tracked, due, crashes>>
  BY DEF CleanUp, ReadEntry, DeleteConfirmed, DeleteFails, DeleteRefused, Awaited,
         AwaitTimesOut, MarkCleanupBlocked, FinalizeCleanup, TaskStep, github
<1>8. WorldOK'
  BY <1>1, <1>6, <1>7 DEF WorldOK
<1>9. QED
  BY <1>1, <1>4, <1>5, <1>6, <1>8, TypePartsNext

\* Confirming keeps the types (ConfirmRequest and what it calls).
LEMMA ConfirmType ==
  ASSUME TypeInv, NEW r \in Requests, ConfirmStep(r) \/ Index(r)
  PROVE  TypeInv'
<1>1. StoreOK /\ GensOK(gen) /\ TasksOK(task) /\ WorldOK /\ TableOK(mem) /\ mem[r] \in Entry
  BY TypeParts DEF StoreOK, TableOK
<1>2. \A s \in Statuses : TableOK(Put(r, [mem[r] EXCEPT !.status = s]))
  BY <1>1, PutType, EntryType, NoWorkType DEF Finals
<1>3. StoreOK'
  <2>1. CASE UNCHANGED store
    BY <1>1, <2>1, StoreSame
  <2>2. CASE ConfirmRequest(r)
    <3>1. TableOK(Put(r, [mem[r] EXCEPT !.status = "unknown"]))
      BY <1>2 DEF Statuses
    <3>2. QED
      BY <1>1, <2>1, <2>2, <3>1, SaveType DEF ConfirmRequest, BeginWrite
  <2>3. CASE FinishConfirm(r)
    <3>1. Outcome(conf[r]) \in Statuses
      BY DEF Outcome, Statuses
    <3>2. TableOK(Put(r, [mem[r] EXCEPT !.status = Outcome(conf[r])]))
      BY <1>2, <3>1
    <3>3. QED
      BY <1>1, <2>1, <2>3, <3>2, SaveType DEF FinishConfirm, SaveOrKeep
  <2>4. QED
    BY <2>1, <2>2, <2>3
    DEF ConfirmStep, Index, AdoptObject, CreateObject, WriteNothing, ReconcileEntry
<1>4. gen' = gen /\ task' = task
      /\ UNCHANGED <<server, box, due, crashes>>
  BY DEF ConfirmStep, Index, ConfirmRequest, AdoptObject, CreateObject, WriteNothing,
         ReconcileEntry, FinishConfirm, ConfStep
<1>5. conf' \in [Requests -> ConfStates]
  <2>1. ASSUME NEW pc \in ConfStates, Confirm(r, pc) PROVE conf' \in [Requests -> ConfStates]
    BY <1>1, <2>1 DEF WorldOK, Confirm
  <2>2. CASE \E pc \in ConfStates : Confirm(r, pc)
    BY <2>1, <2>2
  <2>3. CASE UNCHANGED conf
    BY <1>1, <2>3 DEF WorldOK
  <2>4. CASE ConfirmRequest(r)
    BY <2>2, <2>3, <2>4 DEF ConfirmRequest, BeginWrite, ConfStates
  <2>5. CASE AdoptObject(r) \/ CreateObject(r)
    BY <2>2, <2>5 DEF AdoptObject, CreateObject, TrackAndReport, ConfStates
  <2>6. CASE WriteNothing(r) \/ ReconcileEntry(r) \/ FinishConfirm(r)
    BY <2>2, <2>6 DEF WriteNothing, ReconcileEntry, FinishConfirm, ConfStates
  <2>7. QED
    BY <2>3, <2>4, <2>5, <2>6 DEF ConfirmStep, Index
<1>6. /\ made' \in [Requests -> Nat]
      /\ seen' \subseteq Requests /\ tracked' \subseteq Requests
  <2>1. CASE CreateObject(r)
    BY <1>1, <2>1 DEF WorldOK, CreateObject, TrackAndReport
  <2>2. CASE ~CreateObject(r)
    BY <1>1, <2>2
    DEF WorldOK, ConfirmStep, Index, ConfirmRequest, AdoptObject, WriteNothing,
        ReconcileEntry, FinishConfirm, TrackAndReport, github
  <2>3. QED
    BY <2>1, <2>2
<1>7. WorldOK'
  BY <1>1, <1>4, <1>5, <1>6 DEF WorldOK
<1>8. QED
  BY <1>1, <1>3, <1>4, <1>7, TypePartsNext

\* A shutdown, a crash and a restart keep the types.
LEMMA ShutdownType == ASSUME TypeInv, NEW h \in Handlers, Shutdown(h) PROVE TypeInv'
<1> DEFINE pending == {r \in Requests : mem[r].status = "pending"}
           table == [r \in Requests |->
                        IF r \in pending THEN Cancelling(mem[r], "failed") ELSE mem[r]]
<1>1. StoreOK /\ GensOK(gen) /\ TasksOK(task) /\ WorldOK /\ TableOK(mem)
  BY TypeParts DEF StoreOK
<1>2. TableOK(table)
  <2>1. \A r \in Requests : Cancelling(mem[r], "failed") \in Entry
    BY <1>1, EntryType, NoWorkType DEF TableOK, Statuses, Finals
  <2>2. QED
    BY <1>1, <2>1 DEF TableOK
<1>3. StoreOK'
  BY <1>1, <1>2, SaveType, StoreSame DEF Shutdown, SaveOrKeep
<1>4. TasksOK(task')
  <2>1. \A q \in Requests : [task[q] EXCEPT ![h].pc = "supersede"] \in [Workers -> Task]
    BY <1>1 DEF TasksOK, Task, TaskStates, Workers
  <2>2. QED
    BY <1>1, <2>1 DEF Shutdown, TasksOK
<1>5. GensOK(gen') /\ WorldOK'
  BY <1>1 DEF Shutdown, WorldOK, github
<1>6. QED
  BY <1>3, <1>4, <1>5, TypePartsNext

\* A crash leaves a table, the one on file, and no goroutine.
LEMMA CrashType == ASSUME TypeInv, Crash PROVE TypeInv'
<1>1. StoreOK /\ WorldOK
  BY TypeParts
<1>2. StoreOK'
  BY <1>1 DEF Crash, StoreOK, TableOK
<1>3. GensOK(gen') /\ TasksOK(task')
  <2>1. GenOff \in Gen /\ Numbered(GenOff)
    BY ConstantsAssumption DEF GenOff, Gen, GenStates, Numbered, Working
  <2>2. TaskOff \in Task
    BY NoWorkType DEF TaskOff, Task, TaskStates
  <2>3. QED
    BY <2>1, <2>2 DEF Crash, GensOK, TasksOK
<1>4. WorldOK'
  <2>1. crashes' \in 0..MaxCrashes
    BY <1>1, ConstantsAssumption DEF Crash, WorldOK
  <2>2. QED
    BY <1>1, <2>1 DEF Crash, WorldOK, github, ConfStates
<1>5. QED
  BY <1>2, <1>3, <1>4, TypePartsNext

\* A restart restores tables, and starts cleanups.
LEMMA StartType == ASSUME TypeInv, Start PROVE TypeInv'
<1>1. StoreOK /\ GensOK(gen) /\ TasksOK(task) /\ WorldOK
  BY TypeParts
<1>2. PICK invalid \in SUBSET {r \in Requests : Aged[r].status = "ready"} :
        LET table == [r \in Requests |-> Restored(Aged[r], r \notin invalid)]
        IN /\ IF table = disk THEN UNCHANGED store ELSE SaveOrKeep(table)
           /\ task' = StartCleanups(task, CleaningUp(table, Requests))
  BY DEF Start
<1> DEFINE table == [r \in Requests |-> Restored(Aged[r], r \notin invalid)]
<1>3. TableOK(table)
  <2> DEFINE valid == [r \in Requests |-> r \notin invalid]
  <2>1. valid \in [Requests -> BOOLEAN]
    OBVIOUS
  <2>2. TableOK([r \in Requests |-> Restored(Aged[r], valid[r])])
    BY <1>1, <2>1, AgedType
  <2>3. QED
    BY <2>2
<1>4. StoreOK'
  BY <1>1, <1>2, <1>3, SaveType, StoreSame DEF SaveOrKeep
<1>5. GensOK(gen') /\ TasksOK(task')
  BY <1>1, <1>2, GoroutineType DEF Start
<1>6. WorldOK'
  BY <1>1 DEF Start, WorldOK, github
<1>7. QED
  BY <1>4, <1>5, <1>6, TypePartsNext

-----------------------------------------------------------------------------

\* Every step of the server keeps the types.
LEMMA TypeInductive == TypeInv /\ [Next]_vars => TypeInv'
<1> SUFFICES ASSUME TypeInv, [Next]_vars PROVE TypeInv'
  OBVIOUS
<1>1. CASE UNCHANGED vars
  BY <1>1 DEF vars, TypeInv, TypeOK
<1>2. ASSUME NEW r \in Requests, Tick(r) PROVE TypeInv'
  BY <1>2, TickType
<1>3. CASE GetRequest \/ Crash \/ Start
  BY <1>3, GetRequestType, CrashType, StartType
<1>4. ASSUME NEW h \in Handlers, Shutdown(h) PROVE TypeInv'
  BY <1>4, ShutdownType
<1>5. ASSUME NEW r \in Requests, Index(r) \/ ConfirmStep(r) PROVE TypeInv'
  BY <1>5, ConfirmType
<1>6. ASSUME NEW r \in Requests, CreateAnalysisFixRequest(r) PROVE TypeInv'
  BY <1>6, CreateAnalysisFixRequestType
<1>7. ASSUME NEW r \in Requests, Generate(r) \/ Timeout(r) PROVE TypeInv'
  BY <1>7, GenerateType
<1>8. ASSUME NEW r \in Requests, NEW w \in Workers, CleanUp(r, w) PROVE TypeInv'
  BY <1>8, CleanUpType
<1>9. ASSUME NEW r \in Requests, NEW h \in Handlers, CancelRequest(h, r) \/ CancelContext(h, r)
      PROVE  TypeInv'
  BY <1>9, CancelType
<1>10. ASSUME NEW r \in Requests, NEW h \in Handlers, NEW s \in Requests \cup {NoRequest},
              CreateRequest(h, r, s)
       PROVE  TypeInv'
  BY <1>10, CreateRequestType
<1>11. QED
  BY <1>1, <1>2, <1>3, <1>4, <1>5, <1>6, <1>7, <1>8, <1>9, <1>10 DEF Next

\* The server starts with an empty table and no goroutine.
LEMMA InitType == Init => TypeInv
  BY ConstantsAssumption, NoWorkType
  DEF Init, TypeInv, TypeOK, Numbered, NoEntry, Entry, Statuses, Finals, GenOff, Gen,
      GenStates, TaskOff, Task, TaskStates, Working

\* Every variable has its type in every reachable state.
THEOREM TypeCorrect == Spec => []TypeOK
<1>1. TypeInv => TypeOK
  BY DEF TypeInv
<1>2. QED
  BY <1>1, InitType, TypeInductive, PTL DEF Spec
=============================================================================
