--------------------------- MODULE ActionRequests ---------------------------
(***************************************************************************)
(* The server's asynchronous action requests.  An admin asks for a draft   *)
(* issue or fix; a goroutine generates it, possibly in an external agent   *)
(* runtime; the admin confirms the draft (one GitHub write) or cancels it  *)
(* (which must remove the external work).  The table of requests is one    *)
(* JSON file, rewritten whole under one mutex: mem is the table in memory, *)
(* disk the file.  Everything else the process holds dies with it.         *)
(***************************************************************************)
EXTENDS Naturals, FiniteSets

CONSTANTS
    Requests,       \* the identifiers newToken can hand out
    NoRequest,      \* "supersedes nothing"
    Handlers,       \* concurrent HTTP handlers that clean up a request
    Background,     \* the cleanup goroutine of a request
    Kind,           \* request -> "create-issue", "propose-fix", "analysis-fix"
    Owner,          \* request -> the login that asked for it
    Failure,        \* request -> the failure it is about
    Instruction,    \* request -> the maintainer's instruction, or request hash
    Builds,         \* the requests about one build, whose object is not tracked
    Expiring,       \* the requests whose ExpiresAt can pass in the run
    Backend,        \* "orka" or "agent-sandbox"
    MaxPending,     \* maxPendingPerOwner
    MaxActive,      \* maxActiveRequests
    MaxAttempts,    \* runtime executions of one generation (critique retries)
    ApiFaults,      \* where the cluster API may fail: in a "run", in its "cleanup"
    SearchLag,      \* may GitHub's search miss an object just created?
    StateFaults,    \* may the issue or PR tracking state fail to save?
    MaxCrashes,     \* bound on process deaths
    MaxSaveFaults   \* bound on failed writes of the request file

Kinds == {"create-issue", "propose-fix", "analysis-fix"}

ASSUME ConstantsAssumption ==
    /\ NoRequest \notin Requests
    /\ Background \notin Handlers
    /\ Kind \in [Requests -> Kinds]
    /\ Backend \in {"orka", "agent-sandbox"}
    /\ Expiring \subseteq Requests /\ Builds \subseteq Requests
    /\ MaxPending \in Nat /\ MaxActive \in Nat /\ MaxAttempts \in Nat
    /\ MaxCrashes \in Nat /\ MaxSaveFaults \in Nat
    /\ ApiFaults \subseteq {"run", "cleanup"}
    /\ SearchLag \in BOOLEAN /\ StateFaults \in BOOLEAN

VARIABLES
    server,     \* "up", "stopping" (shutdown has begun) or "down"
    mem,        \* the table of requests in memory
    disk,       \* action_request_state.json
    gen,        \* the generation goroutine of each request
    task,       \* the cleanups of each request: one per handler and Background
    conf,       \* requestConfirms, with the progress of each confirmation
    box,        \* the external executions that exist: <<request, attempt>>
    made,       \* how many GitHub objects were created for each request
    seen,       \* the requests whose object a marker search finds
    tracked,    \* the requests whose object the saved tracking state names
    due,        \* the requests whose ExpiresAt has passed
    crashes, saveFaults

store == <<mem, disk, saveFaults>>
github == <<made, seen, tracked>>
vars == <<server, mem, disk, gen, task, conf, box, made, seen, tracked, due,
          crashes, saveFaults>>

-----------------------------------------------------------------------------
(* Values *)

Attempts == 1..MaxAttempts
Workers == Handlers \cup {Background}

\* WorkRef: which execution, and whether its UID has been observed.
Work == [attempt : 0..MaxAttempts, uid : BOOLEAN]
NoWork == [attempt |-> 0, uid |-> FALSE]

Finals == {"none", "cancelled", "failed", "expired"}
Statuses == {"absent", "pending", "cancelling", "ready", "unknown",
             "failed", "confirmed", "cancelled", "expired"}
Entry == [status : Statuses, final : Finals, work : Work]
NoEntry == [status |-> "absent", final |-> "none", work |-> NoWork]
NewEntry == [NoEntry EXCEPT !.status = "pending"]

Active(e) == e.status \in {"pending", "cancelling", "ready", "unknown"}
Cancelling(e, final) == [e EXCEPT !.status = "cancelling", !.final = final]
Cleared(status) == [NoEntry EXCEPT !.status = status]

GenStates == {"off", "new", "start", "draft", "plan", "create", "observe", "run",
              "clean", "recover", "result", "exit"}
Gen == [pc : GenStates, attempt : 0..MaxAttempts, cancelled : BOOLEAN,
        draft : {"none", "ok", "failed", "pending"}, cleanup : BOOLEAN]
GenOff == [pc |-> "off", attempt |-> 0, cancelled |-> FALSE,
           draft |-> "none", cleanup |-> FALSE]

TaskStates == {"off", "supersede", "cancel", "read", "delete", "await",
               "block", "finalize"}
Task == [pc : TaskStates, work : Work, waits : BOOLEAN, waited : BOOLEAN]
TaskOff == [pc |-> "off", work |-> NoWork, waits |-> FALSE, waited |-> FALSE]
Reading == [TaskOff EXCEPT !.pc = "read"]

SameTarget(q, r) == Failure[q] = Failure[r] /\ Kind[q] = Kind[r]
SameDraft(q, r) ==
    SameTarget(q, r) /\ Owner[q] = Owner[r] /\ Instruction[q] = Instruction[r]

TypeOK ==
    /\ server \in {"up", "stopping", "down"}
    /\ mem \in [Requests -> Entry]
    /\ disk \in [Requests -> Entry]
    /\ gen \in [Requests -> Gen]
    /\ task \in [Requests -> [Workers -> Task]]
    /\ conf \in [Requests -> {"off", "write", "reconcile", "done", "refused", "lost"}]
    /\ box \subseteq Requests \X Attempts
    /\ made \in [Requests -> Nat]
    /\ seen \subseteq Requests
    /\ tracked \subseteq Requests
    /\ due \subseteq Requests
    /\ crashes \in 0..MaxCrashes
    /\ saveFaults \in 0..MaxSaveFaults

Init ==
    /\ server = "up"
    /\ mem = [r \in Requests |-> NoEntry]
    /\ disk = [r \in Requests |-> NoEntry]
    /\ gen = [r \in Requests |-> GenOff]
    /\ task = [r \in Requests |-> [w \in Workers |-> TaskOff]]
    /\ conf = [r \in Requests |-> "off"]
    /\ box = {}
    /\ made = [r \in Requests |-> 0]
    /\ seen = {} /\ tracked = {} /\ due = {}
    /\ crashes = 0 /\ saveFaults = 0

-----------------------------------------------------------------------------
(* Persistence: the whole table, durably.  A failed write may still have   *)
(* replaced the file (the error can come from syncing the directory).      *)

Save(table) ==
    /\ mem' = table
    /\ disk' = table
    /\ UNCHANGED saveFaults

SaveFails(kept, table) ==
    /\ saveFaults < MaxSaveFaults
    /\ saveFaults' = saveFaults + 1
    /\ mem' = kept
    /\ disk' \in {disk, table}

\* A save site that fails rolls its change back, or keeps it in memory.
SaveOrKeep(table) == Save(table) \/ SaveFails(table, table)

Put(r, entry) == [mem EXCEPT ![r] = entry]

-----------------------------------------------------------------------------
(* Goroutines *)

\* cancel() reaches a generation that has registered its context.
CancelContexts(g, rs) ==
    [r \in Requests |->
        IF r \in rs /\ g[r].pc \notin {"off", "new", "start"}
        THEN [g[r] EXCEPT !.cancelled = TRUE] ELSE g[r]]

\* A generation moves on, with a draft, or to another execution.
Go(r, pc) == [gen EXCEPT ![r].pc = pc]
GoWith(r, pc, draft) == [gen EXCEPT ![r].pc = pc, ![r].draft = draft]
Attempt(r, n) == [gen EXCEPT ![r].pc = "plan", ![r].attempt = n, ![r].draft = "none"]

\* startCleanup: at most one background cleanup per request.
StartCleanups(t, rs) ==
    [r \in Requests |->
        IF r \in rs /\ t[r][Background].pc = "off"
        THEN [t[r] EXCEPT ![Background] = Reading] ELSE t[r]]

HandlerFree(h) == \A r \in Requests : task[r][h].pc = "off"

-----------------------------------------------------------------------------
(* Expiry.  Every handler first expires what is overdue, under the lock it *)
(* then works in: GetRequest is that step, and the other handlers require  *)
(* it to have been taken (Settled).  A refused creation does not save it.  *)

Expire(e) ==
    CASE e.status = "absent" -> e
      [] e.status \in {"pending", "cancelling"} -> Cancelling(e, "expired")
      [] OTHER -> Cleared("expired")

Overdue == {r \in due : conf[r] = "off" /\ mem[r].status # "absent"}
Aged == [r \in Requests |-> IF r \in Overdue THEN Expire(mem[r]) ELSE mem[r]]
Settled == Aged = mem
CleaningUp(table, rs) == {r \in rs : table[r].status = "cancelling"}

Tick(r) ==
    /\ r \in Expiring \ due
    /\ mem[r].status # "absent"
    /\ due' = due \cup {r}
    /\ UNCHANGED <<server, store, gen, task, conf, box, github, crashes>>

GetRequest ==
    /\ server # "down"
    /\ ~Settled \/ CleaningUp(mem, Overdue) # {}
    /\ \/ SaveOrKeep(Aged)
       \/ mem' = Aged /\ UNCHANGED <<disk, saveFaults>>
    /\ gen' = CancelContexts(gen, {r \in Overdue : mem[r].status = "pending"})
    /\ task' = StartCleanups(task, CleaningUp(Aged, Overdue))
    /\ UNCHANGED <<server, conf, box, github, due, crashes>>

-----------------------------------------------------------------------------
(* Creating a request *)

Others(s) == {q \in Requests : q # s}
PendingOf(r, s) ==
    {q \in Others(s) : mem[q].status \in {"pending", "cancelling"} /\ Owner[q] = Owner[r]}
ActiveBut(s) == {q \in Others(s) : Active(mem[q])}

WithinLimitsOffByOne(r, s) ==
    Cardinality(PendingOf(r, s)) <= MaxPending /\ Cardinality(ActiveBut(s)) <= MaxActive
WithinLimits(r, s) ==
    Cardinality(PendingOf(r, s)) < MaxPending /\ Cardinality(ActiveBut(s)) < MaxActive

Supersedable(r, s) ==
    /\ s \in Requests
    /\ Owner[s] = Owner[r] /\ Failure[s] = Failure[r]
    /\ conf[s] = "off"
    /\ mem[s].status \in {"pending", "ready"}

\* A duplicate is handed back instead of starting anew, except a ready draft,
\* which counts only while it still matches the current failure.
Duplicated(r) ==
    \E q \in Requests : SameDraft(q, r) /\ mem[q].status \in {"pending", "cancelling", "unknown"}

OutcomeUnknownElsewhere(r, s) ==
    \E q \in Others(s) : SameTarget(q, r) /\ mem[q].status = "unknown"

Fresh(r) == mem[r] = NoEntry /\ disk[r] = NoEntry /\ gen[r] = GenOff

CreateRequest(h, r, s) ==
    /\ server = "up" /\ Settled /\ HandlerFree(h)
    /\ Kind[r] # "analysis-fix" /\ Fresh(r)
    /\ s = NoRequest \/ Supersedable(r, s)
    /\ s = NoRequest => ~Duplicated(r)
    /\ ~OutcomeUnknownElsewhere(r, s)
    /\ WithinLimits(r, s)
    /\ LET table == [q \in Requests |->
                        CASE q = r -> NewEntry
                          [] q = s -> Cancelling(mem[q], "cancelled")
                          [] OTHER -> mem[q]]
       IN \/ /\ Save(table)
             /\ gen' = Go(r, "new")
             /\ task' = [q \in Requests |->
                    IF q = s THEN [task[q] EXCEPT ![h].pc = "supersede"] ELSE task[q]]
          \/ SaveFails(mem, table) /\ UNCHANGED <<gen, task>>
    /\ UNCHANGED <<server, conf, box, github, due, crashes>>

\* A failed analysis-fix request is replaced by a new one with another hash.
CreateAnalysisFixRequest(r) ==
    /\ server = "up" /\ Settled
    /\ Kind[r] = "analysis-fix" /\ Fresh(r)
    /\ ~\E q \in Requests : SameDraft(q, r) /\ Active(mem[q])
    /\ WithinLimits(r, NoRequest)
    /\ \/ Save(Put(r, NewEntry)) /\ gen' = Go(r, "new")
       \/ SaveFails(mem, Put(r, NewEntry)) /\ UNCHANGED gen
    /\ UNCHANGED <<server, task, conf, box, github, due, crashes>>

-----------------------------------------------------------------------------
(* Generating the draft *)

\* A draft is wanted only while its request is pending.
WantedWhileCancelling(r) == mem[r].status \in {"pending", "cancelling"}
Wanted(r) == mem[r].status = "pending"

GenStep(r, pc) ==
    /\ gen[r].pc = pc
    /\ UNCHANGED <<server, task, conf, github, due, crashes>>

Finished(r, draft) == GoWith(r, "result", draft)

\* startGeneration: only now is there a done channel to wait for.
Launch(r) ==
    /\ GenStep(r, "new")
    /\ gen' = Go(r, "start")
    /\ UNCHANGED <<store, box>>

Begin(r) ==
    /\ GenStep(r, "start")
    /\ gen' = Go(r, IF Wanted(r) THEN "draft" ELSE "exit")
    /\ UNCHANGED <<store, box>>

\* The executions a draft may take: none for an issue, one for an analysis fix
\* (which only the agent sandbox serves), several under the critique of a fix.
MaxAttemptsFor(r) ==
    CASE Kind[r] = "propose-fix" -> MaxAttempts
      [] Kind[r] = "analysis-fix" /\ Backend = "agent-sandbox" /\ MaxAttempts > 0 -> 1
      [] OTHER -> 0

\* Verification and drafting in the process: it fails, it succeeds, or a fix
\* goes on to the external runtime.
Draft(r) ==
    /\ GenStep(r, "draft")
    /\ \/ gen' = Finished(r, "failed")
       \/ Kind[r] = "create-issue" /\ gen' = Finished(r, "ok")
       \/ MaxAttemptsFor(r) > 0 /\ gen' = Attempt(r, 1)
    /\ UNCHANGED <<store, box>>

\* The observer of runtime identities: persist it, or refuse.
ObservedNextAttempt(r, uid) ==
    Put(r, [mem[r] EXCEPT !.work = [attempt |-> gen[r].attempt + 1, uid |-> uid]])
Observed(r, uid) ==
    Put(r, [mem[r] EXCEPT !.work = [attempt |-> gen[r].attempt, uid |-> uid]])
ObservesInMemory(r, uid) ==
    /\ mem[r].status \in {"pending", "cancelling"}
    /\ mem' = Observed(r, uid)
    /\ UNCHANGED <<disk, saveFaults>>
Observes(r, uid) ==
    mem[r].status \in {"pending", "cancelling"} /\ Save(Observed(r, uid))
ObserveFails(r, uid) ==
    \/ mem[r].status \in {"pending", "cancelling"} /\ SaveFails(mem, Observed(r, uid))
    \/ mem[r].status \notin {"pending", "cancelling"} /\ UNCHANGED store

Plan(r) ==
    /\ GenStep(r, "plan")
    /\ \/ Observes(r, FALSE) /\ gen' = Go(r, "create")
       \/ ObserveFails(r, FALSE) /\ gen' = Finished(r, "failed")
    /\ UNCHANGED box

\* A cancelled context sends no request.
Create(r) ==
    /\ GenStep(r, "create")
    /\ \/ /\ ~gen[r].cancelled
          /\ box' = box \cup {<<r, gen[r].attempt>>}
          /\ gen' = Go(r, "observe")
       \/ /\ "run" \in ApiFaults \/ gen[r].cancelled
          /\ gen' = Go(r, "recover")
          /\ UNCHANGED box
    /\ UNCHANGED store

\* The answer names the object's UID, which is recorded, or it is lost.
Observe(r) ==
    /\ GenStep(r, "observe")
    /\ \/ Observes(r, TRUE) /\ gen' = Go(r, "run")
       \/ /\ ObserveFails(r, TRUE)
          /\ gen' = GoWith(r, "clean", "failed")
       \/ /\ "run" \in ApiFaults \/ gen[r].cancelled
          /\ gen' = Go(r, "recover")
          /\ UNCHANGED store
    /\ UNCHANGED box

Run(r) ==
    /\ GenStep(r, "run")
    /\ \E outcome \in {"ok", "failed"} :
        gen' = GoWith(r, "clean", outcome)
    /\ UNCHANGED <<store, box>>

\* How the generation reports a cleanup it could not confirm.  ErrCleanupPending
\* survives only in part: safeFixPreviewError keeps it in the chain of a run that
\* also timed out, and the agent sandbox reports an API error as an ordinary one.
Unconfirmed == {"pending", "failed"}

\* The run's own cleanup.  After a good run the reviewer may ask for another.
Clean(r) ==
    /\ GenStep(r, "clean")
    /\ \/ /\ box' = box \ {<<r, gen[r].attempt>>}
          /\ \/ gen' = Finished(r, gen[r].draft)
             \/ gen[r].draft = "ok" /\ gen' = Finished(r, "failed")
             \/ /\ gen[r].draft = "ok" /\ gen[r].attempt < MaxAttemptsFor(r)
                /\ gen' = Attempt(r, gen[r].attempt + 1)
       \/ /\ "run" \in ApiFaults
          /\ \E draft \in Unconfirmed : gen' = Finished(r, draft)
          /\ UNCHANGED box
    /\ UNCHANGED store

\* After an ambiguous create: the sandbox adapter records what it finds and
\* deletes it; Orka adopts the task by its request annotation and deletes it.
Recover(r) ==
    /\ GenStep(r, "recover")
    /\ \/ /\ IF Backend = "agent-sandbox" /\ <<r, gen[r].attempt>> \in box
             THEN Observes(r, TRUE) \/ ObserveFails(r, TRUE)
             ELSE UNCHANGED store
          /\ box' = box \ {<<r, gen[r].attempt>>}
          /\ gen' = Finished(r, "failed")
       \/ /\ "run" \in ApiFaults
          /\ \/ UNCHANGED store
             \/ /\ Backend = "agent-sandbox" /\ <<r, gen[r].attempt>> \in box
                /\ Observes(r, TRUE) \/ ObserveFails(r, TRUE)
          /\ \E draft \in Unconfirmed : gen' = Finished(r, draft)
          /\ UNCHANGED box

Timeout(r) ==
    /\ gen[r].pc \notin {"off", "new", "start", "exit"} /\ ~gen[r].cancelled
    /\ gen' = [gen EXCEPT ![r].cancelled = TRUE]
    /\ UNCHANGED <<server, store, task, conf, box, github, due, crashes>>

Leave(r, cleanup) == [gen EXCEPT ![r].pc = "exit", ![r].cleanup = cleanup]

\* What becomes of the request when generation ends.  A ready analysis fix gets
\* a new lease of life.
Abandon(r) ==
    /\ gen[r].cancelled \/ gen[r].draft = "pending"
    /\ \/ /\ Wanted(r)
          /\ LET table == Put(r, Cancelling(mem[r], "failed"))
             IN \/ Save(table) /\ gen' = Leave(r, TRUE)
                \/ SaveFails(mem, table) /\ gen' = Leave(r, FALSE)
       \/ /\ ~Wanted(r)
          /\ gen' = Leave(r, mem[r].status \in {"cancelling", "cancelled"})
          /\ UNCHANGED store
    /\ UNCHANGED due

Conclude(r) ==
    /\ ~gen[r].cancelled /\ gen[r].draft # "pending"
    /\ \/ LET status == IF gen[r].draft = "ok" THEN "ready" ELSE "failed"
          IN /\ Wanted(r)
             /\ SaveOrKeep(Put(r, [mem[r] EXCEPT !.status = status]))
             /\ gen' = Leave(r, FALSE)
             /\ due' = IF status = "ready" /\ Kind[r] = "analysis-fix"
                       THEN due \ {r} ELSE due
       \/ /\ ~Wanted(r)
          /\ gen' = Leave(r, mem[r].status = "cancelling")
          /\ UNCHANGED <<store, due>>

Result(r) ==
    /\ gen[r].pc = "result"
    /\ Abandon(r) \/ Conclude(r)
    /\ UNCHANGED <<server, task, conf, box, github, crashes>>

\* The deferred end: close the done channel, then start a cleanup if needed.
Exit(r) ==
    /\ gen[r].pc = "exit"
    /\ gen' = [gen EXCEPT ![r] = GenOff]
    /\ task' = StartCleanups(task, IF gen[r].cleanup THEN {r} ELSE {})
    /\ UNCHANGED <<server, store, conf, box, github, due, crashes>>

-----------------------------------------------------------------------------
(* Cleaning up: cleanupRequest, run by the background goroutine, which     *)
(* retries, or by a handler, which on an error leaves it to the former.    *)

TaskStep(r, w, pc) ==
    /\ task[r][w].pc = pc
    /\ UNCHANGED <<server, conf, github, due, crashes>>

To(r, w, t) == [task EXCEPT ![r][w] = t]
RetryInBackgroundOnly(r, w) ==
    To(r, w, IF w = Background THEN Reading ELSE TaskOff)
Retry(r, w) ==
    IF w = Background THEN To(r, w, Reading)
    ELSE StartCleanups(To(r, w, TaskOff), {r})

CancelRequest(h, r) ==
    /\ server # "down" /\ Settled /\ HandlerFree(h)
    /\ conf[r] = "off"
    /\ \/ /\ mem[r].status = "cancelling"
          /\ task' = To(r, h, Reading)
          /\ UNCHANGED store
       \/ /\ mem[r].status \in {"pending", "ready"}
          /\ LET table == Put(r, Cancelling(mem[r], "cancelled"))
             IN \/ Save(table) /\ task' = To(r, h, [TaskOff EXCEPT !.pc = "cancel"])
                \/ SaveFails(mem, table) /\ UNCHANGED task
    /\ UNCHANGED <<server, gen, conf, box, github, due, crashes>>

\* Outside the lock the handler calls cancel(); a superseding handler then
\* leaves the cleanup to the background, and one that cannot revoke the preview
\* of an analysis fix returns with the cleanup not started.
CancelContext(h, r) ==
    /\ task[r][h].pc \in {"cancel", "supersede"}
    /\ gen' = CancelContexts(gen, {r})
    /\ \/ /\ task' = IF task[r][h].pc = "cancel" THEN To(r, h, Reading)
                     ELSE StartCleanups(To(r, h, TaskOff), {r})
          /\ UNCHANGED saveFaults
       \/ /\ task[r][h].pc = "cancel" /\ Kind[r] = "analysis-fix"
          /\ saveFaults < MaxSaveFaults /\ saveFaults' = saveFaults + 1
          /\ task' = To(r, h, TaskOff)
    /\ UNCHANGED <<server, mem, disk, conf, box, github, due, crashes>>

ReadEntry(r, w) ==
    /\ TaskStep(r, w, "read")
    /\ LET work == mem[r].work
           running == gen[r].pc \notin {"off", "new"}
           next == CASE mem[r].status # "cancelling" -> "off"
                     [] mem[r].status = "cancelling" /\ work # NoWork -> "delete"
                     [] OTHER -> IF running /\ ~task[r][w].waited
                                 THEN "await" ELSE "finalize"
       IN task' = To(r, w, IF next = "off" THEN TaskOff
                           ELSE [task[r][w] EXCEPT !.pc = next, !.work = work,
                                                   !.waits = running])
    /\ UNCHANGED <<store, gen, box>>

\* Cleanup(work) answered: gone.  Work without a UID may yet be created by a
\* generation that still runs, so that one is waited for first.
Deletable(r, work) ==
    work.uid \/ Backend = "orka" \/ <<r, work.attempt>> \notin box

Awaits(r, w) ==
    /\ ~task[r][w].work.uid
    /\ task[r][w].waits /\ ~task[r][w].waited

DeleteConfirmed(r, w) ==
    /\ TaskStep(r, w, "delete")
    /\ LET t == task[r][w]
       IN /\ Deletable(r, t.work)
          /\ box' = box \ {<<r, t.work.attempt>>}
          /\ task' = To(r, w, [t EXCEPT !.pc =
                IF Awaits(r, w) THEN "await" ELSE "finalize"])
    /\ UNCHANGED <<store, gen>>

DeleteFails(r, w) ==
    /\ TaskStep(r, w, "delete")
    /\ "cleanup" \in ApiFaults
    /\ \/ UNCHANGED box
       \/ /\ Deletable(r, task[r][w].work)
          /\ box' = box \ {<<r, task[r][w].work.attempt>>}
    /\ task' = Retry(r, w)
    /\ UNCHANGED <<store, gen>>

\* The agent sandbox never deletes an object whose UID it has not recorded.
DeleteRefused(r, w) ==
    /\ TaskStep(r, w, "delete")
    /\ ~Deletable(r, task[r][w].work)
    /\ task' = To(r, w, [task[r][w] EXCEPT !.pc = "block"])
    /\ UNCHANGED <<store, gen, box>>

Awaited(r, w) ==
    /\ TaskStep(r, w, "await")
    /\ gen[r].pc = "off"
    /\ task' = To(r, w, [task[r][w] EXCEPT !.pc = "read", !.waited = TRUE])
    /\ UNCHANGED <<store, gen, box>>

AwaitTimesOut(r, w) ==
    /\ TaskStep(r, w, "await")
    /\ task' = Retry(r, w)
    /\ UNCHANGED <<store, gen, box>>

\* What cannot be cleaned up has failed, whatever was asked for.
BlockedAsAsked(e) == e
Blocked(e) == Cancelling(e, "failed")

MarkCleanupBlocked(r, w) ==
    /\ TaskStep(r, w, "block")
    /\ \/ /\ mem[r].status # "cancelling"
          /\ task' = To(r, w, TaskOff) /\ UNCHANGED store
       \/ /\ mem[r].status = "cancelling"
          /\ LET table == Put(r, Blocked(mem[r]))
             IN \/ Save(table) /\ task' = To(r, w, [task[r][w] EXCEPT !.pc = "finalize"])
                \/ SaveFails(mem, table) /\ task' = Retry(r, w)
    /\ UNCHANGED <<gen, box>>

FinalizeCleanup(r, w) ==
    /\ TaskStep(r, w, "finalize")
    /\ \/ /\ mem[r].status # "cancelling"
          /\ task' = To(r, w, TaskOff) /\ UNCHANGED store
       \/ /\ mem[r].status = "cancelling"
          /\ LET final == IF mem[r].final = "none" THEN "cancelled" ELSE mem[r].final
                 table == Put(r, Cleared(final))
             IN \/ Save(table) /\ task' = To(r, w, TaskOff)
                \/ SaveFails(mem, table) /\ task' = Retry(r, w)
    /\ UNCHANGED <<gen, box>>

-----------------------------------------------------------------------------
(* Confirming a draft: record the unknown outcome, write, record the       *)
(* result.  An unknown outcome is only ever looked up again.               *)

ConfStep(r, pc) ==
    /\ conf[r] = pc
    /\ UNCHANGED <<server, gen, task, box, due, crashes>>

Confirm(r, pc) == conf' = [conf EXCEPT ![r] = pc]

\* Only a ready draft is written; an unknown outcome is looked up.
WritableInDoubt(r) == mem[r].status \in {"ready", "unknown"}
Writable(r) == mem[r].status = "ready"

BeginWriteInMemory(r) ==
    /\ mem' = Put(r, [mem[r] EXCEPT !.status = "unknown"])
    /\ Confirm(r, "write")
    /\ UNCHANGED <<disk, saveFaults>>
BeginWrite(r) ==
    LET table == Put(r, [mem[r] EXCEPT !.status = "unknown"])
    IN \/ Save(table) /\ Confirm(r, "write")
       \/ SaveFails(mem, table) /\ UNCHANGED conf

ConfirmRequest(r) ==
    /\ server # "down" /\ Settled /\ ConfStep(r, "off")
    /\ Kind[r] # "analysis-fix"
    /\ \/ Writable(r) /\ BeginWrite(r)
       \/ /\ mem[r].status = "unknown" /\ ~Writable(r)
          /\ Confirm(r, "reconcile") /\ UNCHANGED store
    /\ UNCHANGED github

\* Bound on the objects counted for one request: a second one shows.
MostObjects == 2

FoundByRequest(r) == r \in seen
Found(r) == \E q \in seen : SameTarget(q, r)
Tracked(r) == \E q \in tracked : SameTarget(q, r)

\* The tracking state is saved after the write; if that fails the caller gets
\* an ordinary error although the object exists.
TrackAndReport(r) ==
    \/ tracked' = tracked \cup ({r} \ Builds) /\ Confirm(r, "done")
    \/ /\ StateFaults /\ UNCHANGED tracked
       /\ Confirm(r, IF r \in Builds THEN "done" ELSE "refused")

AdoptObject(r) ==
    /\ ConfStep(r, "write")
    /\ Found(r) \/ Tracked(r)
    /\ TrackAndReport(r)
    /\ UNCHANGED <<store, made, seen>>

CreateObject(r) ==
    /\ ConfStep(r, "write")
    /\ ~Found(r) /\ ~Tracked(r)
    /\ made[r] < MostObjects
    /\ made' = [made EXCEPT ![r] = @ + 1]
    /\ \/ seen' = seen \cup {r}
       \/ SearchLag /\ UNCHANGED seen
    /\ \/ TrackAndReport(r)
       \/ UNCHANGED tracked /\ Confirm(r, "lost")
    /\ UNCHANGED store

\* The draft went stale, GitHub refused, or the request never arrived.
WriteNothing(r) ==
    /\ ConfStep(r, "write")
    /\ Confirm(r, "refused") \/ Confirm(r, "lost")
    /\ UNCHANGED <<store, github>>

ReconcileEntry(r) ==
    /\ ConfStep(r, "reconcile")
    /\ \/ Found(r) /\ Confirm(r, "done")
       \/ Confirm(r, "lost")
    /\ UNCHANGED <<store, github>>

OutcomeReopened(result) == IF result = "done" THEN "confirmed" ELSE "ready"
Outcome(result) ==
    CASE result = "done" -> "confirmed"
      [] result = "refused" -> "ready"
      [] OTHER -> "unknown"

FinishConfirm(r) ==
    /\ conf[r] \in {"done", "refused", "lost"}
    /\ Confirm(r, "off")
    /\ LET status == Outcome(conf[r])
       IN IF status = "unknown" THEN UNCHANGED store
          ELSE SaveOrKeep(Put(r, [mem[r] EXCEPT !.status = status]))
    /\ UNCHANGED <<server, gen, task, box, github, due, crashes>>

\* GitHub's search index catches up.
Index(r) ==
    /\ made[r] > 0 /\ r \notin seen
    /\ seen' = seen \cup {r}
    /\ UNCHANGED <<server, store, gen, task, conf, box, made, tracked, due, crashes>>

-----------------------------------------------------------------------------
(* The process *)

\* stopActiveRequests runs on a thread of its own, h: like a superseding handler
\* it cancels the contexts and starts the cleanups after it released the lock.
Shutdown(h) ==
    /\ server = "up" /\ HandlerFree(h)
    /\ server' = "stopping"
    /\ LET pending == {r \in Requests : mem[r].status = "pending"}
           table == [r \in Requests |->
                        IF r \in pending THEN Cancelling(mem[r], "failed") ELSE mem[r]]
       IN /\ IF pending = {} THEN UNCHANGED store ELSE SaveOrKeep(table)
          /\ task' = [r \in Requests |-> IF r \in pending
                THEN [task[r] EXCEPT ![h].pc = "supersede"] ELSE task[r]]
    /\ UNCHANGED <<gen, conf, box, github, due, crashes>>

\* The process dies, at any point; only the file and the outside world stay.
Crash ==
    /\ server # "down"
    /\ crashes < MaxCrashes
    /\ crashes' = crashes + 1
    /\ server' = "down"
    /\ mem' = disk
    /\ gen' = [r \in Requests |-> GenOff]
    /\ task' = [r \in Requests |-> [w \in Workers |-> TaskOff]]
    /\ conf' = [r \in Requests |-> "off"]
    /\ UNCHANGED <<disk, box, github, due, saveFaults>>

\* loadActionRequests: what no goroutine will finish is failed or cleaned up;
\* a ready draft that no longer passes validation is failed.
RestoredWithoutRuntime(e, valid) ==
    IF e.status = "pending" \/ (e.status = "ready" /\ ~valid)
    THEN [e EXCEPT !.status = "failed"] ELSE e
RestoredPending(e, valid) ==
    CASE e.status = "pending" /\ e.work # NoWork -> Cancelling(e, "failed")
      [] e.status = "cancelling" /\ e.final = "none" -> Cancelling(e, "failed")
      [] e.status = "ready" /\ ~valid -> [e EXCEPT !.status = "failed"]
      [] OTHER -> e
RestoredForReview(e, valid) ==
    IF e.status = "unknown" THEN [e EXCEPT !.status = "ready"] ELSE e
Restored(e, valid) ==
    CASE e.status = "pending" ->
            IF e.work # NoWork THEN Cancelling(e, "failed")
            ELSE [e EXCEPT !.status = "failed"]
      [] e.status = "cancelling" /\ e.final = "none" -> Cancelling(e, "failed")
      [] e.status = "ready" /\ ~valid -> [e EXCEPT !.status = "failed"]
      [] OTHER -> e

Start ==
    /\ server = "down"
    /\ server' = "up"
    /\ \E invalid \in SUBSET {r \in Requests : Aged[r].status = "ready"} :
        LET table == [r \in Requests |-> Restored(Aged[r], r \notin invalid)]
        IN /\ IF table = disk THEN UNCHANGED store ELSE SaveOrKeep(table)
           /\ task' = StartCleanups(task, CleaningUp(table, Requests))
    /\ UNCHANGED <<gen, conf, box, github, due, crashes>>

-----------------------------------------------------------------------------
Generate(r) ==
    \/ Launch(r) \/ Begin(r) \/ Draft(r) \/ Plan(r) \/ Create(r) \/ Observe(r)
    \/ Run(r) \/ Clean(r) \/ Recover(r) \/ Result(r) \/ Exit(r)

CleanUp(r, w) ==
    \/ ReadEntry(r, w) \/ DeleteConfirmed(r, w) \/ DeleteFails(r, w)
    \/ DeleteRefused(r, w) \/ Awaited(r, w) \/ AwaitTimesOut(r, w)
    \/ MarkCleanupBlocked(r, w) \/ FinalizeCleanup(r, w)

ConfirmStep(r) ==
    \/ ConfirmRequest(r) \/ AdoptObject(r) \/ CreateObject(r)
    \/ WriteNothing(r) \/ ReconcileEntry(r) \/ FinishConfirm(r)

Next ==
    \/ GetRequest \/ Crash \/ Start
    \/ \E h \in Handlers : Shutdown(h)
    \/ \E r \in Requests :
        \/ Tick(r) \/ Index(r) \/ CreateAnalysisFixRequest(r)
        \/ Generate(r) \/ Timeout(r) \/ ConfirmStep(r)
        \/ \E w \in Workers : CleanUp(r, w)
        \/ \E h \in Handlers :
            \/ CancelRequest(h, r) \/ CancelContext(h, r)
            \/ \E s \in Requests \cup {NoRequest} : CreateRequest(h, r, s)

Spec == Init /\ [][Next]_vars

-----------------------------------------------------------------------------
(* Scheduling.  A goroutine that can run does run, the process is restarted *)
(* (a Deployment), and a cluster API that fails some deletions answers      *)
(* others.  Users, timeouts, expiry and crashes are not fair.               *)

Fairness ==
    /\ WF_vars(Start)
    /\ \A r \in Requests :
        /\ WF_vars(Generate(r))
        /\ \A h \in Handlers : WF_vars(CancelContext(h, r))
        /\ \A w \in Workers :
            /\ WF_vars(CleanUp(r, w))
            /\ SF_vars(DeleteConfirmed(r, w) \/ DeleteRefused(r, w))

FairSpec == Spec /\ Fairness

-----------------------------------------------------------------------------
(* Properties *)

\* A confirmation in flight is on record: while a handler writes to GitHub, or
\* looks for the outcome, memory and the file both say "unknown", so a crash at
\* any moment restarts into a request that is only looked up (ConfirmRequest).
WriteAhead ==
    \A r \in Requests :
        conf[r] # "off" => mem[r].status = "unknown" /\ disk[r].status = "unknown"

\* However often a draft is confirmed, through lost answers, crashes, failed
\* saves and a search index that lags, its object is created once.
AtMostOneWrite == \A r \in Requests : made[r] <= 1

\* Two drafts for one failure, of two admins, do not both become GitHub objects
\* while GitHub's search sees what was created (confirmEntryUnlocked).
OneObjectPerTarget ==
    \A q, r \in Requests : q # r /\ SameTarget(q, r) => made[q] + made[r] <= 1

\* Once an object exists, the file never again says that none does: the request
\* is unknown, confirmed or (a day later) expired, and not open, cancelled or failed.
WriteIsRecorded ==
    \A r \in Requests :
        made[r] > 0 => disk[r].status \in {"unknown", "confirmed", "expired"}

\* Nothing runs outside for a request any more.
Quiet(r) == \A n \in Attempts : <<r, n>> \notin box

\* A request that has been answered "cancelled" leaves no external execution
\* behind once its goroutine is gone (CancelRequest, requests.go:1669).
CancelledLeavesNoSandbox ==
    \A r \in Requests :
        mem[r].status = "cancelled" /\ gen[r].pc = "off" => Quiet(r)

\* The same of every status that no cleanup will follow.
SettledLeavesNoSandbox ==
    \A r \in Requests :
        /\ server # "down" /\ gen[r].pc = "off"
        /\ mem[r].status \notin {"pending", "cancelling"}
        => Quiet(r)

\* An external execution is named in the file before it exists, and as long as
\* a restart has to clean it up (the planned observation in Generate and Run).
RecordedBeforeCreated ==
    \A r \in Requests, n \in Attempts :
        /\ <<r, n>> \in box
        /\ disk[r].status \in {"pending", "cancelling"}
        => disk[r].work.attempt = n

\* An owner never has more than MaxPending drafts under way, and the table never
\* more than MaxActive drafts under way or in review, whatever is superseded,
\* refused by GitHub and reopened, or restored after a crash.
Open(status) == {r \in Requests : mem[r].status \in status}
WithinQuota ==
    /\ \A r \in Requests :
        Cardinality({q \in Open({"pending"}) : Owner[q] = Owner[r]}) <= MaxPending
    /\ Cardinality(Open({"pending", "ready", "unknown"})) <= MaxActive

\* A request being stopped is never offered for confirmation again, and a
\* finished one stays finished, as long as the process lives.
NoWayBack ==
    [][server # "down" /\ server' # "down" => \A r \in Requests :
        /\ mem[r].status = "cancelling" =>
            mem'[r].status \in {"cancelling", "cancelled", "failed", "expired"}
        /\ mem[r].status \in {"confirmed", "cancelled", "failed"} =>
            mem'[r].status \in {mem[r].status, "expired"}]_vars

\* Every request being stopped is eventually reported stopped, whichever of the
\* handler, the background cleanup and the generation gives up.  Checked for the
\* fixes of the asynchronous API: an analysis fix whose preview cannot be revoked
\* may be left "cancelling" until it is cancelled again or expires.
CleanupEnds ==
    \A r \in Requests : mem[r].status = "cancelling" ~> mem[r].status # "cancelling"

\* Every request leaves "pending": a draft appears, it fails or it is stopped;
\* unless a save failed, which can leave it waiting for its expiry (Abandon).
GenerationEnds ==
    \A r \in Requests :
        mem[r].status = "pending" ~> mem[r].status # "pending" \/ saveFaults > 0

\* The request file keeps the promise: read as phases, and with the objects on
\* GitHub counted, every step of the server is a step of RequestPromise.
PhaseOf(status) ==
    CASE status = "pending" -> "drafting"
      [] status = "cancelling" -> "stopping"
      [] status = "unknown" -> "doubt"
      [] status = "confirmed" -> "done"
      [] status \in {"cancelled", "failed", "expired"} -> "closed"
      [] OTHER -> status

Promise == INSTANCE RequestPromise WITH
    phase <- [r \in Requests |-> PhaseOf(disk[r].status)],
    filed <- made,
    Target <- [r \in Requests |-> <<Failure[r], Kind[r]>>]

KeepsPromise == Promise!Spec
=============================================================================
