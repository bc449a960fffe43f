---------------------------- MODULE AnalysisChat ----------------------------
(***************************************************************************)
(* Conversations about a published analysis.  Several server replicas keep *)
(* the sessions in one file; each operation locks it, cleans up what time  *)
(* has overtaken, applies its change and rewrites it, so that it makes no  *)
(* difference which replica serves it.  The model calls and the source     *)
(* investigations run outside the lock, in the replica that admitted them, *)
(* under a lease that fences what they record.                             *)
(***************************************************************************)
EXTENDS Naturals, FiniteSets

CONSTANTS
    Sessions,       \* the session ids newSessionID may hand out
    Owner,          \* session -> the login it is bound to
    Keys,           \* idempotency keys of session creation
    Requests,       \* idempotency keys of questions
    Sources,        \* idempotency keys of source investigations
    Bases,          \* the revisions a fix may be generated from
    Handlers,       \* HTTP calls that work outside the lock, of any replica
    Leases,         \* the lease ids newSessionID may hand out
    None,           \* no key, request, lease, base, work or call
    MaxSessions, MaxPerOwner, MaxTurns, MaxActive,
    MaxSources, MaxActiveSources, RateLimit,
    MaxFaults       \* bound on failed writes of the file and locks not obtained

ASSUME ChatConstants ==
    /\ None \notin Keys \cup Requests \cup Sources \cup Bases
    /\ None \notin Leases
    /\ Requests \cap Sources = {}
    /\ {MaxSessions, MaxPerOwner, MaxTurns, MaxActive} \subseteq Nat
    /\ {MaxSources, MaxActiveSources, RateLimit, MaxFaults} \subseteq Nat

Owners == {Owner[s] : s \in Sessions}

VARIABLES
    sessions,   \* sessions.json: the sessions
    rate,       \* sessions.json: what each owner was admitted in the last minute
    run,        \* the work each lease stands for
    calls,      \* what each handler is resolving outside the lock
    faults

file == <<sessions, rate>>
vars == <<file, run, calls, faults>>

-----------------------------------------------------------------------------
(* Values.  Times are flags: live is "the lease has not expired", fresh is *)
(* "the session has not expired".                                          *)

Settled == {"succeeded", "failed", "cancelled", "unknown"}
Status == {"none", "pending"} \cup Settled

Active == [request : Requests, lease : Leases, live : BOOLEAN, cancel : BOOLEAN]
Investigation == [status : Status, about : Requests \cup {None},
                  lease : Leases \cup {None}, live : BOOLEAN, cancel : BOOLEAN]
NoInvestigation == [status |-> "none", about |-> None, lease |-> None,
                    live |-> FALSE, cancel |-> FALSE]

Session == [state : {"unused", "open", "gone"}, key : Keys \cup {None},
            fresh : BOOLEAN, turns : Nat,
            requests : [Requests -> Status], active : Active \cup {None},
            answers : [Requests -> Nat],
            sources : [Sources -> Investigation],
            binding : [Requests -> Bases \cup {None}]]
Unused == [state |-> "unused", key |-> None, fresh |-> TRUE, turns |-> 0,
           requests |-> [q \in Requests |-> "none"], active |-> None,
           answers |-> [q \in Requests |-> 0],
           sources |-> [i \in Sources |-> NoInvestigation],
           binding |-> [q \in Requests |-> None]]
Gone(c) == [Unused EXCEPT !.state = "gone", !.fresh = FALSE]
Created(k) == [Unused EXCEPT !.state = "open", !.key = k]

ASSUME NoneIsNoActive == None \notin Active

Work == Requests \cup Sources
Run == [pc : {"unused", "running", "over"},
        session : Sessions \cup {None}, work : Work \cup {None}]
Unleased == [pc |-> "unused", session |-> None, work |-> None]

Creation == [owner : Owners, key : Keys]
Check == [session : Sessions, request : Requests, base : Bases]

TypeOK ==
    /\ sessions \in [Sessions -> Session]
    /\ rate \in [Owners -> Nat]
    /\ run \in [Leases -> Run]
    /\ calls \in [Handlers -> Creation \cup Check \cup {None}]
    /\ faults \in Nat

ASSUME NoneIsNoCall == None \notin Creation \cup Check

Init ==
    /\ sessions = [s \in Sessions |-> Unused]
    /\ rate = [o \in Owners |-> 0]
    /\ run = [l \in Leases |-> Unleased]
    /\ calls = [h \in Handlers |-> None]
    /\ faults = 0

-----------------------------------------------------------------------------
(* The file *)

\* cleanup: a lapsed turn is unknown, or cancelled if that was asked; a lapsed
\* investigation is unknown; either keeps the session for another time to live.
TurnLapsed(c) == c.active # None /\ ~c.active.live
SourceActive(c, i) == c.sources[i].status = "pending" /\ c.sources[i].lease # None
SourceLapsed(c, i) == SourceActive(c, i) /\ ~c.sources[i].live
Lapsed(c) == TurnLapsed(c) \/ \E i \in Sources : SourceLapsed(c, i)
Busy(c) == c.active # None \/ \E i \in Sources : SourceActive(c, i)

TurnSettled(c, status) ==
    [c EXCEPT !.requests[c.active.request] = status, !.active = None, !.fresh = TRUE]
SourceSettled(c, i, status) ==
    [c EXCEPT !.sources[i] = [@ EXCEPT !.status = status, !.lease = None,
                                       !.live = FALSE, !.cancel = FALSE],
              !.fresh = TRUE]

TurnDropped(c) == IF TurnLapsed(c) THEN [c EXCEPT !.active = None, !.fresh = TRUE] ELSE c
TurnForgotten(c) == IF TurnLapsed(c) THEN TurnSettled(c, "none") ELSE c
TurnCleaned(c) ==
    IF TurnLapsed(c)
    THEN TurnSettled(c, IF c.active.cancel THEN "cancelled" ELSE "unknown")
    ELSE c
SourcesCleaned(c) ==
    [c EXCEPT !.sources = [i \in Sources |->
                IF SourceLapsed(c, i)
                THEN SourceSettled(c, i, "unknown").sources[i] ELSE c.sources[i]],
              !.fresh = c.fresh \/ \E i \in Sources : SourceLapsed(c, i)]
CleanedInOnePass(c) ==
    IF c.state = "open" /\ ~c.fresh /\ (~Busy(c) \/ Lapsed(c))
    THEN Gone(c) ELSE SourcesCleaned(TurnCleaned(c))
Cleaned(c) ==
    IF c.state = "open" /\ ~c.fresh /\ ~Busy(c)
    THEN Gone(c) ELSE SourcesCleaned(TurnCleaned(c))

Current == [s \in Sessions |-> Cleaned(sessions[s])]
With(s, c) == [Current EXCEPT ![s] = c]

\* update: the write may fail before or after the file is replaced.
Save(next, admitted) ==
    /\ sessions' = next /\ rate' = admitted
    /\ UNCHANGED faults
SaveFails(next, admitted) ==
    /\ faults < MaxFaults
    /\ faults' = faults + 1
    /\ \/ sessions' = next /\ rate' = admitted
       \/ UNCHANGED file

\* An operation that ends as it would anyway when its write fails.
SaveOrNot(next) == Save(next, rate) \/ SaveFails(next, rate)

\* cleanupLoop, and every operation that refuses or only reads.
Cleanup ==
    /\ Current # sessions
    /\ SaveOrNot(Current)
    /\ UNCHANGED <<run, calls>>

-----------------------------------------------------------------------------
(* Sessions *)

Open(s) == Current[s].state = "open"
OpenSessions == {s \in Sessions : Open(s)}

OpenOf(o) == {s \in OpenSessions : Owner[s] = o}

KeyIsFree(o, k) == \A s \in OpenOf(o) : Current[s].key # k
RoomFor(o) ==
    Cardinality(OpenSessions) < MaxSessions /\ Cardinality(OpenOf(o)) < MaxPerOwner

\* Create looks twice: before it resolves the analysis, and before it inserts.
Create(h, o, k) ==
    /\ calls[h] = None
    /\ KeyIsFree(o, k) /\ RoomFor(o)
    /\ calls' = [calls EXCEPT ![h] = [owner |-> o, key |-> k]]
    /\ SaveOrNot(Current)
    /\ UNCHANGED run

Return(h) == calls' = [calls EXCEPT ![h] = None] /\ UNCHANGED run

InsertableWithRoom(o, k) == RoomFor(o)
Insertable(o, k) == KeyIsFree(o, k) /\ RoomFor(o)
Insert(h) ==
    /\ calls[h] \in Creation
    /\ LET o == calls[h].owner
           k == calls[h].key
       IN \/ /\ Insertable(o, k)
             /\ \E s \in Sessions :
                    /\ Owner[s] = o /\ Current[s].state = "unused"
                    /\ SaveOrNot(With(s, Created(k)))
          \/ ~Insertable(o, k) /\ SaveOrNot(Current)
    /\ Return(h)

\* The analysis or its source cannot be read, or the replica died with the call.
GiveUp(h) ==
    /\ calls[h] # None
    /\ Return(h)
    /\ UNCHANGED <<file, faults>>

-----------------------------------------------------------------------------
(* Turns *)

ActiveTurnsFresh(o) == {s \in OpenSessions : Owner[s] = o /\ Current[s].active # None /\ Current[s].fresh}
ActiveTurns(o) == {s \in OpenSessions : Owner[s] = o /\ Current[s].active # None}

NewQuestion(s, q) == Current[s].requests[q] = "none"
Admissible(s, q) ==
    /\ Open(s) /\ NewQuestion(s, q)
    /\ Current[s].active = None
    /\ Current[s].turns < MaxTurns
    /\ Cardinality(ActiveTurns(Owner[s])) < MaxActive
    /\ rate[Owner[s]] < RateLimit

Counted(s) == [rate EXCEPT ![Owner[s]] = @ + 1]

\* The lease id of an admission whose write failed is spent; nothing runs.
LeaseTo(l, pc, s, w) == run' = [run EXCEPT ![l] = [pc |-> pc, session |-> s, work |-> w]]
AdmitAnyway(l, s, w, next) ==
    /\ Save(next, Counted(s)) \/ SaveFails(next, Counted(s))
    /\ LeaseTo(l, "running", s, w)
AdmitOrNot(l, s, w, next) ==
    \/ Save(next, Counted(s)) /\ LeaseTo(l, "running", s, w)
    \/ SaveFails(next, Counted(s)) /\ LeaseTo(l, "unused", s, w)

StartTurn(s, q) ==
    /\ Admissible(s, q)
    /\ \E l \in Leases :
        /\ run[l] = Unleased
        /\ AdmitOrNot(l, s, q, With(s, [Current[s] EXCEPT
                !.turns = @ + 1, !.requests[q] = "pending",
                !.active = [request |-> q, lease |-> l, live |-> TRUE, cancel |-> FALSE]]))
    /\ UNCHANGED calls

\* Cancel leaves a mark on file; the replica that runs the turn reads it there.
Cancel(s, q) ==
    /\ Open(s) /\ Current[s].active # None /\ Current[s].active.request = q
    /\ SaveOrNot(With(s, [Current[s] EXCEPT !.active.cancel = TRUE]))
    /\ UNCHANGED <<run, calls>>

TurnIsOurs(c, l) ==
    c.active # None /\ c.active.request = run[l].work /\ c.active.lease = l

\* The runner answers or fails (an error, its timeout, a stop it noticed), and
\* finishTurn records it; a recorded cancellation overrides the reply.
OutcomesAsReplied(cancel) == {"succeeded", "failed"}
Outcomes(cancel) == IF cancel THEN {"cancelled"} ELSE {"succeeded", "failed"}
FinishTurn(l) ==
    /\ run[l].pc = "running" /\ run[l].work \in Requests
    /\ run' = [run EXCEPT ![l].pc = "over"]
    /\ LET s == run[l].session
           c == Current[s]
       IN \/ /\ TurnIsOurs(c, l)
             /\ \E outcome \in Outcomes(c.active.cancel) :
                    SaveOrNot(With(s, [TurnSettled(c, outcome) EXCEPT
                        !.answers[run[l].work] = IF outcome = "succeeded" THEN @ + 1 ELSE @]))
          \/ ~TurnIsOurs(c, l) /\ SaveOrNot(Current)
    /\ UNCHANGED calls

-----------------------------------------------------------------------------
(* Source investigations: about an answer, read before the lock is taken   *)
(* a second time.                                                          *)

ActiveSources(o) ==
    {p \in OpenSessions \X Sources :
        Owner[p[1]] = o /\ SourceActive(Current[p[1]], p[2])}

Investigated(c) == {i \in Sources : c.sources[i].status # "none"}

StartSource(s, i, q) ==
    /\ Open(s) /\ Current[s].requests[q] = "succeeded"
    /\ Current[s].sources[i].status = "none"
    /\ Cardinality(Investigated(Current[s])) < MaxSources
    /\ Cardinality(ActiveSources(Owner[s])) < MaxActiveSources
    /\ rate[Owner[s]] < RateLimit
    /\ \E l \in Leases :
        /\ run[l] = Unleased
        /\ AdmitOrNot(l, s, i, With(s, [Current[s] EXCEPT !.sources[i] =
                [status |-> "pending", about |-> q, lease |-> l,
                 live |-> TRUE, cancel |-> FALSE]]))
    /\ UNCHANGED calls

CancelSource(s, i) ==
    /\ Open(s) /\ Current[s].sources[i].status = "pending"
    /\ SaveOrNot(With(s, [Current[s] EXCEPT !.sources[i].cancel = TRUE]))
    /\ UNCHANGED <<run, calls>>

SourceIsOurs(c, l) ==
    c.sources[run[l].work].status = "pending" /\ c.sources[run[l].work].lease = l

\* A result that does not validate is a failure.
FinishSource(l) ==
    /\ run[l].pc = "running" /\ run[l].work \in Sources
    /\ run' = [run EXCEPT ![l].pc = "over"]
    /\ LET s == run[l].session
           c == Current[s]
           i == run[l].work
       IN \/ /\ SourceIsOurs(c, l)
             /\ \E outcome \in Outcomes(c.sources[i].cancel) :
                    SaveOrNot(With(s, SourceSettled(c, i, outcome)))
          \/ ~SourceIsOurs(c, l) /\ SaveOrNot(Current)
    /\ UNCHANGED calls

-----------------------------------------------------------------------------
(* The source a fix is generated from.  It is checked outside the lock,    *)
(* and kept for the request it was checked for.                            *)

Bound(c) == {q \in Requests : c.binding[q] # None}
Admitted(c, q) == c.requests[q] # "none"

PreflightTestFix(h, s, q) ==
    /\ calls[h] = None /\ Open(s)
    /\ ~(q \in Bound(Current[s]) /\ Admitted(Current[s], q))
    /\ \E b \in Bases :
        calls' = [calls EXCEPT ![h] = [session |-> s, request |-> q, base |-> b]]
    /\ SaveOrNot(Current)
    /\ UNCHANGED run

BindableAgain(c, q) == Cardinality(Bound(c) \cup {q}) <= MaxTurns
Bindable(c, q) == q \notin Bound(c) /\ Cardinality(Bound(c)) < MaxTurns

Bind(h) ==
    /\ calls[h] \in Check
    /\ LET s == calls[h].session
           q == calls[h].request
       IN \/ /\ Open(s) /\ Bindable(Current[s], q)
             /\ SaveOrNot(With(s, [Current[s] EXCEPT !.binding[q] = calls[h].base]))
          \/ ~(Open(s) /\ Bindable(Current[s], q)) /\ SaveOrNot(Current)
    /\ Return(h)

-----------------------------------------------------------------------------
(* Time and the replicas *)

LapseTurn(s) ==
    /\ sessions[s].active # None /\ sessions[s].active.live
    /\ sessions' = [sessions EXCEPT ![s].active.live = FALSE]
    /\ UNCHANGED <<rate, run, calls, faults>>

LapseSource(s, i) ==
    /\ sessions[s].sources[i].status = "pending" /\ sessions[s].sources[i].live
    /\ sessions' = [sessions EXCEPT ![s].sources[i].live = FALSE]
    /\ UNCHANGED <<rate, run, calls, faults>>

Expire(s) ==
    /\ sessions[s].state = "open" /\ sessions[s].fresh
    /\ sessions' = [sessions EXCEPT ![s].fresh = FALSE]
    /\ UNCHANGED <<rate, run, calls, faults>>

MinuteAnyway(o) ==
    /\ rate' = [rate EXCEPT ![o] = @ - 1]
    /\ UNCHANGED <<sessions, run, calls, faults>>

\* pruneOwnerRequestTimes: an admission falls out of the last minute.
Minute(o) ==
    /\ rate[o] > 0
    /\ rate' = [rate EXCEPT ![o] = @ - 1]
    /\ UNCHANGED <<sessions, run, calls, faults>>

\* A replica dies with what it runs; GiveUp ends what it was resolving.
Crash ==
    /\ \E lost \in SUBSET {l \in Leases : run[l].pc = "running"} \ {{}} :
        run' = [l \in Leases |-> IF l \in lost THEN [run[l] EXCEPT !.pc = "over"] ELSE run[l]]
    /\ UNCHANGED <<file, calls, faults>>

Next ==
    \/ Cleanup \/ Crash
    \/ \E h \in Handlers :
        \/ Insert(h) \/ Bind(h) \/ GiveUp(h)
        \/ \E o \in Owners, k \in Keys : Create(h, o, k)
        \/ \E s \in Sessions, q \in Requests : PreflightTestFix(h, s, q)
    \/ \E s \in Sessions, q \in Requests :
        \/ StartTurn(s, q) \/ Cancel(s, q)
        \/ \E i \in Sources : StartSource(s, i, q)
    \/ \E s \in Sessions, i \in Sources : CancelSource(s, i) \/ LapseSource(s, i)
    \/ \E s \in Sessions : LapseTurn(s) \/ Expire(s)
    \/ \E l \in Leases : FinishTurn(l) \/ FinishSource(l)
    \/ \E o \in Owners : Minute(o)

Spec == Init /\ [][Next]_vars

-----------------------------------------------------------------------------
(* Properties *)

\* A question or an investigation is run once, whatever the client retries, on
\* whichever replica, and whether or not the admission was written in full
\* (docs/server.md: never "running the same idempotency key twice").
RunsOnce ==
    \A l, m \in Leases :
        /\ run[l].pc # "unused" /\ run[m].pc # "unused"
        /\ run[l].session = run[m].session /\ run[l].work = run[m].work
        => l = m

\* A question that says pending is the one its session is busy with, and the
\* other way round: none can be stuck without a lease that ends it.
PendingIsLeased ==
    \A s \in Sessions :
        /\ \A q \in Requests : sessions[s].requests[q] = "pending" <=>
                sessions[s].active # None /\ sessions[s].active.request = q
        /\ \A i \in Sources : sessions[s].sources[i].status = "pending" <=>
                sessions[s].sources[i].lease # None

\* Every admitted question costs one attempt, and no order of creations, questions
\* and investigations on any replicas passes a limit.
WithinLimits ==
    /\ Cardinality({s \in Sessions : sessions[s].state = "open"}) <= MaxSessions
    /\ \A o \in Owners :
        Cardinality({s \in Sessions : Owner[s] = o /\ sessions[s].state = "open"}) <= MaxPerOwner
    /\ \A s \in Sessions :
        /\ sessions[s].turns = Cardinality({q \in Requests : Admitted(sessions[s], q)})
        /\ sessions[s].turns <= MaxTurns
        /\ Cardinality(Bound(sessions[s])) <= MaxTurns
        /\ Cardinality(Investigated(sessions[s])) <= MaxSources
    /\ \A o \in Owners :
        /\ Cardinality({s \in Sessions : Owner[s] = o /\ sessions[s].active # None}) <= MaxActive
        /\ Cardinality({p \in Sessions \X Sources :
                Owner[p[1]] = o /\ SourceActive(sessions[p[1]], p[2])}) <= MaxActiveSources

\* Two creations of one owner with one key make one session, though each resolves the analysis
\* between its two looks at the file.
OneSessionPerKey ==
    \A s, u \in Sessions :
        /\ sessions[s].state = "open" /\ sessions[u].state = "open"
        /\ Owner[s] = Owner[u] /\ sessions[s].key = sessions[u].key
        => s = u

\* A cancellation on file decides how the turn ends: no reply that comes after it,
\* and no lapse of the lease, makes anything else of it.
CancelHolds ==
    [][\A s \in Sessions :
        LET c == sessions[s]
        IN c.active # None /\ c.active.cancel =>
            \/ sessions'[s].requests[c.active.request] = "cancelled"
            \/ sessions'[s].active # None /\ sessions'[s].active.cancel
               /\ sessions'[s].active.request = c.active.request]_vars

\* What becomes of a question or an investigation can be read for a time to live:
\* the clean up that settles it does not take the session with it.
OutcomeIsKept ==
    [][\A s \in Sessions :
        LET c == sessions[s]
            d == sessions'[s]
        IN /\ \A q \in Requests : c.requests[q] = "pending" /\ d.requests[q] # "pending" =>
                d.requests[q] \in Settled /\ d.state = "open" /\ d.fresh
           /\ \A i \in Sources : c.sources[i].status = "pending" /\ d.sources[i].status # "pending" =>
                d.sources[i].status \in Settled /\ d.state = "open" /\ d.fresh]_vars

\* The revision a fix is generated from stays what it was for its request, however
\* many checks overlap while the branch moves.
BindingStays ==
    [][\A s \in Sessions, q \in Requests :
        sessions[s].binding[q] # None /\ sessions'[s].state = "open" =>
            sessions'[s].binding[q] = sessions[s].binding[q]]_vars

Promise == INSTANCE ChatPromise WITH
    outcome <- [s \in Sessions |-> [q \in Requests |->
        IF sessions[s].state = "gone" THEN "gone" ELSE sessions[s].requests[q]]],
    transcript <- [s \in Sessions |-> sessions[s].answers]

\* The sessions on file are a conversation as ChatPromise states it: lost answers,
\* lapsed leases, crashes and failed writes included.
KeepsPromise == Promise!Spec
=============================================================================
