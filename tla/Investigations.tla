--------------------------- MODULE Investigations ---------------------------
(***************************************************************************)
(* Remediation investigations of one server.  A causal group of the        *)
(* published snapshot (an identity) is investigated at the revision that   *)
(* is current (together they make a cache key).  Records of what is going  *)
(* on live in memory, under two indexes; results live in a cache file and  *)
(* outlive the server.  One run works at a time, the others wait for the   *)
(* slot.  The snapshot and the revision change under all of them.          *)
(***************************************************************************)
EXTENDS Naturals, Sequences, FiniteSets

CONSTANTS
    Groups,         \* causal groups: a reference with the hashes of its content
    Moving,         \* those that leave the snapshot and come back (a bound)
    Heads,          \* source revisions
    Asks,           \* idempotency keys of one login
    Starts, Gets,   \* HTTP calls in flight: those that start, those that ask the status
    Records,        \* records in memory (a bound: as many as are needed at a time)
    None,           \* no record, no ask, no call
    MaxOperations,  \* records retained
    MaxEntries,     \* entries of the cache
    MaxFaults       \* bound on restarts and failed writes

ASSUME InvestigationConstants ==
    /\ None \notin Records \cup Groups \cup Heads \cup Asks \cup (Groups \X Heads)
    /\ Starts \cap Gets = {} /\ Moving \subseteq Groups
    /\ MaxOperations \in Nat \ {0} /\ MaxEntries \in Nat \ {0} /\ MaxFaults \in Nat

Keys == Groups \X Heads
Calls == Starts \cup Gets

VARIABLES
    published,      \* the groups Validate finds current, active and unchanged
    head,           \* the revision the source has now
    records,        \* record -> what it holds, and where its run is
    byIdentity, byCacheKey,     \* the two indexes
    asked,          \* ask -> what it asked for
    older,          \* pairs of records, the first updated before the second
    results, failures,  \* the cache file: keys, the least recently updated first
    calls,          \* what each call works on
    misled,         \* a status was answered with a result that was not current
    faults

memory == <<records, byIdentity, byCacheKey, asked, older>>
cache == <<results, failures>>
vars == <<published, head, memory, cache, calls, misled, faults>>

-----------------------------------------------------------------------------
(* Values *)

Working == {"investigating", "verifying", "comparing", "validated", "fallingBack", "returning"}
View == {"queued", "investigating", "verifying", "result", "failed", "stale"}
Unused == [pc |-> "unused", key |-> None, refresh |-> FALSE, running |-> FALSE,
           prior |-> FALSE, view |-> "queued"]
Record == [pc : {"unused", "queued", "over"} \cup Working, key : Keys \cup {None},
           refresh : BOOLEAN, running : BOOLEAN, prior : BOOLEAN, view : View]
Queued(k, refresh) == [Unused EXCEPT !.pc = "queued", !.key = k, !.refresh = refresh,
                                     !.running = TRUE]
Recovered(k) == [Unused EXCEPT !.pc = "over", !.key = k, !.view = "result"]

Ask == [group : Groups, refresh : BOOLEAN]
\* op is the read or write a call has before it: a start, the revision and then the lock;
\* a status call, the record, the snapshot, the revision, the cache and, for a result that
\* comes from there, the snapshot, the revision and the lock again.  found is the key of the
\* result a status call found; seen, the revisions that were current since then, from the
\* first moment on at which its group was published.
Call == [op : {"start", "enqueue", "get", "found", "resolve", "lookup", "recover", "confirm",
               "store"},
         group : Groups, head : Heads \cup {None}, ask : Asks \cup {None}, refresh : BOOLEAN,
         found : Keys \cup {None}, seen : SUBSET Heads]

\* What the variables hold; the cache file never has more than MaxEntries keys, results
\* and failures together.
TypeOK ==
    /\ published \subseteq Groups /\ head \in Heads
    /\ records \in [Records -> Record]
    /\ byIdentity \in [Groups -> Records \cup {None}]
    /\ byCacheKey \in [Keys -> Records \cup {None}]
    /\ asked \in [Asks -> Ask \cup {None}]
    /\ older \subseteq Records \X Records
    /\ results \in Seq(Keys) /\ failures \in Seq(Keys)
    /\ Len(results) + Len(failures) <= MaxEntries
    /\ calls \in [Calls -> Call \cup {None}]
    /\ misled \in BOOLEAN /\ faults \in Nat

Init ==
    /\ published = Groups /\ head \in Heads
    /\ records = [r \in Records |-> Unused]
    /\ byIdentity = [g \in Groups |-> None] /\ byCacheKey = [k \in Keys |-> None]
    /\ asked = [a \in Asks |-> None] /\ older = {}
    /\ results = <<>> /\ failures = <<>>
    /\ calls = [c \in Calls |-> None] /\ misled = FALSE /\ faults = 0

InSeq(s) == {s[n] : n \in DOMAIN s}
Position(s, x) == CHOOSE n \in DOMAIN s : s[n] = x
Without(s, x) ==
    IF x \notin InSeq(s) THEN s
    ELSE SubSeq(s, 1, Position(s, x) - 1) \o SubSeq(s, Position(s, x) + 1, Len(s))
Later(s, x) == Append(Without(s, x), x)
IndexOf(f) == {f[x] : x \in DOMAIN f} \ {None}

-----------------------------------------------------------------------------
(* The records in memory *)

\* Which record a new one is does not matter.
IsFree == \E r \in Records : records[r].pc = "unused"
Free == CHOOSE r \in Records : records[r].pc = "unused"

Key(r) == records[r].key

\* A record that no index holds and no run works for is garbage.
InUse == {r \in Records : records[r].pc # "unused"}
Updated(r) == {pair \in older : r \notin {pair[1], pair[2]}} \cup ((InUse \ {r}) \X {r})
Hold(recs, byI, byK, order) ==
    LET held == IndexOf(byI) \cup IndexOf(byK) \cup {r \in Records : recs[r].pc # "over"}
    IN /\ byIdentity' = byI /\ byCacheKey' = byK
       /\ records' = [r \in Records |-> IF r \in held THEN recs[r] ELSE Unused]
       /\ older' = {pair \in order : pair[1] \in held /\ pair[2] \in held}

\* pruneLocked: the records least recently updated, never one that is running.
Pruned(recs, byI, order) ==
    LET idle == {r \in IndexOf(byI) : ~recs[r].running}
        excess == Cardinality({g \in Groups : byI[g] # None}) - MaxOperations
    IN {r \in idle : Cardinality({q \in idle : <<q, r>> \in order}) < excess}

\* A new record takes the place of others in both indexes, and the oldest go.
Insert(r, new, asks) ==
    LET g == new.key[1]
        recs == [records EXCEPT ![r] = new]
        byI == [byIdentity EXCEPT ![g] = r]
        byK == [byCacheKey EXCEPT ![new.key] = r]
        order == Updated(r)
        gone == Pruned(recs, byI, order)
        gonefrom == {q[1] : q \in {recs[p].key : p \in gone}}
    IN /\ Hold(recs, [x \in Groups |-> IF byI[x] \in gone THEN None ELSE byI[x]],
               [k \in Keys |-> IF byK[k] \in gone THEN None ELSE byK[k]], order)
       /\ asked' = [a \in Asks |->
            IF asks[a] # None /\ asks[a].group \in gonefrom THEN None ELSE asks[a]]

\* updatePhase, finish: of the record its key still leads to, no other.
IsCurrent(r) == byCacheKey[records[r].key] = r
Shown(r, pc, view, running, prior) ==
    IF IsCurrent(r)
    THEN [records[r] EXCEPT !.pc = pc, !.view = view, !.running = running, !.prior = prior,
                            !.refresh = records[r].refresh /\ pc # "over"]
    ELSE [records[r] EXCEPT !.pc = pc, !.prior = prior]
Show(r, pc, view, running, prior) ==
    /\ Hold([records EXCEPT ![r] = Shown(r, pc, view, running, prior)], byIdentity,
            byCacheKey, IF IsCurrent(r) THEN Updated(r) ELSE older)
    /\ UNCHANGED asked

UpdatePhase(r, pc, view, prior) == Show(r, pc, view, records[r].running, prior)
Finish(r, view) == Show(r, "over", view, FALSE, FALSE)

-----------------------------------------------------------------------------
(* The cache file.  Failures leave it first, then the oldest results.      *)

\* What pruneLocked leaves of the two.
Cut(s, n) == SubSeq(s, (IF n > Len(s) THEN Len(s) ELSE n) + 1, Len(s))
\* As if only the results had been counted.
StoreCountingResults(res, fails) ==
    LET excess == IF Len(res) > MaxEntries THEN Len(res) - MaxEntries ELSE 0
    IN failures' = fails /\ results' = Cut(res, excess)
\* As if the oldest results left before the failures.
StoreFailuresLast(res, fails) ==
    LET excess == IF Len(res) + Len(fails) > MaxEntries
                  THEN Len(res) + Len(fails) - MaxEntries ELSE 0
    IN /\ results' = Cut(res, excess)
       /\ failures' = Cut(fails, IF excess > Len(res) THEN excess - Len(res) ELSE 0)
Store(res, fails) ==
    LET excess == IF Len(res) + Len(fails) > MaxEntries
                  THEN Len(res) + Len(fails) - MaxEntries ELSE 0
    IN /\ failures' = Cut(fails, excess)
       /\ results' = Cut(res, IF excess > Len(fails) THEN excess - Len(fails) ELSE 0)

StoreSuccess(k) == Store(Later(results, k), Without(failures, k))
RecordFailure(k) ==
    IF k \in InSeq(results) THEN Store(Later(results, k), failures)
    ELSE Store(results, Later(failures, k))

-----------------------------------------------------------------------------
(* Calls *)

Changes == UNCHANGED <<published, head>>
NewCall(op, g, a, refresh) ==
    [op |-> op, group |-> g, head |-> None, ask |-> a, refresh |-> refresh,
     found |-> None, seen |-> {}]

\* A call goes on, or ends, and nothing else changes.
Proceed(c, q) ==
    /\ calls' = [calls EXCEPT ![c] = q]
    /\ Changes /\ UNCHANGED <<memory, cache, misled, faults>>

\* Anything but a result ends a call before it stores one: a group that is not published
\* any more, a revision that moved, a read that fails, a record that shows no result, an
\* entry that is not there or is not verified.
GiveUp(c) == calls[c] # None /\ calls[c].op # "store" /\ Proceed(c, None)

\* Start, outside the lock: Resolve reads the snapshot, and later asks for the revision.
BeginStart(c, g, a, refresh) ==
    calls[c] = None /\ g \in published /\ Proceed(c, NewCall("start", g, a, refresh))
ResolveStart(c) ==
    LET q == calls[c] IN
    q # None /\ q.op = "start" /\ Proceed(c, [q EXCEPT !.op = "enqueue", !.head = head])

Return(c) == calls' = [calls EXCEPT ![c] = None] /\ Changes /\ UNCHANGED <<cache, misled, faults>>

\* A repeated ask is answered with what its group has now.
Enqueue(c) ==
    LET q == calls[c]
        k == <<q.group, q.head>>
        now == [asked EXCEPT ![q.ask] = [group |-> q.group, refresh |-> q.refresh]]
        conflict == asked[q.ask] # None /\ asked[q.ask] # now[q.ask]
        repeated == asked[q.ask] = now[q.ask] /\ byIdentity[q.group] # None
        known == /\ byCacheKey[k] # None
                 /\ records[byCacheKey[k]].running \/ ~q.refresh
    IN /\ q # None /\ q.op = "enqueue"
       /\ Return(c)
       /\ IF conflict \/ repeated THEN UNCHANGED memory
          ELSE IF known THEN asked' = now /\ UNCHANGED <<records, byIdentity, byCacheKey, older>>
          ELSE IsFree /\ Insert(Free, Queued(k, q.refresh), now)

\* Get: Validate reads the snapshot, the record is read later, under the lock.
BeginGet(c, g) == calls[c] = None /\ g \in published /\ Proceed(c, NewCall("get", g, None, FALSE))

Now(g) == IF g \in published THEN {head} ELSE {}
FindRecord(c) ==
    LET q == calls[c]
        r == byIdentity[q.group]
    IN /\ q # None /\ q.op = "get"
       /\ r # None => records[r].view = "result"
       /\ Proceed(c, IF r = None THEN [q EXCEPT !.op = "found"]
                     ELSE [q EXCEPT !.op = "found", !.found = Key(r), !.seen = Now(q.group)])

\* Resolve, its first read: the snapshot still has the group.
ReadSnapshot(c) ==
    LET q == calls[c] IN
    /\ q # None /\ q.op = "found" /\ q.group \in published
    /\ Proceed(c, [q EXCEPT !.op = "resolve"])

Misleads(q) == q.found[2] \notin q.seen
Answered(c) ==
    /\ misled' = (misled \/ Misleads(calls[c]))
    /\ calls' = [calls EXCEPT ![c] = None]
    /\ Changes /\ UNCHANGED <<memory, cache, faults>>

\* Resolve, its second read: a record that is not of the revision there is now is stale;
\* without a record the cache is next.
Answer(c) ==
    LET q == calls[c] IN
    /\ q # None /\ q.op = "resolve"
    /\ IF q.found = None THEN Proceed(c, [q EXCEPT !.op = "lookup", !.head = head])
       ELSE q.found = <<q.group, head>> /\ Answered(c)

LookUp(c) ==
    LET q == calls[c]
        k == <<q.group, q.head>>
    IN /\ q # None /\ q.op = "lookup" /\ k \in InSeq(results)
       /\ Proceed(c, [q EXCEPT !.op = "recover", !.head = None, !.found = k,
                               !.seen = Now(q.group)])

\* validateBeforePublish: the snapshot (read twice in a row, and the second decides) and
\* then the revision are read again.
ValidateRecovered(c) ==
    LET q == calls[c] IN
    /\ q # None /\ q.op = "recover" /\ q.group \in published
    /\ Proceed(c, [q EXCEPT !.op = "confirm"])
\* As if the revision had not been compared again.
ConfirmAnyway(c) ==
    LET q == calls[c] IN
    q # None /\ q.op = "confirm" /\ Proceed(c, [q EXCEPT !.op = "store"])
ConfirmRecovered(c) ==
    LET q == calls[c] IN
    /\ q # None /\ q.op = "confirm" /\ q.found[2] = head
    /\ Proceed(c, [q EXCEPT !.op = "store"])

StoreRecovered(c) ==
    LET q == calls[c] IN
    /\ q # None /\ q.op = "store"
    /\ misled' = (misled \/ Misleads(q))
    /\ calls' = [calls EXCEPT ![c] = None]
    /\ IsFree /\ Insert(Free, Recovered(q.found), asked)
    /\ Changes /\ UNCHANGED <<cache, faults>>

-----------------------------------------------------------------------------
(* Runs *)

Run == Changes /\ UNCHANGED <<calls, misled>>
SlotIsFree == \A r \in Records : records[r].pc \notin Working

\* The slot is taken, and a result that is there already remembered.
Acquire(r) ==
    /\ records[r].pc = "queued" /\ Run /\ SlotIsFree
    /\ UpdatePhase(r, "investigating", "investigating", Key(r) \in InSeq(results))
    /\ UNCHANGED <<cache, faults>>

\* The time of an operation includes its wait.
TimeOut(r) ==
    /\ records[r].pc = "queued" /\ Run /\ Finish(r, "failed")
    /\ UNCHANGED <<cache, faults>>

\* The write of a result fails, before or after the file was replaced.
FaultyWrite(k) ==
    /\ faults < MaxFaults /\ faults' = faults + 1
    /\ UNCHANGED cache \/ StoreSuccess(k)

MayStore(r) == records[r].refresh \/ Key(r) \notin InSeq(results)

\* Investigate: a result that is there, or a new one.
Investigated(r) ==
    /\ records[r].pc = "investigating" /\ Run
    /\ \/ ~records[r].refresh /\ Key(r) \in InSeq(results) /\ UNCHANGED cache
       \/ MayStore(r) /\ StoreSuccess(Key(r))
    /\ UpdatePhase(r, "verifying", "verifying", records[r].prior)
    /\ UNCHANGED faults

\* As if an error without a result to fall back to left the record as it is.
NotInvestigatedQuietly(r) ==
    /\ records[r].pc = "investigating" /\ Run
    /\ \/ (RecordFailure(Key(r)) \/ UNCHANGED cache) /\ UNCHANGED faults
       \/ MayStore(r) /\ FaultyWrite(Key(r))
    /\ IF records[r].prior THEN UpdatePhase(r, "fallingBack", "verifying", TRUE)
       ELSE Show(r, "over", "investigating", TRUE, FALSE)

\* An error: with a result of before to fall back to, or without.
NotInvestigated(r) ==
    /\ records[r].pc = "investigating" /\ Run
    /\ \/ (RecordFailure(Key(r)) \/ UNCHANGED cache) /\ UNCHANGED faults
       \/ MayStore(r) /\ FaultyWrite(Key(r))
    /\ IF records[r].prior THEN UpdatePhase(r, "fallingBack", "verifying", TRUE)
       ELSE Finish(r, "failed")

IsPublished(r) == Key(r)[1] \in published
Goto(r, pc) ==
    /\ records' = [records EXCEPT ![r].pc = pc]
    /\ UNCHANGED <<byIdentity, byCacheKey, asked, older>>

\* The result is verified and validateBeforePublish reads the snapshot, and later the
\* revision: any error of either makes the result stale.
ValidateBeforePublish(r) ==
    /\ records[r].pc = "verifying" /\ Run
    /\ \/ IsPublished(r) /\ Goto(r, "comparing")
       \/ Finish(r, "stale") \/ Finish(r, "failed")
    /\ UNCHANGED <<cache, faults>>

CompareRevision(r) ==
    /\ records[r].pc = "comparing" /\ Run
    /\ (Key(r)[2] = head /\ Goto(r, "validated")) \/ Finish(r, "stale")
    /\ UNCHANGED <<cache, faults>>

PublishResult(r) ==
    /\ records[r].pc = "validated" /\ Run /\ Finish(r, "result")
    /\ UNCHANGED <<cache, faults>>

\* The previous result stays, unless it fails the verification or one of the two reads
\* finds that the group or the revision moved: another error hides that.
FallBack(r) ==
    /\ records[r].pc = "fallingBack" /\ Run
    /\ \/ IsPublished(r) /\ Goto(r, "returning")
       \/ ~IsPublished(r) /\ Finish(r, "stale")
       \/ Finish(r, "result") \/ Finish(r, "failed")
    /\ UNCHANGED <<cache, faults>>

ReturnPrevious(r) ==
    /\ records[r].pc = "returning" /\ Run
    /\ Finish(r, "result") \/ (Key(r)[2] # head /\ Finish(r, "stale"))
    /\ UNCHANGED <<cache, faults>>

RunStep(r) ==
    Acquire(r) \/ TimeOut(r) \/ Investigated(r) \/ NotInvestigated(r)
        \/ ValidateBeforePublish(r) \/ CompareRevision(r) \/ PublishResult(r)
        \/ FallBack(r) \/ ReturnPrevious(r)

-----------------------------------------------------------------------------
(* What changes around the server, and the server itself *)

Saw == [c \in Calls |-> IF calls[c] = None THEN None ELSE
    [calls[c] EXCEPT !.seen = @ \cup {h \in {head'} :
        calls[c].found # None /\ (calls[c].group \in published' \/ calls[c].seen # {})}]]

MoveHead ==
    /\ \E h \in Heads \ {head} : head' = h
    /\ UNCHANGED published /\ calls' = Saw
    /\ UNCHANGED <<memory, cache, misled, faults>>

Publish ==
    /\ \E g \in Moving : published' \in {published \cup {g}, published \ {g}} \ {published}
    /\ UNCHANGED head /\ calls' = Saw
    /\ UNCHANGED <<memory, cache, misled, faults>>

\* The server stops or dies: what is in memory is lost.
Restart ==
    /\ faults < MaxFaults /\ faults' = faults + 1
    /\ records' = [r \in Records |-> Unused] /\ older' = {}
    /\ byIdentity' = [g \in Groups |-> None] /\ byCacheKey' = [k \in Keys |-> None]
    /\ asked' = [a \in Asks |-> None] /\ calls' = [c \in Calls |-> None]
    /\ Changes /\ UNCHANGED <<cache, misled>>

CallStep(c) ==
    \/ GiveUp(c)
    \/ /\ c \in Starts
       /\ \/ \E g \in Groups, a \in Asks, refresh \in BOOLEAN : BeginStart(c, g, a, refresh)
          \/ ResolveStart(c) \/ Enqueue(c)
    \/ /\ c \in Gets
       /\ \/ \E g \in Groups : BeginGet(c, g)
          \/ FindRecord(c) \/ ReadSnapshot(c) \/ Answer(c) \/ LookUp(c)
          \/ ValidateRecovered(c) \/ ConfirmRecovered(c) \/ StoreRecovered(c)

Next ==
    \/ \E c \in Calls : CallStep(c)
    \/ \E r \in Records : RunStep(r)
    \/ MoveHead \/ Publish \/ Restart

\* A run is bounded by its timeout, whatever it waits for; nobody has to ask.
Spec == Init /\ [][Next]_vars /\ \A r \in Records : WF_vars(RunStep(r))

-----------------------------------------------------------------------------
(* Properties *)

\* A status call checks the result it shows after it found it, in a record or in the cache:
\* since then the group was published at some moment, and the revision of the result was
\* current at that moment or a later one of the call.  Not both at one moment: Resolve reads
\* the snapshot and the revision one after the other.
AnswerIsCurrent == ~misled

\* A result leaves the cache only when a newer one takes its room: no failed
\* investigation, of the same or of another key, costs a result.
ResultsAreKept ==
    [][\A k \in InSeq(results) \ InSeq(results') :
        Len(results') = MaxEntries /\ InSeq(results') \ InSeq(results) # {}]_vars

\* A record that says its run is going on does not say so for ever, though what a run
\* reports is dropped when another record has taken its key.
RunningEnds == \A r \in Records : []<>~records[r].running
=============================================================================
