------------------------ MODULE ActionRequestsWrites ------------------------
(***************************************************************************)
(* What a confirmation records, how requests move, and what executions     *)
(* they leave, proved for any number of requests, admins, crashes and      *)
(* failed saves: the unknown outcome is on file before GitHub is asked;    *)
(* nobody goes back from being stopped; the quotas hold; an execution is   *)
(* on file before it exists.  Where the tracking state is saved, one draft *)
(* is written once and the file never forgets it; where the search sees    *)
(* what was created, one target has one object; and where saves do not     *)
(* fail, the file keeps RequestPromise.  Where a request has one execution *)
(* at most, an answered cancellation leaves none, and, on Orka without     *)
(* faults of the run, neither does any request that is settled.            *)
(***************************************************************************)
EXTENDS ActionRequestsProofs, FiniteSetTheorems

Recorded == {"unknown", "confirmed", "expired"}

\* The invariant: a confirmation in flight is in doubt in memory, doubt in
\* memory is on file, and an object that exists is on record in both; it was not
\* refused, and nobody is about to write it again.  The last needs a tracking
\* state that is saved, or a request about a build, which has none.
DoubtIsKnown == \A r \in Requests : conf[r] # "off" => mem[r].status = "unknown"
DoubtIsSaved ==
    \A r \in Requests : mem[r].status = "unknown" => disk[r].status = "unknown"
Tracks(r) == ~StateFaults \/ r \in Builds
AllTrack == \A r \in Requests : Tracks(r)
WrittenOnce ==
    \A r \in Requests : made[r] > 0 /\ Tracks(r) =>
        /\ made[r] = 1
        /\ mem[r].status \in Recorded /\ disk[r].status \in Recorded
        /\ conf[r] \notin {"write", "refused"}
WriteInv == DoubtIsKnown /\ DoubtIsSaved /\ WrittenOnce

-----------------------------------------------------------------------------
(* Tables that may be saved *)

\* A table that takes no request into or out of doubt, and forgets no object:
\* it may be saved, and a failed save may keep it or roll it back.
Calm(T) ==
    \A q \in Requests :
        /\ T[q].status = "unknown" <=> mem[q].status = "unknown"
        /\ mem[q].status \in Recorded => T[q].status \in Recorded

\* A table that may be saved if a failed save keeps it: doubt may end, but not
\* under a confirmation in flight.
Kept(T) ==
    \A q \in Requests :
        /\ T[q].status = "unknown" => mem[q].status = "unknown"
        /\ conf[q] # "off" => T[q].status = mem[q].status
        /\ mem[q].status \in Recorded => T[q].status \in Recorded

\* Saving a calm table keeps the invariant, however the save ends.
LEMMA CalmStep ==
  ASSUME WriteInv, NEW T, Calm(T), Save(T) \/ SaveFails(mem, T) \/ SaveFails(T, T),
         UNCHANGED <<conf, made>>
  PROVE  WriteInv'
BY DEF WriteInv, DoubtIsKnown, DoubtIsSaved, WrittenOnce, Calm, Save, SaveFails

\* So does a table that is kept in memory whether or not its save succeeds.
LEMMA KeptStep ==
  ASSUME WriteInv, NEW T, Kept(T), SaveOrKeep(T) \/ (mem' = T /\ UNCHANGED disk),
         UNCHANGED <<conf, made>>
  PROVE  WriteInv'
BY DEF WriteInv, DoubtIsKnown, DoubtIsSaved, WrittenOnce, Kept, Save, SaveFails, SaveOrKeep

\* A step that touches neither the table nor a confirmation changes nothing here.
LEMMA StillStep ==
  ASSUME WriteInv, UNCHANGED <<mem, disk, conf, made>> PROVE WriteInv'
BY DEF WriteInv, DoubtIsKnown, DoubtIsSaved, WrittenOnce

\* Tables are calm where they change no status, or one that records no object.
LEMMA CalmPut ==
  ASSUME TypeInv, NEW r \in Requests, NEW e,
         \/ e.status = mem[r].status
         \/ mem[r].status \notin Recorded /\ e.status # "unknown"
  PROVE  Calm(Put(r, e))
<1>1. mem \in [Requests -> Entry]
  BY DEF TypeInv, TypeOK
<1>2. QED
  BY <1>1 DEF Calm, Put, Recorded

\* What the handlers put in the place of an entry, read by its status.
LEMMA StatusOf ==
  ASSUME TypeInv, NEW r \in Requests
  PROVE  /\ NewEntry.status = "pending"
         /\ \A f \in Finals : Cancelling(mem[r], f).status = "cancelling"
         /\ \A s \in Statuses : [mem[r] EXCEPT !.status = s].status = s
         /\ \A s \in Statuses : Cleared(s).status = s
         /\ \A w \in Work : [mem[r] EXCEPT !.work = w].status = mem[r].status
<1>1. mem[r] \in Entry
  BY DEF TypeInv, TypeOK
<1>2. QED
  BY <1>1, Zenon DEF Entry, NewEntry, NoEntry, Cancelling, Cleared

-----------------------------------------------------------------------------
(* The invariant, action by action *)

\* Generation records work, or ends a pending request (GenStep, observer, Result).
LEMMA GenerateWrites ==
  ASSUME TypeInv, WriteInv, NEW r \in Requests, Generate(r) \/ Timeout(r)
  PROVE  WriteInv'
<1>1. UNCHANGED <<conf, made>>
  BY DEF Generate, Timeout, GenStep, Launch, Begin, Draft, Plan, Create, Observe, Run, Clean,
         Recover, Result, Exit, github
<1>2. ASSUME NEW uid \in BOOLEAN PROVE Calm(Observed(r, uid))
  <2>1. [mem[r] EXCEPT !.work = [attempt |-> gen[r].attempt, uid |-> uid]].status = mem[r].status
    BY DEF TypeInv, TypeOK, Entry
  <2>2. QED
    BY <2>1, CalmPut DEF Observed
<1>3. ASSUME NEW uid \in BOOLEAN, Observes(r, uid) \/ ObserveFails(r, uid)
      PROVE  WriteInv'
  BY <1>1, <1>2, <1>3, CalmStep, StillStep DEF Observes, ObserveFails, store
<1>4. CASE Abandon(r) \/ Conclude(r)
  <2>1. CASE UNCHANGED store
    BY <1>1, <2>1, StillStep DEF store
  <2>2. CASE Wanted(r)
    <3>1. Calm(Put(r, Cancelling(mem[r], "failed")))
      BY <2>2, StatusOf, CalmPut DEF Wanted, Recorded, Finals
    <3>2. ASSUME NEW status \in {"ready", "failed"}
          PROVE  Calm(Put(r, [mem[r] EXCEPT !.status = status]))
      BY <2>2, StatusOf, CalmPut DEF Wanted, Recorded, Statuses
    <3>3. CASE Abandon(r)
      BY <1>1, <2>2, <3>1, <3>3, CalmStep DEF Abandon
    <3>4. CASE Conclude(r)
      BY <1>1, <2>2, <3>2, <3>4, CalmStep DEF Conclude, SaveOrKeep
    <3>5. QED
      BY <1>4, <3>3, <3>4
  <2>3. QED
    BY <1>4, <2>1, <2>2 DEF Abandon, Conclude
<1>5. CASE UNCHANGED store
  BY <1>1, <1>5, StillStep DEF store
<1>6. QED
  BY <1>3, <1>4, <1>5
  DEF Generate, Timeout, Launch, Begin, Draft, Plan, Create, Observe, Run, Clean, Recover,
      Result, Exit

\* A new request was absent; the one it supersedes was not in doubt.
LEMMA CreateWrites ==
  ASSUME TypeInv, WriteInv, NEW r \in Requests,
         \/ CreateAnalysisFixRequest(r)
         \/ \E h \in Handlers, s \in Requests \cup {NoRequest} : CreateRequest(h, r, s)
  PROVE  WriteInv'
<1>1. UNCHANGED <<conf, made>>
  BY DEF CreateAnalysisFixRequest, CreateRequest, github
<1>2. mem[r].status = "absent"
  <2>1. Fresh(r)
    BY DEF CreateAnalysisFixRequest, CreateRequest
  <2>2. QED
    BY <2>1 DEF Fresh, NoEntry
<1>3. CASE CreateAnalysisFixRequest(r)
  <2>1. Calm(Put(r, NewEntry))
    BY <1>2, StatusOf, CalmPut DEF Recorded
  <2>2. QED
    BY <1>1, <1>3, <2>1, CalmStep DEF CreateAnalysisFixRequest
<1>4. ASSUME NEW h \in Handlers, NEW s \in Requests \cup {NoRequest}, CreateRequest(h, r, s)
      PROVE  WriteInv'
  <2> DEFINE table == [q \in Requests |->
                          CASE q = r -> NewEntry
                            [] q = s -> Cancelling(mem[q], "cancelled")
                            [] OTHER -> mem[q]]
  <2>1. s = NoRequest \/ mem[s].status \in {"pending", "ready"}
    BY <1>4 DEF CreateRequest, Supersedable
  <2>2. Calm(table)
    BY <1>2, <2>1, StatusOf, ConstantsAssumption DEF Calm, Recorded, Finals
  <2>3. Save(table) \/ SaveFails(mem, table)
    BY <1>4 DEF CreateRequest
  <2>4. QED
    BY <1>1, <2>2, <2>3, CalmStep
<1>5. QED
  BY <1>3, <1>4

\* Only a pending or ready request is cancelled.
LEMMA CancelWrites ==
  ASSUME TypeInv, WriteInv, NEW h \in Handlers, NEW r \in Requests,
         CancelRequest(h, r) \/ CancelContext(h, r)
  PROVE  WriteInv'
<1>1. UNCHANGED <<conf, made>>
  BY DEF CancelRequest, CancelContext, github
<1>2. CASE UNCHANGED <<mem, disk>>
  BY <1>1, <1>2, StillStep
<1>3. CASE mem[r].status \in {"pending", "ready"} /\ CancelRequest(h, r)
  <2>1. Calm(Put(r, Cancelling(mem[r], "cancelled")))
    BY <1>3, StatusOf, CalmPut DEF Recorded, Finals
  <2>2. QED
    BY <1>1, <1>3, <2>1, CalmStep DEF CancelRequest
<1>4. QED
  BY <1>2, <1>3 DEF CancelRequest, CancelContext, store

\* A cleanup ends only a request that is being stopped.
LEMMA CleanUpWrites ==
  ASSUME TypeInv, WriteInv, NEW r \in Requests, NEW w \in Workers, CleanUp(r, w)
  PROVE  WriteInv'
<1>1. UNCHANGED <<conf, made>>
  BY DEF CleanUp, TaskStep, ReadEntry, DeleteConfirmed, DeleteFails, DeleteRefused, Awaited,
         AwaitTimesOut, MarkCleanupBlocked, FinalizeCleanup, github
<1>2. CASE UNCHANGED store
  BY <1>1, <1>2, StillStep DEF store
<1>3. CASE mem[r].status = "cancelling" /\ MarkCleanupBlocked(r, w)
  <2>1. Calm(Put(r, Cancelling(mem[r], "failed")))
    BY <1>3, StatusOf, CalmPut DEF Recorded, Finals
  <2>2. QED
    BY <1>1, <1>3, <2>1, CalmStep DEF MarkCleanupBlocked, Blocked
<1>4. CASE mem[r].status = "cancelling" /\ FinalizeCleanup(r, w)
  <2> DEFINE final == IF mem[r].final = "none" THEN "cancelled" ELSE mem[r].final
  <2>1. final \in {"cancelled", "failed", "expired"}
    BY DEF TypeInv, TypeOK, Entry, Finals
  <2>2. Calm(Put(r, Cleared(final)))
    BY <1>4, <2>1, StatusOf, CalmPut DEF Recorded, Statuses
  <2>3. QED
    BY <1>1, <1>4, <2>2, CalmStep DEF FinalizeCleanup
<1>5. QED
  BY <1>2, <1>3, <1>4
  DEF CleanUp, ReadEntry, DeleteConfirmed, DeleteFails, DeleteRefused, Awaited, AwaitTimesOut,
      MarkCleanupBlocked, FinalizeCleanup

\* Only an outcome that is not known is in doubt, and none reopens what is filed.
LEMMA ConfirmWrites ==
  ASSUME TypeInv, WriteInv, NEW r \in Requests, ConfirmStep(r) \/ Index(r)
  PROVE  WriteInv'
<1>1. mem \in [Requests -> Entry] /\ conf \in [Requests -> ConfStates] /\ made \in [Requests -> Nat]
  BY DEF TypeInv, TypeOK, ConfStates
<1>2. CASE ConfirmRequest(r)
  <2>1. CASE Writable(r) /\ BeginWrite(r)
    <3> DEFINE table == Put(r, [mem[r] EXCEPT !.status = "unknown"])
    <3>1. \A q \in Requests :
            table[q].status = IF q = r THEN "unknown" ELSE mem[q].status
      BY <1>1 DEF Put, Entry
    <3>2. UNCHANGED made /\ conf[r] = "off"
      BY <1>2 DEF ConfirmRequest, ConfStep, github
    <3>3. CASE Save(table) /\ Confirm(r, "write")
      BY <1>1, <2>1, <3>1, <3>2, <3>3
      DEF Save, Confirm, Writable, WriteInv, DoubtIsKnown, DoubtIsSaved, WrittenOnce, Recorded
    <3>4. CASE SaveFails(mem, table) /\ UNCHANGED conf
      BY <2>1, <3>1, <3>2, <3>4
      DEF SaveFails, Writable, WriteInv, DoubtIsKnown, DoubtIsSaved, WrittenOnce, Recorded
    <3>5. QED
      BY <2>1, <3>3, <3>4 DEF BeginWrite
  <2>2. CASE mem[r].status = "unknown" /\ Confirm(r, "reconcile") /\ UNCHANGED <<store, github>>
    BY <1>1, <2>2
    DEF Confirm, store, github, WriteInv, DoubtIsKnown, DoubtIsSaved, WrittenOnce
  <2>3. QED
    BY <1>2, <2>1, <2>2 DEF ConfirmRequest
<1>3. CASE AdoptObject(r) \/ WriteNothing(r) \/ ReconcileEntry(r)
  <2>1. UNCHANGED <<mem, disk, made>> /\ conf[r] \in {"write", "reconcile"}
    BY <1>3 DEF AdoptObject, WriteNothing, ReconcileEntry, ConfStep, store, github
  <2>2. \/ conf[r] = "write" /\ \E pc \in ConfStates : Confirm(r, pc)
        \/ Confirm(r, "done") \/ Confirm(r, "lost")
    BY <1>3 DEF AdoptObject, WriteNothing, ReconcileEntry, ConfStep, TrackAndReport, ConfStates
  <2>3. QED
    BY <1>1, <2>1, <2>2
    DEF Confirm, ConfStates, WriteInv, DoubtIsKnown, DoubtIsSaved, WrittenOnce
<1>4. CASE CreateObject(r)
  <2>1. UNCHANGED <<mem, disk>> /\ conf[r] = "write" /\ made' = [made EXCEPT ![r] = @ + 1]
    BY <1>4 DEF CreateObject, ConfStep, store
  <2>2. \E pc \in ConfStates :
          Confirm(r, pc) /\ (~Tracks(r) \/ pc \in {"done", "lost"})
    BY <1>4 DEF CreateObject, TrackAndReport, ConfStates, Tracks
  <2>3. mem[r].status = "unknown" /\ disk[r].status = "unknown"
    BY <2>1 DEF WriteInv, DoubtIsKnown, DoubtIsSaved
  <2>4. QED
    BY <1>1, <2>1, <2>2, <2>3, ConstantsAssumption
    DEF Confirm, WriteInv, DoubtIsKnown, DoubtIsSaved, WrittenOnce, Recorded
<1>5. CASE FinishConfirm(r)
  <2>1. conf' = [conf EXCEPT ![r] = "off"] /\ UNCHANGED made
    BY <1>5 DEF FinishConfirm, Confirm, github
  <2>2. CASE UNCHANGED store
    BY <1>1, <2>1, <2>2
    DEF store, WriteInv, DoubtIsKnown, DoubtIsSaved, WrittenOnce
  <2>3. CASE Outcome(conf[r]) # "unknown"
    <3> DEFINE status == Outcome(conf[r])
               table == Put(r, [mem[r] EXCEPT !.status = status])
    <3>1. \A q \in Requests : table[q].status = IF q = r THEN status ELSE mem[q].status
      BY <1>1 DEF Put, Entry
    <3>2. status \in {"confirmed", "ready"} /\ (status = "ready" => conf[r] = "refused")
      BY <1>5, <2>3 DEF FinishConfirm, Outcome
    <3>3. Save(table) \/ SaveFails(table, table)
      BY <1>5, <2>3 DEF FinishConfirm, SaveOrKeep
    <3>4. \A q \in Requests :
            /\ mem'[q].status = table[q].status
            /\ disk'[q].status \in {disk[q].status, table[q].status}
      BY <3>3 DEF Save, SaveFails
    <3> HIDE DEF table, status
    <3>5. DoubtIsKnown'
      BY <1>1, <2>1, <3>1, <3>4 DEF WriteInv, DoubtIsKnown
    <3>6. DoubtIsSaved'
      BY <3>1, <3>2, <3>3, <3>4 DEF WriteInv, DoubtIsSaved, Save, SaveFails
    <3>7. WrittenOnce'
      BY <1>1, <2>1, <3>1, <3>2, <3>4 DEF WriteInv, WrittenOnce, Recorded
    <3>8. QED
      BY <3>5, <3>6, <3>7 DEF WriteInv
  <2>4. QED
    BY <1>5, <2>2, <2>3 DEF FinishConfirm
<1>6. CASE Index(r)
  BY <1>6, StillStep DEF Index, store
<1>7. QED
  BY <1>2, <1>3, <1>4, <1>5, <1>6 DEF ConfirmStep

\* Expiry passes by a confirmation in flight (expireRequestsLocked).
LEMMA AgedKept == ASSUME TypeInv PROVE Kept(Aged)
<1>1. ASSUME NEW q \in Requests
      PROVE  /\ Aged[q].status = "unknown" => mem[q].status = "unknown"
             /\ conf[q] # "off" => Aged[q].status = mem[q].status
             /\ mem[q].status \in Recorded => Aged[q].status \in Recorded
  <2>1. CASE q \notin Overdue
    BY <2>1 DEF Aged
  <2>2. CASE q \in Overdue
    <3>1. conf[q] = "off" /\ mem[q].status # "absent" /\ Aged[q] = Expire(mem[q])
      BY <2>2 DEF Aged, Overdue
    <3>2. CASE mem[q].status \in {"pending", "cancelling"}
      BY <3>1, <3>2, StatusOf DEF Expire, Recorded, Finals
    <3>3. CASE mem[q].status \notin {"pending", "cancelling"}
      <4>1. Aged[q] = Cleared("expired")
        BY <3>1, <3>3 DEF Expire
      <4>2. QED
        BY <3>1, <4>1, StatusOf DEF Recorded, Statuses
    <3>4. QED
      BY <3>2, <3>3
  <2>3. QED
    BY <2>1, <2>2
<1>2. QED
  BY <1>1 DEF Kept

\* Reading and the passing of time.
LEMMA ReadWrites ==
  ASSUME TypeInv, WriteInv, GetRequest \/ \E r \in Requests : Tick(r) PROVE WriteInv'
<1>1. CASE GetRequest
  BY <1>1, AgedKept, KeptStep DEF GetRequest, github
<1>2. CASE \E r \in Requests : Tick(r)
  BY <1>2, StillStep DEF Tick, store, github
<1>3. QED
  BY <1>1, <1>2

\* Shutdown stops what is pending; a crash leaves the file; a restart fails or
\* cleans up what was pending and passes by what is in doubt.
LEMMA ProcessWrites ==
  ASSUME TypeInv, WriteInv, Crash \/ Start \/ \E h \in Handlers : Shutdown(h)
  PROVE  WriteInv'
<1>1. ASSUME NEW h \in Handlers, Shutdown(h) PROVE WriteInv'
  <2> DEFINE pending == {r \in Requests : mem[r].status = "pending"}
             table == [r \in Requests |->
                          IF r \in pending THEN Cancelling(mem[r], "failed") ELSE mem[r]]
  <2>1. Calm(table)
    BY StatusOf DEF Calm, Recorded, Finals
  <2>2. UNCHANGED store \/ Save(table) \/ SaveFails(table, table)
    BY <1>1 DEF Shutdown, SaveOrKeep
  <2>3. QED
    BY <1>1, <2>1, <2>2, CalmStep, StillStep DEF Shutdown, github, store
<1>2. CASE Crash
  BY <1>2 DEF Crash, github, WriteInv, DoubtIsKnown, DoubtIsSaved, WrittenOnce
<1>3. CASE Start
  <2>1. PICK invalid \in SUBSET {r \in Requests : Aged[r].status = "ready"} :
          LET table == [r \in Requests |-> Restored(Aged[r], r \notin invalid)]
          IN IF table = disk THEN UNCHANGED store ELSE SaveOrKeep(table)
    BY <1>3 DEF Start
  <2> DEFINE table == [r \in Requests |-> Restored(Aged[r], r \notin invalid)]
  <2>2. ASSUME NEW q \in Requests
        PROVE  /\ Aged[q].status \in Recorded => table[q] = Aged[q]
               /\ table[q].status = "unknown" => Aged[q].status = "unknown"
    <3>1. Aged[q] \in Entry
      BY TypeParts, AgedType DEF StoreOK, TableOK
    <3>2. QED
      BY <3>1 DEF Restored, Cancelling, Recorded, Entry
  <2>3. Kept(table)
    BY <2>2, AgedKept DEF Kept, Recorded, WriteInv, DoubtIsKnown
  <2>4. QED
    BY <1>3, <2>1, <2>3, KeptStep, StillStep DEF Start, github, store
<1>4. QED
  BY <1>1, <1>2, <1>3

-----------------------------------------------------------------------------

\* Every step of the server keeps the invariant.
LEMMA WriteInductive == TypeInv /\ WriteInv /\ [Next]_vars => WriteInv'
<1> SUFFICES ASSUME TypeInv, WriteInv, [Next]_vars PROVE WriteInv'
  OBVIOUS
<1>1. CASE UNCHANGED vars
  BY <1>1, StillStep DEF vars
<1>2. CASE GetRequest \/ Crash \/ Start \/ \E h \in Handlers : Shutdown(h)
  BY <1>2, ReadWrites, ProcessWrites
<1>3. ASSUME NEW r \in Requests, Tick(r) \/ Index(r) \/ ConfirmStep(r) PROVE WriteInv'
  BY <1>3, ReadWrites, ConfirmWrites
<1>4. ASSUME NEW r \in Requests, Generate(r) \/ Timeout(r) PROVE WriteInv'
  BY <1>4, GenerateWrites
<1>5. ASSUME NEW r \in Requests, NEW w \in Workers, CleanUp(r, w) PROVE WriteInv'
  BY <1>5, CleanUpWrites
<1>6. ASSUME NEW r \in Requests, NEW h \in Handlers, CancelRequest(h, r) \/ CancelContext(h, r)
      PROVE  WriteInv'
  BY <1>6, CancelWrites
<1>7. ASSUME NEW r \in Requests, CreateAnalysisFixRequest(r) PROVE WriteInv'
  BY <1>7, CreateWrites
<1>8. ASSUME NEW r \in Requests, NEW h \in Handlers, NEW s \in Requests \cup {NoRequest},
             CreateRequest(h, r, s)
      PROVE  WriteInv'
  BY <1>8, CreateWrites
<1>9. QED
  BY <1>1, <1>2, <1>3, <1>4, <1>5, <1>6, <1>7, <1>8 DEF Next

\* The invariant of the confirmations holds in every reachable state.
LEMMA WriteInvariant == Spec => [](TypeInv /\ WriteInv)
<1>1. Init => TypeInv /\ WriteInv
  BY InitType DEF Init, WriteInv, DoubtIsKnown, DoubtIsSaved, WrittenOnce, NoEntry
<1>2. TypeInv /\ WriteInv /\ [Next]_vars => (TypeInv /\ WriteInv)'
  BY TypeInductive, WriteInductive
<1>3. QED
  BY <1>1, <1>2, PTL DEF Spec

\* A confirmation in flight is on record in memory and in the file, whatever
\* crashes and whichever saves fail (ConfirmRequest, requests.go).
THEOREM WritesAhead == Spec => []WriteAhead
<1>1. WriteInv => WriteAhead
  BY DEF WriteInv, DoubtIsKnown, DoubtIsSaved, WriteAhead
<1>2. QED
  BY <1>1, WriteInvariant, PTL

\* If the tracking state can be saved, or there is none to save, a draft is written
\* to GitHub at most once, however often its confirmation is lost, retried or
\* interrupted.
THEOREM WritesOnce == Spec => [](AllTrack => AtMostOneWrite)
<1>1. TypeInv /\ WriteInv => (AllTrack => AtMostOneWrite)
  <2>1. TypeInv => made \in [Requests -> Nat]
    BY DEF TypeInv, TypeOK
  <2>2. QED
    BY <2>1 DEF WriteInv, WrittenOnce, AtMostOneWrite, AllTrack
<1>2. QED
  BY <1>1, WriteInvariant, PTL

\* And the file never forgets that an object was created.
THEOREM WritesRecorded == Spec => [](AllTrack => WriteIsRecorded)
<1>1. WriteInv => (AllTrack => WriteIsRecorded)
  BY DEF WriteInv, WrittenOnce, WriteIsRecorded, Recorded, AllTrack
<1>2. QED
  BY <1>1, WriteInvariant, PTL

-----------------------------------------------------------------------------
(* What any step may do to the table.  Every handler that saves it is shown *)
(* once to make one of these moves; the invariants below follow from them.  *)

Closed == {"cancelled", "failed", "expired"}

\* The moves of the entry of q, to e.  A draft ends with its generation, or with a
\* restart that finds nothing to clean up.
Drafted(q, e) ==
    /\ mem[q].status = "pending"
    /\ e.status \in {"ready", "failed", "cancelling"} /\ e.work = mem[q].work
    /\ e.status # "cancelling" =>
        gen[q].pc = "result" \/ (server = "down" /\ mem[q].work = NoWork)
Reviewed(q, e) ==
    /\ mem[q].status = "ready"
    /\ e.status \in {"unknown", "failed", "cancelling"} /\ e.work = mem[q].work
Stopped(q, e) ==
    /\ mem[q].status = "cancelling" /\ e.status = "cancelling"
    /\ e.work = mem[q].work /\ e.final \in {"failed", "expired"}
CleanedUp(q, e) ==
    /\ mem[q].status = "cancelling"
    /\ e.status \in Closed /\ e.work = NoWork
    /\ e.status = "cancelled" => mem[q].final \in {"none", "cancelled"}
    /\ \E w \in Workers : task[q][w].pc = "finalize"
ObservedAs(q, e) ==
    /\ mem[q].status \in {"pending", "cancelling"}
    /\ gen[q].pc \in {"plan", "observe", "recover"}
    /\ e.status = mem[q].status /\ e.final = mem[q].final
    /\ e.work = [attempt |-> gen[q].attempt, uid |-> gen[q].pc # "plan"]
ResolvedTo(q, e) ==
    /\ mem[q].status = "unknown" /\ conf[q] \in {"done", "refused"}
    /\ e.status = Outcome(conf[q]) /\ e.work = mem[q].work
Lapsed(q, e) ==
    /\ mem[q].status \notin {"absent", "pending", "cancelling"} /\ conf[q] = "off"
    /\ e.status = "expired" /\ e.work = NoWork

Moves(q, e) ==
    \/ e = mem[q] \/ Drafted(q, e) \/ Reviewed(q, e) \/ Stopped(q, e) \/ CleanedUp(q, e)
    \/ ObservedAs(q, e) \/ ResolvedTo(q, e) \/ Lapsed(q, e)
Tame(T) == \A q \in Requests : Moves(q, T[q])

\* The table with a new request, which may supersede another.
Created(T, r, s) ==
    /\ Fresh(r) /\ WithinLimits(r, s)
    /\ T[r] = NewEntry
    /\ s \in Requests => mem[s].status \in {"pending", "ready"}
    /\ \A q \in Requests \ {r} :
        T[q] = IF q = s THEN Cancelling(mem[q], "cancelled") ELSE mem[q]
Grown(T) == \E r \in Requests, s \in Requests \cup {NoRequest} : Created(T, r, s)

\* A save that succeeds changes memory and file alike.
Saves(T) ==
    /\ mem' \in {mem, T} /\ disk' \in {disk, T}
    /\ saveFaults < MaxSaveFaults \/ (mem' = T /\ disk' = T)
StoreStep ==
    \/ UNCHANGED <<mem, disk>>
    \/ mem' = Aged /\ disk' = disk
    \/ Crash
    \/ \E T : (Tame(T) \/ Grown(T)) /\ Saves(T)

\* However a save ends, it is one of these.
LEMMA SaveIsStep ==
  ASSUME NEW T, Tame(T) \/ Grown(T), Save(T) \/ SaveFails(mem, T) \/ SaveFails(T, T)
  PROVE  StoreStep
<1>1. Saves(T)
  BY DEF Save, SaveFails, Saves
<1>2. QED
  BY <1>1 DEF StoreStep

\* What the handlers put in the place of an entry, field by field.
LEMMA FieldsOf ==
  ASSUME NEW e \in Entry
  PROVE  /\ \A f \in Finals :
              /\ Cancelling(e, f).status = "cancelling"
              /\ Cancelling(e, f).final = f
              /\ Cancelling(e, f).work = e.work
         /\ \A s \in Statuses :
              /\ [e EXCEPT !.status = s].status = s
              /\ [e EXCEPT !.status = s].work = e.work
              /\ Cleared(s).status = s /\ Cleared(s).work = NoWork
         /\ \A w \in Work :
              /\ [e EXCEPT !.work = w].status = e.status
              /\ [e EXCEPT !.work = w].final = e.final
              /\ [e EXCEPT !.work = w].work = w
         /\ NewEntry.status = "pending" /\ NewEntry.work = NoWork
BY DEF Entry, Cancelling, Cleared, NoEntry, NewEntry

\* A table with one entry moved is tame.
LEMMA TamePut ==
  ASSUME TypeInv, NEW r \in Requests, NEW e, Moves(r, e)
  PROVE  Tame(Put(r, e))
<1>1. mem \in [Requests -> Entry]
  BY DEF TypeInv, TypeOK
<1>2. Put(r, e)[r] = e /\ \A q \in Requests \ {r} : Put(r, e)[q] = mem[q]
  BY <1>1 DEF Put
<1>3. QED
  BY <1>2 DEF Tame, Moves

-----------------------------------------------------------------------------
(* The moves, action by action *)

\* Generation records its work, or ends (observer, Result).
LEMMA GenerateMoves ==
  ASSUME TypeInv, NEW r \in Requests, Generate(r) \/ Timeout(r)
  PROVE  StoreStep
<1>1. mem[r] \in Entry /\ gen[r] \in Gen
  BY DEF TypeInv, TypeOK
<1>2. ASSUME NEW uid \in BOOLEAN, Observes(r, uid) \/ ObserveFails(r, uid),
             gen[r].pc \in {"plan", "observe", "recover"}, uid = (gen[r].pc # "plan")
      PROVE  StoreStep
  <2> DEFINE w == [attempt |-> gen[r].attempt, uid |-> uid]
             e == [mem[r] EXCEPT !.work = w]
  <2>1. w \in Work
    BY <1>1 DEF Work, Gen
  <2>2. e.status = mem[r].status /\ e.final = mem[r].final /\ e.work = w
    BY <1>1, <2>1, FieldsOf
  <2>3. CASE mem[r].status \in {"pending", "cancelling"}
    <3>1. ObservedAs(r, e)
      BY <1>2, <2>2, <2>3 DEF ObservedAs
    <3>2. Tame(Observed(r, uid))
      BY <3>1, TamePut DEF Moves, Observed
    <3>3. QED
      BY <1>2, <2>3, <3>2, SaveIsStep DEF Observes, ObserveFails
  <2>4. CASE UNCHANGED store
    BY <2>4 DEF store, StoreStep
  <2>5. QED
    BY <1>2, <2>3, <2>4 DEF Observes, ObserveFails
<1>3. CASE Result(r)
  <2>1. CASE UNCHANGED store
    BY <2>1 DEF store, StoreStep
  <2>2. CASE Wanted(r)
    <3>1. Moves(r, Cancelling(mem[r], "failed"))
      BY <1>1, <2>2, FieldsOf DEF Wanted, Moves, Drafted, Finals
    <3>2. ASSUME NEW status \in {"ready", "failed"}
          PROVE  Moves(r, [mem[r] EXCEPT !.status = status])
      BY <1>1, <1>3, <2>2, FieldsOf DEF Result, Wanted, Moves, Drafted, Statuses
    <3>3. CASE Abandon(r)
      BY <2>2, <3>1, <3>3, TamePut, SaveIsStep DEF Abandon
    <3>4. CASE Conclude(r)
      BY <2>2, <3>2, <3>4, TamePut, SaveIsStep DEF Conclude, SaveOrKeep
    <3>5. QED
      BY <1>3, <3>3, <3>4 DEF Result
  <2>3. QED
    BY <1>3, <2>1, <2>2 DEF Result, Abandon, Conclude
<1>4. CASE UNCHANGED store
  BY <1>4 DEF store, StoreStep
<1>5. CASE Plan(r)
  BY <1>2, <1>5 DEF Plan, GenStep
<1>6. CASE Observe(r) \/ Recover(r)
  BY <1>2, <1>4, <1>6 DEF Observe, Recover, GenStep
<1>7. QED
  BY <1>3, <1>4, <1>5, <1>6
  DEF Generate, Timeout, Launch, Begin, Draft, Create, Run, Clean, Exit

\* A creation is a new table; a supersession stops what was pending or ready.
LEMMA CreateMoves ==
  ASSUME TypeInv, NEW r \in Requests,
         \/ CreateAnalysisFixRequest(r)
         \/ \E h \in Handlers, s \in Requests \cup {NoRequest} : CreateRequest(h, r, s)
  PROVE  StoreStep
<1>1. mem \in [Requests -> Entry]
  BY DEF TypeInv, TypeOK
<1>2. CASE CreateAnalysisFixRequest(r)
  <2>1. Created(Put(r, NewEntry), r, NoRequest)
    BY <1>1, <1>2, ConstantsAssumption DEF Created, CreateAnalysisFixRequest, Put
  <2>2. QED
    BY <1>2, <2>1, SaveIsStep DEF CreateAnalysisFixRequest, Grown
<1>3. ASSUME NEW h \in Handlers, NEW s \in Requests \cup {NoRequest}, CreateRequest(h, r, s)
      PROVE  StoreStep
  <2> DEFINE table == [q \in Requests |->
                          CASE q = r -> NewEntry
                            [] q = s -> Cancelling(mem[q], "cancelled")
                            [] OTHER -> mem[q]]
  <2>1. Created(table, r, s)
    <3>1. Fresh(r) /\ WithinLimits(r, s) /\ (s = NoRequest \/ Supersedable(r, s))
      BY <1>3 DEF CreateRequest
    <3>2. s \in Requests => mem[s].status \in {"pending", "ready"}
      BY <3>1, ConstantsAssumption DEF Supersedable
    <3>3. /\ table[r] = NewEntry
          /\ \A q \in Requests \ {r} :
                table[q] = IF q = s THEN Cancelling(mem[q], "cancelled") ELSE mem[q]
      <4>1. r # s
        BY <3>1, <3>2 DEF Fresh, NoEntry
      <4>2. QED
        BY <4>1
    <3>4. QED
      BY <3>1, <3>2, <3>3 DEF Created
  <2>2. Save(table) \/ SaveFails(mem, table)
    BY <1>3 DEF CreateRequest
  <2>3. QED
    BY <2>1, <2>2, SaveIsStep DEF Grown
<1>4. QED
  BY <1>2, <1>3

\* Only a pending or ready request is cancelled.
LEMMA CancelMoves ==
  ASSUME TypeInv, NEW h \in Handlers, NEW r \in Requests,
         CancelRequest(h, r) \/ CancelContext(h, r)
  PROVE  StoreStep
<1>1. mem[r] \in Entry
  BY DEF TypeInv, TypeOK
<1>2. CASE UNCHANGED <<mem, disk>>
  BY <1>2 DEF StoreStep
<1>3. CASE mem[r].status \in {"pending", "ready"} /\ CancelRequest(h, r)
  <2>1. Moves(r, Cancelling(mem[r], "cancelled"))
    BY <1>1, <1>3, FieldsOf DEF Moves, Drafted, Reviewed, Finals
  <2>2. QED
    BY <1>3, <2>1, TamePut, SaveIsStep DEF CancelRequest
<1>4. QED
  BY <1>2, <1>3 DEF CancelRequest, CancelContext, store

\* A cleanup blocks or ends a request that is being stopped.
LEMMA CleanUpMoves ==
  ASSUME TypeInv, NEW r \in Requests, NEW w \in Workers, CleanUp(r, w)
  PROVE  StoreStep
<1>1. mem[r] \in Entry
  BY DEF TypeInv, TypeOK
<1>2. CASE UNCHANGED store
  BY <1>2 DEF StoreStep, store
<1>3. CASE mem[r].status = "cancelling" /\ MarkCleanupBlocked(r, w)
  <2>1. Moves(r, Cancelling(mem[r], "failed"))
    BY <1>1, <1>3, FieldsOf DEF Moves, Stopped, Finals
  <2>2. QED
    BY <1>3, <2>1, TamePut, SaveIsStep DEF MarkCleanupBlocked, Blocked
<1>4. CASE mem[r].status = "cancelling" /\ FinalizeCleanup(r, w)
  <2> DEFINE final == IF mem[r].final = "none" THEN "cancelled" ELSE mem[r].final
  <2>1. final \in Closed /\ (final = "cancelled" => mem[r].final \in {"none", "cancelled"})
    BY <1>1 DEF Entry, Finals, Closed
  <2>2. Cleared(final).status = final /\ Cleared(final).work = NoWork
    BY <1>1, <2>1, FieldsOf DEF Closed, Statuses
  <2>3. Moves(r, Cleared(final))
    BY <1>4, <2>1, <2>2 DEF Moves, CleanedUp, FinalizeCleanup, TaskStep
  <2>4. QED
    BY <1>4, <2>3, TamePut, SaveIsStep DEF FinalizeCleanup
<1>5. QED
  BY <1>2, <1>3, <1>4
  DEF CleanUp, ReadEntry, DeleteConfirmed, DeleteFails, DeleteRefused, Awaited, AwaitTimesOut,
      MarkCleanupBlocked, FinalizeCleanup

\* A confirmation puts a ready draft in doubt, and resolves its own doubt.
LEMMA ConfirmMoves ==
  ASSUME TypeInv, WriteInv, NEW r \in Requests, ConfirmStep(r) \/ Index(r)
  PROVE  StoreStep
<1>1. mem[r] \in Entry
  BY DEF TypeInv, TypeOK
<1>2. CASE UNCHANGED store
  BY <1>2 DEF StoreStep, store
<1>3. CASE ConfirmRequest(r) /\ Writable(r) /\ BeginWrite(r)
  <2>1. Moves(r, [mem[r] EXCEPT !.status = "unknown"])
    BY <1>1, <1>3, FieldsOf DEF Moves, Reviewed, Writable, Statuses
  <2>2. QED
    BY <1>3, <2>1, TamePut, SaveIsStep DEF BeginWrite
<1>4. CASE FinishConfirm(r) /\ Outcome(conf[r]) # "unknown"
  <2>1. Outcome(conf[r]) \in Statuses /\ conf[r] \in {"done", "refused"}
    BY <1>4 DEF FinishConfirm, Outcome, Statuses
  <2>2. mem[r].status = "unknown"
    BY <2>1 DEF WriteInv, DoubtIsKnown
  <2>3. Moves(r, [mem[r] EXCEPT !.status = Outcome(conf[r])])
    BY <1>1, <2>1, <2>2, FieldsOf DEF Moves, ResolvedTo
  <2>4. QED
    BY <1>4, <2>3, TamePut, SaveIsStep DEF FinishConfirm, SaveOrKeep
<1>5. QED
  BY <1>2, <1>3, <1>4
  DEF ConfirmStep, Index, ConfirmRequest, AdoptObject, CreateObject, WriteNothing,
      ReconcileEntry, FinishConfirm

\* Expiry stops a draft and closes the rest.
LEMMA AgedMoves ==
  ASSUME TypeInv
  PROVE  /\ Tame(Aged)
         /\ \A q \in Requests :
              \/ Aged[q] = mem[q] \/ Lapsed(q, Aged[q])
              \/ /\ mem[q].status \in {"pending", "cancelling"}
                 /\ Aged[q].status = "cancelling" /\ Aged[q].work = mem[q].work
                 /\ Aged[q].final = "expired"
<1>1. ASSUME NEW q \in Requests
      PROVE  \/ Aged[q] = mem[q] \/ Lapsed(q, Aged[q])
             \/ /\ mem[q].status \in {"pending", "cancelling"}
                /\ Aged[q].status = "cancelling" /\ Aged[q].work = mem[q].work
                /\ Aged[q].final = "expired"
  <2>1. mem[q] \in Entry
    BY DEF TypeInv, TypeOK
  <2>2. CASE q \in Overdue
    <3>1. conf[q] = "off" /\ mem[q].status # "absent" /\ Aged[q] = Expire(mem[q])
      BY <2>2 DEF Aged, Overdue
    <3>2. CASE mem[q].status \in {"pending", "cancelling"}
      BY <2>1, <3>1, <3>2, FieldsOf DEF Expire, Finals
    <3>3. CASE mem[q].status \notin {"pending", "cancelling"}
      <4>1. Aged[q] = Cleared("expired")
        BY <3>1, <3>3 DEF Expire
      <4>2. QED
        BY <2>1, <3>1, <3>3, <4>1, FieldsOf DEF Lapsed, Statuses
    <3>4. QED
      BY <3>2, <3>3
  <2>3. QED
    BY <2>2 DEF Aged
<1>2. Tame(Aged)
  BY <1>1 DEF Tame, Moves, Drafted, Stopped
<1>3. QED
  BY <1>1, <1>2

\* Reading, and the passing of time, which only expire.
LEMMA ReadMoves ==
  ASSUME TypeInv, GetRequest \/ \E r \in Requests : Tick(r)
  PROVE  StoreStep
<1>1. CASE GetRequest
  BY <1>1, AgedMoves, SaveIsStep DEF GetRequest, StoreStep, SaveOrKeep
<1>2. CASE \E r \in Requests : Tick(r)
  BY <1>2 DEF Tick, store, StoreStep
<1>3. QED
  BY <1>1, <1>2

\* A shutdown stops the drafts; a restart fails what no goroutine will finish.
LEMMA ProcessMoves ==
  ASSUME TypeInv, Crash \/ Start \/ \E h \in Handlers : Shutdown(h)
  PROVE  StoreStep
<1>1. ASSUME NEW q \in Requests PROVE mem[q] \in Entry /\ Aged[q] \in Entry
  BY TypeParts, AgedType DEF StoreOK, TableOK
<1>2. ASSUME NEW h \in Handlers, Shutdown(h) PROVE StoreStep
  <2> DEFINE pending == {r \in Requests : mem[r].status = "pending"}
             table == [r \in Requests |->
                          IF r \in pending THEN Cancelling(mem[r], "failed") ELSE mem[r]]
  <2>1. Tame(table)
    BY <1>1, FieldsOf DEF Tame, Moves, Drafted, Finals
  <2>2. UNCHANGED store \/ Save(table) \/ SaveFails(table, table)
    BY <1>2 DEF Shutdown, SaveOrKeep
  <2>3. QED
    BY <2>1, <2>2, SaveIsStep DEF store, StoreStep
<1>3. CASE Start
  <2>1. PICK invalid \in SUBSET {r \in Requests : Aged[r].status = "ready"} :
          LET table == [r \in Requests |-> Restored(Aged[r], r \notin invalid)]
          IN IF table = disk THEN UNCHANGED store ELSE SaveOrKeep(table)
    BY <1>3 DEF Start
  <2> DEFINE table == [r \in Requests |-> Restored(Aged[r], r \notin invalid)]
  <2>2. ASSUME NEW q \in Requests PROVE Moves(q, table[q])
    <3> DEFINE v == q \notin invalid
    <3>1. table[q] = Restored(Aged[q], v) /\ v \in BOOLEAN
      OBVIOUS
    <3> HIDE DEF table, v
    <3>2. CASE Aged[q].status = "pending"
      <4>1. Aged[q] = mem[q]
        BY <3>2, AgedMoves DEF Lapsed
      <4>2. /\ table[q].status \in {"failed", "cancelling"} /\ table[q].work = mem[q].work
            /\ table[q].status = "failed" => mem[q].work = NoWork
        BY <1>1, <3>1, <3>2, <4>1, FieldsOf DEF Restored, Finals, Statuses
      <4>3. QED
        BY <1>3, <3>2, <4>1, <4>2 DEF Moves, Drafted, Start
    <3>3. CASE Aged[q].status = "cancelling" /\ Aged[q].final = "none"
      <4>1. Aged[q] = mem[q]
        BY <3>3, AgedMoves DEF Lapsed
      <4>2. table[q] = Cancelling(mem[q], "failed")
        BY <3>1, <3>3, <4>1 DEF Restored
      <4>3. QED
        BY <1>1, <3>3, <4>1, <4>2, FieldsOf DEF Moves, Stopped, Finals
    <3>4. CASE Aged[q].status = "ready" /\ ~v
      <4>1. Aged[q] = mem[q]
        BY <3>4, AgedMoves DEF Lapsed
      <4>2. table[q] = [mem[q] EXCEPT !.status = "failed"]
        BY <3>1, <3>4, <4>1 DEF Restored
      <4>3. QED
        BY <1>1, <3>4, <4>1, <4>2, FieldsOf DEF Moves, Reviewed, Statuses
    <3>5. CASE table[q] = Aged[q]
      BY <3>5, AgedMoves DEF Tame
    <3>6. QED
      BY <3>1, <3>2, <3>3, <3>4, <3>5 DEF Restored
  <2>3. Tame(table)
    BY <2>2 DEF Tame
  <2>4. QED
    BY <2>1, <2>3, SaveIsStep DEF SaveOrKeep, store, StoreStep
<1>4. QED
  BY <1>2, <1>3 DEF StoreStep

\* Whatever the server does, this is what becomes of its table.
LEMMA TableSteps == ASSUME TypeInv, WriteInv, [Next]_vars PROVE StoreStep
<1>1. CASE UNCHANGED vars
  BY <1>1 DEF vars, StoreStep
<1>2. CASE GetRequest \/ Crash \/ Start \/ \E h \in Handlers : Shutdown(h)
  BY <1>2, ReadMoves, ProcessMoves
<1>3. ASSUME NEW r \in Requests, Tick(r) \/ Index(r) \/ ConfirmStep(r) PROVE StoreStep
  BY <1>3, ReadMoves, ConfirmMoves
<1>4. ASSUME NEW r \in Requests, Generate(r) \/ Timeout(r) PROVE StoreStep
  BY <1>4, GenerateMoves
<1>5. ASSUME NEW r \in Requests, NEW w \in Workers, CleanUp(r, w) PROVE StoreStep
  BY <1>5, CleanUpMoves
<1>6. ASSUME NEW r \in Requests, NEW h \in Handlers, CancelRequest(h, r) \/ CancelContext(h, r)
      PROVE  StoreStep
  BY <1>6, CancelMoves
<1>7. ASSUME NEW r \in Requests, CreateAnalysisFixRequest(r) PROVE StoreStep
  BY <1>7, CreateMoves
<1>8. ASSUME NEW r \in Requests, NEW h \in Handlers, NEW s \in Requests \cup {NoRequest},
             CreateRequest(h, r, s)
      PROVE  StoreStep
  BY <1>8, CreateMoves
<1>9. QED
  BY <1>1, <1>2, <1>3, <1>4, <1>5, <1>6, <1>7, <1>8 DEF Next

\* What becomes of one entry: it moves, in one copy or in both.
LEMMA EntrySteps ==
  ASSUME TypeInv, WriteInv, [Next]_vars, NEW r \in Requests
  PROVE  \/ Crash
         \/ Fresh(r) /\ mem'[r] \in {mem[r], NewEntry} /\ disk'[r] \in {disk[r], NewEntry}
         \/ \E e : Moves(r, e) /\ mem'[r] \in {mem[r], e} /\ disk'[r] \in {disk[r], e}
<1>1. CASE UNCHANGED <<mem, disk>>
  <2>1. Moves(r, mem[r])
    BY DEF Moves
  <2>2. QED
    BY <1>1, <2>1
<1>2. CASE mem' = Aged /\ disk' = disk
  BY <1>2, AgedMoves DEF Tame
<1>3. ASSUME NEW T, Tame(T), Saves(T)
      PROVE  Moves(r, T[r]) /\ mem'[r] \in {mem[r], T[r]} /\ disk'[r] \in {disk[r], T[r]}
  BY <1>3 DEF Tame, Saves
<1>4. ASSUME NEW T, Grown(T), Saves(T)
      PROVE  /\ mem'[r] \in {mem[r], T[r]} /\ disk'[r] \in {disk[r], T[r]}
             /\ (Fresh(r) /\ T[r] = NewEntry) \/ Moves(r, T[r])
  <2>1. PICK q \in Requests, s \in Requests \cup {NoRequest} : Created(T, q, s)
    BY <1>4 DEF Grown
  <2>2. mem'[r] \in {mem[r], T[r]} /\ disk'[r] \in {disk[r], T[r]}
    BY <1>4 DEF Saves
  <2>3. CASE r = q
    BY <2>1, <2>2, <2>3 DEF Created
  <2>4. CASE r # q /\ r = s
    <3>1. T[r] = Cancelling(mem[r], "cancelled") /\ mem[r].status \in {"pending", "ready"}
      BY <2>1, <2>4 DEF Created
    <3>2. T[r].status = "cancelling" /\ T[r].work = mem[r].work
      BY <3>1, FieldsOf DEF TypeInv, TypeOK, Finals
    <3>3. QED
      BY <2>2, <3>1, <3>2 DEF Moves, Drafted, Reviewed
  <2>5. CASE r # q /\ r # s
    BY <2>1, <2>2, <2>5 DEF Created, Moves
  <2>6. QED
    BY <2>3, <2>4, <2>5
<1>5. ASSUME NEW T, Tame(T) \/ Grown(T), Saves(T)
      PROVE  \/ Fresh(r) /\ mem'[r] \in {mem[r], NewEntry} /\ disk'[r] \in {disk[r], NewEntry}
             \/ \E e : Moves(r, e) /\ mem'[r] \in {mem[r], e} /\ disk'[r] \in {disk[r], e}
  BY <1>3, <1>4, <1>5
<1>6. QED
  BY <1>1, <1>2, <1>5, TableSteps DEF StoreStep

-----------------------------------------------------------------------------
(* No way back, and no more drafts than the quota. *)

\* One step of the table, seen by one request.
LEMMA NoReturn ==
  ASSUME TypeInv, WriteInv, [Next]_vars, server # "down", server' # "down",
         NEW r \in Requests
  PROVE  /\ mem[r].status = "cancelling" =>
              mem'[r].status \in {"cancelling", "cancelled", "failed", "expired"}
         /\ mem[r].status \in {"confirmed", "cancelled", "failed"} =>
              mem'[r].status \in {mem[r].status, "expired"}
<1>1. ASSUME NEW e, Moves(r, e)
      PROVE  /\ mem[r].status = "cancelling" =>
                  e.status \in {"cancelling", "cancelled", "failed", "expired"}
             /\ mem[r].status \in {"confirmed", "cancelled", "failed"} =>
                  e.status \in {mem[r].status, "expired"}
  BY <1>1
  DEF Moves, Drafted, Reviewed, Stopped, CleanedUp, ObservedAs, ResolvedTo, Lapsed, Closed
<1>2. CASE Fresh(r)
  BY <1>2 DEF Fresh, NoEntry
<1>3. QED
  BY <1>1, <1>2, EntrySteps DEF Crash

\* A request being stopped is not offered for confirmation again, and a finished
\* one stays finished, whatever fails, as long as the process lives.
THEOREM NoneReturns == Spec => NoWayBack
<1>1. TypeInv /\ WriteInv /\ [Next]_vars =>
        [server # "down" /\ server' # "down" => \A r \in Requests :
            /\ mem[r].status = "cancelling" =>
                mem'[r].status \in {"cancelling", "cancelled", "failed", "expired"}
            /\ mem[r].status \in {"confirmed", "cancelled", "failed"} =>
                mem'[r].status \in {mem[r].status, "expired"}]_vars
  BY NoReturn
<1>2. QED
  BY <1>1, WriteInvariant, PTL DEF Spec, NoWayBack

\* The quota, of a table: what WithinQuota says of the one in memory, and it must
\* say of the one on file, which a crash makes the one in memory.
Live(T) == {q \in Requests : T[q].status # "absent"}
PendingFor(T, r) == {q \in Requests : T[q].status = "pending" /\ Owner[q] = Owner[r]}
OpenIn(T) == {q \in Requests : T[q].status \in {"pending", "ready", "unknown"}}
Quota(T) ==
    /\ IsFiniteSet(Live(T))
    /\ \A r \in Requests : Cardinality(PendingFor(T, r)) <= MaxPending
    /\ Cardinality(OpenIn(T)) <= MaxActive
QuotaInv == Quota(mem) /\ Quota(disk)

\* A set within another one of bounded size is bounded.
LEMMA Fewer ==
  ASSUME NEW A, NEW B, A \subseteq B, IsFiniteSet(B), NEW n \in Nat, Cardinality(B) <= n
  PROVE  IsFiniteSet(A) /\ Cardinality(A) <= n
BY FS_Subset, FS_CardinalityType

\* One more than a set below the limit is within the limit.
LEMMA OneMore ==
  ASSUME NEW A, NEW B, NEW x, A \subseteq B \cup {x}, IsFiniteSet(B),
         NEW n \in Nat, Cardinality(B) < n
  PROVE  IsFiniteSet(A) /\ Cardinality(A) <= n
<1>1. IsFiniteSet(B \cup {x}) /\ Cardinality(B \cup {x}) <= n
  <2>1. Cardinality(B) \in Nat
    BY FS_CardinalityType
  <2>2. /\ IsFiniteSet(B \cup {x})
        /\ Cardinality(B \cup {x}) = Cardinality(B) \/ Cardinality(B \cup {x}) = Cardinality(B) + 1
    BY FS_AddElement
  <2>3. QED
    BY <2>1, <2>2
<1>2. QED
  BY <1>1, Fewer

\* No move opens a draft.
LEMMA TameQuota ==
  ASSUME Quota(mem), NEW T, Tame(T)
  PROVE  Quota(T)
<1>1. ASSUME NEW q \in Requests
      PROVE  /\ mem[q].status = "absent" => T[q].status = "absent"
             /\ T[q].status = "pending" => mem[q].status = "pending"
             /\ T[q].status \in {"pending", "ready", "unknown"} =>
                    mem[q].status \in {"pending", "ready", "unknown"}
  <2>1. Moves(q, T[q])
    BY DEF Tame
  <2>2. QED
    BY <2>1
    DEF Moves, Drafted, Reviewed, Stopped, CleanedUp, ObservedAs, ResolvedTo, Outcome, Lapsed,
        Closed
<1>2. Live(T) \subseteq Live(mem) /\ OpenIn(T) \subseteq OpenIn(mem) /\ OpenIn(mem) \subseteq Live(mem)
  BY <1>1 DEF Live, OpenIn
<1>3. ASSUME NEW r \in Requests
      PROVE  PendingFor(T, r) \subseteq PendingFor(mem, r) /\ PendingFor(mem, r) \subseteq Live(mem)
  BY <1>1 DEF PendingFor, Live
<1>4. IsFiniteSet(Live(T)) /\ IsFiniteSet(OpenIn(mem))
  BY <1>2, FS_Subset DEF Quota
<1>5. Cardinality(OpenIn(T)) <= MaxActive
  BY <1>2, <1>4, Fewer, ConstantsAssumption DEF Quota
<1>6. ASSUME NEW r \in Requests PROVE Cardinality(PendingFor(T, r)) <= MaxPending
  <2>1. IsFiniteSet(PendingFor(mem, r))
    BY <1>3, FS_Subset DEF Quota
  <2>2. QED
    BY <1>3, <2>1, Fewer, ConstantsAssumption DEF Quota
<1>7. QED
  BY <1>4, <1>5, <1>6 DEF Quota

\* A creation opens one, below the limits, and stops the draft it supersedes.
LEMMA GrownQuota ==
  ASSUME TypeInv, Quota(mem), NEW T, Grown(T)
  PROVE  Quota(T)
<1>1. PICK r \in Requests, s \in Requests \cup {NoRequest} : Created(T, r, s)
  BY DEF Grown
<1>2. ASSUME NEW q \in Requests \ {r}
      PROVE  /\ T[q].status = "absent" <=> mem[q].status = "absent"
             /\ T[q].status \in {"pending", "ready", "unknown"} => q # s /\ T[q] = mem[q]
  <2>1. CASE q = s
    <3>1. T[q] = Cancelling(mem[q], "cancelled") /\ mem[q].status # "absent"
      BY <1>1, <2>1 DEF Created
    <3>2. T[q].status = "cancelling"
      BY <3>1, FieldsOf DEF TypeInv, TypeOK, Finals
    <3>3. QED
      BY <3>1, <3>2
  <2>2. CASE q # s
    BY <1>1, <2>2 DEF Created
  <2>3. QED
    BY <2>1, <2>2
<1>3. Live(T) \subseteq Live(mem) \cup {r}
  BY <1>2 DEF Live
<1>4. IsFiniteSet(Live(T))
  <2>1. IsFiniteSet(Live(mem) \cup {r})
    BY FS_AddElement DEF Quota
  <2>2. QED
    BY <1>3, <2>1, FS_Subset
<1>5. Cardinality(OpenIn(T)) <= MaxActive
  <2>1. OpenIn(T) \subseteq ActiveBut(s) \cup {r}
    BY <1>2 DEF OpenIn, ActiveBut, Others, Active
  <2>2. IsFiniteSet(ActiveBut(s))
    <3>1. ActiveBut(s) \subseteq Live(mem)
      BY DEF ActiveBut, Others, Active, Live
    <3>2. QED
      BY <3>1, FS_Subset DEF Quota
  <2>3. Cardinality(ActiveBut(s)) < MaxActive
    BY <1>1 DEF Created, WithinLimits
  <2>4. QED
    BY <2>1, <2>2, <2>3, OneMore, ConstantsAssumption
<1>6. ASSUME NEW o \in Requests PROVE Cardinality(PendingFor(T, o)) <= MaxPending
  <2>1. CASE Owner[o] = Owner[r]
    <3>1. PendingFor(T, o) \subseteq PendingOf(r, s) \cup {r}
      BY <1>2, <2>1 DEF PendingFor, PendingOf, Others
    <3>2. IsFiniteSet(PendingOf(r, s))
      <4>1. PendingOf(r, s) \subseteq Live(mem)
        BY DEF PendingOf, Others, Live
      <4>2. QED
        BY <4>1, FS_Subset DEF Quota
    <3>3. Cardinality(PendingOf(r, s)) < MaxPending
      BY <1>1 DEF Created, WithinLimits
    <3>4. QED
      BY <3>1, <3>2, <3>3, OneMore, ConstantsAssumption
  <2>2. CASE Owner[o] # Owner[r]
    <3>1. PendingFor(T, o) \subseteq PendingFor(mem, o) /\ PendingFor(mem, o) \subseteq Live(mem)
      BY <1>2, <2>2 DEF PendingFor, Live
    <3>2. IsFiniteSet(PendingFor(mem, o))
      BY <3>1, FS_Subset DEF Quota
    <3>3. QED
      BY <3>1, <3>2, Fewer, ConstantsAssumption DEF Quota
  <2>3. QED
    BY <2>1, <2>2
<1>7. QED
  BY <1>4, <1>5, <1>6 DEF Quota

\* Every step keeps both tables within the quota.
LEMMA QuotaInductive ==
  ASSUME TypeInv, WriteInv, QuotaInv, [Next]_vars
  PROVE  QuotaInv'
<1>1. ASSUME NEW T, Tame(T) \/ Grown(T) PROVE Quota(T)
  BY <1>1, TameQuota, GrownQuota DEF QuotaInv
<1>2. Quota(mem') /\ Quota(disk')
  BY <1>1, TableSteps, AgedMoves DEF StoreStep, Saves, QuotaInv, Crash
<1>3. QED
  BY <1>2 DEF QuotaInv, Quota, Live, PendingFor, OpenIn

\* The first tables are empty.
LEMMA QuotaInit == Init => QuotaInv
<1> SUFFICES ASSUME Init PROVE QuotaInv
  OBVIOUS
<1>1. \A q \in Requests : mem[q].status = "absent" /\ disk[q].status = "absent"
  BY DEF Init, NoEntry
<1>2. /\ Live(mem) = {} /\ Live(disk) = {}
      /\ OpenIn(mem) = {} /\ OpenIn(disk) = {}
      /\ \A r \in Requests : PendingFor(mem, r) = {} /\ PendingFor(disk, r) = {}
  BY <1>1 DEF Live, OpenIn, PendingFor
<1>3. IsFiniteSet({}) /\ Cardinality({}) = 0
  BY FS_EmptySet
<1>4. QED
  BY <1>2, <1>3, ConstantsAssumption DEF QuotaInv, Quota

\* No owner has more drafts under way than the limit, nor all together, whatever
\* is superseded, refused, reopened, half saved or restored after a crash.
THEOREM QuotaKept == Spec => []WithinQuota
<1>1. QuotaInv => WithinQuota
  <2> SUFFICES ASSUME QuotaInv PROVE WithinQuota
    OBVIOUS
  <2>1. Open({"pending", "ready", "unknown"}) = OpenIn(mem)
    BY DEF Open, OpenIn
  <2>2. ASSUME NEW r \in Requests
        PROVE  {q \in Open({"pending"}) : Owner[q] = Owner[r]} = PendingFor(mem, r)
    BY DEF Open, PendingFor
  <2>3. QED
    BY <2>1, <2>2 DEF QuotaInv, Quota, WithinQuota
<1>2. TypeInv /\ WriteInv /\ QuotaInv /\ [Next]_vars => QuotaInv'
  BY QuotaInductive
<1>3. QED
  BY <1>1, <1>2, QuotaInit, WriteInvariant, PTL DEF Spec

-----------------------------------------------------------------------------
(* An external execution is on record before it exists. *)

Preparing == {"new", "start", "draft", "plan"}
Executing == {"create", "observe", "run", "clean", "recover"}
Leaving == {"off", "result", "exit"}

\* The entry names attempt n, or it is closed and nobody reads its work.
Names(e, n) == e.status \in Closed \/ e.work.attempt = n

\* The executions of r among those of b.
ExecutionsOf(b, r) == {n \in Attempts : <<r, n>> \in b}

\* The invariant of one request: m and d its entries in memory and on file, g its
\* generation and B its executions.  What exists is named by both entries, a
\* generation has none before it executes one, and then at most the current one.
OnRecord(m, d, g, B) ==
    /\ g.pc # "off" \/ B # {} => m.status # "absent" /\ d.status # "absent"
    /\ \A n \in B : Names(m, n) /\ Names(d, n)
    /\ g.pc \in Executing => B \subseteq {g.attempt} /\ Names(m, g.attempt) /\ Names(d, g.attempt)
    /\ g.pc \in Preparing => B = {}
RecordInv == \A r \in Requests : OnRecord(mem[r], disk[r], gen[r], ExecutionsOf(box, r))

\* A move of the entry keeps it, whichever of the two copies it reaches.
LEMMA MoveOnRecord ==
  ASSUME NEW r \in Requests, NEW e, Moves(r, e), NEW B,
         OnRecord(mem[r], disk[r], gen[r], B), NEW m \in {mem[r], e}, NEW d \in {disk[r], e}
  PROVE  OnRecord(m, d, gen[r], B)
<1>1. mem[r].status # "absent" => e.status # "absent"
  BY DEF Moves, Drafted, Reviewed, Stopped, CleanedUp, ObservedAs, ResolvedTo, Outcome, Lapsed,
         Closed
<1>2. ASSUME NEW n, Names(mem[r], n), gen[r].pc # "plan",
             gen[r].pc \in Executing => n = gen[r].attempt
      PROVE  Names(e, n)
  <2>1. CASE ObservedAs(r, e)
    BY <1>2, <2>1 DEF ObservedAs, Names, Executing
  <2>2. CASE ~ObservedAs(r, e)
    BY <1>2, <2>2
    DEF Moves, Drafted, Reviewed, Stopped, CleanedUp, ResolvedTo, Lapsed, Closed, Names
  <2>3. QED
    BY <2>1, <2>2
<1>3. ASSUME NEW n \in B PROVE Names(m, n) /\ Names(d, n)
  <2>1. Names(mem[r], n) /\ Names(disk[r], n)
    BY DEF OnRecord
  <2>2. gen[r].pc # "plan" /\ (gen[r].pc \in Executing => n = gen[r].attempt)
    BY DEF OnRecord, Preparing
  <2>3. QED
    BY <1>2, <2>1, <2>2
<1>4. ASSUME gen[r].pc \in Executing
      PROVE  Names(m, gen[r].attempt) /\ Names(d, gen[r].attempt)
  <2>1. Names(mem[r], gen[r].attempt) /\ Names(disk[r], gen[r].attempt) /\ gen[r].pc # "plan"
    BY <1>4 DEF OnRecord, Executing
  <2>2. QED
    BY <1>2, <2>1
<1>5. gen[r].pc # "off" \/ B # {} => m.status # "absent" /\ d.status # "absent"
  BY <1>1 DEF OnRecord
<1>6. QED
  BY <1>3, <1>4, <1>5 DEF OnRecord

\* So does any step of the table.
LEMMA TableOnRecord ==
  ASSUME TypeInv, WriteInv, RecordInv, [Next]_vars, NEW r \in Requests
  PROVE  OnRecord(mem'[r], disk'[r], gen[r], ExecutionsOf(box, r))
<1> DEFINE B == ExecutionsOf(box, r)
<1> HIDE DEF B
<1>1. OnRecord(mem[r], disk[r], gen[r], B)
  BY DEF RecordInv, B
<1>2. CASE Crash
  <2>1. mem' = disk /\ disk' = disk
    BY <1>2 DEF Crash
  <2>2. QED
    BY <1>1, <2>1 DEF OnRecord, B
<1>3. CASE Fresh(r)
  <2>1. gen[r].pc = "off" /\ B = {}
    BY <1>1, <1>3 DEF OnRecord, Fresh, NoEntry
  <2>2. QED
    BY <2>1 DEF OnRecord, Executing, Preparing, B
<1>4. ASSUME NEW e, Moves(r, e), mem'[r] \in {mem[r], e}, disk'[r] \in {disk[r], e}
      PROVE  OnRecord(mem'[r], disk'[r], gen[r], B)
  BY <1>1, <1>4, MoveOnRecord
<1>5. QED
  BY <1>2, <1>3, <1>4, EntrySteps DEF B

\* A generation that stays where it is, leaves, or moves within a phase keeps it,
\* with as many executions as before or fewer.
LEMMA PhaseOnRecord ==
  ASSUME NEW m, NEW d, NEW g, NEW B, OnRecord(m, d, g, B), NEW h, NEW C, C \subseteq B,
         \/ h.pc = g.pc /\ h.attempt = g.attempt
         \/ h.pc \in Leaving /\ (g.pc # "off" \/ h.pc = "off")
         \/ g.pc \in Executing /\ h.pc \in Executing /\ h.attempt = g.attempt
         \/ g.pc \in Preparing /\ h.pc \in Preparing
  PROVE  OnRecord(m, d, h, C)
BY DEF OnRecord, Executing, Preparing, Leaving

\* Where a generation goes, field by field.
LEMMA GoesTo ==
  ASSUME TypeInv, NEW r \in Requests
  PROVE  /\ \A pc : Go(r, pc)[r].pc = pc /\ Go(r, pc)[r].attempt = gen[r].attempt
         /\ \A pc, d : /\ GoWith(r, pc, d)[r].pc = pc
                       /\ GoWith(r, pc, d)[r].attempt = gen[r].attempt
         /\ \A n : Attempt(r, n)[r].pc = "plan" /\ Attempt(r, n)[r].attempt = n
         /\ \A c : Leave(r, c)[r].pc = "exit"
         /\ \A q \in Requests \ {r} :
              /\ \A pc : Go(r, pc)[q] = gen[q]
              /\ \A pc, d : GoWith(r, pc, d)[q] = gen[q]
              /\ \A n : Attempt(r, n)[q] = gen[q]
              /\ \A c : Leave(r, c)[q] = gen[q]
<1>1. gen \in [Requests -> Gen] /\ gen[r] \in Gen
  BY DEF TypeInv, TypeOK
<1>2. \A pc : Go(r, pc)[r].pc = pc /\ Go(r, pc)[r].attempt = gen[r].attempt
  BY <1>1 DEF Go, Gen
<1>3. \A pc, d : /\ GoWith(r, pc, d)[r].pc = pc
                 /\ GoWith(r, pc, d)[r].attempt = gen[r].attempt
  BY <1>1 DEF GoWith, Gen
<1>4. \A n : Attempt(r, n)[r].pc = "plan" /\ Attempt(r, n)[r].attempt = n
  BY <1>1 DEF Attempt, Gen
<1>5. \A c : Leave(r, c)[r].pc = "exit"
  BY <1>1 DEF Leave, Gen
<1>6. \A q \in Requests \ {r} :
        /\ \A pc : Go(r, pc)[q] = gen[q]
        /\ \A pc, d : GoWith(r, pc, d)[q] = gen[q]
        /\ \A n : Attempt(r, n)[q] = gen[q]
        /\ \A c : Leave(r, c)[q] = gen[q]
  BY <1>1 DEF Go, GoWith, Attempt, Leave
<1>7. QED
  BY <1>2, <1>3, <1>4, <1>5, <1>6

\* What a step does to the generation and the executions of one request.
LEMMA GenSteps ==
  ASSUME TypeInv, [Next]_vars, NEW r \in Requests
  PROVE  \/ /\ gen'[r].pc = gen[r].pc /\ gen'[r].attempt = gen[r].attempt
            /\ gen'[r].cleanup = gen[r].cleanup
            /\ ExecutionsOf(box', r) \subseteq ExecutionsOf(box, r)
         \/ Generate(r)
         \/ Crash
         \/ /\ Fresh(r) /\ gen'[r].pc = "new" /\ gen'[r].cleanup = gen[r].cleanup
            /\ box' = box /\ mem'[r] = NewEntry /\ disk'[r] = NewEntry
<1> DEFINE Calmly ==
              /\ gen'[r].pc = gen[r].pc /\ gen'[r].attempt = gen[r].attempt
              /\ gen'[r].cleanup = gen[r].cleanup
              /\ ExecutionsOf(box', r) \subseteq ExecutionsOf(box, r)
<1>1. gen \in [Requests -> Gen] /\ mem \in [Requests -> Entry]
  BY DEF TypeInv, TypeOK
<1>2. CASE box' \subseteq box /\ gen' = gen
  BY <1>2 DEF ExecutionsOf
<1>3. ASSUME box' = box, NEW rs, gen' = CancelContexts(gen, rs) PROVE Calmly
  BY <1>1, <1>3 DEF CancelContexts, Gen
<1>4. CASE UNCHANGED vars
  BY <1>2, <1>4 DEF vars
<1>5. CASE Start \/ \E h \in Handlers : Shutdown(h)
  BY <1>2, <1>5 DEF Start, Shutdown
<1>6. CASE \E q \in Requests : Tick(q) \/ Index(q) \/ ConfirmStep(q)
  BY <1>2, <1>6
  DEF Tick, Index, ConfirmStep, ConfStep, ConfirmRequest, AdoptObject, CreateObject,
      WriteNothing, ReconcileEntry, FinishConfirm
<1>7. CASE \E q \in Requests, w \in Workers : CleanUp(q, w)
  BY <1>2, <1>7
  DEF CleanUp, ReadEntry, DeleteConfirmed, DeleteFails, DeleteRefused, Awaited, AwaitTimesOut,
      MarkCleanupBlocked, FinalizeCleanup
<1>8. CASE GetRequest
  BY <1>3, <1>8 DEF GetRequest
<1>9. CASE \E q \in Requests, h \in Handlers : CancelRequest(h, q) \/ CancelContext(h, q)
  BY <1>2, <1>3, <1>9 DEF CancelRequest, CancelContext
<1>10. ASSUME NEW q \in Requests, Timeout(q) PROVE Calmly
  BY <1>1, <1>10 DEF Timeout, Gen
<1>11. ASSUME NEW q \in Requests \ {r}, Generate(q) PROVE Calmly
  <2>1. box' \subseteq box \cup {<<q, gen[q].attempt>>}
    BY <1>11 DEF Generate, Launch, Begin, Draft, Plan, Create, Observe, Run, Clean, Recover,
                 Result, Exit
  <2>2. gen'[r] = gen[r]
    <3>1. CASE Exit(q)
      BY <1>1, <3>1 DEF Exit
    <3>2. CASE ~Exit(q)
      <4>1. \/ \E pc : gen' = Go(q, pc)
            \/ \E pc, d : gen' = GoWith(q, pc, d)
            \/ \E n : gen' = Attempt(q, n)
            \/ \E c : gen' = Leave(q, c)
        BY <1>11, <3>2
        DEF Generate, Launch, Begin, Draft, Plan, Create, Observe, Run, Clean, Recover,
            Result, Abandon, Conclude, Finished
      <4>2. CASE \E pc : gen' = Go(q, pc)
        BY <4>2, GoesTo
      <4>3. CASE \E pc, d : gen' = GoWith(q, pc, d)
        BY <4>3, GoesTo
      <4>4. CASE \E n : gen' = Attempt(q, n)
        BY <4>4, GoesTo
      <4>5. CASE \E c : gen' = Leave(q, c)
        BY <4>5, GoesTo
      <4>6. QED
        BY <4>1, <4>2, <4>3, <4>4, <4>5
    <3>3. QED
      BY <3>1, <3>2
  <2>3. QED
    BY <2>1, <2>2 DEF ExecutionsOf
<1>12. ASSUME NEW q \in Requests, CreateAnalysisFixRequest(q)
       PROVE  gen' = gen \/ (gen' = Go(q, "new") /\ mem'[q] = NewEntry /\ disk'[q] = NewEntry)
  BY <1>1, <1>12 DEF CreateAnalysisFixRequest, Save, Put
<1>13. ASSUME NEW q \in Requests, NEW h \in Handlers, NEW s \in Requests \cup {NoRequest},
              CreateRequest(h, q, s)
       PROVE  gen' = gen \/ (gen' = Go(q, "new") /\ mem'[q] = NewEntry /\ disk'[q] = NewEntry)
  <2> DEFINE table == [p \in Requests |->
                          CASE p = q -> NewEntry
                            [] p = s -> Cancelling(mem[p], "cancelled")
                            [] OTHER -> mem[p]]
  <2>1. q # s
    BY <1>13, ConstantsAssumption DEF CreateRequest, Supersedable, Fresh, NoEntry
  <2>2. table[q] = NewEntry
    BY <2>1
  <2>3. gen' = gen \/ (Save(table) /\ gen' = Go(q, "new"))
    BY <1>13 DEF CreateRequest
  <2>4. QED
    BY <2>2, <2>3 DEF Save
<1>14. ASSUME NEW q \in Requests,
              \/ CreateAnalysisFixRequest(q)
              \/ \E h \in Handlers, s \in Requests \cup {NoRequest} : CreateRequest(h, q, s)
       PROVE  \/ Calmly
              \/ /\ Fresh(r) /\ gen'[r].pc = "new" /\ gen'[r].cleanup = gen[r].cleanup
                 /\ box' = box /\ mem'[r] = NewEntry /\ disk'[r] = NewEntry
  <2>1. box' = box /\ Fresh(q)
    BY <1>14 DEF CreateAnalysisFixRequest, CreateRequest
  <2>2. gen' = gen \/ (gen' = Go(q, "new") /\ mem'[q] = NewEntry /\ disk'[q] = NewEntry)
    BY <1>12, <1>13, <1>14
  <2>3. CASE gen' = gen
    BY <2>1, <2>3
  <2>4. CASE q # r /\ gen' = Go(q, "new")
    BY <2>1, <2>4, GoesTo
  <2>5. CASE q = r /\ gen' = Go(q, "new") /\ mem'[q] = NewEntry /\ disk'[q] = NewEntry
    <3>1. gen'[r].pc = "new" /\ gen'[r].cleanup = gen[r].cleanup
      BY <1>1, <2>5 DEF Go, Gen
    <3>2. QED
      BY <2>1, <2>5, <3>1
  <2>6. QED
    BY <2>2, <2>3, <2>4, <2>5
<1>15. QED
  BY <1>4, <1>5, <1>6, <1>7, <1>8, <1>9, <1>10, <1>11, <1>14, <1>2 DEF Next

\* The generation's own steps: an execution is planned on record, then created.
LEMMA GenerateRecord ==
  ASSUME TypeInv, WriteInv, RecordInv, NEW r \in Requests, Generate(r)
  PROVE  OnRecord(mem'[r], disk'[r], gen'[r], ExecutionsOf(box', r))
<1>1. [Next]_vars
  BY DEF Next
<1>2. OnRecord(mem'[r], disk'[r], gen[r], ExecutionsOf(box, r))
  BY <1>1, TableOnRecord
<1> DEFINE B == ExecutionsOf(box, r)
           C == ExecutionsOf(box', r)
           a == gen[r].attempt
<1>3. /\ gen' \in [Requests -> Gen] /\ mem[r] \in Entry /\ gen[r] \in Gen
      /\ gen[r].pc \in Working => a \in Attempts
  BY TypeInductive, <1>1 DEF TypeInv, TypeOK, Numbered
<1>4. OnRecord(mem'[r], disk'[r], gen'[r], C)
  <2>1. OnRecord(mem'[r], disk'[r], gen[r], B)
    BY <1>2
  <2>2. ASSUME C \subseteq B,
               \/ gen'[r].pc = gen[r].pc /\ gen'[r].attempt = a
               \/ gen'[r].pc \in Leaving /\ gen[r].pc # "off"
               \/ gen[r].pc \in Executing /\ gen'[r].pc \in Executing /\ gen'[r].attempt = a
               \/ gen[r].pc \in Preparing /\ gen'[r].pc \in Preparing
        PROVE  OnRecord(mem'[r], disk'[r], gen'[r], C)
    BY <2>1, <2>2, PhaseOnRecord
  <2>3. box' \subseteq box => C \subseteq B
    BY DEF ExecutionsOf
  <2>4. CASE Launch(r) \/ Begin(r) \/ Draft(r)
    <3>1. gen[r].pc \in Preparing /\ box' = box
      BY <2>4 DEF Launch, Begin, Draft, GenStep, Preparing
    <3>2. gen'[r].pc \in Preparing \cup Leaving
      BY <2>4, GoesTo DEF Launch, Begin, Draft, Finished, Preparing, Leaving
    <3>3. QED
      BY <2>2, <2>3, <3>1, <3>2 DEF Preparing
  <2>5. CASE Plan(r)
    <3>1. gen[r].pc = "plan" /\ box' = box
      BY <2>5 DEF Plan, GenStep
    <3>2. CASE gen' = Finished(r, "failed")
      BY <2>2, <2>3, <3>1, <3>2, GoesTo DEF Finished, Leaving
    <3>3. CASE Observes(r, FALSE) /\ gen' = Go(r, "create")
      <4> DEFINE w == [attempt |-> a, uid |-> FALSE]
      <4>1. mem'[r] = [mem[r] EXCEPT !.work = w] /\ disk'[r] = mem'[r]
        BY <3>3 DEF Observes, Save, Observed, Put, TypeInv, TypeOK
      <4>2. mem'[r].work.attempt = a /\ disk'[r].work.attempt = a
        BY <1>3, <4>1 DEF Entry
      <4>3. gen'[r].pc = "create" /\ gen'[r].attempt = a
        BY <3>3, GoesTo
      <4>4. B = {} /\ C = B
        BY <2>1, <3>1 DEF OnRecord, Preparing
      <4> HIDE DEF B, C, a
      <4>5. QED
        BY <2>1, <3>1, <4>2, <4>3, <4>4 DEF OnRecord, Preparing, Names
    <3>4. QED
      BY <2>5, <3>2, <3>3 DEF Plan
  <2>6. CASE Create(r)
    <3>1. gen[r].pc = "create"
      BY <2>6 DEF Create, GenStep
    <3>2. CASE box' = box /\ gen' = Go(r, "recover")
      BY <2>2, <2>3, <3>1, <3>2, GoesTo DEF Executing
    <3>3. CASE box' = box \cup {<<r, a>>} /\ gen' = Go(r, "observe")
      <4>1. C \subseteq B \cup {a}
        BY <3>3 DEF ExecutionsOf
      <4>2. gen'[r].pc = "observe" /\ gen'[r].attempt = a
        BY <3>3, GoesTo
      <4> HIDE DEF B, C, a
      <4>3. B \subseteq {a} /\ Names(mem'[r], a) /\ Names(disk'[r], a)
        BY <2>1, <3>1 DEF OnRecord, Executing, a
      <4>4. mem'[r].status # "absent" /\ disk'[r].status # "absent"
        BY <2>1, <3>1 DEF OnRecord
      <4>5. QED
        BY <4>1, <4>2, <4>3, <4>4 DEF OnRecord, Preparing
    <3>4. QED
      BY <2>6, <3>2, <3>3 DEF Create
  <2>7. CASE Observe(r) \/ Run(r)
    <3>1. gen[r].pc \in Executing /\ box' = box
      BY <2>7 DEF Observe, Run, GenStep, Executing
    <3>2. gen'[r].pc \in Executing /\ gen'[r].attempt = a
      <4>1. \/ \E pc \in {"run", "recover"} : gen' = Go(r, pc)
            \/ \E d : gen' = GoWith(r, "clean", d)
        BY <2>7 DEF Observe, Run
      <4>2. CASE \E pc \in {"run", "recover"} : gen' = Go(r, pc)
        BY <4>2, GoesTo DEF Executing
      <4>3. CASE \E d : gen' = GoWith(r, "clean", d)
        BY <4>3, GoesTo DEF Executing
      <4>4. QED
        BY <4>1, <4>2, <4>3
    <3>3. QED
      BY <2>2, <2>3, <3>1, <3>2
  <2>8. CASE Clean(r)
    <3>1. gen[r].pc = "clean"
      BY <2>8 DEF Clean, GenStep
    <3>2. CASE \E d : gen' = Finished(r, d)
      <4>1. box' \subseteq box
        BY <2>8 DEF Clean
      <4>2. QED
        BY <2>2, <2>3, <3>1, <3>2, <4>1, GoesTo DEF Finished, Leaving
    <3>3. CASE box' = box \ {<<r, a>>} /\ gen' = Attempt(r, a + 1)
      <4>1. C \subseteq B \ {a}
        BY <3>3 DEF ExecutionsOf
      <4>2. gen'[r].pc = "plan"
        BY <3>3, GoesTo
      <4> HIDE DEF B, C, a
      <4>3. B \subseteq {a}
        BY <2>1, <3>1 DEF OnRecord, Executing, a
      <4>4. C = {}
        BY <4>1, <4>3
      <4>5. mem'[r].status # "absent" /\ disk'[r].status # "absent"
        BY <2>1, <3>1 DEF OnRecord
      <4>6. QED
        BY <4>2, <4>4, <4>5 DEF OnRecord, Executing
    <3>4. QED
      BY <2>8, <3>2, <3>3 DEF Clean
  <2>9. CASE Recover(r)
    <3>1. gen[r].pc = "recover" /\ box' \subseteq box
      BY <2>9 DEF Recover, GenStep
    <3>2. gen'[r].pc \in Leaving
      <4>1. \E d : gen' = GoWith(r, "result", d)
        BY <2>9 DEF Recover, Finished
      <4>2. QED
        BY <4>1, GoesTo DEF Leaving
    <3>3. QED
      BY <2>2, <2>3, <3>1, <3>2
  <2>10. CASE Result(r)
    <3>1. gen[r].pc = "result" /\ box' = box
      BY <2>10 DEF Result
    <3>2. gen'[r].pc \in Leaving
      <4>1. \E c : gen' = Leave(r, c)
        BY <2>10 DEF Result, Abandon, Conclude
      <4>2. QED
        BY <4>1, GoesTo DEF Leaving
    <3>3. QED
      BY <2>2, <2>3, <3>1, <3>2
  <2>11. CASE Exit(r)
    <3>1. gen[r].pc = "exit" /\ gen'[r].pc = "off" /\ box' = box
      BY <2>11 DEF Exit, GenOff, TypeInv, TypeOK
    <3>2. QED
      BY <2>2, <2>3, <3>1 DEF Leaving
  <2>12. QED
    BY <2>4, <2>5, <2>6, <2>7, <2>8, <2>9, <2>10, <2>11 DEF Generate
<1>5. QED
  BY <1>4

\* Every step of the server keeps the invariant.
LEMMA RecordInductive == TypeInv /\ WriteInv /\ RecordInv /\ [Next]_vars => RecordInv'
<1> SUFFICES ASSUME TypeInv, WriteInv, RecordInv, [Next]_vars,
                    NEW r \in Requests
             PROVE  OnRecord(mem'[r], disk'[r], gen'[r], ExecutionsOf(box', r))
  BY DEF RecordInv
<1>1. OnRecord(mem'[r], disk'[r], gen[r], ExecutionsOf(box, r))
  BY TableOnRecord
<1>2. CASE /\ gen'[r].pc = gen[r].pc /\ gen'[r].attempt = gen[r].attempt
           /\ ExecutionsOf(box', r) \subseteq ExecutionsOf(box, r)
  BY <1>1, <1>2, PhaseOnRecord
<1>3. CASE Crash
  BY <1>1, <1>3, PhaseOnRecord DEF Crash, GenOff, Leaving
<1>4. CASE /\ Fresh(r) /\ gen'[r].pc = "new"
           /\ box' = box /\ mem'[r] = NewEntry /\ disk'[r] = NewEntry
  <2>1. ExecutionsOf(box, r) = {}
    BY <1>4 DEF RecordInv, OnRecord, Fresh, NoEntry
  <2>2. mem'[r].status = "pending" /\ disk'[r].status = "pending"
    BY <1>4 DEF NewEntry, NoEntry
  <2>3. QED
    BY <1>4, <2>1, <2>2 DEF OnRecord, Executing
<1>5. QED
  BY <1>2, <1>3, <1>4, GenSteps, GenerateRecord

\* The invariant of the executions holds in every reachable state.
LEMMA RecordInvariant == Spec => [](TypeInv /\ WriteInv /\ RecordInv)
<1>1. Init => RecordInv
  BY DEF Init, RecordInv, OnRecord, ExecutionsOf, GenOff, Executing
<1>2. QED
  BY <1>1, RecordInductive, WriteInvariant, PTL DEF Spec

\* An external execution is named in the file before it exists, and as long as a
\* restart has to clean it up, for either runtime and whatever fails.
THEOREM ExecutionsOnRecord == Spec => []RecordedBeforeCreated
<1>1. RecordInv => RecordedBeforeCreated
  BY DEF RecordInv, OnRecord, Names, Closed, ExecutionsOf, RecordedBeforeCreated
<1>2. QED
  BY <1>1, RecordInvariant, PTL

-----------------------------------------------------------------------------
(* One object for a target, if GitHub's search sees what was created. *)

\* An object exists for the target of r.
FiledFor(r) == \E q \in Requests : SameTarget(q, r) /\ made[q] > 0

\* What is found, tracked or reported as done exists; and where the search index
\* does not lag, what exists is found, so that it is not created again.
ObjectsExist ==
    \A r \in Requests : r \in seen \/ r \in tracked \/ conf[r] = "done" => FiledFor(r)
ObjectsAreSeen == \A r \in Requests : made[r] > 0 => r \in seen /\ made[r] = 1
ObjectInv == ObjectsExist /\ (~SearchLag => ObjectsAreSeen /\ OneObjectPerTarget)

\* GitHub and the confirmations change hands in the confirmation's own steps.
LEMMA GitHubStep ==
  ASSUME [Next]_vars
  PROVE  \/ UNCHANGED <<made, seen, tracked, conf>>
         \/ Crash
         \/ \E r \in Requests : ConfirmStep(r) \/ Index(r)
<1>1. CASE \E r \in Requests : Generate(r) \/ Timeout(r)
  BY <1>1
  DEF Generate, Timeout, GenStep, Launch, Begin, Draft, Plan, Create, Observe, Run, Clean,
      Recover, Result, Exit, github
<1>2. CASE \E r \in Requests, w \in Workers : CleanUp(r, w)
  BY <1>2
  DEF CleanUp, TaskStep, ReadEntry, DeleteConfirmed, DeleteFails, DeleteRefused, Awaited,
      AwaitTimesOut, MarkCleanupBlocked, FinalizeCleanup, github
<1>3. CASE \E r \in Requests : Tick(r)
  BY <1>3 DEF Tick, github
<1>4. CASE GetRequest \/ Start \/ \E h \in Handlers : Shutdown(h)
  BY <1>4 DEF GetRequest, Start, Shutdown, github
<1>5. CASE \E r \in Requests, h \in Handlers : CancelRequest(h, r) \/ CancelContext(h, r)
  BY <1>5 DEF CancelRequest, CancelContext, github
<1>6. CASE \E r \in Requests :
              \/ CreateAnalysisFixRequest(r)
              \/ \E h \in Handlers, s \in Requests \cup {NoRequest} : CreateRequest(h, r, s)
  BY <1>6 DEF CreateAnalysisFixRequest, CreateRequest, github
<1>7. CASE UNCHANGED vars
  BY <1>7 DEF vars
<1>8. QED
  BY <1>1, <1>2, <1>3, <1>4, <1>5, <1>6, <1>7 DEF Next

\* Objects are counted by one action.
LEMMA MadeStep ==
  ASSUME [Next]_vars, \A r \in Requests : ~CreateObject(r)
  PROVE  UNCHANGED made
<1>1. ASSUME NEW r \in Requests, ConfirmStep(r) \/ Index(r) PROVE UNCHANGED made
  BY <1>1
  DEF ConfirmStep, Index, ConfirmRequest, AdoptObject, WriteNothing, ReconcileEntry,
      FinishConfirm, github
<1>2. QED
  BY <1>1, GitHubStep DEF Crash, github

\* No step files a second object for a target.
LEMMA ObjectInductive ==
  ASSUME TypeInv, ObjectInv, [Next]_vars
  PROVE  ObjectInv'
<1>1. /\ made \in [Requests -> Nat] /\ conf \in [Requests -> ConfStates]
      /\ seen \subseteq Requests /\ tracked \subseteq Requests
  BY DEF TypeInv, TypeOK, ConfStates
<1>2. CASE UNCHANGED <<made, seen, tracked>> /\ \A r \in Requests : conf'[r] = "done" => conf[r] = "done"
  BY <1>2 DEF ObjectInv, ObjectsExist, FiledFor, ObjectsAreSeen, OneObjectPerTarget
<1>3. CASE Crash
  BY <1>2, <1>3 DEF Crash, github
<1>4. ASSUME NEW r \in Requests, ConfirmStep(r) PROVE ObjectInv'
  <2>1. CASE ConfirmRequest(r) \/ WriteNothing(r) \/ FinishConfirm(r)
    BY <1>1, <1>2, <2>1
    DEF ConfirmRequest, BeginWrite, WriteNothing, FinishConfirm, Confirm, github
  <2>2. CASE AdoptObject(r) \/ ReconcileEntry(r)
    <3>1. UNCHANGED <<made, seen>> /\ tracked' \subseteq tracked \cup {r}
      BY <2>2 DEF AdoptObject, ReconcileEntry, TrackAndReport, github
    <3>2. \A q \in Requests \ {r} : conf'[q] = conf[q]
      BY <1>1, <2>2 DEF AdoptObject, ReconcileEntry, TrackAndReport, Confirm
    <3>3. r \in tracked' \/ conf'[r] = "done" => FiledFor(r)
      <4>1. CASE Found(r) \/ Tracked(r)
        <5>1. PICK q \in seen \cup tracked : SameTarget(q, r)
          BY <4>1 DEF Found, Tracked
        <5>2. FiledFor(q)
          BY <1>1, <5>1 DEF ObjectInv, ObjectsExist
        <5>3. QED
          BY <5>1, <5>2 DEF FiledFor, SameTarget
      <4>2. CASE ~Found(r) /\ ~Tracked(r)
        <5>1. Confirm(r, "lost") /\ UNCHANGED tracked
          BY <2>2, <4>2 DEF AdoptObject, ReconcileEntry, github
        <5>2. conf'[r] = "lost"
          BY <1>1, <5>1 DEF Confirm
        <5>3. QED
          BY <5>1, <5>2 DEF ObjectInv, ObjectsExist
      <4>3. QED
        BY <4>1, <4>2
    <3>4. ObjectsExist'
      BY <3>1, <3>2, <3>3 DEF ObjectInv, ObjectsExist, FiledFor
    <3>5. QED
      BY <3>1, <3>4 DEF ObjectInv, ObjectsAreSeen, OneObjectPerTarget
  <2>3. CASE CreateObject(r)
    <3>1. /\ made' = [made EXCEPT ![r] = @ + 1]
          /\ seen' \subseteq seen \cup {r} /\ seen \subseteq seen'
          /\ tracked' \subseteq tracked \cup {r}
          /\ ~SearchLag => seen' = seen \cup {r}
      BY <2>3 DEF CreateObject, TrackAndReport
    <3>2. \A q \in Requests \ {r} : conf'[q] = conf[q]
      BY <1>1, <2>3 DEF CreateObject, TrackAndReport, Confirm
    <3>3. \A q \in Requests : made[q] > 0 => made'[q] > 0
      BY <1>1, <3>1
    <3>4. made'[r] > 0 /\ made'[r] = made[r] + 1 /\ \A q \in Requests \ {r} : made'[q] = made[q]
      BY <1>1, <3>1
    <3>5. ObjectsExist'
      <4>1. \A q \in Requests : FiledFor(q) => FiledFor(q)'
        BY <3>3 DEF FiledFor
      <4>2. FiledFor(r)'
        BY <3>4 DEF FiledFor, SameTarget
      <4>3. QED
        BY <3>1, <3>2, <4>1, <4>2 DEF ObjectInv, ObjectsExist
    <3>6. ASSUME ~SearchLag PROVE ObjectsAreSeen' /\ OneObjectPerTarget'
      <4>1. \A q \in Requests : SameTarget(q, r) => made[q] = 0
        <5>1. ASSUME NEW q \in Requests, SameTarget(q, r) PROVE ~(made[q] > 0)
          BY <2>3, <3>6, <5>1 DEF CreateObject, Found, ObjectInv, ObjectsAreSeen
        <5>2. QED
          BY <1>1, <5>1
      <4>2. made[r] = 0
        BY <4>1 DEF SameTarget
      <4>3. ObjectsAreSeen'
        BY <3>1, <3>4, <3>6, <4>2 DEF ObjectInv, ObjectsAreSeen
      <4>4. ASSUME NEW p \in Requests, NEW q \in Requests, p # q, SameTarget(p, q)
            PROVE  made'[p] + made'[q] <= 1
        <5>1. CASE p = r
          BY <3>4, <4>1, <4>2, <4>4, <5>1 DEF SameTarget
        <5>2. CASE q = r
          BY <3>4, <4>1, <4>2, <4>4, <5>2 DEF SameTarget
        <5>3. CASE p # r /\ q # r
          BY <3>4, <3>6, <4>4, <5>3 DEF ObjectInv, OneObjectPerTarget
        <5>4. QED
          BY <5>1, <5>2, <5>3
      <4>5. QED
        BY <4>3, <4>4 DEF OneObjectPerTarget
    <3>7. QED
      BY <3>5, <3>6 DEF ObjectInv
  <2>4. QED
    BY <1>4, <2>1, <2>2, <2>3 DEF ConfirmStep
<1>5. ASSUME NEW r \in Requests, Index(r) PROVE ObjectInv'
  <2>1. made[r] > 0 /\ seen' = seen \cup {r} /\ UNCHANGED <<made, tracked, conf>>
    BY <1>5 DEF Index
  <2>2. FiledFor(r)
    BY <2>1 DEF FiledFor, SameTarget
  <2>3. QED
    BY <2>1, <2>2 DEF ObjectInv, ObjectsExist, FiledFor, ObjectsAreSeen, OneObjectPerTarget
<1>6. QED
  BY <1>2, <1>3, <1>4, <1>5, GitHubStep

\* The invariant of the objects holds in every reachable state.
LEMMA ObjectInvariant == Spec => [](TypeInv /\ WriteInv /\ ObjectInv)
<1>1. Init => ObjectInv
  BY DEF Init, ObjectInv, ObjectsExist, ObjectsAreSeen, OneObjectPerTarget
<1>2. TypeInv /\ ObjectInv /\ [Next]_vars => ObjectInv'
  BY ObjectInductive
<1>3. QED
  BY <1>1, <1>2, WriteInvariant, PTL DEF Spec

\* Drafts of several admins for one failure become one GitHub object, if its
\* search sees what was created, even where the tracking state is not saved.
THEOREM OneObject == Spec => [](~SearchLag => OneObjectPerTarget)
<1>1. ObjectInv => (~SearchLag => OneObjectPerTarget)
  BY DEF ObjectInv
<1>2. QED
  BY <1>1, ObjectInvariant, PTL

-----------------------------------------------------------------------------
(* The request file keeps the promise, where saves do not fail. *)

\* Memory is ahead of the file by an expiry that nobody saved (GetRequest).
Ahead(d, m) ==
    \/ m = d
    \/ d = "pending" /\ m = "cancelling"
    \/ d \notin {"absent", "pending", "cancelling"} /\ m = "expired"
AheadInv == \A r \in Requests : Ahead(disk[r].status, mem[r].status)

\* Where saves do not fail, memory and file part in no other way.
LEMMA AheadInductive ==
  ASSUME TypeInv, WriteInv, AheadInv, MaxSaveFaults = 0, [Next]_vars
  PROVE  AheadInv'
<1>1. ~(saveFaults < MaxSaveFaults)
  BY DEF TypeInv, TypeOK
<1>2. CASE mem' = disk' \/ UNCHANGED <<mem, disk>>
  BY <1>2 DEF AheadInv, Ahead
<1>3. CASE mem' = Aged /\ disk' = disk
  <2>1. ASSUME NEW q \in Requests PROVE Ahead(disk[q].status, Aged[q].status)
    BY AgedMoves DEF AheadInv, Ahead, Lapsed
  <2>2. QED
    BY <1>3, <2>1 DEF AheadInv
<1>4. CASE Crash
  BY <1>4 DEF Crash, AheadInv, Ahead
<1>5. QED
  BY <1>1, <1>2, <1>3, <1>4, TableSteps DEF StoreStep, Saves

\* The phases of the promise, read off the statuses.
LEMMA Phase ==
  ASSUME NEW s \in Statuses
  PROVE  /\ PhaseOf(s) \in Promise!Phases
         /\ s = "absent" => PhaseOf(s) = "absent"
         /\ s = "pending" => PhaseOf(s) = "drafting"
         /\ s = "cancelling" => PhaseOf(s) = "stopping"
         /\ s = "ready" => PhaseOf(s) = "ready"
         /\ s = "unknown" => PhaseOf(s) = "doubt"
         /\ s = "confirmed" => PhaseOf(s) = "done"
         /\ s \in Closed => PhaseOf(s) = "closed"
BY DEF PhaseOf, Statuses, Closed, Promise!Phases

\* A move of the entry in memory, once it is on file, is a move of the promise.
LEMMA PhaseMove ==
  ASSUME TypeInv, WriteInv, ObjectInv, AllTrack, NEW r \in Requests,
         Ahead(disk[r].status, mem[r].status), NEW e, e.status \in Statuses, Moves(r, e)
  PROVE  \/ PhaseOf(e.status) = PhaseOf(disk[r].status)
         \/ <<PhaseOf(disk[r].status), PhaseOf(e.status)>> \in Promise!Moves
         \/ /\ PhaseOf(disk[r].status) = "doubt"
            /\ \/ PhaseOf(e.status) = "done" /\ FiledFor(r)
               \/ PhaseOf(e.status) = "ready" /\ made[r] = 0
<1> DEFINE d == disk[r].status
           m == mem[r].status
<1>1. d \in Statuses /\ m \in Statuses /\ made[r] \in Nat
  BY DEF TypeInv, TypeOK, Entry
<1>2. ASSUME NEW s \in Statuses, NEW t \in Statuses,
             \/ s = t
             \/ s = "pending" /\ t \in {"ready", "cancelling"} \cup Closed
             \/ s = "ready" /\ t \in {"unknown", "cancelling"} \cup Closed
             \/ s = "cancelling" /\ t \in Closed
             \/ s \in {"unknown", "confirmed"} \cup Closed /\ t = "expired"
      PROVE  PhaseOf(s) = PhaseOf(t) \/ <<PhaseOf(s), PhaseOf(t)>> \in Promise!Moves
  BY <1>2, Phase DEF Closed, Promise!Moves
<1>3. CASE ResolvedTo(r, e)
  <2>1. d = "unknown"
    BY <1>3 DEF ResolvedTo, Ahead
  <2>2. CASE conf[r] = "done"
    <3>1. FiledFor(r) /\ e.status = "confirmed"
      BY <1>3, <2>2 DEF ResolvedTo, Outcome, ObjectInv, ObjectsExist
    <3>2. QED
      BY <2>1, <3>1, Phase, <1>1
  <2>3. CASE conf[r] = "refused"
    <3>1. made[r] = 0
      BY <1>1, <2>3 DEF WriteInv, WrittenOnce, AllTrack
    <3>2. e.status = "ready"
      BY <1>3, <2>3 DEF ResolvedTo, Outcome
    <3>3. QED
      BY <2>1, <3>1, <3>2, Phase, <1>1
  <2>4. QED
    BY <1>3, <2>2, <2>3 DEF ResolvedTo
<1>4. CASE ~ResolvedTo(r, e)
  <2>1. \/ e.status = m
        \/ m = "pending" /\ e.status \in {"ready", "cancelling"} \cup Closed
        \/ m = "ready" /\ e.status \in {"unknown", "cancelling"} \cup Closed
        \/ m = "cancelling" /\ e.status \in Closed
        \/ m \notin {"absent", "pending", "cancelling"} /\ e.status = "expired"
    BY <1>4
    DEF Moves, Drafted, Reviewed, Stopped, CleanedUp, ObservedAs, Lapsed, Closed
  <2>2. \/ e.status = d
        \/ d = "pending" /\ e.status \in {"ready", "cancelling"} \cup Closed
        \/ d = "ready" /\ e.status \in {"unknown", "cancelling"} \cup Closed
        \/ d = "cancelling" /\ e.status \in Closed
        \/ d \in {"unknown", "confirmed"} \cup Closed /\ e.status = "expired"
    BY <1>1, <2>1 DEF Ahead, Closed, Statuses
  <2>3. QED
    BY <1>1, <1>2, <2>2
<1>5. QED
  BY <1>3, <1>4

\* What the promise calls phase.
phases == [r \in Requests |-> PhaseOf(disk[r].status)]

\* A save is a move of the promise, of one request or of several at once.
LEMMA SaveIsMove ==
  ASSUME TypeInv, WriteInv, ObjectInv, AheadInv, AllTrack, NEW T, Tame(T) \/ Grown(T),
         disk' = T, \A r \in Requests : T[r].status \in Statuses, UNCHANGED made
  PROVE  Promise!Move
<1>1. ASSUME NEW r \in Requests
      PROVE  \/ PhaseOf(T[r].status) = PhaseOf(disk[r].status)
             \/ <<PhaseOf(disk[r].status), PhaseOf(T[r].status)>> \in Promise!Moves
             \/ /\ PhaseOf(disk[r].status) = "doubt"
                /\ \/ PhaseOf(T[r].status) = "done" /\ FiledFor(r)
                   \/ PhaseOf(T[r].status) = "ready" /\ made[r] = 0
  <2>1. CASE Moves(r, T[r])
    BY <2>1, PhaseMove DEF AheadInv
  <2>2. CASE Grown(T)
    <3>1. PICK q \in Requests, s \in Requests \cup {NoRequest} : Created(T, q, s)
      BY <2>2 DEF Grown
    <3>2. CASE r = q
      <4>1. disk[r].status = "absent" /\ T[r].status = "pending"
        BY <3>1, <3>2 DEF Created, Fresh, NoEntry, NewEntry
      <4>2. PhaseOf(disk[r].status) = "absent" /\ PhaseOf(T[r].status) = "drafting"
        BY <4>1 DEF PhaseOf
      <4>3. QED
        BY <4>2 DEF Promise!Moves
    <3>3. CASE r # q /\ r = s
      <4>1. T[r] = Cancelling(mem[r], "cancelled") /\ mem[r].status \in {"pending", "ready"}
        BY <3>1, <3>3 DEF Created
      <4>2. T[r].status = "cancelling" /\ T[r].work = mem[r].work
        BY <4>1, FieldsOf DEF TypeInv, TypeOK, Finals
      <4>3. QED
        BY <2>1, <4>1, <4>2 DEF Moves, Drafted, Reviewed
    <3>4. CASE r # q /\ r # s
      BY <2>1, <3>1, <3>4 DEF Created, Moves
    <3>5. QED
      BY <3>2, <3>3, <3>4
  <2>3. QED
    BY <2>1, <2>2 DEF Tame
<1>2. phases' \in [Requests -> Promise!Phases]
  BY Phase DEF phases
<1>3. \A r \in Requests :
        /\ phases[r] = PhaseOf(disk[r].status)
        /\ phases'[r] = PhaseOf(T[r].status)
        /\ FiledFor(r) => Promise!Filed(r)
  BY DEF phases, FiledFor, SameTarget, Promise!Filed
<1>4. ASSUME NEW r \in Requests
      PROVE  \/ phases'[r] = phases[r]
             \/ <<phases[r], phases'[r]>> \in Promise!Moves
             \/ Promise!Resolved(r)
  BY <1>1, <1>3 DEF Promise!Resolved, phases
<1>5. QED
  BY <1>2, <1>4 DEF Promise!Move, phases

\* Every step of the server is a step of the promise.
LEMMA PromiseStep ==
  ASSUME TypeInv, WriteInv, ObjectInv, AheadInv, AllTrack, ~SearchLag, MaxSaveFaults = 0,
         [Next]_vars
  PROVE  [Promise!Next]_<<phases, made>>
<1>1. ~(saveFaults < MaxSaveFaults)
  BY DEF TypeInv, TypeOK
<1>2. \A r \in Requests : disk'[r].status \in Statuses
  BY TypeInductive DEF TypeInv, TypeOK, Entry
<1>3. CASE \E r \in Requests : CreateObject(r)
  <2>1. PICK r \in Requests : CreateObject(r)
    BY <1>3
  <2>2. /\ conf[r] = "write" /\ disk' = disk /\ ~Found(r)
        /\ made' = [made EXCEPT ![r] = @ + 1]
    BY <2>1 DEF CreateObject, ConfStep, store
  <2>3. disk[r].status = "unknown"
    BY <2>2 DEF WriteInv, DoubtIsKnown, DoubtIsSaved
  <2>4. made \in [Requests -> Nat]
    BY DEF TypeInv, TypeOK
  <2>5. ASSUME NEW q \in Requests, SameTarget(q, r) PROVE ~(made[q] > 0)
    BY <2>2, <2>5 DEF Found, ObjectInv, ObjectsAreSeen
  <2>6. ~Promise!Filed(r)
    BY <2>5 DEF Promise!Filed, SameTarget
  <2>7. made[r] = 0
    BY <2>4, <2>5 DEF SameTarget
  <2>8. phases[r] = "doubt" /\ phases' = phases
    BY <2>2, <2>3 DEF phases, PhaseOf
  <2>9. made' = [made EXCEPT ![r] = 1]
    BY <2>2, <2>7
  <2>10. Promise!File(r)
    BY <2>6, <2>8, <2>9 DEF Promise!File, phases
  <2>11. QED
    BY <2>10 DEF Promise!Next
<1>4. CASE \A r \in Requests : ~CreateObject(r)
  <2>1. UNCHANGED made
    BY <1>4, MadeStep
  <2>2. CASE disk' = disk
    BY <2>1, <2>2 DEF phases
  <2>3. ASSUME NEW T, Tame(T) \/ Grown(T), disk' = T PROVE Promise!Move
    BY <1>2, <2>1, <2>3, SaveIsMove
  <2>4. QED
    BY <1>1, <2>2, <2>3, TableSteps DEF StoreStep, Saves, Crash, Promise!Next
<1>5. QED
  BY <1>3, <1>4

\* The request file keeps the promise: requests go through their phases in order,
\* and one object is filed for a target, out of a doubt that is on file.  Saves
\* must not fail, GitHub's search must not lag, and the tracking state must be
\* saved where there is one: the cases in which a retry finds what exists.
THEOREM FileKeepsPromise ==
  ASSUME MaxSaveFaults = 0, ~SearchLag, AllTrack
  PROVE  Spec => KeepsPromise
<1>1. Init => AheadInv
  BY DEF Init, AheadInv, Ahead
<1>2. TypeInv /\ WriteInv /\ AheadInv /\ [Next]_vars => AheadInv'
  BY AheadInductive
<1>3. Init => Promise!Init
  BY DEF Init, Promise!Init, PhaseOf, NoEntry
<1>4. TypeInv /\ WriteInv /\ ObjectInv /\ AheadInv /\ [Next]_vars
        => [Promise!Next]_<<phases, made>>
  BY PromiseStep
<1>5. QED
  BY <1>1, <1>2, <1>3, <1>4, ObjectInvariant, PTL DEF Spec, KeepsPromise, Promise!Spec, phases

-----------------------------------------------------------------------------
(* A cancelled request leaves no execution, where it runs at most one. *)

OneExecution == \A r \in Requests : MaxAttemptsFor(r) <= 1

\* The generation of r may yet create an execution.  Its end is stable.
CanCreate(r) ==
    \/ gen[r].pc \in {"draft", "plan", "create"}
    \/ gen[r].pc \in {"new", "start"} /\ mem[r].status = "pending"
Over(r) == ExecutionsOf(box, r) = {} /\ ~CanCreate(r)
Ending == {"cancelling"} \cup Closed

\* What a cleanup knows: it ends a request that is being stopped; if it waited for
\* the generation, found none to wait for, or saw the UID, none will be created;
\* and it reports "cancelled" only of what is over.  On Orka, which deletes what has
\* no UID, it is never refused, and whatever it reports is over.
KnownBy(r, t) ==
    /\ t.pc # "off" => mem[r].status \in Ending
    /\ t.pc \in {"read", "delete", "await", "block", "finalize"} /\ t.waited => ~CanCreate(r)
    /\ t.pc \in {"delete", "await"} /\ (~t.waits \/ t.work.uid) => ~CanCreate(r)
    /\ t.pc = "delete" => t.work.attempt = 1
    /\ t.pc = "block" => Backend # "orka"
    /\ t.pc = "finalize" =>
        \/ Over(r)
        \/ /\ Backend # "orka"
           /\ mem[r].status # "cancelling" \/ mem[r].final \notin {"none", "cancelled"}
FirstWork(e) == e.work = NoWork \/ e.work.attempt = 1

\* The invariant: there is one execution to speak of, a UID is known after it was
\* created, "cancelled" is said of what is over, and cleanups know what they know.
FirstOnly ==
    \A r \in Requests :
        /\ ExecutionsOf(box, r) \subseteq {1}
        /\ gen[r].pc \in Executing \cup {"plan"} => gen[r].attempt = 1
        /\ FirstWork(mem[r]) /\ FirstWork(disk[r])
UidIsLate == \A r \in Requests : mem[r].work.uid \/ disk[r].work.uid => ~CanCreate(r)
CancelledIsOver ==
    \A r \in Requests :
        mem[r].status = "cancelled" \/ disk[r].status = "cancelled" => Over(r)
CleanupIsDue == \A r \in Requests : gen[r].cleanup => mem[r].status \in Ending
CleanupsKnow == \A r \in Requests, w \in Workers : KnownBy(r, task[r][w])
DownIsIdle ==
    server = "down" =>
        /\ mem = disk
        /\ \A r \in Requests :
            /\ gen[r].pc = "off" /\ conf[r] = "off"
            /\ \A w \in Workers : task[r][w].pc = "off"
EndInv ==
    FirstOnly /\ UidIsLate /\ CancelledIsOver /\ CleanupIsDue /\ CleanupsKnow /\ DownIsIdle

\* A request that is past its draft, or being stopped, stays so; and what it was
\* decided to end as is not softened.
LEMMA EndsOnce ==
  ASSUME TypeInv, WriteInv, [Next]_vars, ~Crash, NEW r \in Requests
  PROVE  /\ mem[r].status \notin {"absent", "pending"} =>
                mem'[r].status \notin {"absent", "pending"}
         /\ mem[r].status \in Ending => mem'[r].status \in Ending
         /\ /\ mem[r].status \in Ending
            /\ mem[r].status # "cancelling" \/ mem[r].final \notin {"none", "cancelled"}
            => mem'[r].status # "cancelling" \/ mem'[r].final \notin {"none", "cancelled"}
<1>1. ASSUME NEW e, Moves(r, e)
      PROVE  /\ mem[r].status \notin {"absent", "pending"} => e.status \notin {"absent", "pending"}
             /\ mem[r].status \in Ending => e.status \in Ending
             /\ /\ mem[r].status \in Ending
                /\ mem[r].status # "cancelling" \/ mem[r].final \notin {"none", "cancelled"}
                => e.status # "cancelling" \/ e.final \notin {"none", "cancelled"}
  BY <1>1
  DEF Moves, Drafted, Reviewed, Stopped, CleanedUp, ObservedAs, ResolvedTo, Outcome, Lapsed,
      Closed, Ending
<1>2. CASE Fresh(r)
  BY <1>2 DEF Fresh, NoEntry, Ending, Closed
<1>3. QED
  BY <1>1, <1>2, EntrySteps

\* A generation that can create nothing more never will, as its only execution
\* is behind it, and nothing but it creates one.
LEMMA NoMore ==
  ASSUME TypeInv, WriteInv, RecordInv, FirstOnly, OneExecution, [Next]_vars,
         NEW r \in Requests, ~CanCreate(r), ~Fresh(r)
  PROVE  ~CanCreate(r)' /\ ExecutionsOf(box', r) \subseteq ExecutionsOf(box, r)
<1>1. CASE Crash
  BY <1>1 DEF Crash, GenOff, CanCreate
<1>2. ASSUME ~Crash, gen[r].pc \in {"new", "start"}
      PROVE  mem[r].status # "pending" /\ mem'[r].status # "pending"
  <2>1. mem[r].status \notin {"absent", "pending"}
    BY <1>2 DEF CanCreate, RecordInv, OnRecord
  <2>2. QED
    BY <1>2, <2>1, EndsOnce
<1>3. CASE /\ ~Crash /\ gen'[r].pc = gen[r].pc
           /\ ExecutionsOf(box', r) \subseteq ExecutionsOf(box, r)
  BY <1>2, <1>3 DEF CanCreate
<1>4. CASE ~Crash /\ Generate(r)
  <2>1. gen[r].pc \notin {"draft", "plan", "create"}
    BY DEF CanCreate
  <2>2. ExecutionsOf(box', r) \subseteq ExecutionsOf(box, r)
    <3>1. box' \subseteq box
      BY <1>4, <2>1
      DEF Generate, Launch, Begin, Draft, Plan, Create, Observe, Run, Clean, Recover, Result,
          Exit, GenStep
    <3>2. QED
      BY <3>1 DEF ExecutionsOf
  <2>3. CASE Launch(r)
    <3>1. gen[r].pc = "new" /\ gen'[r].pc = "start"
      BY <2>3, GoesTo DEF Launch, GenStep
    <3>2. QED
      BY <1>2, <1>4, <2>2, <3>1 DEF CanCreate
  <2>4. CASE Begin(r)
    <3>1. gen[r].pc = "start"
      BY <2>4 DEF Begin, GenStep
    <3>2. ~Wanted(r)
      BY <1>2, <1>4, <3>1 DEF Wanted
    <3>3. gen'[r].pc = "exit"
      BY <2>4, <3>2, GoesTo DEF Begin
    <3>4. QED
      BY <2>2, <3>3 DEF CanCreate
  <2>5. CASE Observe(r) \/ Run(r)
    <3>1. \/ \E pc \in {"run", "recover"} : gen' = Go(r, pc)
          \/ \E d : gen' = GoWith(r, "clean", d)
      BY <2>5 DEF Observe, Run
    <3>2. CASE \E pc \in {"run", "recover"} : gen' = Go(r, pc)
      BY <2>2, <3>2, GoesTo DEF CanCreate
    <3>3. CASE \E d : gen' = GoWith(r, "clean", d)
      BY <2>2, <3>3, GoesTo DEF CanCreate
    <3>4. QED
      BY <3>1, <3>2, <3>3
  <2>6. CASE Clean(r) \/ Recover(r)
    <3>1. Clean(r) => gen[r].attempt = 1
      BY DEF Clean, GenStep, FirstOnly, Executing
    <3>2. ~(1 < MaxAttemptsFor(r))
      BY AttemptsBound DEF OneExecution
    <3>3. \E d : gen' = GoWith(r, "result", d)
      BY <2>6, <3>1, <3>2 DEF Clean, Recover, Finished
    <3>4. QED
      BY <2>2, <3>3, GoesTo DEF CanCreate
  <2>7. CASE Result(r)
    <3>1. \E c : gen' = Leave(r, c)
      BY <2>7 DEF Result, Abandon, Conclude
    <3>2. QED
      BY <2>2, <3>1, GoesTo DEF CanCreate
  <2>8. CASE Exit(r)
    <3>1. gen'[r].pc = "off"
      BY <2>8 DEF Exit, GenOff, TypeInv, TypeOK
    <3>2. QED
      BY <2>2, <3>1 DEF CanCreate
  <2>9. QED
    BY <1>4, <2>1, <2>3, <2>4, <2>5, <2>6, <2>7, <2>8
    DEF Generate, Draft, Plan, Create, GenStep
<1>5. QED
  BY <1>1, <1>3, <1>4, GenSteps

\* What is over stays over.
LEMMA OverStays ==
  ASSUME TypeInv, WriteInv, RecordInv, FirstOnly, OneExecution, [Next]_vars,
         NEW r \in Requests, Over(r), ~Fresh(r)
  PROVE  Over(r)'
BY NoMore DEF Over

-----------------------------------------------------------------------------
(* The invariant of the cleanups, part by part *)

\* There is one execution to speak of.
LEMMA FirstOnlyInductive ==
  ASSUME TypeInv, WriteInv, RecordInv, FirstOnly, OneExecution, [Next]_vars
  PROVE  FirstOnly'
<1> SUFFICES ASSUME NEW r \in Requests
             PROVE  /\ ExecutionsOf(box', r) \subseteq {1}
                    /\ gen'[r].pc \in Executing \cup {"plan"} => gen'[r].attempt = 1
                    /\ FirstWork(mem'[r]) /\ FirstWork(disk'[r])
  BY DEF FirstOnly, FirstWork
<1>1. FirstWork(mem'[r]) /\ FirstWork(disk'[r])
  <2>1. FirstWork(mem[r]) /\ FirstWork(disk[r])
    BY DEF FirstOnly
  <2>2. ASSUME NEW e, Moves(r, e) PROVE FirstWork(e)
    <3>1. CASE ObservedAs(r, e)
      BY <3>1 DEF ObservedAs, FirstOnly, FirstWork, Executing
    <3>2. CASE ~ObservedAs(r, e)
      BY <2>1, <2>2, <3>2
      DEF Moves, Drafted, Reviewed, Stopped, CleanedUp, ResolvedTo, Lapsed, FirstWork
    <3>3. QED
      BY <3>1, <3>2
  <2>3. FirstWork(NewEntry)
    BY DEF FirstWork, NewEntry, NoEntry
  <2>4. QED
    BY <2>1, <2>2, <2>3, EntrySteps DEF Crash
<1>2. CASE /\ gen'[r].pc = gen[r].pc /\ gen'[r].attempt = gen[r].attempt
           /\ ExecutionsOf(box', r) \subseteq ExecutionsOf(box, r)
  BY <1>1, <1>2 DEF FirstOnly
<1>3. CASE Crash
  BY <1>1, <1>3 DEF FirstOnly, Crash, GenOff, Executing
<1>4. CASE gen'[r].pc = "new" /\ box' = box
  BY <1>1, <1>4 DEF FirstOnly, Executing
<1>5. CASE Generate(r)
  <2>1. ExecutionsOf(box', r) \subseteq {1}
    <3>1. ~Create(r) => box' \subseteq box
      BY <1>5
      DEF Generate, Launch, Begin, Draft, Plan, Observe, Run, Clean, Recover, Result, Exit
    <3>2. Create(r) => gen[r].attempt = 1 /\ box' \subseteq box \cup {<<r, gen[r].attempt>>}
      BY DEF Create, GenStep, FirstOnly, Executing
    <3>3. QED
      BY <3>1, <3>2 DEF ExecutionsOf, FirstOnly
  <2>2. gen'[r].pc \in Executing \cup {"plan"} => gen'[r].attempt = 1
    <3>1. CASE Launch(r) \/ Begin(r) \/ Result(r) \/ Exit(r)
      <4>1. gen'[r].pc \in {"start", "draft", "exit", "off"}
        <5>1. CASE Launch(r) \/ Begin(r)
          BY <5>1, GoesTo DEF Launch, Begin
        <5>2. CASE Result(r)
          <6>1. \E c : gen' = Leave(r, c)
            BY <5>2 DEF Result, Abandon, Conclude
          <6>2. QED
            BY <6>1, GoesTo
        <5>3. CASE Exit(r)
          BY <5>3 DEF Exit, GenOff, TypeInv, TypeOK
        <5>4. QED
          BY <3>1, <5>1, <5>2, <5>3
      <4>2. QED
        BY <4>1 DEF Executing
    <3>2. CASE Draft(r)
      <4>1. (\E d : gen' = GoWith(r, "result", d)) \/ gen' = Attempt(r, 1)
        BY <3>2 DEF Draft, Finished
      <4>2. CASE \E d : gen' = GoWith(r, "result", d)
        BY <4>2, GoesTo DEF Executing
      <4>3. CASE gen' = Attempt(r, 1)
        BY <4>3, GoesTo
      <4>4. QED
        BY <4>1, <4>2, <4>3
    <3>3. CASE Plan(r) \/ Create(r) \/ Observe(r) \/ Run(r) \/ Recover(r)
      <4>1. gen[r].attempt = 1
        BY <3>3 DEF Plan, Create, Observe, Run, Recover, GenStep, FirstOnly, Executing
      <4>2. (\E pc : gen' = Go(r, pc)) \/ (\E pc, d : gen' = GoWith(r, pc, d))
        BY <3>3 DEF Plan, Create, Observe, Run, Recover, Finished
      <4>3. CASE \E pc : gen' = Go(r, pc)
        BY <4>1, <4>3, GoesTo
      <4>4. CASE \E pc, d : gen' = GoWith(r, pc, d)
        BY <4>1, <4>4, GoesTo
      <4>5. QED
        BY <4>2, <4>3, <4>4
    <3>4. CASE Clean(r)
      <4>1. gen[r].attempt = 1
        BY <3>4 DEF Clean, GenStep, FirstOnly, Executing
      <4>2. ~(1 < MaxAttemptsFor(r))
        BY AttemptsBound DEF OneExecution
      <4>3. \E d : gen' = GoWith(r, "result", d)
        BY <3>4, <4>1, <4>2 DEF Clean, Finished
      <4>4. QED
        BY <4>3, GoesTo DEF Executing
    <3>5. QED
      BY <1>5, <3>1, <3>2, <3>3, <3>4 DEF Generate
  <2>3. QED
    BY <1>1, <2>1, <2>2
<1>6. QED
  BY <1>2, <1>3, <1>4, <1>5, GenSteps

\* A UID is observed after the execution was created.
LEMMA UidIsLateInductive ==
  ASSUME TypeInv, WriteInv, RecordInv, FirstOnly, UidIsLate, OneExecution, [Next]_vars
  PROVE  UidIsLate'
<1> SUFFICES ASSUME NEW r \in Requests, mem'[r].work.uid \/ disk'[r].work.uid
             PROVE  ~CanCreate(r)'
  BY DEF UidIsLate
<1>1. CASE Crash
  BY <1>1 DEF Crash, GenOff, CanCreate
<1>2. CASE Fresh(r) /\ mem'[r] \in {mem[r], NewEntry} /\ disk'[r] \in {disk[r], NewEntry}
  BY <1>2 DEF Fresh, NewEntry, NoEntry, NoWork
<1>3. CASE mem[r].work.uid \/ disk[r].work.uid
  <2>1. ~Fresh(r)
    BY <1>3 DEF Fresh, NoEntry, NoWork
  <2>2. QED
    BY <1>3, <2>1, NoMore DEF UidIsLate
<1>4. ASSUME NEW e, Moves(r, e), e.work.uid, ~mem[r].work.uid PROVE ~CanCreate(r)'
  <2>1. ObservedAs(r, e) /\ gen[r].pc # "plan"
    <3>1. ~NoWork.uid
      BY DEF NoWork
    <3>2. ObservedAs(r, e) \/ e.work \in {mem[r].work, NoWork}
      BY <1>4 DEF Moves, Drafted, Reviewed, Stopped, CleanedUp, ResolvedTo, Lapsed
    <3>3. ObservedAs(r, e)
      <4>1. CASE e.work = mem[r].work
        BY <1>4, <4>1
      <4>2. CASE e.work = NoWork
        BY <1>4, <3>1, <4>2
      <4>3. QED
        BY <3>2, <4>1, <4>2
    <3>4. e.work.uid = (gen[r].pc # "plan")
      BY <3>3 DEF ObservedAs
    <3>5. QED
      BY <1>4, <3>3, <3>4
  <2>2. ~CanCreate(r) /\ ~Fresh(r)
    BY <2>1 DEF ObservedAs, CanCreate, Fresh, GenOff
  <2>3. QED
    BY <2>2, NoMore
<1>5. QED
  BY <1>1, <1>2, <1>3, <1>4, EntrySteps

\* What is said to be cancelled is over: its cleanup knew.
LEMMA CancelledIsOverInductive ==
  ASSUME TypeInv, WriteInv, RecordInv, FirstOnly, CancelledIsOver, CleanupsKnow, OneExecution,
         [Next]_vars
  PROVE  CancelledIsOver'
<1> SUFFICES ASSUME NEW r \in Requests,
                    mem'[r].status = "cancelled" \/ disk'[r].status = "cancelled"
             PROVE  Over(r)'
  BY DEF CancelledIsOver
<1>1. CASE mem[r].status = "cancelled" \/ disk[r].status = "cancelled"
  <2>1. ~Fresh(r)
    BY <1>1 DEF Fresh, NoEntry
  <2>2. QED
    BY <1>1, <2>1, OverStays DEF CancelledIsOver
<1>2. CASE Crash
  BY <1>1, <1>2 DEF Crash
<1>3. CASE Fresh(r) /\ mem'[r] \in {mem[r], NewEntry} /\ disk'[r] \in {disk[r], NewEntry}
  BY <1>3 DEF Fresh, NewEntry, NoEntry
<1>4. ASSUME NEW e, Moves(r, e), e.status = "cancelled", mem[r].status # "cancelled"
      PROVE  Over(r)'
  <2>1. CleanedUp(r, e)
    BY <1>4
    DEF Moves, Drafted, Reviewed, Stopped, ObservedAs, ResolvedTo, Outcome, Lapsed
  <2>2. Over(r) /\ ~Fresh(r)
    BY <1>4, <2>1 DEF CleanedUp, CleanupsKnow, KnownBy, Fresh, NoEntry
  <2>3. QED
    BY <2>2, OverStays
<1>5. QED
  BY <1>1, <1>2, <1>3, <1>4, EntrySteps

\* A generation asks for a cleanup of a request that is being stopped.
LEMMA CleanupIsDueInductive ==
  ASSUME TypeInv, WriteInv, CleanupIsDue, [Next]_vars
  PROVE  CleanupIsDue'
<1> SUFFICES ASSUME NEW r \in Requests, gen'[r].cleanup PROVE mem'[r].status \in Ending
  BY DEF CleanupIsDue
<1>1. gen \in [Requests -> Gen] /\ mem \in [Requests -> Entry]
  BY DEF TypeInv, TypeOK
<1>2. CASE Crash
  BY <1>2 DEF Crash, GenOff
<1>3. CASE ~Crash /\ gen[r].cleanup
  BY <1>3, EndsOnce DEF CleanupIsDue
<1>4. CASE Generate(r) /\ ~gen[r].cleanup
  <2>1. CASE Exit(r)
    BY <1>1, <2>1 DEF Exit, GenOff
  <2>2. CASE Result(r)
    <3>1. \A c : gen' = Leave(r, c) => gen'[r].cleanup = c
      BY <1>1 DEF Leave, Gen
    <3>2. CASE Conclude(r) \/ (Abandon(r) /\ ~Wanted(r))
      <4>1. gen' # Leave(r, FALSE)
        BY <3>1, Zenon
      <4>2. \/ gen' = Leave(r, mem[r].status = "cancelling") /\ UNCHANGED store
            \/ gen' = Leave(r, mem[r].status \in {"cancelling", "cancelled"}) /\ UNCHANGED store
        BY <3>2, <4>1 DEF Conclude, Abandon
      <4>3. mem' = mem
        BY <4>2 DEF store
      <4>4. gen'[r].cleanup = (mem[r].status = "cancelling")
            \/ gen'[r].cleanup = (mem[r].status \in {"cancelling", "cancelled"})
        BY <3>1, <4>2, Zenon
      <4>5. mem[r].status \in {"cancelling", "cancelled"}
        BY <4>4
      <4>6. QED
        BY <4>3, <4>5 DEF Ending, Closed
    <3>3. CASE Abandon(r) /\ Wanted(r)
      <4>1. Save(Put(r, Cancelling(mem[r], "failed")))
        BY <3>1, <3>3 DEF Abandon
      <4>2. mem'[r] = Cancelling(mem[r], "failed")
        BY <1>1, <4>1 DEF Save, Put
      <4>3. QED
        BY <1>1, <4>2, FieldsOf DEF Ending, Finals
    <3>4. QED
      BY <2>2, <3>2, <3>3 DEF Result
  <2>3. CASE ~Exit(r) /\ ~Result(r)
    <3>1. \/ \E pc : gen' = Go(r, pc)
          \/ \E pc, d : gen' = GoWith(r, pc, d)
          \/ \E n : gen' = Attempt(r, n)
      BY <1>4, <2>3
      DEF Generate, Launch, Begin, Draft, Plan, Create, Observe, Run, Clean, Recover, Finished
    <3>2. gen'[r].cleanup = gen[r].cleanup
      <4>1. CASE \E pc : gen' = Go(r, pc)
        BY <1>1, <4>1 DEF Go, Gen
      <4>2. CASE \E pc, d : gen' = GoWith(r, pc, d)
        <5>1. PICK pc, d : gen' = GoWith(r, pc, d)
          BY <4>2
        <5> DEFINE g1 == [gen EXCEPT ![r].pc = pc]
        <5>2. gen' = [g1 EXCEPT ![r].draft = d]
          BY <1>1, <5>1 DEF GoWith
        <5>3. g1[r].cleanup = gen[r].cleanup /\ r \in DOMAIN g1
          BY <1>1 DEF Gen
        <5>4. [g1 EXCEPT ![r].draft = d][r].cleanup = g1[r].cleanup
          BY <1>1 DEF Gen
        <5>5. QED
          BY <5>2, <5>3, <5>4
      <4>3. CASE \E n : gen' = Attempt(r, n)
        <5>1. PICK n : gen' = Attempt(r, n)
          BY <4>3
        <5> DEFINE g1 == [gen EXCEPT ![r].pc = "plan"]
                   g2 == [g1 EXCEPT ![r].attempt = n]
        <5>2. gen' = [g2 EXCEPT ![r].draft = "none"]
          BY <1>1, <5>1 DEF Attempt
        <5>3. g1[r].cleanup = gen[r].cleanup /\ r \in DOMAIN g1
          BY <1>1 DEF Gen
        <5>4. g2[r].cleanup = g1[r].cleanup /\ r \in DOMAIN g2
          BY <1>1 DEF Gen
        <5>5. [g2 EXCEPT ![r].draft = "none"][r].cleanup = g2[r].cleanup
          BY <1>1 DEF Gen
        <5>6. QED
          BY <5>2, <5>3, <5>4, <5>5
      <4>4. QED
        BY <3>1, <4>1, <4>2, <4>3
    <3>3. QED
      BY <1>4, <3>2
  <2>4. QED
    BY <2>1, <2>2, <2>3
<1>5. QED
  BY <1>2, <1>3, <1>4, GenSteps

\* While the process is down only the file and the outside world remain.
LEMMA DownIsIdleInductive ==
  ASSUME TypeInv, DownIsIdle, [Next]_vars
  PROVE  DownIsIdle'
<1>1. CASE Crash
  BY <1>1 DEF Crash, DownIsIdle, GenOff, TaskOff
<1>2. CASE server # "down" /\ ~Crash
  <2>1. server' # "down"
    <3>1. CASE \E r \in Requests : Generate(r) \/ Timeout(r)
      BY <1>2, <3>1
      DEF Generate, Timeout, GenStep, Launch, Begin, Draft, Plan, Create, Observe, Run, Clean,
          Recover, Result, Exit
    <3>2. CASE \E r \in Requests, w \in Workers : CleanUp(r, w)
      BY <1>2, <3>2
      DEF CleanUp, TaskStep, ReadEntry, DeleteConfirmed, DeleteFails, DeleteRefused, Awaited,
          AwaitTimesOut, MarkCleanupBlocked, FinalizeCleanup
    <3>3. CASE \E r \in Requests : Tick(r) \/ Index(r) \/ ConfirmStep(r)
      BY <1>2, <3>3
      DEF Tick, Index, ConfirmStep, ConfStep, ConfirmRequest, AdoptObject, CreateObject,
          WriteNothing, ReconcileEntry, FinishConfirm
    <3>4. CASE GetRequest \/ Start \/ \E h \in Handlers : Shutdown(h)
      BY <1>2, <3>4 DEF GetRequest, Start, Shutdown
    <3>5. CASE \E r \in Requests, h \in Handlers : CancelRequest(h, r) \/ CancelContext(h, r)
      BY <1>2, <3>5 DEF CancelRequest, CancelContext
    <3>6. CASE \E r \in Requests :
                  \/ CreateAnalysisFixRequest(r)
                  \/ \E h \in Handlers, s \in Requests \cup {NoRequest} : CreateRequest(h, r, s)
      BY <1>2, <3>6 DEF CreateAnalysisFixRequest, CreateRequest
    <3>7. CASE UNCHANGED vars
      BY <1>2, <3>7 DEF vars
    <3>8. QED
      BY <1>2, <3>1, <3>2, <3>3, <3>4, <3>5, <3>6, <3>7 DEF Next
  <2>2. QED
    BY <2>1 DEF DownIsIdle
<1>3. CASE server = "down" /\ ~Crash
  <2>1. \A r \in Requests :
          /\ gen[r].pc = "off" /\ conf[r] = "off"
          /\ \A w \in Workers : task[r][w].pc = "off"
    BY <1>3 DEF DownIsIdle
  <2>2. \A r \in Requests : ~Generate(r) /\ ~Timeout(r)
    BY <2>1
    DEF Generate, Timeout, GenStep, Launch, Begin, Draft, Plan, Create, Observe, Run, Clean,
        Recover, Result, Exit
  <2>3. \A r \in Requests, w \in Workers : ~CleanUp(r, w)
    BY <2>1
    DEF CleanUp, TaskStep, ReadEntry, DeleteConfirmed, DeleteFails, DeleteRefused, Awaited,
        AwaitTimesOut, MarkCleanupBlocked, FinalizeCleanup
  <2>4. \A r \in Requests : ~ConfirmStep(r)
    BY <1>3, <2>1
    DEF ConfirmStep, ConfStep, ConfirmRequest, AdoptObject, CreateObject, WriteNothing,
        ReconcileEntry, FinishConfirm
  <2>5. \A r \in Requests, h \in Handlers : ~CancelRequest(h, r) /\ ~CancelContext(h, r)
    BY <1>3, <2>1 DEF CancelRequest, CancelContext, Workers
  <2>6. \/ server' = "up"
        \/ UNCHANGED <<server, mem, disk, gen, task, conf>>
    <3>1. CASE \E r \in Requests : Tick(r) \/ Index(r)
      BY <3>1 DEF Tick, Index, store
    <3>2. CASE GetRequest \/ Start \/ \E h \in Handlers : Shutdown(h)
      BY <1>3, <3>2 DEF GetRequest, Start, Shutdown
    <3>3. CASE \E r \in Requests :
                  \/ CreateAnalysisFixRequest(r)
                  \/ \E h \in Handlers, s \in Requests \cup {NoRequest} : CreateRequest(h, r, s)
      BY <1>3, <3>3 DEF CreateAnalysisFixRequest, CreateRequest
    <3>4. CASE UNCHANGED vars
      BY <3>4 DEF vars
    <3>5. QED
      BY <1>3, <2>2, <2>3, <2>4, <2>5, <3>1, <3>2, <3>3, <3>4 DEF Next
  <2>7. QED
    BY <2>6 DEF DownIsIdle
<1>4. QED
  BY <1>1, <1>2, <1>3

\* Where starting a cleanup, or a worker's step, leads one worker.
LEMMA TaskMoves ==
  ASSUME NEW t, TasksOK(t), NEW r \in Requests, NEW w \in Workers
  PROVE  /\ \A rs : \/ StartCleanups(t, rs)[r][w] = t[r][w]
                    \/ /\ StartCleanups(t, rs)[r][w] = Reading
                       /\ r \in rs /\ w = Background
         /\ Reading.pc = "read" /\ ~Reading.waited /\ TaskOff.pc = "off"
<1>1. \A rs : \/ StartCleanups(t, rs)[r][w] = t[r][w]
              \/ /\ StartCleanups(t, rs)[r][w] = Reading
                 /\ r \in rs /\ w = Background
  BY DEF StartCleanups, TasksOK
<1>2. Reading.pc = "read" /\ ~Reading.waited /\ TaskOff.pc = "off"
  BY DEF Reading, TaskOff
<1>3. QED
  BY <1>1, <1>2

\* A worker's step is its own, or wakes the background.
LEMMA WorkerMoves ==
  ASSUME TypeInv, NEW q \in Requests, NEW v \in Workers, NEW r \in Requests, NEW w \in Workers
  PROVE  /\ \A x : /\ To(q, v, x)[q][v] = x
                   /\ r # q \/ w # v => To(q, v, x)[r][w] = task[r][w]
         /\ Retry(q, v)[q][v] \in {Reading, TaskOff}
         /\ r # q \/ w # v =>
                \/ Retry(q, v)[r][w] = task[r][w]
                \/ r = q /\ Retry(q, v)[r][w] = Reading
<1>1. TasksOK(task)
  BY TypeParts
<1>2. \A x : /\ To(q, v, x)[q][v] = x
             /\ r # q \/ w # v => To(q, v, x)[r][w] = task[r][w]
  BY <1>1 DEF To, TasksOK
<1>3. CASE v = Background
  BY <1>2, <1>3 DEF Retry
<1>4. CASE v # Background
  <2> DEFINE x == To(q, v, TaskOff)
  <2>1. Retry(q, v) = StartCleanups(x, {q})
    BY <1>4 DEF Retry
  <2>2. TasksOK(x)
    <3>1. TaskOff \in Task
      BY NoWorkType DEF TaskOff, Task, TaskStates
    <3>2. QED
      BY <1>1, <3>1, TaskType
  <2> HIDE DEF x
  <2>3. /\ Retry(q, v)[q][v] \in {x[q][v], Reading}
        /\ Retry(q, v)[r][w] = x[r][w] \/ (Retry(q, v)[r][w] = Reading /\ r = q)
    BY <2>1, <2>2, TaskMoves
  <2>4. QED
    BY <1>2, <2>3 DEF x
<1>5. QED
  BY <1>3, <1>4

\* A cleanup that has begun, and knows nothing yet.
Begun(t) == t.pc \in {"cancel", "supersede", "read"} /\ (t.pc = "read" => ~t.waited)

\* The steps of others: a worker begins, or is stopped, only on a request that is
\* being stopped.
TaskStays(r, w) ==
    \/ task'[r][w] = task[r][w]
    \/ task'[r][w].pc = "off"
    \/ Begun(task'[r][w]) /\ mem'[r].status \in Ending

\* The handlers' steps: they begin on what they stop.
LEMMA HandlerTasks ==
  ASSUME TypeInv, CleanupsKnow, NEW q \in Requests, NEW h \in Handlers,
         \/ CancelRequest(h, q) \/ CancelContext(h, q) \/ Shutdown(h)
         \/ \E s \in Requests \cup {NoRequest} : CreateRequest(h, q, s),
         NEW r \in Requests, NEW w \in Workers
  PROVE  TaskStays(r, w)
<1>1. mem \in [Requests -> Entry] /\ TasksOK(task) /\ h \in Workers
  BY TypeParts DEF StoreOK, TableOK, Workers
<1>2. /\ [TaskOff EXCEPT !.pc = "cancel"].pc = "cancel"
      /\ Reading.pc = "read" /\ ~Reading.waited /\ TaskOff.pc = "off"
  BY DEF Reading, TaskOff
<1>3. \A e \in Entry, f \in Finals : Cancelling(e, f).status = "cancelling"
  BY FieldsOf
<1>4. CASE task' = task
  BY <1>4 DEF TaskStays
<1>5. CASE CancelRequest(h, q)
  <2>1. CASE mem[q].status = "cancelling" /\ task' = To(q, h, Reading) /\ UNCHANGED store
    <3>1. r = q => mem'[r].status \in Ending
      BY <2>1 DEF store, Ending
    <3>2. QED
      BY <1>1, <1>2, <2>1, <3>1, WorkerMoves DEF TaskStays, Begun
  <2>2. CASE /\ Save(Put(q, Cancelling(mem[q], "cancelled")))
             /\ task' = To(q, h, [TaskOff EXCEPT !.pc = "cancel"])
    <3>1. r = q => mem'[r].status \in Ending
      <4>1. mem'[q] = Cancelling(mem[q], "cancelled")
        BY <1>1, <2>2 DEF Save, Put
      <4>2. QED
        BY <1>1, <1>3, <4>1 DEF Ending, Finals
    <3>2. \/ r # q \/ w # h
          \/ task'[r][w] = [TaskOff EXCEPT !.pc = "cancel"]
      BY <1>1, <2>2, WorkerMoves
    <3>3. r # q \/ w # h => task'[r][w] = task[r][w]
      BY <1>1, <2>2, WorkerMoves
    <3>4. QED
      BY <1>2, <3>1, <3>2, <3>3 DEF TaskStays, Begun
  <2>3. QED
    BY <1>4, <1>5, <2>1, <2>2 DEF CancelRequest
<1>6. CASE CancelContext(h, q)
  <2>1. r = q => mem'[r].status \in Ending
    BY <1>1, <1>6 DEF CancelContext, CleanupsKnow, KnownBy
  <2>2. \/ task' = To(q, h, Reading) \/ task' = To(q, h, TaskOff)
        \/ task' = StartCleanups(To(q, h, TaskOff), {q})
    BY <1>6 DEF CancelContext
  <2>3. CASE task' = To(q, h, Reading) \/ task' = To(q, h, TaskOff)
    BY <1>1, <1>2, <2>1, <2>3, WorkerMoves DEF TaskStays, Begun
  <2>4. CASE task' = StartCleanups(To(q, h, TaskOff), {q})
    <3> DEFINE x == To(q, h, TaskOff)
    <3>1. TasksOK(x)
      <4>1. TaskOff \in Task
        BY NoWorkType DEF TaskOff, Task, TaskStates
      <4>2. QED
        BY <1>1, <4>1, TaskType
    <3>2. x[r][w] = task[r][w] \/ x[r][w] = TaskOff
      BY <1>1, WorkerMoves
    <3> HIDE DEF x
    <3>3. task'[r][w] = x[r][w] \/ (task'[r][w] = Reading /\ r = q)
      BY <2>4, <3>1, TaskMoves DEF x
    <3>4. QED
      BY <1>2, <2>1, <3>2, <3>3 DEF TaskStays, Begun
  <2>5. QED
    BY <2>2, <2>3, <2>4
<1>7. CASE Shutdown(h)
  <2> DEFINE pending == {p \in Requests : mem[p].status = "pending"}
             table == [p \in Requests |->
                          IF p \in pending THEN Cancelling(mem[p], "failed") ELSE mem[p]]
  <2>1. task'[r] = IF r \in pending THEN [task[r] EXCEPT ![h].pc = "supersede"] ELSE task[r]
    BY <1>7 DEF Shutdown
  <2>2. CASE r \in pending
    <3>1. mem' = table
      BY <1>7, <2>2 DEF Shutdown, SaveOrKeep, Save, SaveFails
    <3>2. mem'[r].status \in Ending
      BY <1>1, <1>3, <2>2, <3>1 DEF Ending, Finals
    <3>3. task'[r][w] = task[r][w] \/ task'[r][w].pc = "supersede"
      BY <1>1, <2>1, <2>2 DEF TasksOK, Task
    <3>4. QED
      BY <3>2, <3>3 DEF TaskStays, Begun
  <2>3. QED
    BY <2>1, <2>2 DEF TaskStays
<1>8. ASSUME NEW s \in Requests \cup {NoRequest}, CreateRequest(h, q, s) PROVE TaskStays(r, w)
  <2> DEFINE table == [p \in Requests |->
                          CASE p = q -> NewEntry
                            [] p = s -> Cancelling(mem[p], "cancelled")
                            [] OTHER -> mem[p]]
  <2>1. CASE /\ Save(table)
             /\ task' = [p \in Requests |->
                   IF p = s THEN [task[p] EXCEPT ![h].pc = "supersede"] ELSE task[p]]
    <3>1. CASE r = s
      <4>1. s \in Requests => q # s
        BY <1>8, ConstantsAssumption DEF CreateRequest, Supersedable, Fresh, NoEntry
      <4>2. mem'[r] = Cancelling(mem[r], "cancelled")
        BY <2>1, <3>1, <4>1 DEF Save
      <4>3. mem'[r].status \in Ending
        BY <1>1, <1>3, <4>2 DEF Ending, Finals
      <4>4. task'[r][w] = task[r][w] \/ task'[r][w].pc = "supersede"
        BY <1>1, <2>1, <3>1 DEF TasksOK, Task
      <4>5. QED
        BY <4>3, <4>4 DEF TaskStays, Begun
    <3>2. QED
      BY <2>1, <3>1 DEF TaskStays
  <2>2. CASE task' = task
    BY <2>2 DEF TaskStays
  <2>3. QED
    BY <1>8, <2>1, <2>2 DEF CreateRequest, store
<1>9. QED
  BY <1>5, <1>6, <1>7, <1>8

\* Every step, seen by one worker.
LEMMA TaskSteps ==
  ASSUME TypeInv, WriteInv, CleanupsKnow, CleanupIsDue, DownIsIdle, [Next]_vars, ~Crash,
         NEW r \in Requests, NEW w \in Workers
  PROVE  TaskStays(r, w) \/ CleanUp(r, w)
<1>1. mem \in [Requests -> Entry] /\ TasksOK(task)
  BY TypeParts DEF StoreOK, TableOK
<1>2. /\ Reading.pc = "read" /\ ~Reading.waited /\ TaskOff.pc = "off"
      /\ \A rs : StartCleanups(task, rs)[r][w] = task[r][w] \/
                 (StartCleanups(task, rs)[r][w] = Reading /\ r \in rs)
  BY <1>1, TaskMoves
<1>3. CASE task' = task
  BY <1>3 DEF TaskStays
<1>4. ASSUME NEW rs, task' = StartCleanups(task, rs), r \in rs => mem'[r].status \in Ending
      PROVE  TaskStays(r, w)
  BY <1>2, <1>4 DEF TaskStays, Begun
<1>5. CASE GetRequest
  <2>1. mem' = Aged /\ task' = StartCleanups(task, CleaningUp(Aged, Overdue))
    BY <1>5 DEF GetRequest, SaveOrKeep, Save, SaveFails
  <2>2. r \in CleaningUp(Aged, Overdue) => mem'[r].status \in Ending
    BY <2>1 DEF CleaningUp, Ending
  <2>3. QED
    BY <1>4, <2>1, <2>2
<1>6. CASE Start
  <2>1. mem = disk
    BY <1>6 DEF Start, DownIsIdle
  <2>2. PICK table : /\ IF table = disk THEN UNCHANGED store ELSE SaveOrKeep(table)
                     /\ task' = StartCleanups(task, CleaningUp(table, Requests))
    BY <1>6 DEF Start
  <2>3. mem' = table
    BY <2>1, <2>2 DEF store, SaveOrKeep, Save, SaveFails
  <2>4. r \in CleaningUp(table, Requests) => mem'[r].status \in Ending
    BY <2>3 DEF CleaningUp, Ending
  <2>5. QED
    BY <1>4, <2>2, <2>4
<1>7. ASSUME NEW q \in Requests, Exit(q) PROVE TaskStays(r, w)
  <2>1. mem' = mem /\ task' = StartCleanups(task, IF gen[q].cleanup THEN {q} ELSE {})
    BY <1>7 DEF Exit, store
  <2>2. r \in (IF gen[q].cleanup THEN {q} ELSE {}) => mem'[r].status \in Ending
    BY <2>1 DEF CleanupIsDue
  <2>3. QED
    BY <1>4, <2>1, <2>2
<1>8. ASSUME NEW q \in Requests, NEW v \in Workers, CleanUp(q, v), q # r \/ v # w
      PROVE  TaskStays(r, w)
  <2>1. (\E x : task' = To(q, v, x)) \/ task' = Retry(q, v)
    BY <1>8
    DEF CleanUp, ReadEntry, DeleteConfirmed, DeleteFails, DeleteRefused, Awaited, AwaitTimesOut,
        MarkCleanupBlocked, FinalizeCleanup
  <2>2. CASE \E x : task' = To(q, v, x)
    BY <1>8, <2>2, WorkerMoves DEF TaskStays
  <2>3. CASE task' = Retry(q, v)
    <3>1. task[q][v].pc # "off"
      BY <1>8
      DEF CleanUp, TaskStep, ReadEntry, DeleteConfirmed, DeleteFails, DeleteRefused, Awaited,
          AwaitTimesOut, MarkCleanupBlocked, FinalizeCleanup
    <3>2. mem[q].status \in Ending
      BY <3>1 DEF CleanupsKnow, KnownBy
    <3>3. mem'[q].status \in Ending
      BY <3>2, EndsOnce
    <3>4. QED
      BY <1>2, <1>8, <2>3, <3>3, WorkerMoves DEF TaskStays, Begun
  <2>4. QED
    BY <2>1, <2>2, <2>3
<1>9. CASE \E q \in Requests : Tick(q) \/ Index(q) \/ ConfirmStep(q) \/ Timeout(q)
  BY <1>3, <1>9
  DEF Tick, Index, ConfirmStep, ConfStep, ConfirmRequest, AdoptObject, CreateObject,
      WriteNothing, ReconcileEntry, FinishConfirm, Timeout
<1>10. ASSUME NEW q \in Requests, Generate(q) PROVE TaskStays(r, w)
  <2>1. CASE Exit(q)
    BY <1>7, <2>1
  <2>2. CASE ~Exit(q)
    <3>1. task' = task
      BY <1>10, <2>2
      DEF Generate, GenStep, Launch, Begin, Draft, Plan, Create, Observe, Run, Clean, Recover,
          Result
    <3>2. QED
      BY <3>1 DEF TaskStays
  <2>3. QED
    BY <2>1, <2>2
<1>11. CASE \E q \in Requests : CreateAnalysisFixRequest(q)
  BY <1>3, <1>11 DEF CreateAnalysisFixRequest
<1>12. ASSUME NEW h \in Handlers, Shutdown(h) PROVE TaskStays(r, w)
  BY <1>12, HandlerTasks
<1>13. ASSUME NEW q \in Requests, NEW h \in Handlers,
              \/ CancelRequest(h, q) \/ CancelContext(h, q)
              \/ \E s \in Requests \cup {NoRequest} : CreateRequest(h, q, s)
       PROVE  TaskStays(r, w)
  BY <1>13, HandlerTasks
<1>14. CASE UNCHANGED vars
  BY <1>3, <1>14 DEF vars
<1>15. QED
  BY <1>5, <1>6, <1>8, <1>9, <1>10, <1>11, <1>12, <1>13, <1>14 DEF Next

\* What a cleanup knows stays true while the process lives.
LEMMA KnowStays ==
  ASSUME TypeInv, WriteInv, RecordInv, FirstOnly, OneExecution, [Next]_vars, ~Crash,
         NEW r \in Requests, NEW t, KnownBy(r, t)
  PROVE  KnownBy(r, t)'
<1>1. CASE t.pc = "off"
  BY <1>1 DEF KnownBy
<1>2. CASE t.pc # "off"
  <2>1. mem[r].status \in Ending
    BY <1>2 DEF KnownBy
  <2>2. ~Fresh(r)
    BY <2>1 DEF Fresh, NoEntry, Ending, Closed
  <2>3. ~CanCreate(r) => ~CanCreate(r)'
    BY <2>2, NoMore
  <2>4. Over(r) => Over(r)'
    BY <2>2, OverStays
  <2>5. /\ mem'[r].status \in Ending
        /\ \/ mem[r].status # "cancelling" \/ mem[r].final \notin {"none", "cancelled"}
           => mem'[r].status # "cancelling" \/ mem'[r].final \notin {"none", "cancelled"}
    BY <2>1, EndsOnce
  <2>6. QED
    BY <1>2, <2>3, <2>4, <2>5 DEF KnownBy
<1>3. QED
  BY <1>1, <1>2

\* The step of a cleanup itself: what it concludes, it knows.
LEMMA CleanUpKnows ==
  ASSUME TypeInv, WriteInv, RecordInv, FirstOnly, UidIsLate, CleanupsKnow, OneExecution,
         [Next]_vars, ~Crash, NEW r \in Requests, NEW w \in Workers, CleanUp(r, w),
         NEW u, u = task'[r][w]
  PROVE  KnownBy(r, u)'
<1> PICK t : t = task[r][w]
  OBVIOUS
<1>1. task[r][w] \in Task /\ mem[r] \in Entry /\ gen' = gen
  <2>1. gen' = gen
    BY DEF CleanUp, ReadEntry, DeleteConfirmed, DeleteFails, DeleteRefused, Awaited,
           AwaitTimesOut, MarkCleanupBlocked, FinalizeCleanup
  <2>2. QED
    BY <2>1, TypeParts DEF StoreOK, TableOK, TasksOK
<1>2. KnownBy(r, t) /\ KnownBy(r, t)'
  <2>1. KnownBy(r, t)
    BY DEF CleanupsKnow
  <2>2. QED
    BY <2>1, KnowStays
<1>3. t.pc # "off"
  BY DEF CleanUp, TaskStep, ReadEntry, DeleteConfirmed, DeleteFails, DeleteRefused, Awaited,
         AwaitTimesOut, MarkCleanupBlocked, FinalizeCleanup
<1>4. mem[r].status \in Ending /\ mem'[r].status \in Ending
  BY <1>2, <1>3 DEF KnownBy
<1>5. Reading.pc = "read" /\ ~Reading.waited /\ TaskOff.pc = "off"
  BY DEF Reading, TaskOff
<1>6. CASE u \in {Reading, TaskOff}
  BY <1>4, <1>5, <1>6 DEF KnownBy
<1>7. \A x : task' = To(r, w, x) => u = x
  BY WorkerMoves
<1>8. CASE task' = Retry(r, w)
  BY <1>6, <1>8, WorkerMoves
<1>9. \A pc \in TaskStates : /\ [t EXCEPT !.pc = pc].pc = pc
                             /\ [t EXCEPT !.pc = pc].waited = t.waited
                             /\ [t EXCEPT !.pc = pc].waits = t.waits
                             /\ [t EXCEPT !.pc = pc].work = t.work
  BY <1>1 DEF Task
<1>10. ASSUME mem' = mem, box' = box PROVE CanCreate(r)' = CanCreate(r) /\ Over(r)' = Over(r)
  BY <1>1, <1>10 DEF CanCreate, Over
<1>11. CASE ReadEntry(r, w)
  <2> DEFINE running == gen[r].pc \notin {"off", "new"}
             next == CASE mem[r].status # "cancelling" -> "off"
                       [] mem[r].status = "cancelling" /\ mem[r].work # NoWork -> "delete"
                       [] OTHER -> IF running /\ ~t.waited THEN "await" ELSE "finalize"
             x == [t EXCEPT !.pc = next, !.work = mem[r].work, !.waits = running]
  <2>1. mem' = mem /\ box' = box /\ t.pc = "read"
    BY <1>11 DEF ReadEntry, TaskStep, store
  <2>2. CASE mem[r].status # "cancelling"
    BY <1>6, <1>7, <1>11, <2>2 DEF ReadEntry
  <2>3. CASE mem[r].status = "cancelling"
    <3>1. next \in {"delete", "await", "finalize"}
      BY <2>3
    <3>2. u = x
      BY <1>7, <1>11, <2>3, <3>1 DEF ReadEntry
    <3>3. /\ u.pc = next /\ u.work = mem[r].work /\ u.waits = running /\ u.waited = t.waited
      BY <1>1, <3>2 DEF Task
    <3>4. ~running \/ t.waited => ~CanCreate(r)
      BY <1>2, <2>1, <2>3 DEF KnownBy, CanCreate
    <3>5. mem[r].work.uid => ~CanCreate(r)
      BY DEF UidIsLate
    <3>6. FirstWork(mem[r])
      BY DEF FirstOnly
    <3>7. mem[r].work = NoWork => ExecutionsOf(box, r) = {}
      <4>1. \A n \in ExecutionsOf(box, r) : mem[r].work.attempt = n
        BY <2>3 DEF RecordInv, OnRecord, Names, Closed
      <4>2. \A n \in ExecutionsOf(box, r) : n # 0
        BY ConstantsAssumption DEF ExecutionsOf, Attempts
      <4>3. NoWork.attempt = 0
        BY DEF NoWork
      <4>4. QED
        BY <4>1, <4>2, <4>3
    <3>8. CASE mem[r].work # NoWork
      <4>1. u.pc = "delete"
        BY <2>3, <3>3, <3>8
      <4>2. QED
        BY <1>4, <1>10, <2>1, <3>3, <3>4, <3>5, <3>6, <3>8, <4>1 DEF KnownBy, FirstWork
    <3>9. CASE mem[r].work = NoWork
      <4>1. u.pc = IF running /\ ~t.waited THEN "await" ELSE "finalize"
        BY <2>3, <3>3, <3>9
      <4>2. u.pc = "finalize" => Over(r)
        BY <3>4, <3>7, <3>9, <4>1 DEF Over
      <4>3. u.pc = "await" => u.waits /\ ~u.waited /\ ~u.work.uid
        <5>1. ~NoWork.uid
          BY DEF NoWork
        <5>2. u.pc = "await" => running /\ ~t.waited
          BY <4>1
        <5>3. QED
          BY <3>3, <3>9, <5>1, <5>2
      <4>4. u.pc = "finalize" => ~CanCreate(r)
        BY <4>2 DEF Over
      <4>5. QED
        BY <1>4, <1>10, <2>1, <4>1, <4>2, <4>3, <4>4 DEF KnownBy
    <3>10. QED
      BY <3>8, <3>9
  <2>4. QED
    BY <2>2, <2>3
<1>12. CASE DeleteConfirmed(r, w)
  <2>1. mem' = mem /\ t.pc = "delete" /\ box' = box \ {<<r, t.work.attempt>>}
    BY <1>12 DEF DeleteConfirmed, TaskStep, store
  <2>2. t.work.attempt = 1
    BY <1>2, <2>1 DEF KnownBy
  <2>3. ExecutionsOf(box', r) = {}
    <3>1. ExecutionsOf(box, r) \subseteq {1}
      BY DEF FirstOnly
    <3>2. QED
      BY <2>1, <2>2, <3>1 DEF ExecutionsOf
  <2>4. CanCreate(r)' = CanCreate(r)
    BY <1>1, <2>1 DEF CanCreate
  <2>5. u = [t EXCEPT !.pc = IF Awaits(r, w) THEN "await" ELSE "finalize"]
    BY <1>7, <1>12 DEF DeleteConfirmed
  <2>6. Awaits(r, w) <=> ~t.work.uid /\ t.waits /\ ~t.waited
    BY DEF Awaits
  <2>7. /\ u.pc = IF Awaits(r, w) THEN "await" ELSE "finalize"
        /\ u.waited = t.waited /\ u.waits = t.waits /\ u.work = t.work
    BY <1>9, <2>5 DEF TaskStates
  <2>8. ~Awaits(r, w) => ~CanCreate(r)
    BY <1>2, <2>1, <2>6 DEF KnownBy
  <2>9. QED
    BY <1>4, <2>3, <2>4, <2>6, <2>7, <2>8 DEF KnownBy, Over
<1>13. CASE DeleteRefused(r, w)
  <2>1. mem' = mem /\ box' = box /\ t.pc = "delete" /\ u = [t EXCEPT !.pc = "block"]
    BY <1>7, <1>13 DEF DeleteRefused, TaskStep, store
  <2>2. u.pc = "block" /\ u.waited = t.waited
    BY <1>9, <2>1 DEF TaskStates
  <2>3. Backend # "orka"
    BY <1>13 DEF DeleteRefused, Deletable
  <2>4. QED
    BY <1>2, <1>4, <2>1, <2>2, <2>3 DEF KnownBy
<1>14. CASE Awaited(r, w)
  <2>1. gen'[r].pc = "off" /\ u = [t EXCEPT !.pc = "read", !.waited = TRUE]
    BY <1>1, <1>7, <1>14 DEF Awaited
  <2>2. u.pc = "read"
    BY <1>1, <2>1 DEF Task
  <2>3. ~CanCreate(r)'
    BY <2>1 DEF CanCreate
  <2>4. QED
    BY <1>4, <2>2, <2>3 DEF KnownBy
<1>15. CASE MarkCleanupBlocked(r, w) /\ u \notin {Reading, TaskOff} /\ task' # Retry(r, w)
  <2>1. /\ t.pc = "block" /\ mem[r].status = "cancelling"
        /\ Save(Put(r, Blocked(mem[r]))) /\ u = [t EXCEPT !.pc = "finalize"]
    BY <1>7, <1>15 DEF MarkCleanupBlocked, TaskStep
  <2>2. mem'[r] = Blocked(mem[r])
    BY <2>1 DEF Save, Put, TypeInv, TypeOK
  <2>3. mem'[r].final = "failed"
    BY <1>1, <2>2, FieldsOf DEF Blocked, Finals
  <2>4. u.pc = "finalize" /\ u.waited = t.waited
    BY <1>9, <2>1 DEF TaskStates
  <2>5. Backend # "orka"
    BY <1>2, <2>1 DEF KnownBy
  <2>6. QED
    BY <1>2, <1>4, <2>1, <2>3, <2>4, <2>5 DEF KnownBy
<1>16. CASE FinalizeCleanup(r, w)
  BY <1>6, <1>7, <1>8, <1>16 DEF FinalizeCleanup
<1>17. CASE DeleteFails(r, w) \/ AwaitTimesOut(r, w)
  BY <1>8, <1>17 DEF DeleteFails, AwaitTimesOut
<1>18. QED
  BY <1>6, <1>8, <1>11, <1>12, <1>13, <1>14, <1>15, <1>16, <1>17 DEF CleanUp

\* Every cleanup goes on knowing what it knows; a crash leaves none.
LEMMA CleanupsKnowInductive ==
  ASSUME TypeInv, WriteInv, RecordInv, EndInv, OneExecution, [Next]_vars
  PROVE  CleanupsKnow'
<1> SUFFICES ASSUME NEW r \in Requests, NEW w \in Workers, NEW u, u = task'[r][w]
             PROVE  KnownBy(r, u)'
  BY DEF CleanupsKnow
<1>1. CASE Crash
  <2>1. u.pc = "off"
    BY <1>1 DEF Crash, TaskOff
  <2>2. QED
    BY <2>1 DEF KnownBy
<1>2. CASE ~Crash /\ CleanUp(r, w)
  BY <1>2, CleanUpKnows DEF EndInv
<1>3. CASE ~Crash /\ TaskStays(r, w)
  <2>1. CASE u = task[r][w]
    <3>1. KnownBy(r, u)
      BY <2>1 DEF EndInv, CleanupsKnow
    <3>2. QED
      BY <1>3, <3>1, KnowStays DEF EndInv
  <2>2. CASE u.pc = "off"
    BY <2>2 DEF KnownBy
  <2>3. CASE Begun(u) /\ mem'[r].status \in Ending
    BY <2>3 DEF KnownBy, Begun
  <2>4. QED
    BY <1>3, <2>1, <2>2, <2>3 DEF TaskStays
<1>4. QED
  BY <1>1, <1>2, <1>3, TaskSteps DEF EndInv

\* The invariant of the cleanups, whole.
LEMMA EndInvariant == Spec => [](OneExecution => EndInv)
<1>1. Init => EndInv
  <2> SUFFICES ASSUME Init PROVE EndInv
    OBVIOUS
  <2>1. /\ NoEntry.status = "absent" /\ NoEntry.work = NoWork /\ ~NoWork.uid
        /\ GenOff.pc = "off" /\ ~GenOff.cleanup /\ TaskOff.pc = "off"
    BY DEF NoEntry, NoWork, GenOff, TaskOff
  <2>2. \A r \in Requests : ExecutionsOf(box, r) = {}
    BY DEF Init, ExecutionsOf
  <2>3. FirstOnly /\ UidIsLate /\ CancelledIsOver
    BY <2>1, <2>2 DEF Init, FirstOnly, FirstWork, UidIsLate, CancelledIsOver, Executing
  <2>4. CleanupIsDue /\ DownIsIdle
    BY <2>1 DEF Init, CleanupIsDue, DownIsIdle
  <2>5. CleanupsKnow
    BY <2>1 DEF Init, CleanupsKnow, KnownBy
  <2>6. QED
    BY <2>3, <2>4, <2>5 DEF EndInv
<1>2. TypeInv /\ WriteInv /\ RecordInv /\ (OneExecution => EndInv) /\ [Next]_vars
        => (OneExecution => EndInv)'
  <2> SUFFICES ASSUME TypeInv, WriteInv, RecordInv, OneExecution, EndInv, [Next]_vars
               PROVE  EndInv'
    BY DEF OneExecution, MaxAttemptsFor
  <2>1. FirstOnly' /\ UidIsLate'
    BY FirstOnlyInductive, UidIsLateInductive DEF EndInv
  <2>2. CancelledIsOver' /\ CleanupIsDue' /\ DownIsIdle'
    BY CancelledIsOverInductive, CleanupIsDueInductive, DownIsIdleInductive DEF EndInv
  <2>3. QED
    BY <2>1, <2>2, CleanupsKnowInductive DEF EndInv
<1>3. QED
  BY <1>1, <1>2, RecordInvariant, PTL DEF Spec

\* A request answered "cancelled" leaves no external execution behind, where its
\* kind runs at most one (an issue, an analysis fix, a fix without retries): the
\* cleanup that says so waited for the generation, or saw that none could follow,
\* whatever crashes, fails, times out or is superseded.
THEOREM CancelledIsQuiet == Spec => [](OneExecution => CancelledLeavesNoSandbox)
<1>1. EndInv => CancelledLeavesNoSandbox
  BY DEF EndInv, CancelledIsOver, CancelledLeavesNoSandbox, Over, Quiet, ExecutionsOf
<1>2. QED
  BY <1>1, EndInvariant, PTL

-----------------------------------------------------------------------------
(* The same of every settled request, where no call of a run fails. *)

\* Orka's adapter finds and deletes what it created, whatever the answers were.
Steady == Backend = "orka" /\ "run" \notin ApiFaults
Unsettled == {"absent", "pending", "cancelling"}

ResultIsOver == \A r \in Requests : gen[r].pc \in {"result", "exit"} => Over(r)
SettledIsOver ==
    \A r \in Requests :
        mem[r].status \notin Unsettled \/ disk[r].status \notin Unsettled => Over(r)

\* A run that ends has deleted its execution.
LEMMA ResultIsOverInductive ==
  ASSUME TypeInv, WriteInv, RecordInv, FirstOnly, ResultIsOver, OneExecution, Steady,
         [Next]_vars
  PROVE  ResultIsOver'
<1> SUFFICES ASSUME NEW r \in Requests, gen'[r].pc \in {"result", "exit"} PROVE Over(r)'
  BY DEF ResultIsOver
<1>1. ~CanCreate(r)'
  BY DEF CanCreate
<1>2. ExecutionsOf(box', r) = {} => Over(r)'
  BY <1>1 DEF Over
<1>3. CASE gen[r].pc \in {"result", "exit"}
  <2>1. ~Fresh(r)
    BY <1>3 DEF Fresh, GenOff
  <2>2. QED
    BY <1>3, <2>1, OverStays DEF ResultIsOver
<1>4. CASE Crash
  BY <1>4 DEF Crash, GenOff
<1>5. CASE Generate(r) /\ gen[r].pc \notin {"result", "exit"}
  <2>1. CASE Clean(r) \/ Recover(r)
    <3>1. gen[r].attempt = 1 /\ box' \subseteq box
      BY <2>1 DEF Clean, Recover, GenStep, FirstOnly, Executing
    <3>2. gen'[r].pc # "plan"
      OBVIOUS
    <3>3. box' = box \ {<<r, gen[r].attempt>>}
      BY <2>1 DEF Clean, Recover, Steady
    <3>4. ExecutionsOf(box, r) \subseteq {1}
      BY DEF FirstOnly
    <3>5. ExecutionsOf(box', r) = {}
      BY <3>1, <3>3, <3>4 DEF ExecutionsOf
    <3>6. QED
      BY <1>2, <3>5
  <2>2. CASE gen[r].pc \in Preparing /\ box' = box
    BY <1>2, <2>2 DEF RecordInv, OnRecord
  <2>3. CASE Create(r) \/ Observe(r) \/ Run(r)
    <3>1. \/ \E pc \in {"observe", "run", "recover"} : gen' = Go(r, pc)
          \/ \E d : gen' = GoWith(r, "clean", d)
      BY <2>3 DEF Create, Observe, Run
    <3>2. CASE \E pc \in {"observe", "run", "recover"} : gen' = Go(r, pc)
      BY <3>2, GoesTo
    <3>3. CASE \E d : gen' = GoWith(r, "clean", d)
      BY <3>3, GoesTo
    <3>4. QED
      BY <3>1, <3>2, <3>3
  <2>4. CASE Result(r) \/ Exit(r)
    BY <1>5, <2>4 DEF Result, Exit
  <2>5. CASE Launch(r) \/ Begin(r) \/ Draft(r) \/ Plan(r)
    BY <2>2, <2>5 DEF Launch, Begin, Draft, Plan, GenStep, Preparing
  <2>6. QED
    BY <1>5, <2>1, <2>3, <2>4, <2>5 DEF Generate
<1>6. QED
  BY <1>3, <1>4, <1>5, GenSteps

\* A request is settled by a generation that has ended, by a cleanup that knows, or
\* by a restart that finds no execution on record.
LEMMA SettledIsOverInductive ==
  ASSUME TypeInv, WriteInv, RecordInv, EndInv, ResultIsOver, SettledIsOver, OneExecution,
         Steady, [Next]_vars
  PROVE  SettledIsOver'
<1> SUFFICES ASSUME NEW r \in Requests,
                    mem'[r].status \notin Unsettled \/ disk'[r].status \notin Unsettled
             PROVE  Over(r)'
  BY DEF SettledIsOver
<1>1. Over(r) /\ ~Fresh(r) => Over(r)'
  BY OverStays DEF EndInv
<1>2. CASE mem[r].status \notin Unsettled \/ disk[r].status \notin Unsettled
  <2>1. ~Fresh(r)
    BY <1>2 DEF Fresh, NoEntry, Unsettled
  <2>2. QED
    BY <1>1, <1>2, <2>1 DEF SettledIsOver
<1>3. CASE Crash
  BY <1>2, <1>3 DEF Crash
<1>4. CASE Fresh(r) /\ mem'[r] \in {mem[r], NewEntry} /\ disk'[r] \in {disk[r], NewEntry}
  BY <1>4 DEF Fresh, NewEntry, NoEntry, Unsettled
<1>5. ASSUME NEW e, Moves(r, e), e.status \notin Unsettled, mem[r].status \in Unsettled
      PROVE  Over(r)'
  <2>1. mem[r].status # "absent"
    BY <1>5
    DEF Moves, Drafted, Reviewed, Stopped, CleanedUp, ObservedAs, ResolvedTo, Lapsed
  <2>2. ~Fresh(r)
    BY <2>1 DEF Fresh, NoEntry
  <2>3. (Drafted(r, e) /\ e.status # "cancelling") \/ CleanedUp(r, e)
    BY <1>5
    DEF Moves, Drafted, Reviewed, Stopped, ObservedAs, ResolvedTo, Lapsed, Unsettled
  <2>4. CASE CleanedUp(r, e)
    <3>1. PICK w \in Workers : task[r][w].pc = "finalize"
      BY <2>4 DEF CleanedUp
    <3>2. KnownBy(r, task[r][w])
      BY DEF EndInv, CleanupsKnow
    <3>3. Over(r)
      BY <3>1, <3>2 DEF KnownBy, Steady
    <3>4. QED
      BY <1>1, <2>2, <3>3
  <2>5. CASE gen[r].pc = "result"
    BY <1>1, <2>2, <2>5 DEF ResultIsOver
  <2>6. CASE server = "down" /\ mem[r].work = NoWork /\ mem[r].status = "pending"
    <3>1. gen[r].pc = "off"
      BY <2>6 DEF EndInv, DownIsIdle
    <3>2. \A n \in ExecutionsOf(box, r) : n = NoWork.attempt
      BY <2>6 DEF RecordInv, OnRecord, Names, Closed
    <3>3. \A n \in ExecutionsOf(box, r) : n # 0
      BY ConstantsAssumption DEF ExecutionsOf, Attempts
    <3>4. NoWork.attempt = 0
      BY DEF NoWork
    <3>5. Over(r)
      BY <3>1, <3>2, <3>3, <3>4 DEF Over, CanCreate
    <3>6. QED
      BY <1>1, <2>2, <3>5
  <2>7. QED
    BY <2>3, <2>4, <2>5, <2>6 DEF Drafted
<1>6. QED
  BY <1>2, <1>3, <1>4, <1>5, EntrySteps

\* A request that no cleanup will follow has left no execution, on Orka, where the
\* calls of a run do not fail and a request runs at most one: whatever cleanups fail,
\* handlers meet, saves fail and crashes come.
THEOREM SettledIsQuiet == Spec => [](OneExecution /\ Steady => SettledLeavesNoSandbox)
<1> DEFINE Inv == ResultIsOver /\ SettledIsOver
<1>1. Init => Inv
  <2>1. NoEntry.status = "absent" /\ GenOff.pc = "off"
    BY DEF NoEntry, GenOff
  <2>2. QED
    BY <2>1 DEF Init, ResultIsOver, SettledIsOver, Unsettled
<1>2. /\ TypeInv /\ WriteInv /\ RecordInv /\ (OneExecution => EndInv)
      /\ (OneExecution /\ Steady => Inv) /\ [Next]_vars
      => (OneExecution /\ Steady => Inv)'
  <2> SUFFICES ASSUME TypeInv, WriteInv, RecordInv, OneExecution, EndInv, Steady, Inv,
                      [Next]_vars
               PROVE  Inv'
    BY DEF OneExecution, MaxAttemptsFor, Steady
  <2>1. ResultIsOver'
    BY ResultIsOverInductive DEF EndInv
  <2>2. QED
    BY <2>1, SettledIsOverInductive
<1>3. RecordInv /\ (OneExecution /\ Steady => Inv)
        => (OneExecution /\ Steady => SettledLeavesNoSandbox)
  <2> SUFFICES ASSUME RecordInv, Inv, NEW r \in Requests,
                      mem[r].status \notin {"pending", "cancelling"}
               PROVE  ExecutionsOf(box, r) = {}
    BY DEF SettledLeavesNoSandbox, Quiet, ExecutionsOf
  <2>1. CASE mem[r].status = "absent"
    BY <2>1 DEF RecordInv, OnRecord
  <2>2. CASE mem[r].status # "absent"
    BY <2>2 DEF SettledIsOver, Unsettled, Over
  <2>3. QED
    BY <2>1, <2>2
<1>4. QED
  BY <1>1, <1>2, <1>3, RecordInvariant, EndInvariant, PTL DEF Spec
=============================================================================
