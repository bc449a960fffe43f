---------------------------- MODULE PreviewStore ----------------------------
(***************************************************************************)
(* The drafts of the synchronous API and of the exact chat fixes: one file *)
(* of previews, read, pruned, changed and rewritten under a file lock by   *)
(* every operation.  A confirmation takes a lease on its preview, writes   *)
(* to GitHub, records the write in an audit ledger and finishes; whatever  *)
(* it leaves in doubt is only looked up, until the doubt itself expires.   *)
(***************************************************************************)
EXTENDS Naturals, FiniteSets

CONSTANTS
    Previews,       \* the tokens, of both origins below
    Exact,          \* those derived from an owner and an exact chat request
    Untracked,      \* those whose object the tracking state forgets at once
    Action,         \* preview -> the action key in its draft
    Attempts,       \* the confirmation attempt ids newToken can hand out
    None,           \* no preview, no attempt, no object, no record
    Generators,     \* concurrent generations of exact previews
    MaxDrafts,      \* bound on the drafts of one preview
    MaxPreviews,    \* maxPersistedPreviews
    SearchLag,      \* may GitHub's search miss an object just created?
    StateFaults,    \* may the issue or PR tracking state fail to save?
    MaxCrashes,     \* bound on process deaths
    MaxFaults       \* bound on failed writes of the two files

ASSUME PreviewConstants ==
    /\ Exact \subseteq Previews /\ Untracked \subseteq Previews
    /\ None \notin Previews \cup Attempts
    /\ MaxDrafts \in Nat /\ MaxPreviews \in Nat
    /\ MaxCrashes \in Nat /\ MaxFaults \in Nat
    /\ SearchLag \in BOOLEAN /\ StateFaults \in BOOLEAN

Drafts == 1..MaxDrafts
Object == [attempt : Attempts, preview : Previews, draft : Drafts]

Write == [object : Object, draft : Drafts]

ASSUME NoneIsNothing == None \notin Object \cup Write

VARIABLES
    file,       \* action_preview_state.json
    drafts,     \* how often each preview was drafted: InitiatedAt of the latest
    confirming, \* the confirmation of each attempt id
    generating, \* what each generation is doing
    audit,      \* .action-write-audit/state.json, by preview
    objects,    \* the issues and pull requests on GitHub
    seen,       \* those a marker search finds
    tracked,    \* those the saved tracking state names
    crashes, faults

github == <<objects, seen, tracked>>
vars == <<file, drafts, confirming, generating, audit, github, crashes, faults>>

-----------------------------------------------------------------------------
(* Values.  Times are flags: live is "the lease has not expired", fresh is *)
(* "CreatedAt is within previewTTL".                                       *)

Record == [status : {"absent", "generating", "ready", "running", "unknown", "done"},
           draft : 0..MaxDrafts, attempt : Attempts \cup {None},
           reconciling : BOOLEAN, live : BOOLEAN, fresh : BOOLEAN,
           object : Object \cup {None}]
Absent == [status |-> "absent", draft |-> 0, attempt |-> None,
           reconciling |-> FALSE, live |-> FALSE, fresh |-> TRUE, object |-> None]
Reserved == [Absent EXCEPT !.status = "generating", !.live = TRUE]
Ready(n) == [Absent EXCEPT !.status = "ready", !.draft = n]

InDoubt(f) == f.status \in {"running", "unknown"}

Steps == {"off", "write", "search", "audit", "finish", "discard", "over"}
Confirmation == [pc : Steps, preview : Previews \cup {None}, draft : 0..MaxDrafts,
                 object : Object \cup {None}]
Unstarted == [pc |-> "off", preview |-> None, draft |-> 0, object |-> None]

Generation == [pc : {"off", "generate", "cancel"}, preview : Previews \cup {None}]
Idle == [pc |-> "off", preview |-> None]

TypeOK ==
    /\ file \in [Previews -> Record]
    /\ drafts \in [Previews -> 0..MaxDrafts]
    /\ confirming \in [Attempts -> Confirmation]
    /\ generating \in [Generators -> Generation]
    /\ audit \in [Previews -> Write \cup {None}]
    /\ objects \subseteq Object /\ seen \subseteq objects /\ tracked \subseteq objects
    /\ crashes \in 0..MaxCrashes
    /\ faults \in 0..MaxFaults

Init ==
    /\ file = [p \in Previews |-> Absent]
    /\ drafts = [p \in Previews |-> 0]
    /\ confirming = [a \in Attempts |-> Unstarted]
    /\ generating = [g \in Generators |-> Idle]
    /\ audit = [p \in Previews |-> None]
    /\ objects = {} /\ seen = {} /\ tracked = {}
    /\ crashes = 0 /\ faults = 0

-----------------------------------------------------------------------------
(* The file.  Under the lock an operation reads it, prunes what time has   *)
(* overtaken (evictPersistedPreviews), applies its change and writes the   *)
(* file if anything changed; the write may fail, having replaced it or not.*)

\* An attempt that ends in doubt; looking an old doubt up does not renew it.
Doubted(f) ==
    [f EXCEPT !.status = "unknown", !.attempt = None, !.reconciling = FALSE,
              !.live = FALSE, !.fresh = f.reconciling => f.fresh]

\* A reservation whose lease ended is dropped and an attempt whose lease ended
\* is in doubt; doubt expires into a draft that may be confirmed again.
EvictedAsReady(f) ==
    CASE f.status = "generating" /\ ~f.live -> Absent
      [] f.status = "running" /\ ~f.live -> Ready(f.draft)
      [] f.status = "unknown" /\ ~f.fresh -> Ready(f.draft)
      [] f.status \in {"ready", "done"} /\ ~f.fresh -> Absent
      [] OTHER -> f
Evicted(f) ==
    CASE f.status = "generating" /\ ~f.live -> Absent
      [] f.status = "running" /\ ~f.live -> Doubted(f)
      [] f.status = "unknown" /\ ~f.fresh -> Ready(f.draft)
      [] f.status \in {"ready", "done"} /\ ~f.fresh -> Absent
      [] OTHER -> f

Current == [p \in Previews |-> Evicted(file[p])]
With(p, f) == [Current EXCEPT ![p] = f]

Save(next) == file' = next /\ UNCHANGED faults
SaveFails(next) ==
    /\ faults < MaxFaults
    /\ faults' = faults + 1
    /\ file' \in {file, next}

\* An operation that ends as it would anyway when its write fails.
SaveOrNot(next) == Save(next) \/ SaveFails(next)

\* fitPreviewState: beyond the limit a draft that is not p's and not in doubt or
\* confirmed goes, the oldest first, or nothing is written.
Held(table) == {q \in Previews : table[q].status # "absent"}
SpareUnlessDone(p, table) == {q \in Held(table) \ {p} : table[q].status # "done"}
Spare(p, table) == {q \in Held(table) \ {p} : table[q].status \in {"generating", "ready"}}
Fitted(p, f) ==
    IF Cardinality(Held(With(p, f))) <= MaxPreviews THEN {With(p, f)}
    ELSE {[With(p, f) EXCEPT ![q] = Absent] : q \in Spare(p, With(p, f))}

\* An operation that refuses, or only reads, still saves what it pruned.
Read ==
    /\ Current # file
    /\ SaveOrNot(Current)
    /\ UNCHANGED <<drafts, confirming, generating, audit, github, crashes>>

-----------------------------------------------------------------------------
(* Drafts *)

SameAction(p, q) == Action[p] = Action[q]
DoubtElsewhere(p) == \E q \in Previews \ {p} : SameAction(p, q) /\ InDoubt(Current[q])

Stash(p) ==
    /\ p \notin Exact /\ drafts[p] = 0 /\ drafts[p] < MaxDrafts
    /\ ~DoubtElsewhere(p)
    /\ drafts' = [drafts EXCEPT ![p] = 1]
    /\ \E next \in Fitted(p, Ready(1)) : SaveOrNot(next)
    /\ UNCHANGED <<confirming, generating, audit, github, crashes>>

\* reserveIdempotent: an existing record is handed back, or refused while it is
\* being generated.
Reserve(g, p) ==
    /\ p \in Exact /\ generating[g].pc = "off"
    /\ Current[p].status = "absent" /\ drafts[p] < MaxDrafts
    /\ \E next \in Fitted(p, Reserved) :
        \/ Save(next) /\ generating' = [generating EXCEPT ![g] =
                                            [pc |-> "generate", preview |-> p]]
        \/ SaveFails(next) /\ UNCHANGED generating
    /\ UNCHANGED <<drafts, confirming, audit, github, crashes>>

GenStep(g, pc) ==
    /\ generating[g].pc = pc
    /\ UNCHANGED <<confirming, audit, github, crashes>>
GenTo(g, pc) == generating' = [generating EXCEPT ![g].pc = pc]

\* The reservation is recognised by its identity, not by who made it.
Complete(g) ==
    /\ GenStep(g, "generate")
    /\ LET p == generating[g].preview
           n == drafts[p] + 1
       IN /\ Current[p].status = "generating" /\ n <= MaxDrafts
          /\ drafts' = [drafts EXCEPT ![p] = n]
          /\ \/ Save(With(p, Ready(n))) /\ generating' = [generating EXCEPT ![g] = Idle]
             \/ SaveFails(With(p, Ready(n))) /\ GenTo(g, "cancel")

\* Nothing was generated, or there is no reservation any more to complete.
GenerationFails(g) ==
    /\ GenStep(g, "generate")
    /\ GenTo(g, "cancel")
    /\ UNCHANGED <<file, drafts, faults>>

CancelReservation(g) ==
    /\ GenStep(g, "cancel")
    /\ generating' = [generating EXCEPT ![g] = Idle]
    /\ LET p == generating[g].preview
       IN SaveOrNot(IF Current[p].status = "generating" THEN With(p, Absent) ELSE Current)
    /\ UNCHANGED drafts

RevocableAny(f) == f.status # "done"
Revocable(f) == f.status \in {"generating", "ready"}
Revoke(p) ==
    /\ p \in Exact
    /\ Revocable(Current[p])
    /\ SaveOrNot(With(p, Absent))
    /\ UNCHANGED <<drafts, confirming, generating, audit, github, crashes>>

-----------------------------------------------------------------------------
(* Confirmations *)

ConfStep(a, pc) ==
    /\ confirming[a].pc = pc
    /\ UNCHANGED <<drafts, generating, crashes>>

Over == [Unstarted EXCEPT !.pc = "over"]
Continue(a, c) == confirming' = [confirming EXCEPT ![a] = c]
To(a, pc, object) ==
    Continue(a, [confirming[a] EXCEPT !.pc = pc, !.object = object])

StartableAlone(p) == Current[p].status \in {"ready", "unknown"}
Startable(p) == StartableAlone(p) /\ ~DoubtElsewhere(p)

\* The lease is on file before anything is written.
Begin(a, p) ==
    /\ ConfStep(a, "off")
    /\ Startable(p)
    /\ LET reconcile == Current[p].status = "unknown"
           next == With(p, [Current[p] EXCEPT !.status = "running", !.attempt = a,
                                !.reconciling = reconcile, !.live = TRUE])
       IN \/ /\ Save(next)
             /\ Continue(a, [Unstarted EXCEPT
                    !.pc = IF reconcile THEN "search" ELSE "write",
                    !.preview = p, !.draft = Current[p].draft])
          \/ SaveFails(next) /\ Continue(a, Over)
    /\ UNCHANGED <<audit, github>>

\* A confirmation's context ends before its lease does; after that it can use
\* nothing but the tracking state.
InTime(a) ==
    LET f == file[confirming[a].preview] IN f.attempt = a /\ f.live

Ours(a) == {o \in objects : SameAction(o.preview, confirming[a].preview)}
Known(a) == {o \in Ours(a) : o \in tracked \/ (o \in seen /\ InTime(a))}

Track(a, o) ==
    \/ confirming[a].preview \notin Untracked /\ tracked' = tracked \cup {o}
    \/ (confirming[a].preview \in Untracked \/ StateFaults) /\ UNCHANGED tracked

\* confirmEntry, under the lock it shares with the scheduled refresh.
AdoptObject(a) ==
    /\ ConfStep(a, "write")
    /\ \E o \in Known(a) : Track(a, o) /\ To(a, "audit", o)
    /\ UNCHANGED <<file, audit, objects, seen, faults>>

CreateObject(a) ==
    /\ ConfStep(a, "write")
    /\ InTime(a) /\ Known(a) = {}
    /\ LET o == [attempt |-> a, preview |-> confirming[a].preview,
                 draft |-> confirming[a].draft]
       IN /\ objects' = objects \cup {o}
          /\ \/ seen' = seen \cup {o}
             \/ SearchLag /\ UNCHANGED seen
          /\ \/ Track(a, o) /\ To(a, "audit", o)
             \/ UNCHANGED tracked /\ To(a, "finish", None)
    /\ UNCHANGED <<file, audit, faults>>

\* The search failed, GitHub refused, or the time is over.
WriteFails(a) ==
    /\ ConfStep(a, "write")
    /\ To(a, "finish", None)
    /\ UNCHANGED <<file, audit, github, faults>>

\* The draft is not valid any more, or what it is about has changed.
Reject(a) ==
    /\ ConfStep(a, "write") \/ ConfStep(a, "search")
    /\ To(a, "discard", None)
    /\ UNCHANGED <<file, audit, github, faults>>

ReconcileEntry(a) ==
    /\ ConfStep(a, "search")
    /\ \/ \E o \in Ours(a) \cap seen : InTime(a) /\ To(a, "audit", o)
       \/ To(a, "finish", None)
    /\ UNCHANGED <<file, audit, github, faults>>

\* The ledger keeps the first write of a preview; the same again is no error.
WriteOnFile(a) ==
    [object |-> confirming[a].object, draft |-> file[confirming[a].preview].draft]
WriteOf(a) == [object |-> confirming[a].object, draft |-> confirming[a].draft]
AuditableAgain(a) == TRUE
Auditable(a) == audit[confirming[a].preview] \in {None, WriteOf(a)}

RecordBotWrite(a) ==
    /\ ConfStep(a, "audit")
    /\ LET next == [audit EXCEPT ![confirming[a].preview] = WriteOf(a)]
       IN \/ /\ Auditable(a)
             /\ audit' = next
             /\ To(a, "finish", confirming[a].object)
             /\ UNCHANGED faults
          \/ /\ ~Auditable(a)
             /\ To(a, "finish", None)
             /\ UNCHANGED <<audit, faults>>
          \/ /\ faults < MaxFaults
             /\ faults' = faults + 1
             /\ audit' = audit \/ (Auditable(a) /\ audit' = next)
             /\ To(a, "finish", None)
    /\ UNCHANGED <<file, github>>

\* finish and discard are fenced by the attempt id.
HoldsLeaseOrNone(a) ==
    LET f == Current[confirming[a].preview]
    IN f.status \in {"running", "done"} /\ f.attempt \in {a, None}
HoldsLease(a) ==
    LET f == Current[confirming[a].preview]
    IN f.status = "running" /\ f.attempt = a

Finished(f, object) ==
    IF object = None THEN Doubted(f)
    ELSE [Ready(f.draft) EXCEPT !.status = "done", !.object = object]

Finish(a) ==
    /\ ConfStep(a, "finish")
    /\ LET p == confirming[a].preview
       IN SaveOrNot(IF HoldsLease(a)
                    THEN With(p, Finished(Current[p], confirming[a].object))
                    ELSE Current)
    /\ Continue(a, Over)
    /\ UNCHANGED <<audit, github>>

Discard(a) ==
    /\ ConfStep(a, "discard")
    /\ SaveOrNot(IF HoldsLease(a) THEN With(confirming[a].preview, Absent) ELSE Current)
    /\ Continue(a, Over)
    /\ UNCHANGED <<audit, github>>

-----------------------------------------------------------------------------
(* Time and the process *)

Lapse(p) ==
    /\ file[p].live
    /\ file' = [file EXCEPT ![p].live = FALSE]
    /\ UNCHANGED <<drafts, confirming, generating, audit, github, crashes, faults>>

\* previewTTL (15 minutes) outlasts the lag of GitHub's search index.
Ages(f) == f.status \in {"ready", "unknown", "done"} \/ f.reconciling
Age(p) ==
    /\ file[p].fresh /\ Ages(file[p])
    /\ \A o \in objects : o.preview = p => o \in seen
    /\ file' = [file EXCEPT ![p].fresh = FALSE]
    /\ UNCHANGED <<drafts, confirming, generating, audit, github, crashes, faults>>

Index(o) ==
    /\ o \in objects \ seen
    /\ seen' = seen \cup {o}
    /\ UNCHANGED <<file, drafts, confirming, generating, audit, objects, tracked,
                   crashes, faults>>

Crash ==
    /\ crashes < MaxCrashes
    /\ crashes' = crashes + 1
    /\ confirming' = [a \in Attempts |->
            IF confirming[a].pc = "off" THEN Unstarted ELSE Over]
    /\ generating' = [g \in Generators |-> Idle]
    /\ UNCHANGED <<file, drafts, audit, github, faults>>

Confirm(a) ==
    \/ \E p \in Previews : Begin(a, p)
    \/ AdoptObject(a) \/ CreateObject(a) \/ WriteFails(a) \/ Reject(a)
    \/ ReconcileEntry(a) \/ RecordBotWrite(a) \/ Finish(a) \/ Discard(a)

Generate(g) ==
    \/ \E p \in Previews : Reserve(g, p)
    \/ Complete(g) \/ GenerationFails(g) \/ CancelReservation(g)

Next ==
    \/ Read \/ Crash
    \/ \E p \in Previews : Stash(p) \/ Revoke(p) \/ Lapse(p) \/ Age(p)
    \/ \E g \in Generators : Generate(g)
    \/ \E a \in Attempts : Confirm(a)
    \/ \E o \in objects : Index(o)

Spec == Init /\ [][Next]_vars

-----------------------------------------------------------------------------
(* Properties *)

\* Of the previews of one action at most one is being confirmed or in doubt,
\* through crashes, lapsed leases and confirmations that outlive theirs: the
\* second of two open drafts waits for the first (begin, stash).
OneInDoubt ==
    \A p, q \in Previews :
        SameAction(p, q) /\ InDoubt(file[p]) /\ InDoubt(file[q]) => p = q

\* However often a draft is confirmed, and however its confirmations end, it
\* becomes one issue or pull request, though the search index lags and the
\* tracking state may be lost: doubt expires no sooner than the index catches up.
OneObjectPerDraft ==
    \A o, u \in objects : o.preview = u.preview /\ o.draft = u.draft => o = u

\* A preview that says confirmed has its write in the ledger, with this draft and
\* this object, whatever late attempts, crashes and failed writes came between
\* (Confirm records before it finishes; the ledger is never overwritten).
DoneIsAudited ==
    \A p \in Previews : file[p].status = "done" =>
        audit[p] = [object |-> file[p].object, draft |-> file[p].draft]

\* A confirmed preview stays as it is for its time to live: no late finish, no
\* discard, no new draft and no limit changes or removes it.
DoneStays ==
    [][\A p \in Previews : file[p].status = "done" /\ file[p].fresh =>
            file'[p] \in {file[p], [file[p] EXCEPT !.fresh = FALSE]}]_vars

\* A doubt within its time to live leaves the file only by the attempt that holds
\* it: neither the limit on records nor a revocation nor a lapsed lease drops it.
DoubtIsKept ==
    [][\A p \in Previews : InDoubt(Current[p]) /\ file'[p].status = "absent" =>
            \E a \in Attempts : file[p].attempt = a /\ confirming[a].pc = "discard"]_vars

\* A confirmation that finds the very object its preview was recorded with can
\* record it again (sameBotWrite: a retry that reconciles a recorded write).
RecordedIsAccepted ==
    \A a \in Attempts :
        /\ confirming[a].pc = "audit"
        /\ audit[confirming[a].preview] # None
        /\ audit[confirming[a].preview].object = confirming[a].object
        => Auditable(a)
=============================================================================
