# Verification of prow-ai-dashboard

TLA+ models of the parts of prow-ai-dashboard that can go wrong in ways a test hardly
reaches: the server that drafts GitHub issues and fixes, lets an admin confirm them, runs
agents outside the process and survives crashes. TLC checks small instances; TLAPS proves
the most important invariants for every instance. Paths below are relative to `src/`;
`backend/internal/actions/requests.go:1694` is a line of that file.

## 1. The system

A **fetcher** (CronJob or CLI) downloads Prow and JUnit data, lets an AI analyse failures,
merges recurring ones into patterns and publishes JSON files. A **server** (one replica
unless configured otherwise) shows them through a React frontend and offers an admin *actions*: draft an
issue or a fix, review it, and confirm it, which writes to GitHub as a bot. Fixes may be
generated by an agent that runs outside the process, in an *agent sandbox* (a Kubernetes
object with a Pod) or as an *Orka* Task. State is a handful of JSON files in a shared data
directory, each rewritten whole and durably (`backend/internal/statefile`); fetcher and
server share some of them under file locks (`backend/internal/patternstate`).

### Components

`PROJECT.json` lists all of them with their sources. Those with state and concurrency:

| Component | State it keeps | Operations | What makes it correct |
|---|---|---|---|
| Action requests (`actions/requests.go`) | `action_request_state.json`, its copy in memory, one goroutine per generation, one background cleanup per request, `requestConfirms` | create, supersede, generate, observe runtime work, cancel, clean up, confirm, reconcile, expire, shut down, restore | a GitHub object is created at most once and never forgotten; nothing stays running outside; a stopped request stays stopped; everything ends; quotas hold |
| Preview store (`actions/preview_store.go`) | `action_preview_state.json` | stash, reserve, complete, cancel, revoke, begin, finish, discard, prune, evict | one confirmation in doubt per action; a doubt is never dropped; a confirmed preview stays |
| Write ledger (`actions/bot_write_audit.go`) | `.action-write-audit/state.json` | record | says what is confirmed; never overwritten; accepts a retry |
| Confirmation (`actions/actions.go`) | none of its own: the pattern lock, `s.mu`, the tracking state | confirmEntry, reconcileEntry | search and creation are one step for everybody who shares the lock |
| Fix runtimes (`fixruntime`, `orka/agentruntime.go`, `agentsandbox`) | objects in a cluster, found by name and UID | run, cleanup, recover | what is created is recorded first; nothing foreign is deleted |
| Issue and PR tracking (`issues`, `fixpr`, `remediation`) | tracking files, GitHub | file, reconcile, close, reopen | one object per failure; the file never points to somebody else's object |
| Analysis chat (`analysischat`) | `sessions.json`, shared by replicas under a file lock; a goroutine per admitted question or source investigation | create, ask, cancel, finish, investigate a source, bind the source of a fix, clean up | a question runs once and says what became of it; a cancellation holds; limits hold; a fix's source does not move |
| Remediation investigations (`remediationinvestigation`) | records in memory under two indexes, a cache file, one slot | start, ask the status, run, fall back, recover from the cache, prune | a stale result is not served; a failure costs no result; nothing says running for ever |
| Refresh (`fetcher`, `fetchprogress`) | the pool of analyses, `status.json`, `history.json`, the snapshot | begin, plan, analyze, correlate, publish, follow up, finish, recover | the counters are those of the pool; the files are readable at every moment; each pass is remembered once; none says running for ever |
| Usage ledger, corrections, notifications | one file each | add, read, prune | nothing is counted or sent twice |

The rest is data with little control (analysis prompts, patterns, aggregation, policies,
configuration), I/O (Prow, storage, GitHub clients), programs that run inside a sandbox Pod,
the frontend, deployment manifests and tooling.

### How they interact

- A request's generation goroutine calls the drafting code, which calls a fix runtime. The
  runtime calls *back* into the request table to record which execution it is about to
  create and which it has created; a refused observation stops the run.
- Cancelling, superseding, expiring and shutting down change the table under one mutex,
  release it, and only then cancel contexts and start cleanups. A cleanup calls the runtime
  without the mutex and re-reads the table before it finishes.
- Confirming records "unknown" in the file, releases the mutex, takes the pattern lock
  shared with the scheduled refresh, searches GitHub for the marker, creates the object,
  saves the tracking state, takes the mutex again and records the outcome.
- A chat's replica admits a question in the file and answers it outside the lock; any other
  replica may cancel it, or settle it when its lease has lapsed.
- The fetcher publishes a snapshot; the server's investigations and chats are about one of
  it, and ask again whether it is still current before they show or start anything. The
  server refuses to start an investigation while `status.json` says that a pass runs.
- The synchronous API and the exact chat fixes use the preview store instead of the request
  table; an analysis-fix request generates a draft and hands it to the preview store.

### What is hard

Interleavings of handlers, goroutines and callbacks between two critical sections; a crash
between an effect (creating an object) and its record; answers that are lost; a search index
that lags; a save that fails after it replaced the file; leases and times to live that pass
while somebody works; limits that evict. `PROJECT.json` lists 40 such hazards at their
lines, each with the properties that cover it or the reason none does.

## 2. ActionRequests

`ActionRequests.tla` is the server's request table with everything that works on it.

| Variable | Code |
|---|---|
| `mem`, `disk` | `s.requests` and `action_request_state.json`: status, `FinalStatus`, `Runtime` |
| `gen` | the goroutine of `startGeneration`: its place in `generateRequestOperation` and in the runtime's run, whether its context is cancelled, what it will report |
| `task` | `cleanupRequest`, once per handler and once for the goroutine of `startCleanup` |
| `conf` | `requestConfirms` and the place of `ConfirmRequest` |
| `box` | the sandboxes or Tasks that exist, by request and critique attempt |
| `made`, `seen`, `tracked` | GitHub's objects, what its search shows, what the tracking files name |
| `due` | the requests whose `ExpiresAt` has passed |
| `server`, `crashes`, `saveFaults` | the process, and the counters that bound faults |

One action is one critical section, or one call to the outside. Every handler begins with
`expireRequestsLocked`: that is the action `GetRequest`, and the other handlers are guarded
by `Settled` (nothing overdue is left), so a handler is the sequence of the two. A save
(`saveRequestsLocked`) may fail *before or after* the file was replaced, since the error can
come from syncing the directory; every save site says what memory keeps then, as the code
does (`SaveFails(kept, table)`). `Handlers` are the concurrent threads that cancel, supersede
or shut down. There is one server process: a second one, as a replica or during a rolling
update, loads the same file once and overwrites it from its own memory, which the models do
not show yet. A user's request, a timeout, an expiry and a crash may come at any moment.

`RequestPromise.tla` is what an admin may rely on, without the machinery: requests move
through phases in order, an object is filed only for a draft whose outcome is on file as in
doubt, at most one for each target, and a request in doubt is resolved only by an object that
exists or by the knowledge that there is none, unless it expires. `KeepsPromise` says that the request
file together with GitHub implements it.

### Runs

| Run | Instance | Shows |
|---|---|---|
| `OrkaFix` | one propose-fix request on Orka, two critique attempts, a handler, cleanup calls that fail, one crash, one failed save; 38 480 states, with liveness | types; a settled request leaves nothing running; every execution is on file before it exists and as long as it must be found; `CleanupEnds`, `GenerationEnds` |
| `SandboxFix` | one analysis fix on the agent sandbox, two handlers (symmetric), expiry, run and cleanup faults, a crash, a failed save; 1.3 million states | an answered cancellation leaves nothing running; nobody goes back from being stopped |
| `Drafts` | two issues about one failure by one owner, search lag, a crash, a failed save, limits of one; 516 972 states | write-ahead, one object per draft, the record never forgets it, quotas |
| `Promise` | two issues about one build by two owners, one of which expires, lost tracking state, a crash; 589 739 states | one object per target; the refinement of `RequestPromise` |
| `OrkaFixF1`, `SandboxF2`, `RetryF3` | see *Findings* | expected violations |

**Bounds.** `MaxAttempts` 2 gives a critique retry, the only way one request has two
executions. One request is enough for cleanup properties, which relate one request's
goroutines to each other (requests meet only in the table and its limits); two requests of
one target are enough for the properties of confirmations and quotas, which compare two.
One crash reaches every state a crash can interrupt and the whole recovery after it; one
failed save reaches every save site. `MostObjects` 2 is one more than is allowed, so a second
object shows. `Fresh(r)` makes an identifier serve once, as `newToken` does. `MaxPending`
and `MaxActive` are 1, so that both limits refuse.

**Why some runs are restricted.** `SettledLeavesNoSandbox` fails with faults in the *run*
(finding F1), on the agent sandbox with a crash (F2) and with two handlers and retries (F3),
so the run that shows it for the rest of the code excludes exactly these. `OneObjectPerTarget`
needs a search without lag: with a lag, two owners' objects are kept apart only by the
tracking file, which a build's objects leave at once.

**Fairness** (`FairSpec`). Goroutines that can run do run (weak fairness of `Generate`,
`CleanUp` and the handler's `CancelContext`); a server that is down is started again
(a Deployment, weak fairness of `Start`); a cleanup call that is repeated forever is answered
some time (strong fairness: the API does not fail for ever, and the background loop retries
for ever). Users, timeouts, expiry, the search index and crashes are not fair. `Deadlock` is
not an error: a server whose requests are all settled, with nobody asking, stands still.
`GenerationEnds` excludes behaviours with a failed save, since the abandoned request then
stays pending until it expires a day later (`requests.go:1362`); `CleanupEnds` is about the
fixes of the asynchronous API, since an analysis fix whose preview cannot be revoked waits
for a second cancellation or its expiry (`requests.go:1742`).

## 3. PreviewStore

`PreviewStore.tla` is the file of previews, the confirmations that work on it, the
generations of exact previews and the ledger.

| Variable | Code |
|---|---|
| `file` | `action_preview_state.json`: per preview its status, draft, attempt id, `Reconciling`, object; `live` is "the lease has not expired", `fresh` is "`CreatedAt` is within `previewTTL`" |
| `drafts` | the `InitiatedAt` of the latest draft, as a number |
| `confirming` | each call of `Confirm`: write or search, audit, then finish or discard |
| `generating` | each `PreviewAnalysisFix` that has reserved its token |
| `audit` | the ledger |
| `objects`, `seen`, `tracked` | GitHub, its search, the tracking files |

Every operation takes the file lock, reads the file, prunes it, changes it and writes it
(`updateProtected`), so an action works on `Current`, which is the file as
`evictPersistedPreviews` leaves it, and a failing write leaves the old or the new file.
`Read` is every operation that refuses or only reads; it still saves what it pruned. The
table is limited (`fitPreviewState`), and a new draft may push out an older one.

Time is in two flags. `Lapse` ends a lease: the lease is longer than the context of the
confirmation that holds it (`requestTimeout` plus 30 s), so after it that confirmation can
neither search nor create (`InTime`) but can still audit and finish. `Age` ends a time to
live; it assumes that GitHub's index catches up with a preview's objects within the fifteen
minutes of `previewTTL`, which is what the code relies on when it turns an expired doubt into
a draft that may be confirmed again.

| Run | Instance | Shows |
|---|---|---|
| `Previews` | two drafts of one failure and an exact fix that may be drafted twice, a table of two records, two attempts, one generation, search lag, lost tracking state, a crash, a failed write; 1.05 million states | types, one doubt per action, one object per draft, ledger and file agree, confirmed previews stay, doubts are kept |
| `ReplayF4` | one exact preview, two attempts, no faults | expected violation, finding F4 |

**Bounds.** Three previews are the least for two of one action and one of another, and one
more than the table holds, so eviction happens. Two attempts are one that outlives its lease
and one that takes over. Two drafts of one exact preview are an old and a new one under the
same token. The attempts, and the two drafts of one failure, are interchangeable: only safety
is checked, so the symmetry is sound. There is no liveness here: nothing in the store retries.

## 4. AnalysisChat

`AnalysisChat.tla` is the file of conversations with every operation on it, and the work that
its operations start.

| Variable | Code |
|---|---|
| `sessions` | `sessions.json`: per session its creation key, attempts, the status of each request key, the active turn (`active`: lease, mark of cancellation), answers in the transcript, source investigations, bound revisions |
| `rate` | the admissions of the last minute per login (`OwnerRequestTimes`) |
| `run` | a lease and the goroutine that works under it, in some replica |
| `calls` | calls between their two looks at the file: `Create` resolves the analysis, `PreflightTestFix` the source |

Every operation takes the file lock, reads the file, cleans up what time has overtaken
(`cleanup`), applies itself and writes the file, so an action works on `Current`, the file
after the clean up, and a failed write leaves the old or the new file. Which replica serves an
operation does not matter, and none appears: the goroutines of all replicas are `run`, and
`Crash` takes any set of them. Time is in flags, `live` of a lease and `fresh` of a session;
`LapseTurn`, `LapseSource`, `Expire` and `Minute` may come at any moment. An operation reads
the clock before it waits for the lock; one that read it before a lapse another has seen
behaves as one that came before, on what the file then holds. An expired session is dropped
only if nothing works on it *before* the clean up settles what has lapsed (`Cleaned`): the
settling gives it another time to live.

`ChatPromise.tla` is what somebody who asks may rely on: a question moves from pending to one
outcome that never changes, its answer is in the transcript exactly once and only if it says
succeeded, one question at a time, and a conversation is not forgotten while one is open.

| Run | Instance | Shows |
|---|---|---|
| `Chat` | two sessions of one login, a question and a source investigation each, two creation keys, two revisions, two calls outside the lock, two leases, every limit small, one failed write; 414 593 states | types, `RunsOnce`, `PendingIsLeased`, `WithinLimits`, `OneSessionPerKey`, `CancelHolds`, `OutcomeIsKept`, `BindingStays`, the refinement of `ChatPromise` |

**Bounds.** Two sessions are the least for the limits over sessions and for two creations with
one key; two calls outside the lock are the least that overlap, for a creation as for a
binding. Two leases admit two runs, of one session or of two, one after the other's lapse
included; `MaxActive` 1 makes the second wait or be refused. `RateLimit` 2 equals the leases,
so the limit of the minute is met, and refuses until `Minute`. The limits on
what one login has active (`MaxActive`, `MaxActiveSources`) are met and refuse; those on sessions,
turns and investigations equal what the instance has, so they are reached and never refuse. A
session asks one question, so "one question at a time" is hardly exercised. `LimitsHold` and
`PromiseKept` are for any limits and any number of questions. All sets are symmetric; only
safety is checked. There is no fairness: a lease ends by itself, and `PendingIsLeased` says
that whatever is pending has one.

## 5. RefreshPass

`RefreshPass.tla` is the fetcher from its start to its end, with the tracker that reports it.

| Variable | Code |
|---|---|
| `pc`, `result`, `stopping`, `known` | the goroutine of `Run`/`Watch` and what its pass has come to; `known` is the in-memory set of jobs a light pass needs |
| `status`, `history` | `Tracker.status`, `Tracker.history` |
| `place`, `step` | where the pool has a failure, and where the goroutine of an execution (or of a failure to be analyzed alone) is |
| `at` | the follow-up component whose turn it is |
| `statusFile`, `historyFile` | `status.json`, `history.json` |
| `output` | the passes that put their snapshot in place (0: none), a record of the model |

The counters of the status are the tracker's: each move of a failure (`Moved`) takes one from
a counter, never below zero, and gives one to another, as `decrement` and `increment` do.
`place` is what the pool did; that the two agree is the property `CountersAreTrue`, not an
assumption. An execution is a cohort of failures with one signature. Its goroutine takes a
token, starts its failures one by one (`Begin`, `StartFollower`), analyzes the first, and shares
the result (`Share`, `Note`), or releases a follower to be analyzed alone (`NotShared`, `Again`),
or drops all when the pool is called off (`GiveUp`, `Sink`, `Drop`). `Schedule` takes the least
unscheduled execution, since the planner works in order. A forced write happens or fails; any
other one may be put off until the next (`Unforced`): the tracker writes those at most every
few seconds. The two forced writes of `CompletePhase` and `StartPhase` next to each other are
one action. A process may crash between any two steps, and the next one recovers the pass it
finds running (`Start`, `Recover`); it may be asked to stop; a watching one runs a full pass now
and a light one then, and halts after a failure that all analyses would meet.

| Run | Instance | Shows |
|---|---|---|
| `Refresh` | up to three passes, the first with two failures of a cohort and one of a build on a pool of two, the reuse of one, a correlation with a retry, the follow-ups remediation, fixes, remediation, two disturbances among crashes, stops and failed writes, a history of two; 1 587 325 states, with liveness | types, `FileIsAccepted`, `CountersAreTrue`, `PassesAreRemembered`, `HistoryIsTrue`, `NothingLeftRunning`, `FreshnessKept`, `PassEnds` |

Two properties are narrower than their names. `FileIsAccepted` is about the conditions of
`validate` in `Accepts`, those on the outcome and on the counters the model has; the others (jobs,
cache hits, fresh retries, repairs, the counters of cohorts and tasks, codes of correlation errors,
reasons of follow-ups, times) are not modelled. `HistoryIsTrue` has one direction: a pass that
the history calls published has put its own snapshot in place. The converse is false, and the run
reaches it: a crash, or a failed write of the status, between `WriteOutput` and `MarkPublished`
(`fetcher.go:661-677`) leaves a snapshot that no pass is said to have published.

**Bounds.** A cohort of two and a single failure on two tokens give every meeting of the
pool's goroutines: a follower waiting for a token that the other execution holds, a pool called
off while one shares. Two disturbances are a crash and one in the recovery, or a failed write
and the crash after it. Three passes with a history of two drop the first from it. The later
passes find nothing to analyze, which keeps them short; they are there for what one pass leaves
to the next. `followUps` has the turns whose order matters: fixes need remediation to have been
completed, and remediation has a second turn after fixes.

**Fairness.** `WF(PassStep)`: the goroutines of the process run, the container analyses and
the HTTP calls return by their timeouts, a process that ended is started again (a CronJob or
Deployment). Crashes, stops and failed writes are not fair, and are bounded by `MaxFaults`.

## 6. Investigations

`Investigations.tla` is the manager of remediation investigations: what the server does between
an admin's click on a causal group and the result shown.

| Variable | Code |
|---|---|
| `published`, `head` | what `Validate` finds current in the snapshot, and the source's revision: they move under everything |
| `records`, `byIdentity`, `byCacheKey`, `asked`, `older` | the records in memory, their two indexes, the idempotency keys, and the order of `updatedAt` as pairs of records, the first updated before the second; `pc` of a record is its goroutine |
| `results`, `failures` | the cache file, in order of last update |
| `calls` | HTTP calls between two reads or critical sections: `op` is what comes next, `found` the result a status call has found, `seen` the revisions that were current since, from the first moment at which the group was published |
| `misled` | a status call has shown a result of a revision that is not in its `seen` |

`Start` reads the snapshot (`BeginStart`), then the revision (`ResolveStart`), then inserts under
the lock (`Enqueue`). `Get` validates against the snapshot (`BeginGet`), takes its record under the
lock (`FindRecord`), and resolves outside it: the snapshot first (`ReadSnapshot`,
`resolver.go:83`), the revision from GitHub later (`Answer`, `resolver.go:92`). It answers, or looks
up the cache, verifies what it found, reads snapshot and revision once more (`ValidateRecovered`,
`ConfirmRecovered`) and inserts it (`StoreRecovered`). A run waits for the one slot, investigates
(`Investigated`, `NotInvestigated`), verifies, reads the snapshot (`ValidateBeforePublish`,
`FallBack`), then the revision (`CompareRevision`, `ReturnPrevious`), and shows
(`PublishResult`); each update is dropped if its key leads to another record (`IsCurrent`).
Snapshot and revision may move between any two of these steps. The two reads of the snapshot that
`validateBeforePublish` makes next to each other are one: the second decides.

`AnswerIsCurrent` therefore does not say that group and revision were ever current together: the
group may leave the snapshot between the two reads of one `Resolve`, and the revision return only
then. It says that a result was checked after it was found: since then its group was published at
some moment, and its revision was current at that moment or a later one of the same call. Pruning keeps `MaxOperations` groups, never a running one; the cache drops
failures before results.

| Run | Instance | Shows |
|---|---|---|
| `Investigations` | two groups, two revisions that come and go, one idempotency key, a start and a status call in flight, two records, room for one group in memory and one key in the cache, one restart or failed write; 1 296 556 states, with liveness | types, `AnswerIsCurrent`, `ResultsAreKept`, `RunningEnds` |

**Bounds.** Two revisions that alternate are enough for a record to be of another revision, and
to be current again. Two records let a run and the record that replaces it live together; a
third would only add runs, which meet in the slot and the indexes two at a time. Limits of one
make pruning and eviction happen with two groups. One of the groups leaves the snapshot and comes back
(`Moving`), the other stays: what a missing group does is its own call's or run's affair, and
the theorems are about any number of both. `RunningEnds` is written `[]<>` (a record is again and
again not running), which is the same as saying that "running" leads to "not running". `AnswerIsCurrent` is about status calls: a
repeated start is answered with whatever the group's record shows, as the code does.

**Fairness.** `WF(RunStep(r))` for each record: a run is bounded by its timeout, whatever it
waits for. Nobody has to ask, and nothing has to move.

## 7. What is proved

For every value of the constants that satisfies the `ASSUME`s of the module (limits are
natural numbers, "none" is nothing else):

| Module | Theorems |
|---|---|
| `ActionRequestsProofs` | `TypeCorrect`: `TypeOK` |
| `ActionRequestsWrites` | `WritesAhead`: `WriteAhead`; `NoneReturns`: `NoWayBack`; `QuotaKept`: `WithinQuota`; `ExecutionsOnRecord`: `RecordedBeforeCreated`; where the tracking state can be saved, `WritesOnce`: `AtMostOneWrite` and `WritesRecorded`: `WriteIsRecorded`; where the search does not lag, `OneObject`: `OneObjectPerTarget`; where a request has one execution at most, `CancelledIsQuiet`: `CancelledLeavesNoSandbox` and, on Orka without faults of the run, `SettledIsQuiet`: `SettledLeavesNoSandbox`; where saves, tracking and search do not fail, `FileKeepsPromise`: `KeepsPromise` |
| `PreviewStoreProofs` | `StoreTypes`: `TypeOK`; `OneDoubt`: `OneInDoubt`; `ConfirmedIsAudited`: `DoneIsAudited`; `ConfirmedStays`: `DoneStays`; `DoubtStays`: `DoubtIsKept`; `DraftMakesOne`: `OneObjectPerDraft` |
| `AnalysisChatProofs` | `ChatTypes`: `TypeOK`; `RunOnce`: `RunsOnce`; `PendingHasLease`: `PendingIsLeased`; `CancellationHolds`: `CancelHolds`; `OutcomesAreKept`: `OutcomeIsKept`; `BindingIsKept`: `BindingStays`; `LimitsHold`: `WithinLimits`; `KeyNamesOne`: `OneSessionPerKey`; `PromiseKept`: `KeepsPromise` |
| `InvestigationsProofs` | `AnswersAreCurrent`: `AnswerIsCurrent`; `InvestigationTypes`: `TypeOK`; `ResultsStay`: `ResultsAreKept` |
| `RefreshPassProofs` | `RefreshTypes`: `TypeOK`; `HistoryTrue`: `HistoryIsTrue`; `NothingRunsOn`: `NothingLeftRunning` |
| `RefreshPassCounts` | `CountersTrue`: `CountersAreTrue`; `NoneIsLeft`: a pass beyond its pool has no failure queued or running |
| `RefreshPassFile` | `FileAccepted`: `FileIsAccepted`; `TimesAreKept`: `FreshnessKept`; `PassesRemembered`: `PassesAreRemembered` |

**Requests.** `TypeOK` alone is not inductive: a generation at work must have an attempt
number of at least one (`Numbered`), or the execution it creates is not a member of `box`'s
type; `TypeInv` is both. `WriteInv` has three parts. `DoubtIsKnown`: a confirmation in flight
is "unknown" in memory. `DoubtIsSaved`: what is unknown in memory is unknown in the file;
this is the part a failed save could break, and the proof goes through because a table that
is rolled back never took a request out of doubt, and one that is kept never put one into it.
`WrittenOnce`: once an object exists there is one, both tables are unknown, confirmed or
expired, and no confirmation is about to write or to report a refusal. The proof sorts every
save into *calm* tables (no request enters or leaves doubt) and *kept* ones (doubt may end,
not under a confirmation), and then has one lemma per action. `WrittenOnce` needs
`~StateFaults`, or a request about a build, which has no tracking state (`Tracks`): if the
tracking file cannot be saved the code reports an ordinary error for an object that exists,
and the draft is offered again; there, only the search keeps the second confirmation from
creating a second object. `AllTrack` says that every request is such; it is a hypothesis about
the instance, true or false for good, so the theorems carry it under the box.

The other theorems share one fact about the table, proved once over all handlers
(`TableSteps`, `EntrySteps`): a step moves each entry by one of a few moves (`Moves`: drafted,
reviewed, stopped, cleaned up, observed, resolved, lapsed), or makes one new entry, and saves
the result, a rolled back table, or nothing.

- `NoWayBack` is read off the moves. `WithinQuota` needs its limits of memory *and* of the
  file (`QuotaInv`), since a restart or a failed save makes one the other; a table never opens
  more than one request, and the handler that does has counted the others.
- `RecordedBeforeCreated` needs the generation's place (`OnRecord`): what exists is named by
  both tables or its request is closed, a generation has no execution before it executes
  one and then at most the current one, and it executes only after a save that named it.
- `OneObjectPerTarget` needs that what is found, tracked or reported exists (`ObjectsExist`)
  and that all that exists is found (`ObjectsAreSeen`); the second is where a lagging search
  would break it. Losing the tracking state does not.
- `KeepsPromise` maps each save to a move of the promise. Its hypotheses are those under which
  the promise holds: with a failed save, memory and file part in more ways than by an expiry
  that nobody saved (`AheadInv`); with a lag, two owners' objects may be created for one
  target; without tracking, a refused draft is offered again although its object exists. The
  proof is for crashes, expiries, runtimes and requests of every kind, in any number.
- `CancelledLeavesNoSandbox` holds where a request runs at most one execution
  (`OneExecution`: an issue, an analysis fix, a fix without retries). With a retry it is false,
  and `RetryF3` shows the trace. `EndInv` says what a cleanup knows from what it has seen
  (`KnownBy`): if it has waited for the generation, found none to wait for, or read a UID, no
  execution will be created any more; a UID is known only after the creation (`UidIsLate`);
  and "cancelled" is said only of what is over (`Over`).
- `SettledLeavesNoSandbox` says the same of every request that no cleanup will follow. Besides
  `OneExecution` it needs `Steady`, Orka and no faults of the run: faults of the run are
  finding F1, a sandbox without a UID is F2. Then a generation that reports its result has
  deleted its execution (`ResultIsOver`), and a request is settled only by such a generation,
  by a cleanup that knows, or by a restart that finds no execution on record
  (`SettledIsOver`). The `OrkaFix` run has a retry instead, with one handler, where F3 cannot
  happen; that case is only model-checked.

**Previews.** `StoreInv` strengthens the three properties by what the fencing rests on: a
record that names an attempt is running, that attempt has begun, and unless it is over it
works on this very draft. With it, the draft that `finish` marks confirmed is the draft the
ledger was given. The other parts are that no two records of one action are in doubt, and that
an attempt which is about to report an object has it in the ledger. The proof is about any
table: pruning (`EvictedOK`), changing one record (`WithOK`), making room (`FittedOK`), an
attempt that moves (`MovedOK`), a ledger that grows (`LedgerOK`) and a write that may fail
(`SavedOK`) each keep a sound table, and the actions are combinations of these. The two step
properties follow from what any step may do to one record (`EveryStep`): it keeps, ages or
prunes it (`KeptOrPruned`), or replaces one that is not confirmed, and a doubt by nothing only
where its attempt discards it (`Replaced`). `HistoryOK` is needed for them: a record on file
was drafted, so `Stash`, which needs a preview never drafted, cannot hit a confirmed one.

`OneObjectPerDraft` has to hold where the search lags and the tracking state is lost, so
neither can carry it: the record does. An object that the search misses is accounted for by
the record of its preview (`Accounted`): while the draft on file is the one that made it, the
record is confirmed, in doubt within its time to live, or held by an attempt that does not
write (`Closed`). A draft is offered for writing only when its record is none of these, and
then all its objects are seen (`Age` waits for the index), so the attempt finds them. Old
drafts of one token are told apart by their numbers, which only grow (`NumbersOK`).

**Chats.** `SessionOK` is what each session of the file keeps to: what is pending is what the
session is busy with, an answer belongs to a question that succeeded, an unused or gone session
holds nothing. `SessionStep` is what any operation may do to a session from one file to the
next: each request either stays or moves as `ChatPromise` allows, a mark of cancellation
decides, an outcome comes with a new time to live, a binding stays. Cleaning up one session,
and each change an operation makes to a cleaned one, keep the first and are instances of the
second; a write that fails leaves the old file or the new. The step properties and the
refinement then follow from `SessionStep` for every session, and the invariants from
`SessionOK`. `RunsOnce` needs the file too: what a lease has worked on is not new to its
session any more.

The limits count sets, whose cardinality the library's lemmas bound (`AtMost`). `Fits` says of
a file that every set that `WithinLimits` counts is within its limit, that the turns of a
session are the number of its admitted questions (`SessionFits`), and that two open sessions
of a login have two keys. Cleaning up makes no session busier (`Keeps`), and an operation may
add one session, turn, or investigation, and only where it has found room under the same lock.
`Create`, which looks for its key before it resolves the analysis, looks again.

**Investigations.** `AnswerIsCurrent` is inductive with `SawInvariant`, which says of each call
what its place implies (`CallSaw`): one that has found a result and whose group is published, or
that has read the snapshot since, has seen the revision there is now; and one about to show a result
of the cache has seen the revision that the result is of. Nothing relates the two reads to each
other, which is why the property cannot say more.

The cache is two sequences, of which a write takes one key out, puts it at the end of one, and
cuts both from the front. The lemmas on these (`WithoutFacts`, `LaterFacts`, `CutFacts`,
`StoreFacts`) give that a result goes only when the results are too many, and never the
latest; since the file fitted before (`CacheOK`), a result that was not there has come. The
types of the records need that an index by identity leads to a record in use, which has a key
(`RecordsOK`), and that a call which will insert a record knows its revision (`CallOK`).
Memory's order is a relation, not a sequence, because
what a filter of a sequence yields is defined by recursion, out of the provers' reach.

**Refresh.** `PassInv` relates the goroutine's place to the status (`Fits`): while all is well
only the stage it is in is running and only the follow-up whose turn it is; a pass that goes on
after its publication carries its own pass as the time of the publication; a status to be
written to the history has ended. A status is good (`GoodStatus`) if it shows nothing running
once it has ended and succeeded only with its own publication; every write leaves a good file,
whether it happens or not. The counters need an invariant of the pool (`PoolOK`): a token is
held for a failure that is queued, with all of its cohort idle; what is analyzed is running and
what was is not open; and a running failure without a goroutine has one in its cohort that
will share, drop or release it. From it every move starts in the place that the counter
decreased names, so `Moved` never meets zero, and a drained pool has nothing running. Each
move then changes two cardinalities by one (`OneMoves`), and putting a pass to rest adds two
to a third (`ClosedIsTrue`).

`FileIsAccepted` adds the balance of shared results. Validation refuses a file that says more
were shared than were spared, or more reused and shared than completed; the counters are moved
one by one by several goroutines, so between two moves they are not in balance, and a file
may be written there. `ShareInv` counts who is still going to share (`InWait`, `Noting`): what
was shared and what may yet be shared is within what planning said would be spared, and a
result is counted as completed before it is counted as shared. `FreshnessKept` follows once no
file is refused: a process begins with the times of the file, and those it tells are of its own
pass or of an earlier one (`FreshInv`). For `PassesAreRemembered`, `MemoryInv` says the same
of memory's history as of the file's, that between two passes both have all, and that a pass
newer than the one in the status file has had a failed write. The proof attempt corrected the
property: it used to say that the passes of the history file are in strict order, which the
bound of two faults let pass. With four, the status of an older pass may stay in the status
file while the history takes a newer one, and the next process, which recovers what the status
file says, appends the older one after it. No document or test excludes that; the
property now says which passes may be out of order, those with a failed write, and that none
is twice.

Left to TLC, and why: liveness, which rests on fairness and `ENABLED` (`CleanupEnds`,
`GenerationEnds`, `PassEnds`, `RunningEnds`), and `SettledLeavesNoSandbox` with retries and a
single handler. `RecordedIsAccepted` is finding F4 and false.

## 8. Findings and observations

Where the code does not do what its documentation or its tests say, a run shows the trace
TLC finds; `PROJECT.json` quotes both sides.

- **F1** (`OrkaFixF1`): `safeFixPreviewError` formats errors with `%s` and so loses
  `ErrCleanupPending`. A propose-fix whose run could not confirm its cleanup becomes failed,
  no cleanup is started, and the execution stays.
- **F2** (`SandboxF2`): the agent sandbox refuses to clean up work without a UID, so after a
  crash between creating a sandbox and recording its UID the restart fails the request and
  leaves the sandbox, although the documentation says it is reconciled.
- **F3** (`RetryF3`): two concurrent cancellations; the second cleans up before the first has
  cancelled the context, does not wait for the generation because the identity it read has a
  UID, and finishes the request while a critique retry creates another execution.
- **F4** (`ReplayF4`): the same exact input previewed again after its confirmed record expired
  has the same ledger key and another `InitiatedAt`; the ledger refuses the pull request it
  already holds, at every attempt.

Not contradicted by a document or a test, and so no finding, but worth knowing. The models
have these behaviours:

- A worker that halts after a systemic failure (`fetcher/watch.go:190`) writes nothing more. If
  the last write of its status failed, the file says running until the process is replaced, and
  the server refuses investigations as long. `PassEnds` makes the exception explicit.
- A status call of an investigation that found nothing in memory and recovers a cached result
  may overlap a start; its result then replaces the running record in both indexes, and what
  the run finds is dropped, since its key leads to another record. The result was checked after it was found
  (`AnswerIsCurrent`).
- The index of investigations by cache key keeps records of older revisions: pruning bounds the
  groups, not the keys, until the groups' records are pruned.
- After the revision has moved and returned, a status call may say that a result is stale
  although it is cached: a start that hits the index by cache key does not restore the group's
  index.

## 9. What is not modelled

Of the modelled components: notification emails, generation stages and warnings, the text
of drafts and their byte limits, eviction beyond 200 requests (a hazard without a property:
it may drop an unknown outcome), migration of older state files, closed issues, the Pod and
the result contract of a runtime, a creation that lands after its recovery looked for it,
`stashIdempotent` and `take`, which only tests call. Drafting, verification and the agent are
a choice of outcome. An error while *looking up* is an outcome of the lookup.

Chats: the phases and the polling of a pending question, the text of messages and its limits,
migrations of the file; a model call is an outcome.

Refresh: discovery, download and parsing; the in-process analyzer (the container runtime is
modelled); job and build counters, names and durations of phases, the heartbeat; pattern
repairs, cache hits and fresh retries; the transaction around the AI state that a failed pass
rolls back; shadow analyses and the causal critic; the correlation of single Tasks.

Investigations: the refusal to start while the status file says that a pass runs;
ties of the cache's times, which have a resolution of a second; the details of verification;
`ResolveActionable`, which only reads.

The usage ledger, corrections, notifications, the remediation catalog and the scheduled side of
issue tracking have state and no module yet; the plan orders them. The other components have no
control worth a model, or are I/O. `PROJECT.json` gives the reason for each.

## 10. Plan

Written: `ActionRequests` with `RequestPromise`, `PreviewStore`, `AnalysisChat` with
`ChatPromise`, `RefreshPass`, `Investigations`, each with proofs. Next, in the order of what a
failure would cost:

1. `Tracking`: issue and PR tracking (`issues.Manager.Reconcile`, the remediation catalog),
   two processes under the pattern lock: the server's confirmation and the scheduled refresh,
   which closes, reopens and forgets. One object per failure across both; an object closed by
   a human is not reopened by accident. Composes with the confirmations of `ActionRequests`
   through the tracked set.
2. `TwoServers`: the request file under two processes that each loaded it once, as a rolling
   update has them for a while, against what the documentation promises across replicas.
3. The usage ledger and the once-only notifications, which are smaller.

Each gets one run, in the place of one that shows less. Small pure parts (merging of patterns,
eviction orders) are checked as operators over bounded inputs inside the run of the component
that uses them.

Theorems: every safety property of the passing runs is stated by one. What is left is to take
hypotheses away where the code has the property without them: the two about executions with
retries, for one handler or for cleanups that wait for the generation; and `KeepsPromise` with
saves that fail before the file is replaced.
