---------------------------- MODULE RefreshPass ----------------------------
(***************************************************************************)
(* The passes of the fetcher and the progress tracker that reports them.   *)
(* One goroutine walks a pass through its phases; in the analysis phase a  *)
(* pool of executions works on the failures, one execution for a cohort of *)
(* failures of the same signature.  Everything they do is counted in one   *)
(* status, rewritten in a file that other processes and the next process   *)
(* of the fetcher read; a pass that ended is added to a second file.  The  *)
(* process may die between any two steps, and a write may fail.            *)
(***************************************************************************)
EXTENDS Naturals, Sequences, FiniteSets

CONSTANTS
    Items,          \* the failures a pass may have to analyze, in their order
    Builds,         \* those that are about a whole build
    Cohorts,        \* the failures grouped by signature
    Works,          \* pass -> what it may find to analyze
    Reusable,       \* the failures whose analysis may be at hand
    MaxConcurrent,  \* analyses at a time
    PatternJobs,    \* most jobs whose failures are correlated
    FollowUps,      \* the follow-up components in the order of their turns
    HistoryLimit,   \* pass summaries kept
    MaxPasses, MaxFaults    \* bounds: passes; crashes, stops and failed writes

Components == {FollowUps[n] : n \in DOMAIN FollowUps}

ASSUME PassConstants ==
    /\ Items \subseteq Nat /\ IsFiniteSet(Items) /\ Builds \subseteq Items
    /\ UNION Cohorts = Items /\ {} \notin Cohorts
    /\ \A c, d \in Cohorts : c = d \/ c \cap d = {}
    /\ \A c \in Cohorts : c \cap Builds # {} => Cardinality(c) = 1
    /\ MaxConcurrent \in Nat \ {0} /\ HistoryLimit \in Nat \ {0}
    /\ {PatternJobs, MaxPasses, MaxFaults} \subseteq Nat
    /\ Works \in [1..MaxPasses -> SUBSET SUBSET Items]
    /\ FollowUps \in Seq(Components) /\ {"remediation", "fixes"} \subseteq Components

VARIABLES
    pc,         \* where the goroutine of the pass is
    result,     \* what the pass has come to
    stopping,   \* the process was asked to stop
    known,      \* the jobs are known, so that a light pass can be run
    status,     \* Tracker.status
    history,    \* Tracker.history
    place,      \* failure -> where the pool has it
    step,       \* failure -> where the goroutine that it represents is
    at,         \* the follow-up component it is the turn of
    statusFile, historyFile,    \* status.json, history.json
    output,     \* the passes whose snapshot was put in place; 0 stands for none
    passes, faults, spoiled     \* passes begun, disturbances, passes with a failed write

tracker == <<status, history>>
pool == <<place, step>>
disk == <<statusFile, historyFile, output>>
vars == <<pc, result, stopping, known, tracker, pool, at, disk, passes, faults, spoiled>>

-----------------------------------------------------------------------------
(* The status *)

Subjects == [all |-> Items, build |-> Builds]
Kinds == DOMAIN Subjects
Places == {"queued", "running", "completed", "failed", "cancelled"}
Open == {"queued", "running"}
Stages == {"patterns", "publication", "sideEffects"}
StageState == {"pending", "running", "completed", "failed", "cancelled", "skipped"}
Outcomes == {"none", "running", "succeeded", "failed", "cancelled", "interrupted"}
Types == {"none", "oneShot", "initial", "reconcile", "watch"}

NoPatterns == [eligible |-> 0, attempts |-> 0, retries |-> 0, completed |-> 0,
               failed |-> 0, suppressed |-> 0]
\* The status of no pass stands for a file that is absent, too.
NoStatus ==
    [pass |-> 0, type |-> "none", outcome |-> "none",
     total |-> [k \in Kinds |-> 0], count |-> [k \in Kinds |-> [p \in Places |-> 0]],
     reused |-> 0, shared |-> 0, saved |-> 0, checkpoint |-> FALSE,
     patterns |-> NoPatterns, stage |-> [s \in Stages |-> "pending"],
     followUp |-> [c \in Components |-> "pending"], checked |-> 0, published |-> 0]

\* A freshness time is told by the pass that set it.
StatusType ==
    [pass : Nat, type : Types, outcome : Outcomes,
     total : [Kinds -> Nat], count : [Kinds -> [Places -> Nat]],
     reused : Nat, shared : Nat, saved : Nat, checkpoint : BOOLEAN,
     patterns : [DOMAIN NoPatterns -> Nat], stage : [Stages -> StageState],
     followUp : [Components -> StageState], checked : Nat, published : Nat]

Accounted(s, k) ==
    s.count[k]["queued"] + s.count[k]["running"] + s.count[k]["completed"]
      + s.count[k]["failed"] + s.count[k]["cancelled"]

\* validate: what the next process, and the server, refuse to read; of its conditions those
\* on the counters and the outcome modelled here.  Left out are those on what is not
\* modelled: jobs, cache hits, fresh retries, repairs, the counters of cohorts and tasks,
\* codes of correlation errors, the reasons of follow-ups, and times.
Accepts(s) ==
    /\ s.patterns.completed + s.patterns.failed <= s.patterns.eligible
    /\ s.patterns.retries <= s.patterns.attempts
    /\ s.patterns.suppressed <= s.patterns.failed
    /\ \A k \in Kinds :
        /\ Accounted(s, k) <= s.total[k]
        /\ s.outcome = "running" \/ Accounted(s, k) = s.total[k]
    /\ s.total["build"] <= s.total["all"]
    /\ s.reused + s.shared <= s.count["all"]["completed"]
    /\ s.shared <= s.saved
Readable(s) == s.pass # 0 /\ Accepts(s)

\* One failure goes from one place to another; a counter never falls below zero.
Moved(s, i, from, to) ==
    [s EXCEPT !.count = [k \in Kinds |->
        IF i \notin Subjects[k] THEN @[k]
        ELSE [p \in Places |-> CASE p = from /\ p # to /\ @[k][p] > 0 -> @[k][p] - 1
                                 [] p = to -> @[k][p] + 1
                                 [] OTHER -> @[k][p]]]]

\* What was open is cancelled, of the chosen places.
ClosedQueued(s, gone) ==
    [s EXCEPT !.count = [k \in Kinds |-> [p \in Places |->
        CASE p \in gone -> 0
          [] p = "cancelled" -> @[k][p] + @[k]["queued"]
          [] OTHER -> @[k][p]]]]
Closed(s, gone) ==
    [s EXCEPT !.count = [k \in Kinds |-> [p \in Places |->
        CASE p \in gone -> 0
          [] p = "cancelled" -> @[k][p] + (IF "queued" \in gone THEN @[k]["queued"] ELSE 0)
                                        + (IF "running" \in gone THEN @[k]["running"] ELSE 0)
          [] OTHER -> @[k][p]]]]

\* finishTerminal: nothing that was running is left running.
TerminalStages(s, outcome) ==
    [Closed(s, Open) EXCEPT
        !.outcome = outcome,
        !.stage = [t \in Stages |-> IF @[t] = "running" THEN "failed" ELSE @[t]]]
Terminal(s, outcome) ==
    [Closed(s, Open) EXCEPT
        !.outcome = outcome,
        !.stage = [t \in Stages |->
            CASE @[t] # "running" -> @[t]
              [] outcome = "failed" -> "failed"
              [] OTHER -> "cancelled"],
        !.followUp = [c \in Components |->
            IF @[c] = "running" THEN "cancelled" ELSE @[c]]]

LeftAsItIs(s) == s
Interrupted(s) == Terminal(s, "interrupted")

\* StartPass: a new status keeps the times of the last check and publication.
BegunAnew(pass, type) ==
    [NoStatus EXCEPT !.pass = pass, !.type = type, !.outcome = "running"]
Begun(pass, type) ==
    [NoStatus EXCEPT !.pass = pass, !.type = type, !.outcome = "running",
                     !.checked = status.checked, !.published = status.published]

-----------------------------------------------------------------------------
(* The files.  A forced write happens, or fails; another one may be put    *)
(* off for the next write to make up.                                      *)

Forced(s) ==
    /\ status' = s
    /\ \/ statusFile' = s /\ UNCHANGED <<faults, spoiled>>
       \/ /\ faults < MaxFaults /\ faults' = faults + 1
          /\ spoiled' = spoiled \cup {s.pass}
          /\ UNCHANGED statusFile

Unforced(s) == status' = s /\ statusFile' \in {statusFile, s} /\ UNCHANGED <<faults, spoiled>>

SummaryOfAny(s) == [pass |-> s.pass, outcome |-> s.outcome, published |-> s.published # 0]
Summary(s) == [pass |-> s.pass, outcome |-> s.outcome, published |-> s.published = s.pass]
Recorded(h) == {h[n].pass : n \in DOMAIN h}
AllOf(h) == h
LastOf(h) == IF Len(h) > HistoryLimit THEN Tail(h) ELSE h

\* appendHistoryLocked: once for each pass.
AppendHistory(s) ==
    IF s.pass \in Recorded(history) THEN UNCHANGED <<history, historyFile, faults, spoiled>>
    ELSE /\ history' = LastOf(Append(history, Summary(s)))
         /\ \/ historyFile' = history' /\ UNCHANGED <<faults, spoiled>>
            \/ /\ faults < MaxFaults /\ faults' = faults + 1
               /\ spoiled' = spoiled \cup {s.pass}
               /\ UNCHANGED historyFile

-----------------------------------------------------------------------------
(* A process starts, is asked to stop, or dies *)

Init ==
    /\ pc = "down" /\ result = "ok" /\ stopping = FALSE /\ known = FALSE
    /\ status = NoStatus /\ history = <<>>
    /\ place = [i \in Items |-> "none"] /\ step = [i \in Items |-> "idle"] /\ at = 0
    /\ statusFile = NoStatus /\ historyFile = <<>> /\ output = {0}
    /\ passes = 0 /\ faults = 0 /\ spoiled = {}

\* recoverInterrupted: the pass in the file ended, or this process ends it.
StartAfterEnd ==
    /\ pc = "down"
    /\ history' = historyFile
    /\ IF Readable(statusFile)
       THEN IF statusFile.outcome = "running"
            THEN /\ Forced(Interrupted(statusFile))
                 /\ pc' = IF statusFile' = status' THEN "recovering" ELSE "ready"
            ELSE status' = statusFile /\ pc' = "ready" /\ UNCHANGED <<statusFile, faults, spoiled>>
       ELSE status' = NoStatus /\ pc' = "ready" /\ UNCHANGED <<statusFile, faults, spoiled>>
    /\ UNCHANGED <<result, stopping, known, pool, at, historyFile, output, passes>>
Start ==
    /\ pc = "down"
    /\ history' = historyFile
    /\ IF Readable(statusFile)
       THEN IF statusFile.outcome = "running"
            THEN /\ Forced(Interrupted(statusFile))
                 /\ pc' = IF statusFile' = status' THEN "recovering" ELSE "ready"
            ELSE /\ status' = statusFile /\ pc' = "recovering"
                 /\ UNCHANGED <<statusFile, faults, spoiled>>
       ELSE status' = NoStatus /\ pc' = "ready" /\ UNCHANGED <<statusFile, faults, spoiled>>
    /\ UNCHANGED <<result, stopping, known, pool, at, historyFile, output, passes>>

Recover ==
    /\ pc = "recovering"
    /\ AppendHistory(status)
    /\ pc' = "ready"
    /\ UNCHANGED <<result, stopping, known, status, pool, at, statusFile, output, passes>>

Gone ==
    /\ pc' = "down" /\ result' = "ok" /\ stopping' = FALSE /\ known' = FALSE
    /\ status' = NoStatus /\ history' = <<>>
    /\ place' = [i \in Items |-> "none"] /\ step' = [i \in Items |-> "idle"] /\ at' = 0

Crash ==
    /\ pc # "down" /\ faults < MaxFaults /\ faults' = faults + 1
    /\ Gone
    /\ UNCHANGED <<disk, passes, spoiled>>

Stop ==
    /\ pc # "down" /\ ~stopping /\ faults < MaxFaults /\ faults' = faults + 1
    /\ stopping' = TRUE
    /\ UNCHANGED <<pc, result, known, tracker, pool, at, disk, passes, spoiled>>

\* A process runs one pass, or watches: a full pass now and then, a light one between.
BeginPass(type) ==
    /\ passes < MaxPasses /\ passes' = passes + 1
    /\ Forced(Begun(passes + 1, type))
    /\ place' = [i \in Items |-> "none"]
    /\ result' = "ok"
    /\ UNCHANGED <<stopping, known, history, step, at, historyFile, output>>

FirstPass ==
    /\ pc = "ready" /\ pc' = "setup"
    /\ BeginPass("oneShot") \/ BeginPass("initial")

NextPass ==
    /\ pc = "idle" /\ ~stopping
    /\ \/ BeginPass("reconcile") /\ pc' = "discovery"
       \/ known /\ BeginPass("watch") /\ pc' = "artifacts"

-----------------------------------------------------------------------------
(* A pass, phase by phase *)

\* The pass returns with an error; one of a stopped process may be its cancellation.
Return(r) ==
    /\ pc' = "ending" /\ result' = r
    /\ UNCHANGED <<stopping, known, tracker, pool, at, disk, passes, faults, spoiled>>

Systemic == {"setup", "planning", "preflight"}
Fallible == Systemic \cup {"discovery", "artifacts", "checkpoint", "correlated",
                           "merging", "writing"}
Fail ==
    /\ pc \in Fallible
    /\ pc = "preflight" => \E i \in Items : place[i] = "queued"
    /\ \/ Return(IF pc = "setup" THEN "fatal" ELSE "failed")
       \/ pc \in Systemic /\ Return("systemic")
       \/ stopping /\ Return("cancelled")

\* One phase is completed and the next one started.
Phase(from, to, s) ==
    /\ pc = from /\ pc' = to
    /\ Forced(s)
    /\ UNCHANGED <<result, stopping, known, history, at, historyFile, output, passes>>

SetUp == Phase("setup", "discovery", status) /\ UNCHANGED pool
Discover == Phase("discovery", "artifacts", status) /\ UNCHANGED pool
MarkChecked ==
    Phase("artifacts", "planning", [status EXCEPT !.checked = status.pass]) /\ UNCHANGED pool

\* planContainerAnalysisWork: what is reused needs no analysis; of a cohort one does.
Executions(queued) == {c \cap queued : c \in Cohorts} \ {{}}
Planned(work, queued) ==
    [status EXCEPT
        !.total = [k \in Kinds |-> Cardinality(work \cap Subjects[k])],
        !.count = [k \in Kinds |-> [p \in Places |->
            CASE p = "queued" -> Cardinality(queued \cap Subjects[k])
              [] p = "completed" -> Cardinality((work \ queued) \cap Subjects[k])
              [] OTHER -> 0]],
        !.reused = Cardinality(work \ queued),
        !.saved = Cardinality(queued) - Cardinality(Executions(queued))]

PlanAnalysisWork ==
    /\ pc = "planning"
    /\ \E work \in Works[passes] : \E queued \in SUBSET work :
        /\ work \ queued \subseteq Reusable
        /\ IF work # {} THEN Phase("planning", "preflight", Planned(work, queued))
           ELSE Phase("planning", "merging",
                      [Planned(work, queued) EXCEPT !.stage["patterns"] = "skipped"])
        /\ place' = [i \in Items |-> CASE i \in queued -> "queued"
                                       [] i \in work \ queued -> "completed"
                                       [] OTHER -> "none"]
        /\ UNCHANGED step

Preflight == Phase("preflight", "analysis", status) /\ UNCHANGED pool

-----------------------------------------------------------------------------
(* The pool.  The goroutine of an execution is known by the failure that   *)
(* represents it.                                                          *)

Over == stopping \/ result = "systemic"     \* analysisCtx is done
Tokens == {i \in Items : step[i] \notin {"idle", "again"}}
Mates(i) == (CHOOSE c \in Cohorts : i \in c) \ {i}
Unstarted(i) == {j \in Mates(i) : place[j] = "queued"}
Followers(i) == {j \in Mates(i) : place[j] = "running" /\ step[j] = "idle"}
Unscheduled == {i \in Items : /\ place[i] = "queued"
                              /\ \A j \in Mates(i) \cup {i} : step[j] = "idle"}
Least(S) == CHOOSE i \in S : \A j \in S : i <= j

InPool ==
    pc = "analysis"
    /\ UNCHANGED <<pc, stopping, known, history, at, historyFile, output, passes>>

Quietly == UNCHANGED <<place, status, statusFile, faults, spoiled>>
Steps(i, s) == step' = [step EXCEPT ![i] = s] /\ UNCHANGED result
Moves(i, from, to) ==
    place' = [place EXCEPT ![i] = to] /\ Unforced(Moved(status, i, from, to))

\* scheduleExecution: in order, when there is room.
Schedule(i) ==
    /\ InPool /\ ~Over
    /\ Unscheduled # {} /\ i = Least(Unscheduled) /\ Cardinality(Tokens) < MaxConcurrent
    /\ Steps(i, "held") /\ Quietly

\* The goroutine looks at the context, then starts its failures one after the other.
Begin(i) ==
    /\ InPool /\ step[i] = "held"
    /\ IF Over THEN Steps(i, "idle") /\ Quietly
       ELSE Steps(i, "active") /\ Moves(i, "queued", "running")

StartFollower(i) ==
    /\ InPool /\ step[i] = "active" /\ Unstarted(i) # {}
    /\ Steps(i, "active") /\ Moves(Least(Unstarted(i)), "queued", "running")

Analyzed(i) == InPool /\ step[i] \in {"active", "alone"} /\ Unstarted(i) = {}
Rest(i) == IF step[i] = "active" THEN Followers(i) ELSE {}

\* A result, for the failure itself and perhaps for those like it.
Answer(i) ==
    /\ Analyzed(i)
    /\ Moves(i, "running", "completed")
    /\ Steps(i, IF Rest(i) = {} THEN "idle" ELSE "sharing")

\* An error of one failure; each of a cohort is then analyzed by itself.
RefuseTwice(i) ==
    /\ Analyzed(i)
    /\ Moves(i, "running", "failed")
    /\ step' = [j \in Items |-> IF j \in Rest(i) THEN "again"
                              ELSE IF j # i THEN step[j]
                              ELSE IF Rest(i) = {} THEN "idle" ELSE "again"]
    /\ UNCHANGED result
Refuse(i) ==
    /\ Analyzed(i)
    /\ IF Rest(i) = {} THEN Steps(i, "idle") /\ Moves(i, "running", "failed")
       ELSE /\ step' = [j \in Items |-> IF j \in Rest(i) \cup {i} THEN "again" ELSE step[j]]
            /\ UNCHANGED result /\ Quietly

\* The analysis was cancelled, or timed out: no other is tried.
GiveUp(i) ==
    /\ Analyzed(i)
    /\ Moves(i, "running", "cancelled")
    /\ Steps(i, IF Rest(i) = {} THEN "idle" ELSE "dropping")

\* An error that every other analysis would meet, too: the pool is called off.
Sink(i) ==
    /\ Analyzed(i)
    /\ Moves(i, "running", "failed")
    /\ Steps(i, IF step[i] = "active" THEN "sinking" ELSE "sunk")

Drop(i) ==
    /\ InPool /\ step[i] \in {"dropping", "sinking"} /\ Followers(i) # {}
    /\ Steps(i, step[i]) /\ Moves(Least(Followers(i)), "running", "cancelled")

\* prepareSameFailureReuse: the result is checked against the follower's own evidence.
Share(i) ==
    /\ InPool /\ step[i] = "sharing" /\ Followers(i) # {}
    /\ Steps(i, "noting") /\ Moves(Least(Followers(i)), "running", "completed")

Note(i) ==
    /\ InPool /\ step[i] = "noting"
    /\ Steps(i, "sharing") /\ UNCHANGED place
    /\ Unforced([status EXCEPT !.shared = @ + 1])

NotShared(i) ==
    /\ InPool /\ step[i] = "sharing" /\ Followers(i) # {}
    /\ Steps(Least(Followers(i)), "again") /\ Quietly

Release(i) ==
    /\ InPool
    /\ \/ step[i] \in {"sharing", "dropping", "sinking"} /\ Followers(i) = {}
       \/ step[i] = "sunk"
    /\ step' = [step EXCEPT ![i] = "idle"]
    /\ result' = IF step[i] \in {"sinking", "sunk"} THEN "systemic" ELSE result
    /\ Quietly

\* A follower, or one of a failed cohort, waits for a token of its own.
Again(i) ==
    /\ InPool /\ step[i] = "again"
    /\ \/ ~Over /\ Cardinality(Tokens) < MaxConcurrent /\ Steps(i, "alone") /\ Quietly
       \/ Over /\ Steps(i, "idle") /\ Moves(i, "running", "cancelled")

\* wg.Wait, then what was never scheduled is cancelled.
Drained ==
    /\ pc = "analysis" /\ \A i \in Items : step[i] = "idle"
    /\ Over \/ \A i \in Items : place[i] # "queued"
    /\ Forced(Closed(status, {"queued"}))
    /\ place' = [i \in Items |-> IF place[i] = "queued" THEN "cancelled" ELSE place[i]]
    /\ pc' = IF Over THEN "ending" ELSE "checkpoint"
    /\ result' = IF result = "systemic" \/ ~stopping THEN result ELSE "cancelled"
    /\ UNCHANGED <<stopping, known, history, step, at, historyFile, output, passes>>

PoolStep(i) ==
    \/ Schedule(i) \/ Begin(i) \/ StartFollower(i)
    \/ Answer(i) \/ Refuse(i) \/ GiveUp(i) \/ Sink(i)
    \/ Share(i) \/ Note(i) \/ NotShared(i) \/ Drop(i) \/ Release(i) \/ Again(i)

-----------------------------------------------------------------------------
(* Correlation, publication and what follows it *)

MarkAnalysisCheckpoint ==
    /\ Phase("checkpoint", "correlating",
             [status EXCEPT !.checkpoint = TRUE, !.stage["patterns"] = "running"])
    /\ UNCHANGED pool

PlanPatterns ==
    /\ \E n \in 0..PatternJobs :
        Phase("correlating", "patterns", [status EXCEPT !.patterns.eligible = n])
    /\ UNCHANGED pool

\* The runtime cannot be set up.
SkipPatterns ==
    /\ Phase("correlating", "merging", [status EXCEPT !.stage["patterns"] = "skipped"])
    /\ UNCHANGED pool

\* analyzeOne: at most two attempts; a failure that is cooling down counts as one.
Attempt(to, retry, completed, failed) ==
    LET tried == [status.patterns EXCEPT !.attempts = @ + 1, !.retries = @ + retry,
                                         !.completed = @ + completed, !.failed = @ + failed]
    IN Phase(pc, to, [status EXCEPT !.patterns = tried])

Correlate ==
    /\ pc \in {"patterns", "retrying"}
    /\ status.patterns.completed + status.patterns.failed < status.patterns.eligible
    /\ LET retry == IF pc = "retrying" THEN 1 ELSE 0 IN
        \/ Attempt("patterns", retry, 1, 0)
        \/ Attempt("patterns", retry, 0, 1)
        \/ Attempt("suppressed", retry, 0, 1)
        \/ pc = "patterns" /\ Attempt("retrying", 0, 0, 0)
    /\ UNCHANGED pool

RecordSuppressed ==
    Phase("suppressed", "patterns", [status EXCEPT !.patterns.suppressed = @ + 1])
    /\ UNCHANGED pool

Correlated ==
    /\ status.patterns.completed + status.patterns.failed = status.patterns.eligible
    /\ Phase("patterns", "correlated", status)
    /\ UNCHANGED pool

\* A stopped pass that has saved its correlations does not publish.
CompletePatterns ==
    /\ ~stopping
    /\ Phase("correlated", "merging", [status EXCEPT !.stage["patterns"] = "completed"])
    /\ UNCHANGED pool

StartPublication ==
    /\ Phase("merging", "writing", [status EXCEPT !.stage["publication"] = "running"])
    /\ UNCHANGED pool

WriteOutput ==
    /\ pc = "writing" /\ pc' = "written"
    /\ output' = output \cup {status.pass}
    /\ UNCHANGED <<result, stopping, known, tracker, pool, at, statusFile, historyFile,
                   passes, faults, spoiled>>

MarkPublished ==
    /\ Phase("written", "published",
             [status EXCEPT !.published = status.pass, !.stage["publication"] = "completed"])
    /\ UNCHANGED pool

\* A light pass has no side effects.
SkipSideEffects ==
    /\ status.type = "watch"
    /\ Phase("published", "ending", [status EXCEPT !.stage["sideEffects"] = "skipped"])
    /\ UNCHANGED pool

StartSideEffects ==
    /\ pc = "published" /\ status.type # "watch" /\ pc' = "followUps"
    /\ Forced([status EXCEPT !.stage["sideEffects"] = "running"])
    /\ at' = 1
    /\ UNCHANGED <<result, stopping, known, history, pool, historyFile, output, passes>>

\* A component's turn ends with its state; an error does not keep the next from its turn.
SetFollowUp(to, state, turn) ==
    /\ pc' = to /\ at' = at + turn
    /\ Forced([status EXCEPT !.followUp[FollowUps[at]] = state])
    /\ result' = IF state = "failed" THEN "failed" ELSE result
    /\ UNCHANGED <<stopping, known, history, pool, historyFile, output, passes>>

\* Fixes are not proposed without remediation; when they were, it has its second turn.
SecondTurn == FollowUps[at] = "remediation" /\ status.followUp["remediation"] # "pending"
Due ==
    CASE FollowUps[at] = "fixes" -> status.followUp["remediation"] = "completed"
      [] SecondTurn -> status.followUp["fixes"] \in {"completed", "failed"}
      [] OTHER -> TRUE

BeginFollowUp ==
    /\ pc = "followUps" /\ at <= Len(FollowUps)
    /\ \/ Due /\ SetFollowUp("following", "running", 0)
       \/ ~SecondTurn /\ SetFollowUp("followUps", "skipped", 1)
       \/ /\ Due /\ FollowUps[at] \in {"remediation", "fixes"} /\ ~SecondTurn
          /\ SetFollowUp("followUps", "failed", 1)
       \/ /\ SecondTurn
          /\ at' = at + 1
          /\ UNCHANGED <<pc, result, stopping, known, tracker, pool, disk, passes, faults, spoiled>>

FinishFollowUp ==
    /\ pc = "following"
    /\ \E state \in {"completed", "failed"} : SetFollowUp("followUps", state, 1)

SideEffectsDone ==
    /\ pc = "followUps" /\ at > Len(FollowUps) /\ pc' = "ending" /\ at' = 0
    /\ IF result = "ok" THEN Forced([status EXCEPT !.stage["sideEffects"] = "completed"])
       ELSE UNCHANGED <<status, statusFile, faults, spoiled>>
    /\ result' \in {result} \cup (IF result # "ok" /\ stopping THEN {"cancelled"} ELSE {})
    /\ UNCHANGED <<stopping, known, history, pool, historyFile, output, passes>>

-----------------------------------------------------------------------------
(* The end of a pass *)

OutcomeOf(r) == CASE r = "ok" -> "succeeded" [] r = "cancelled" -> "cancelled" [] OTHER -> "failed"

\* FinishSuccess, FinishFailure, FinishCancelled: the status is written first.
Finish ==
    /\ pc = "ending" /\ pc' = "ended"
    /\ Forced(IF result = "ok" THEN [status EXCEPT !.outcome = "succeeded"]
              ELSE Terminal(status, OutcomeOf(result)))
    /\ place' = [i \in Items |-> IF place[i] \in Open THEN "cancelled" ELSE place[i]]
    /\ known' = (known \/ result = "ok")
    /\ UNCHANGED <<result, stopping, history, step, at, historyFile, output, passes>>

AppendPass ==
    /\ pc = "ended"
    /\ AppendHistory(status)
    /\ IF status.type = "oneShot" \/ result \in {"leaving", "fatal"} THEN pc' = "exit"
       ELSE pc' = "scheduling" \/ (result = "systemic" /\ pc' = "halted")
    /\ UNCHANGED <<result, stopping, known, status, pool, at, statusFile, output, passes>>

SetSchedule == Phase("scheduling", "idle", status) /\ UNCHANGED pool

\* A process stopped while it waits marks its last pass cancelled.
Leave ==
    /\ pc = "idle" /\ stopping
    /\ IF status.outcome = "succeeded"
       THEN pc' = "ended" /\ result' = "leaving" /\ Forced(Terminal(status, "cancelled"))
       ELSE pc' = "exit" /\ UNCHANGED <<result, status, statusFile, faults, spoiled>>
    /\ UNCHANGED <<stopping, known, history, pool, at, historyFile, output, passes>>

Exit ==
    /\ pc = "exit" \/ (pc = "halted" /\ stopping)
    /\ Gone
    /\ UNCHANGED <<disk, passes, faults, spoiled>>

-----------------------------------------------------------------------------

PassStep ==
    \/ Start \/ Recover \/ FirstPass \/ NextPass \/ Fail
    \/ SetUp \/ Discover \/ MarkChecked \/ PlanAnalysisWork \/ Preflight
    \/ (\E i \in Items : PoolStep(i)) \/ Drained
    \/ MarkAnalysisCheckpoint \/ PlanPatterns \/ SkipPatterns
    \/ Correlate \/ RecordSuppressed \/ Correlated \/ CompletePatterns
    \/ StartPublication \/ WriteOutput \/ MarkPublished
    \/ SkipSideEffects \/ StartSideEffects \/ BeginFollowUp \/ FinishFollowUp \/ SideEffectsDone
    \/ Finish \/ AppendPass \/ SetSchedule \/ Leave \/ Exit

Next == PassStep \/ Crash \/ Stop

\* The fetcher's own steps are taken: analyses return by their timeouts, watching goes
\* on, and a process that ended is started again.
Spec == Init /\ [][Next]_vars /\ WF_vars(PassStep)

-----------------------------------------------------------------------------
(* Properties *)

\* The tracker's status, its file and its history keep their types.
TypeOK ==
    /\ status \in StatusType /\ statusFile \in StatusType
    /\ place \in [Items -> Places \cup {"none"}]
    /\ DOMAIN step = Items /\ at \in Nat /\ stopping \in BOOLEAN /\ known \in BOOLEAN
    /\ output \subseteq Nat /\ {passes, faults} \subseteq Nat
    /\ \A h \in {history, historyFile} :
        Len(h) <= HistoryLimit /\ \A n \in DOMAIN h : h[n].outcome \in Outcomes \ {"none", "running"}

\* Whatever the moment a process dies in, or another one reads, the counters and the outcome
\* in the status file are what validate accepts (its conditions in Accepts, not all of them):
\* a refused file would lose the pass and the freshness times.
FileIsAccepted == statusFile.pass # 0 => Accepts(statusFile)

\* While a pass runs, each counter of the status is the number of failures the pool has
\* in that place: none is counted twice, forgotten, or hidden by a counter held at zero.
CountersAreTrue ==
    pc \notin {"down", "recovering", "ready", "idle", "scheduling"} =>
        \A k \in Kinds, p \in Places :
            status.count[k][p] = Cardinality({i \in Subjects[k] : place[i] = p})

\* Every pass but the current one is in the history file, whether it ended or its
\* process died, once, unless newer passes fill the history or one of its writes failed;
\* and they are in order, unless a pass with a failed write comes before an older one,
\* which the next process found in the status file.
PassesAreRemembered ==
    /\ \A m, n \in DOMAIN historyFile : m < n =>
        \/ historyFile[m].pass < historyFile[n].pass
        \/ historyFile[m].pass \in spoiled /\ historyFile[m].pass # historyFile[n].pass
    /\ \A p \in 1..(passes - 1) :
        \/ p \in Recorded(historyFile) \cup spoiled
        \/ Cardinality({q \in Recorded(historyFile) : q > p}) >= HistoryLimit

\* The history says that a pass published only if that pass put its snapshot in place, and
\* that it succeeded only if it published.  The other way round it may be silent: a pass that
\* dies, or whose write fails, between the snapshot and MarkPublished is not said to have
\* published.
HistoryIsTrue ==
    \A n \in DOMAIN historyFile : LET h == historyFile[n] IN
        /\ h.published => h.pass \in output
        /\ h.outcome = "succeeded" => h.published

\* A status that is not running reports no stage and no follow-up as running.
NothingLeftRunning ==
    statusFile.outcome # "running" =>
        /\ \A s \in Stages : statusFile.stage[s] # "running"
        /\ \A c \in Components : statusFile.followUp[c] # "running"

\* The times of the last check and publication in the file never go back, across
\* passes that fail, crashes and restarts; and none is of a snapshot not published.
FreshnessKept ==
    [][/\ statusFile'.checked >= statusFile.checked
       /\ statusFile'.published >= statusFile.published
       /\ statusFile'.published \in output']_vars

\* A status file that says a pass is running does not say so for ever; unless the last
\* status of a pass could not be written and no pass follows it, as when the worker halted.
NoPassFollows == pc = "halted" \/ (pc \in {"ready", "idle"} /\ passes = MaxPasses)
PassEnds ==
    statusFile.outcome = "running" ~>
        statusFile.outcome # "running" \/ (statusFile.pass \in spoiled /\ NoPassFollows)
=============================================================================
