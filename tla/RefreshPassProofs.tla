------------------------- MODULE RefreshPassProofs -------------------------
(* What the tracker's status, its file and its history say of a pass is true *)
(* of it: proofs for any number of failures, passes, crashes and failed      *)
(* writes.                                                                   *)
EXTENDS RefreshPass, FiniteSetTheorems, SequenceTheorems, TLAPS

Ended == Outcomes \ {"none", "running"}

\* A status that is not running shows nothing running.
Restful(s) ==
    s.outcome # "running" =>
        /\ \A t \in Stages : s.stage[t] # "running"
        /\ \A c \in Components : s.followUp[c] # "running"

\* A status, of memory or of the file, when the passes out have put their snapshot in place.
GoodStatus(s, out) ==
    /\ s \in StatusType
    /\ Restful(s)
    /\ s.published \in out
    /\ s.outcome = "succeeded" => s.published = s.pass
    /\ s.pass # 0 => s.outcome # "none"

GoodSummaries(out) ==
    {h \in [pass : Nat, outcome : Ended, published : BOOLEAN] :
        (h.published => h.pass \in out) /\ (h.outcome = "succeeded" => h.published)}
GoodHistory(h, out) == h \in Seq(GoodSummaries(out)) /\ Len(h) <= HistoryLimit

\* The places of a goroutine that walks through a pass, and the stage that runs there.
Walking ==
    {"setup", "discovery", "artifacts", "planning", "preflight", "analysis", "checkpoint",
     "correlating", "patterns", "retrying", "suppressed", "correlated", "merging",
     "writing", "written", "published", "followUps", "following"}
RunsIn(t) ==
    CASE t = "patterns" -> {"correlating", "patterns", "retrying", "suppressed", "correlated"}
      [] t = "publication" -> {"writing", "written"}
      [] OTHER -> {"followUps", "following"}
Resting == {"down", "recovering", "ready", "ended", "scheduling", "idle", "halted", "exit"}

\* A goroutine at p, come to r, with the status s, the snapshots of the passes out, after n
\* passes, at the turn a: while all is well only the stage of p is running.
Fits(p, r, s, out, n, a) ==
    /\ p \in Walking \cup Resting \cup {"ending"}
    /\ p \notin Resting => s.outcome = "running" /\ s.pass = n /\ n \in 1..MaxPasses
    /\ p \in Walking \/ (p = "ending" /\ r = "ok") =>
        /\ \A t \in Stages : s.stage[t] = "running" => p \in RunsIn(t)
        /\ \A c \in Components :
            s.followUp[c] = "running" => p = "following" /\ c = FollowUps[a]
    /\ p = "written" => s.pass \in out
    /\ p \in {"published", "followUps", "following"} \/ (p = "ending" /\ r = "ok") =>
        s.published = s.pass
    /\ p \in {"ended", "recovering"} => s.outcome \in Ended

PassInv ==
    /\ GoodStatus(status, output) /\ GoodStatus(statusFile, output)
    /\ GoodHistory(history, output) /\ GoodHistory(historyFile, output)
    /\ Fits(pc, result, status, output, passes, at)
    /\ place \in [Items -> Places \cup {"none"}]
    /\ DOMAIN step = Items /\ at \in Nat /\ stopping \in BOOLEAN /\ known \in BOOLEAN
    /\ output \subseteq Nat /\ 0 \in output /\ passes \in Nat /\ faults \in Nat

-----------------------------------------------------------------------------
(* Statuses *)

Fields == DOMAIN NoStatus

\* Two statuses that agree in what the invariant looks at.
SameFace(s, t) ==
    /\ t.pass = s.pass /\ t.outcome = s.outcome /\ t.published = s.published
    /\ t.stage = s.stage /\ t.followUp = s.followUp

\* The blank status has its type.
LEMMA BlankStatus ==
    /\ NoStatus \in StatusType /\ Restful(NoStatus)
    /\ NoStatus.pass = 0 /\ NoStatus.published = 0 /\ NoStatus.outcome = "none"
<1>1. NoPatterns \in [DOMAIN NoPatterns -> Nat]
  BY DEF NoPatterns
<1>2. QED
  BY <1>1 DEF NoStatus, StatusType, Restful, Types, Outcomes, Stages, StageState

\* A status with other counters.
LEMMA NewCounters ==
    ASSUME NEW s \in StatusType, NEW n \in [Kinds -> [Places -> Nat]],
           NEW t, t = [s EXCEPT !.count = n]
    PROVE  t \in StatusType /\ SameFace(s, t) /\ t.count = n /\ t.patterns = s.patterns
BY DEF StatusType, SameFace

\* A status with another time of its last check.
LEMMA NewCheck ==
    ASSUME NEW s \in StatusType, NEW n \in Nat, NEW t, t = [s EXCEPT !.checked = n]
    PROVE  t \in StatusType /\ SameFace(s, t)
BY DEF StatusType, SameFace

\* A status with one more shared result.
LEMMA NewShared ==
    ASSUME NEW s \in StatusType, NEW t, t = [s EXCEPT !.shared = @ + 1]
    PROVE  t \in StatusType /\ SameFace(s, t)
BY DEF StatusType, SameFace

\* A status with other numbers of its correlation.
LEMMA NewPatterns ==
    ASSUME NEW s \in StatusType, NEW n \in [DOMAIN NoPatterns -> Nat],
           NEW t, t = [s EXCEPT !.patterns = n]
    PROVE  t \in StatusType /\ SameFace(s, t)
BY DEF StatusType, SameFace

\* A status with one stage in another state.
LEMMA NewStage ==
    ASSUME NEW s \in StatusType, NEW x \in Stages, NEW v \in StageState,
           NEW t, t = [s EXCEPT !.stage[x] = v]
    PROVE  /\ t \in StatusType
           /\ t.stage = [s.stage EXCEPT ![x] = v]
           /\ t.pass = s.pass /\ t.outcome = s.outcome /\ t.published = s.published
           /\ t.followUp = s.followUp
BY DEF StatusType

\* A status with one follow-up in another state.
LEMMA NewFollowUp ==
    ASSUME NEW s \in StatusType, NEW x, NEW v \in StageState,
           NEW t, t = [s EXCEPT !.followUp[x] = v]
    PROVE  /\ t \in StatusType
           /\ t.followUp = [s.followUp EXCEPT ![x] = v]
           /\ t.pass = s.pass /\ t.outcome = s.outcome /\ t.published = s.published
           /\ t.stage = s.stage
BY DEF StatusType

\* One failure moves from one counter to another, and none goes below zero.
LEMMA MovedIsStatus ==
    ASSUME NEW s \in StatusType, NEW i, NEW from \in Places, NEW to \in Places
    PROVE  Moved(s, i, from, to) \in StatusType /\ SameFace(s, Moved(s, i, from, to))
<1> DEFINE n == [k \in Kinds |->
        IF i \notin Subjects[k] THEN s.count[k]
        ELSE [p \in Places |->
                CASE p = from /\ p # to /\ s.count[k][p] > 0 -> s.count[k][p] - 1
                  [] p = to -> s.count[k][p] + 1
                  [] OTHER -> s.count[k][p]]]
<1>1. s.count \in [Kinds -> [Places -> Nat]]
  BY DEF StatusType
<1>2. n \in [Kinds -> [Places -> Nat]]
  BY <1>1
<1>3. Moved(s, i, from, to) = [s EXCEPT !.count = n]
  BY DEF Moved
<1> QED
  BY <1>2, <1>3, NewCounters

\* What was open becomes cancelled.
LEMMA ClosedIsStatus ==
    ASSUME NEW s \in StatusType, NEW gone \in SUBSET Places
    PROVE  Closed(s, gone) \in StatusType /\ SameFace(s, Closed(s, gone))
<1> DEFINE n == [k \in Kinds |-> [p \in Places |->
        CASE p \in gone -> 0
          [] p = "cancelled" -> s.count[k][p] + (IF "queued" \in gone THEN s.count[k]["queued"] ELSE 0)
                                        + (IF "running" \in gone THEN s.count[k]["running"] ELSE 0)
          [] OTHER -> s.count[k][p]]]
<1>1. s.count \in [Kinds -> [Places -> Nat]] /\ {"queued", "running", "cancelled"} \subseteq Places
  BY DEF StatusType, Places
<1>2. n \in [Kinds -> [Places -> Nat]]
  <2>1. SUFFICES ASSUME NEW k \in Kinds, NEW p \in Places PROVE n[k][p] \in Nat
    OBVIOUS
  <2>2. s.count[k]["queued"] \in Nat /\ s.count[k]["running"] \in Nat /\ s.count[k][p] \in Nat
    BY <1>1
  <2> QED
    BY <2>2
<1>3. Closed(s, gone) = [s EXCEPT !.count = n]
  BY DEF Closed
<1> QED
  BY <1>2, <1>3, NewCounters

\* A status that is ended keeps its pass and its publication, and shows nothing running.
LEMMA TerminalIsStatus ==
    ASSUME NEW s \in StatusType, NEW o \in Ended
    PROVE  LET t == Terminal(s, o)
           IN /\ t \in StatusType /\ Restful(t)
              /\ t.outcome = o /\ t.pass = s.pass /\ t.published = s.published
              /\ t.count = Closed(s, Open).count
<1> DEFINE u == Closed(s, Open)
           f == [x \in Stages |-> CASE u.stage[x] # "running" -> u.stage[x]
                                    [] o = "failed" -> "failed"
                                    [] OTHER -> "cancelled"]
           g == [c \in Components |-> IF u.followUp[c] = "running" THEN "cancelled"
                                      ELSE u.followUp[c]]
           t == Terminal(s, o)
<1>1. u \in StatusType /\ SameFace(s, u)
  BY ClosedIsStatus DEF Open, Places
<1>2. u.stage \in [Stages -> StageState] /\ u.followUp \in [Components -> StageState]
  BY <1>1 DEF StatusType
<1>3. f \in [Stages -> StageState] /\ \A x \in Stages : f[x] # "running"
  BY <1>2 DEF StageState
<1>4. g \in [Components -> StageState] /\ \A c \in Components : g[c] # "running"
  BY <1>2 DEF StageState
<1>5. t = [u EXCEPT !.outcome = o, !.stage = f, !.followUp = g]
  BY DEF Terminal
<1>6. o \in Outcomes
  BY DEF Ended
<1> HIDE DEF u, f, g, t
<1>7. /\ t \in StatusType /\ t.stage = f /\ t.followUp = g /\ t.outcome = o
      /\ t.pass = u.pass /\ t.published = u.published /\ t.count = u.count
  BY <1>1, <1>3, <1>4, <1>5, <1>6 DEF StatusType
<1>8. Restful(t)
  BY <1>3, <1>4, <1>7 DEF Restful
<1> QED
  BY <1>1, <1>7, <1>8 DEF t, u, SameFace

\* Ending a good status by anything but success makes a good one.
LEMMA TerminalIsGood ==
    ASSUME NEW out, NEW s, GoodStatus(s, out), NEW o \in {"failed", "cancelled", "interrupted"}
    PROVE  /\ GoodStatus(Terminal(s, o), out)
           /\ Terminal(s, o).outcome = o /\ Terminal(s, o).pass = s.pass
<1>1. o \in Ended /\ o # "succeeded" /\ o # "none"
  BY DEF Ended, Outcomes
<1> QED
  BY <1>1, TerminalIsStatus DEF GoodStatus

\* A status that runs is good if it has its type and a publication that was made.
LEMMA RunningIsGood ==
    ASSUME NEW out, NEW s \in StatusType, s.outcome = "running", s.published \in out
    PROVE  GoodStatus(s, out)
BY DEF GoodStatus, Restful

\* More snapshots make no status and no history false.
LEMMA GoodStays ==
    ASSUME NEW out, NEW more, out \subseteq more
    PROVE  /\ \A s : GoodStatus(s, out) => GoodStatus(s, more)
           /\ \A h : GoodHistory(h, out) => GoodHistory(h, more)
<1>1. GoodSummaries(out) \subseteq GoodSummaries(more)
  BY DEF GoodSummaries
<1>2. ASSUME NEW s, GoodStatus(s, out) PROVE GoodStatus(s, more)
  BY <1>2 DEF GoodStatus
<1>3. ASSUME NEW h, GoodHistory(h, out) PROVE GoodHistory(h, more)
  BY <1>1, <1>3, SeqMonotonic DEF GoodHistory
<1> QED
  BY <1>2, <1>3

-----------------------------------------------------------------------------
(* Files *)

\* A write of a good status leaves a good file, whether it happens or not.
LEMMA Written ==
    ASSUME GoodStatus(statusFile, output), NEW s, GoodStatus(s, output),
           faults \in Nat, Forced(s) \/ Unforced(s)
    PROVE  status' = s /\ GoodStatus(statusFile', output) /\ faults' \in Nat
BY DEF Forced, Unforced

\* A summary of an ended status is a good one.
LEMMA SummaryIsGood ==
    ASSUME NEW out, NEW s, GoodStatus(s, out), s.outcome \in Ended
    PROVE  Summary(s) \in GoodSummaries(out)
BY DEF GoodStatus, StatusType, Summary, GoodSummaries

\* A history with one more summary keeps the newest.
LEMMA Appended ==
    ASSUME GoodStatus(status, output), status.outcome \in Ended, faults \in Nat,
           GoodHistory(history, output), GoodHistory(historyFile, output),
           AppendHistory(status)
    PROVE  GoodHistory(history', output) /\ GoodHistory(historyFile', output) /\ faults' \in Nat
<1> DEFINE G == GoodSummaries(output)
           h == Append(history, Summary(status))
<1>1. HistoryLimit \in Nat \ {0}
  BY PassConstants
<1>2. history \in Seq(G) /\ Len(history) <= HistoryLimit
  BY DEF GoodHistory
<1>3. Summary(status) \in G
  BY SummaryIsGood
<1> HIDE DEF G
<1>4. h \in Seq(G) /\ Len(h) = Len(history) + 1 /\ Len(history) \in Nat
  BY <1>2, <1>3
<1>5. h # <<>>
  BY <1>4
<1> HIDE DEF h
<1>6. Tail(h) \in Seq(G) /\ Len(Tail(h)) = Len(h) - 1
  BY <1>4, <1>5, HeadTailProperties
<1>7. LastOf(h) \in Seq(G) /\ Len(LastOf(h)) <= HistoryLimit
  BY <1>1, <1>2, <1>4, <1>6 DEF LastOf
<1> QED
  BY <1>7 DEF AppendHistory, GoodHistory, G, h

-----------------------------------------------------------------------------
(* Steps *)

\* There is no pass at first.
LEMMA InitInv == Init => PassInv
<1> SUFFICES ASSUME Init PROVE PassInv
  OBVIOUS
<1>1. HistoryLimit \in Nat
  BY PassConstants
<1>2. GoodHistory(<<>>, {0})
  BY <1>1 DEF GoodHistory
<1>3. GoodStatus(NoStatus, {0})
  BY BlankStatus DEF GoodStatus
<1>4. Fits("down", "ok", NoStatus, {0}, 0, 0)
  BY DEF Fits, Resting, Walking
<1>5. GoodHistory(history, output) /\ GoodHistory(historyFile, output)
  BY <1>2 DEF Init
<1>6. GoodStatus(status, output) /\ GoodStatus(statusFile, output)
  BY <1>3 DEF Init
<1>7. Fits(pc, result, status, output, passes, at)
  BY <1>4 DEF Init
<1>8. output \subseteq Nat /\ 0 \in output
  BY DEF Init
<1> HIDE DEF GoodHistory, GoodStatus, Fits
<1> QED
  BY <1>5, <1>6, <1>7, <1>8 DEF Init, PassInv

\* What a step that writes one status has to show.
LEMMA Writes ==
    ASSUME PassInv, NEW s, GoodStatus(s, output), Forced(s) \/ Unforced(s),
           Fits(pc', result', s, output, passes, at'), at' \in Nat, known' \in BOOLEAN,
           UNCHANGED <<stopping, history, historyFile, output, passes>>,
           place' \in [Items -> Places \cup {"none"}], DOMAIN step' = Items
    PROVE  PassInv'
<1>1. status' = s /\ GoodStatus(statusFile', output) /\ faults' \in Nat
  BY Written DEF PassInv
<1> QED
  BY <1>1 DEF PassInv

\* What a phase has to show of the status it writes.
LEMMA Phased ==
    ASSUME PassInv, NEW p, NEW q, NEW s, Phase(p, q, s), s \in StatusType,
           s.outcome = "running", s.published \in output,
           Fits(q, result, s, output, passes, at),
           place' \in [Items -> Places \cup {"none"}], DOMAIN step' = Items
    PROVE  PassInv'
<1>1. GoodStatus(s, output)
  BY RunningIsGood
<1> QED
  BY <1>1, Writes DEF Phase, PassInv

\* What the invariant says of the status of a running pass.
LEMMA RunningPass ==
    ASSUME PassInv, pc \notin Resting
    PROVE  /\ status \in StatusType /\ status.outcome = "running" /\ status.pass = passes
           /\ status.published \in output /\ passes \in 1..MaxPasses
           /\ passes \in Nat /\ output \subseteq Nat /\ 0 \in output
           /\ place \in [Items -> Places \cup {"none"}] /\ DOMAIN step = Items
BY DEF PassInv, GoodStatus, Fits

\* A status with the face of one that fits where the goroutine was fits where it goes, if
\* the same stage runs there.
LEMMA SameFaceFits ==
    ASSUME PassInv, pc \in Walking \ {"following", "written"}, NEW q \in Walking,
           NEW s, SameFace(status, s),
           q \notin {"written", "published", "followUps", "following"},
           \A t \in Stages : pc \in RunsIn(t) => q \in RunsIn(t)
    PROVE  /\ s.outcome = "running" /\ s.published \in output
           /\ Fits(q, result, s, output, passes, at)
BY RunningPass DEF PassInv, Fits, SameFace, Walking, Resting

\* Such a phase keeps the invariant.
LEMMA FacePhase ==
    ASSUME PassInv, NEW p \in Walking \ {"following", "written"}, NEW q \in Walking,
           q \notin {"written", "published", "followUps", "following"},
           \A t \in Stages : p \in RunsIn(t) => q \in RunsIn(t),
           NEW s \in StatusType, SameFace(status, s), Phase(p, q, s),
           place' \in [Items -> Places \cup {"none"}], DOMAIN step' = Items
    PROVE  PassInv'
<1>1. pc = p
  BY DEF Phase
<1>2. /\ s.outcome = "running" /\ s.published \in output
      /\ Fits(q, result, s, output, passes, at)
  BY <1>1, SameFaceFits
<1> QED
  BY <1>2, Phased

\* Where no stage runs.
LEMMA NoStage ==
    ASSUME NEW p \in {"setup", "discovery", "artifacts", "planning", "preflight", "analysis",
                       "checkpoint", "merging"}, NEW t
    PROVE  p \notin RunsIn(t)
BY DEF RunsIn

\* The phases that change nothing of the status but a time.
LEMMA PlainPhases ==
    ASSUME PassInv, SetUp \/ Discover \/ MarkChecked \/ Preflight
    PROVE  PassInv'
<1>1. pc \in Walking
  BY DEF SetUp, Discover, MarkChecked, Preflight, Phase, Walking
<1>2. /\ status \in StatusType /\ status.pass \in Nat /\ SameFace(status, status)
      /\ place \in [Items -> Places \cup {"none"}] /\ DOMAIN step = Items
  BY <1>1, RunningPass DEF SameFace, Walking, Resting
<1>3. UNCHANGED <<place, step>>
  BY DEF SetUp, Discover, MarkChecked, Preflight, pool
<1>4. CASE SetUp
  BY <1>2, <1>3, <1>4, FacePhase, NoStage DEF SetUp, Walking
<1>5. CASE Discover
  BY <1>2, <1>3, <1>5, FacePhase, NoStage DEF Discover, Walking
<1>6. CASE Preflight
  BY <1>2, <1>3, <1>6, FacePhase, NoStage DEF Preflight, Walking
<1>7. CASE MarkChecked
  <2> DEFINE s == [status EXCEPT !.checked = status.pass]
  <2>1. s \in StatusType /\ SameFace(status, s)
    BY <1>2, NewCheck
  <2>2. Phase("artifacts", "planning", s)
    BY <1>7 DEF MarkChecked
  <2> HIDE DEF s
  <2> QED
    BY <1>2, <1>3, <2>1, <2>2, FacePhase, NoStage DEF Walking
<1> QED
  BY <1>4, <1>5, <1>6, <1>7

\* The steps between the phases of the correlation.
LEMMA Correlating ==
    ASSUME PassInv,
           MarkAnalysisCheckpoint \/ PlanPatterns \/ SkipPatterns \/ Correlate
            \/ RecordSuppressed \/ Correlated \/ CompletePatterns
    PROVE  PassInv'
<1>1. pc \in Walking
  BY DEF MarkAnalysisCheckpoint, PlanPatterns, SkipPatterns, Correlate, RecordSuppressed,
         Correlated, CompletePatterns, Phase, Walking
<1>2. UNCHANGED <<place, step>>
  BY DEF MarkAnalysisCheckpoint, PlanPatterns, SkipPatterns, Correlate, RecordSuppressed,
         Correlated, CompletePatterns, pool
<1>3. /\ status \in StatusType /\ status.outcome = "running" /\ status.pass = passes
      /\ status.published \in output /\ SameFace(status, status)
      /\ place' \in [Items -> Places \cup {"none"}] /\ DOMAIN step' = Items
  BY <1>1, <1>2, RunningPass DEF SameFace, Walking, Resting
<1>4. /\ status.patterns \in [DOMAIN NoPatterns -> Nat]
      /\ DOMAIN NoPatterns = {"eligible", "attempts", "retries", "completed", "failed", "suppressed"}
  BY <1>3 DEF StatusType, NoPatterns
<1>5. /\ "patterns" \in Stages /\ {"running", "skipped", "completed"} \subseteq StageState
      /\ \A t \in {"correlating", "patterns", "retrying", "suppressed", "correlated"} :
            t \in Walking \ {"following", "written", "published", "followUps"}
  BY DEF Stages, StageState, Walking
<1>6. ASSUME NEW p \in {"correlating", "patterns", "retrying", "suppressed", "correlated"},
             NEW q \in {"correlating", "patterns", "retrying", "suppressed", "correlated"},
             NEW n \in [DOMAIN NoPatterns -> Nat], NEW s, s = [status EXCEPT !.patterns = n],
             Phase(p, q, s)
      PROVE  PassInv'
  <2>1. s \in StatusType /\ SameFace(status, s)
    BY <1>3, <1>6, NewPatterns
  <2>2. \A t \in Stages : p \in RunsIn(t) => q \in RunsIn(t)
    BY DEF RunsIn
  <2> QED
    BY <1>3, <1>5, <1>6, <2>1, <2>2, FacePhase
<1>7. CASE MarkAnalysisCheckpoint
  <2> DEFINE u == [status EXCEPT !.checkpoint = TRUE]
             s == [status EXCEPT !.checkpoint = TRUE, !.stage["patterns"] = "running"]
  <2>1. u \in StatusType /\ SameFace(status, u)
    BY <1>3 DEF StatusType, SameFace
  <2>2. s = [u EXCEPT !.stage["patterns"] = "running"]
    BY <1>3 DEF StatusType
  <2>3. Phase("checkpoint", "correlating", s)
    BY <1>7 DEF MarkAnalysisCheckpoint
  <2> HIDE DEF u, s
  <2>4. /\ s \in StatusType /\ s.outcome = "running" /\ s.pass = passes
        /\ s.published \in output /\ s.stage = [status.stage EXCEPT !["patterns"] = "running"]
        /\ s.followUp = status.followUp
    BY <1>3, <1>5, <2>1, <2>2 DEF SameFace, StatusType
  <2>5. Fits("correlating", result, s, output, passes, at)
    <3>1. Fits("checkpoint", result, status, output, passes, at)
      BY <2>3 DEF Phase, PassInv
    <3>2. status.stage \in [Stages -> StageState]
      BY <1>3 DEF StatusType
    <3> QED
      BY <2>4, <3>1, <3>2 DEF Fits, Walking, Resting, RunsIn
  <2> QED
    BY <1>3, <2>3, <2>4, <2>5, Phased
<1>8. CASE PlanPatterns
  <2>1. PICK n \in 0..PatternJobs :
            Phase("correlating", "patterns", [status EXCEPT !.patterns.eligible = n])
    BY <1>8 DEF PlanPatterns
  <2> DEFINE m == [status.patterns EXCEPT !.eligible = n]
  <2>2. m \in [DOMAIN NoPatterns -> Nat] /\ [status EXCEPT !.patterns.eligible = n] = [status EXCEPT !.patterns = m]
    BY <1>4
  <2> HIDE DEF m
  <2> QED
    BY <1>6, <2>1, <2>2
<1>9. CASE Correlate
  <2>1. ASSUME NEW q, NEW retry \in {0, 1}, NEW done \in {0, 1}, NEW failed \in {0, 1},
               pc \in {"patterns", "retrying"},
               q \in {"patterns", "suppressed", "retrying"}, Attempt(q, retry, done, failed)
        PROVE  PassInv'
    <3> DEFINE m == [status.patterns EXCEPT !.attempts = @ + 1, !.retries = @ + retry,
                        !.completed = @ + done, !.failed = @ + failed]
    <3>1. \A x \in DOMAIN NoPatterns : status.patterns[x] \in Nat
      BY <1>4
    <3>2. \A x \in DOMAIN NoPatterns : m[x] \in Nat
      <4>1. /\ m.eligible = status.patterns.eligible /\ m.suppressed = status.patterns.suppressed
            /\ m.attempts = status.patterns.attempts + 1
            /\ m.retries = status.patterns.retries + retry
            /\ m.completed = status.patterns.completed + done
            /\ m.failed = status.patterns.failed + failed
        BY <1>4
      <4> HIDE DEF m
      <4> QED
        BY <1>4, <3>1, <4>1
    <3>3. DOMAIN m = DOMAIN NoPatterns
      BY <1>4
    <3>4. m = [x \in DOMAIN NoPatterns |-> m[x]]
      BY <1>4
    <3>5. Phase(pc, q, [status EXCEPT !.patterns = m])
      BY <2>1 DEF Attempt
    <3> HIDE DEF m
    <3>6. m \in [DOMAIN NoPatterns -> Nat]
      BY <3>2, <3>4
    <3> QED
      BY <1>6, <2>1, <3>5, <3>6
  <2>2. pc \in {"patterns", "retrying"}
    BY <1>9 DEF Correlate
  <2>3. PICK retry \in {0, 1} :
            \/ Attempt("patterns", retry, 1, 0)
            \/ Attempt("patterns", retry, 0, 1)
            \/ Attempt("suppressed", retry, 0, 1)
            \/ pc = "patterns" /\ Attempt("retrying", 0, 0, 0)
    BY <1>9 DEF Correlate
  <2> QED
    BY <2>1, <2>2, <2>3
<1>10. CASE RecordSuppressed
  <2> DEFINE m == [status.patterns EXCEPT !.suppressed = @ + 1]
  <2>1. /\ m \in [DOMAIN NoPatterns -> Nat]
        /\ [status EXCEPT !.patterns.suppressed = @ + 1] = [status EXCEPT !.patterns = m]
    BY <1>4
  <2>2. Phase("suppressed", "patterns", [status EXCEPT !.patterns = m])
    BY <1>10, <2>1 DEF RecordSuppressed
  <2> HIDE DEF m
  <2> QED
    BY <1>6, <2>1, <2>2
<1>11. CASE Correlated
  <2>1. \A t \in Stages : "patterns" \in RunsIn(t) => "correlated" \in RunsIn(t)
    BY DEF RunsIn
  <2> QED
    BY <1>3, <1>5, <1>11, <2>1, FacePhase DEF Correlated
<1>12. CASE SkipPatterns \/ CompletePatterns
  <2>1. PICK p \in {"correlating", "correlated"}, v \in {"skipped", "completed"} :
            Phase(p, "merging", [status EXCEPT !.stage["patterns"] = v])
    BY <1>12 DEF SkipPatterns, CompletePatterns
  <2> DEFINE s == [status EXCEPT !.stage["patterns"] = v]
  <2>2. v \in StageState /\ v # "running"
    BY DEF StageState
  <2>3. /\ s \in StatusType /\ s.outcome = "running" /\ s.pass = passes
        /\ s.published \in output /\ s.stage = [status.stage EXCEPT !["patterns"] = v]
        /\ s.followUp = status.followUp
    BY <1>3, <1>5, <2>2 DEF StatusType
  <2> HIDE DEF s
  <2>4. Fits("merging", result, s, output, passes, at)
    <3>1. Fits(p, result, status, output, passes, at)
      BY <2>1 DEF Phase, PassInv
    <3>2. status.stage \in [Stages -> StageState]
      BY <1>3 DEF StatusType
    <3> QED
      BY <2>2, <2>3, <3>1, <3>2 DEF Fits, Walking, Resting, RunsIn
  <2> QED
    BY <1>3, <2>1, <2>3, <2>4, Phased DEF s
<1> QED
  BY <1>7, <1>8, <1>9, <1>10, <1>11, <1>12

\* The steps of the publication.
LEMMA Publishing ==
    ASSUME PassInv,
           StartPublication \/ WriteOutput \/ MarkPublished \/ SkipSideEffects \/ StartSideEffects
    PROVE  PassInv'
<1>1. pc \in {"merging", "writing", "written", "published"} /\ pc \notin Resting
  BY DEF StartPublication, WriteOutput, MarkPublished, SkipSideEffects, StartSideEffects,
         Phase, Resting
<1>2. UNCHANGED <<place, step>>
  BY DEF StartPublication, WriteOutput, MarkPublished, SkipSideEffects, StartSideEffects, pool
<1>3. /\ status \in StatusType /\ status.outcome = "running" /\ status.pass = passes
      /\ status.published \in output /\ status.stage \in [Stages -> StageState]
      /\ place' \in [Items -> Places \cup {"none"}] /\ DOMAIN step' = Items
      /\ output \subseteq Nat /\ 0 \in output /\ passes \in Nat
      /\ Fits(pc, result, status, output, passes, at)
  BY <1>1, <1>2, RunningPass DEF PassInv, StatusType
<1>4. /\ {"publication", "sideEffects"} \subseteq Stages
      /\ {"running", "skipped", "completed"} \subseteq StageState
  BY DEF Stages, StageState
<1>5. CASE StartPublication
  <2> DEFINE s == [status EXCEPT !.stage["publication"] = "running"]
  <2>1. /\ s \in StatusType /\ s.outcome = "running" /\ s.pass = passes
        /\ s.published \in output /\ s.stage = [status.stage EXCEPT !["publication"] = "running"]
        /\ s.followUp = status.followUp
    BY <1>3, <1>4 DEF StatusType
  <2>2. Phase("merging", "writing", s)
    BY <1>5 DEF StartPublication
  <2> HIDE DEF s
  <2>3. pc = "merging"
    BY <2>2 DEF Phase
  <2>4. Fits("writing", result, s, output, passes, at)
    BY <1>3, <2>1, <2>3 DEF Fits, Walking, Resting, RunsIn
  <2> QED
    BY <1>3, <2>1, <2>2, <2>4, Phased
<1>6. CASE WriteOutput
  <2>1. output' = output \cup {passes} /\ pc = "writing" /\ pc' = "written"
    BY <1>3, <1>6 DEF WriteOutput
  <2>2. UNCHANGED <<status, statusFile, history, historyFile, result, at, passes, faults,
                    stopping, known>>
    BY <1>6 DEF WriteOutput, tracker
  <2>3. /\ GoodStatus(status, output') /\ GoodStatus(statusFile, output')
        /\ GoodHistory(history, output') /\ GoodHistory(historyFile, output')
    BY <1>3, <2>1, GoodStays DEF PassInv
  <2>4. Fits("written", result, status, output', passes, at)
    BY <1>3, <2>1 DEF Fits, Walking, Resting, RunsIn
  <2> QED
    BY <1>2, <1>3, <2>1, <2>2, <2>3, <2>4 DEF PassInv
<1>7. CASE MarkPublished
  <2> DEFINE u == [status EXCEPT !.published = status.pass]
             s == [status EXCEPT !.published = status.pass, !.stage["publication"] = "completed"]
  <2>1. /\ u \in StatusType /\ u.outcome = "running" /\ u.pass = passes
        /\ u.published = passes /\ u.stage = status.stage /\ u.followUp = status.followUp
    BY <1>3 DEF StatusType
  <2>2. s = [u EXCEPT !.stage["publication"] = "completed"]
    BY <1>3 DEF StatusType
  <2>3. Phase("written", "published", s)
    BY <1>7 DEF MarkPublished
  <2> HIDE DEF u, s
  <2>4. /\ s \in StatusType /\ s.outcome = "running" /\ s.pass = passes
        /\ s.published = passes /\ s.stage = [status.stage EXCEPT !["publication"] = "completed"]
        /\ s.followUp = status.followUp
    BY <1>3, <1>4, <2>1, <2>2 DEF StatusType
  <2>5. pc = "written" /\ passes \in output
    BY <1>3, <2>3 DEF Phase, Fits
  <2>6. Fits("published", result, s, output, passes, at)
    BY <1>3, <2>4, <2>5 DEF Fits, Walking, Resting, RunsIn
  <2> QED
    BY <1>3, <2>3, <2>4, <2>5, <2>6, Phased
<1>8. CASE SkipSideEffects
  <2> DEFINE s == [status EXCEPT !.stage["sideEffects"] = "skipped"]
  <2>1. /\ s \in StatusType /\ s.outcome = "running" /\ s.pass = passes
        /\ s.published = status.published
        /\ s.stage = [status.stage EXCEPT !["sideEffects"] = "skipped"]
        /\ s.followUp = status.followUp
    BY <1>3, <1>4 DEF StatusType
  <2>2. Phase("published", "ending", s)
    BY <1>8 DEF SkipSideEffects
  <2> HIDE DEF s
  <2>3. pc = "published"
    BY <2>2 DEF Phase
  <2>4. Fits("ending", result, s, output, passes, at)
    BY <1>3, <2>1, <2>3 DEF Fits, Walking, Resting, RunsIn
  <2> QED
    BY <1>3, <2>1, <2>2, <2>4, Phased
<1>9. CASE StartSideEffects
  <2> DEFINE s == [status EXCEPT !.stage["sideEffects"] = "running"]
  <2>1. /\ s \in StatusType /\ s.outcome = "running" /\ s.pass = passes
        /\ s.published = status.published
        /\ s.stage = [status.stage EXCEPT !["sideEffects"] = "running"]
        /\ s.followUp = status.followUp
    BY <1>3, <1>4 DEF StatusType
  <2>2. Forced(s)
    BY <1>9 DEF StartSideEffects
  <2> HIDE DEF s
  <2>3. pc = "published" /\ pc' = "followUps" /\ at' = 1 /\ at' \in Nat
    BY <1>9 DEF StartSideEffects
  <2>4. Fits("followUps", result, s, output, passes, at')
    BY <1>3, <2>1, <2>3 DEF Fits, Walking, Resting, RunsIn
  <2>5. GoodStatus(s, output)
    BY <1>3, <2>1, RunningIsGood
  <2>6. /\ result' = result /\ known' \in BOOLEAN
        /\ UNCHANGED <<stopping, history, historyFile, output, passes>>
    BY <1>9 DEF StartSideEffects, PassInv
  <2> QED
    BY <1>3, <2>2, <2>3, <2>4, <2>5, <2>6, Writes
<1> QED
  BY <1>5, <1>6, <1>7, <1>8, <1>9

\* A component's turn, its state, and the end of them all.
LEMMA FollowingUp ==
    ASSUME PassInv, BeginFollowUp \/ FinishFollowUp \/ SideEffectsDone
    PROVE  PassInv'
<1>1. pc \in {"followUps", "following"} /\ pc \notin Resting
  BY DEF BeginFollowUp, FinishFollowUp, SideEffectsDone, Resting
<1>2. UNCHANGED <<place, step, stopping, known, history, historyFile, output, passes>>
  BY DEF BeginFollowUp, FinishFollowUp, SideEffectsDone, SetFollowUp, pool, tracker, disk
<1>3. /\ status \in StatusType /\ status.outcome = "running" /\ status.pass = passes
      /\ status.published \in output /\ status.stage \in [Stages -> StageState]
      /\ status.followUp \in [Components -> StageState]
      /\ place' \in [Items -> Places \cup {"none"}] /\ DOMAIN step' = Items
      /\ Fits(pc, result, status, output, passes, at) /\ at \in Nat /\ known' \in BOOLEAN
  BY <1>1, <1>2, RunningPass DEF PassInv, StatusType
<1>4. ASSUME NEW q \in {"followUps", "following"}, NEW turn \in {0, 1},
             NEW v \in {"running", "skipped", "completed", "failed"},
             v = "running" => q = "following" /\ turn = 0,
             q = "following" => pc = "followUps",
             SetFollowUp(q, v, turn)
      PROVE  PassInv'
  <2> DEFINE s == [status EXCEPT !.followUp[FollowUps[at]] = v]
  <2>1. v \in StageState
    BY DEF StageState
  <2>2. /\ s \in StatusType /\ s.outcome = "running" /\ s.pass = passes
        /\ s.published = status.published /\ s.stage = status.stage
        /\ s.followUp = [status.followUp EXCEPT ![FollowUps[at]] = v]
    BY <1>3, <2>1 DEF StatusType
  <2>3. Forced(s) /\ pc' = q /\ at' = at + turn /\ at' \in Nat
    BY <1>3, <1>4 DEF SetFollowUp
  <2> HIDE DEF s
  <2>4. GoodStatus(s, output)
    BY <1>3, <2>2, RunningIsGood
  <2>5. \A c \in Components :
            s.followUp[c] = "running" => q = "following" /\ c = FollowUps[at']
    BY <1>1, <1>3, <1>4, <2>2, <2>3 DEF Fits, Walking
  <2>6. Fits(q, result', s, output, passes, at')
    BY <1>1, <1>3, <2>2, <2>5 DEF Fits, Walking, Resting, RunsIn
  <2> QED
    BY <1>2, <1>3, <2>3, <2>4, <2>6, Writes
<1>5. CASE BeginFollowUp
  <2>1. pc = "followUps"
    BY <1>5 DEF BeginFollowUp
  <2>2. CASE SetFollowUp("following", "running", 0)
    BY <1>4, <2>1, <2>2
  <2>3. CASE SetFollowUp("followUps", "skipped", 1)
    BY <1>4, <2>3
  <2>4. CASE SetFollowUp("followUps", "failed", 1)
    BY <1>4, <2>4
  <2>5. CASE at' = at + 1 /\ UNCHANGED <<pc, result, stopping, known, tracker, pool, disk,
                                        passes, faults, spoiled>>
    <3>1. Fits(pc, result, status, output, passes, at + 1)
      BY <1>3, <2>1 DEF Fits
    <3> QED
      BY <1>3, <2>5, <3>1 DEF PassInv, tracker, pool, disk
  <2> QED
    BY <1>5, <2>2, <2>3, <2>4, <2>5 DEF BeginFollowUp
<1>6. CASE FinishFollowUp
  <2>1. PICK v \in {"completed", "failed"} : SetFollowUp("followUps", v, 1)
    BY <1>6 DEF FinishFollowUp
  <2> QED
    BY <1>4, <2>1
<1>7. CASE SideEffectsDone
  <2>1. pc = "followUps" /\ pc' = "ending" /\ at' = 0 /\ at' \in Nat
    BY <1>7 DEF SideEffectsDone
  <2>2. CASE result = "ok"
    <3> DEFINE s == [status EXCEPT !.stage["sideEffects"] = "completed"]
    <3>1. /\ s \in StatusType /\ s.outcome = "running" /\ s.pass = passes
          /\ s.published = status.published
          /\ s.stage = [status.stage EXCEPT !["sideEffects"] = "completed"]
          /\ s.followUp = status.followUp
      BY <1>3 DEF StatusType, Stages, StageState
    <3>2. Forced(s) /\ result' = "ok"
      BY <1>7, <2>2 DEF SideEffectsDone
    <3> HIDE DEF s
    <3>3. GoodStatus(s, output)
      BY <1>3, <3>1, RunningIsGood
    <3>4. \A t \in Stages : s.stage[t] # "running"
      BY <1>3, <2>1, <3>1 DEF Fits, Walking, RunsIn, Stages
    <3>5. \A c \in Components : s.followUp[c] # "running"
      BY <1>3, <2>1, <3>1 DEF Fits, Walking
    <3>6. Fits("ending", "ok", s, output, passes, 0)
      BY <1>3, <2>1, <3>1, <3>4, <3>5 DEF Fits, Walking, Resting
    <3> QED
      BY <1>2, <1>3, <2>1, <3>2, <3>3, <3>6, Writes
  <2>3. CASE result # "ok"
    <3>1. result' # "ok" /\ UNCHANGED <<status, statusFile, faults, spoiled>>
      BY <1>7, <2>3 DEF SideEffectsDone
    <3>2. Fits("ending", result', status, output, passes, 0)
      BY <1>3, <2>1, <3>1 DEF Fits, Walking, Resting
    <3> QED
      BY <1>2, <1>3, <2>1, <3>1, <3>2 DEF PassInv
  <2> QED
    BY <2>2, <2>3
<1> QED
  BY <1>5, <1>6, <1>7

\* Steps of the pool move one failure, count a shared result, or write nothing.
LEMMA Pooling ==
    ASSUME PassInv, NEW i \in Items, PoolStep(i)
    PROVE  PassInv'
<1>1. /\ pc = "analysis" /\ pc \notin Resting
      /\ UNCHANGED <<pc, stopping, known, history, at, historyFile, output, passes>>
  BY DEF PoolStep, InPool, Schedule, Begin, StartFollower, Answer, Analyzed, Refuse, GiveUp,
         Sink, Share, Note, NotShared, Drop, Release, Again, Resting
<1>2. /\ status \in StatusType /\ status.outcome = "running"
      /\ status.published \in output
      /\ place \in [Items -> Places \cup {"none"}] /\ DOMAIN step = Items
      /\ Fits(pc, result, status, output, passes, at) /\ at \in Nat /\ known \in BOOLEAN
  BY <1>1, RunningPass DEF PassInv
<1>3. DOMAIN step' = Items
  BY <1>2 DEF PoolStep, Schedule, Begin, StartFollower, Answer, Analyzed, Refuse, GiveUp, Sink,
         Share, Note, NotShared, Drop, Release, Again, Steps
<1>4. ASSUME NEW s, s \in StatusType, SameFace(status, s), Unforced(s),
             place' \in [Items -> Places \cup {"none"}]
      PROVE  PassInv'
  <2>1. GoodStatus(s, output)
    BY <1>2, <1>4, RunningIsGood DEF SameFace
  <2>2. Fits("analysis", result', s, output, passes, at)
    BY <1>1, <1>2, <1>4 DEF Fits, SameFace, Walking
  <2> QED
    BY <1>1, <1>2, <1>3, <1>4, <2>1, <2>2, Writes
<1>5. ASSUME NEW j, NEW from \in Places, NEW to \in Places, Moves(j, from, to)
      PROVE  PassInv'
  <2>1. place' \in [Items -> Places \cup {"none"}]
    BY <1>2, <1>5 DEF Moves
  <2>2. Unforced(Moved(status, j, from, to))
    BY <1>5 DEF Moves
  <2> QED
    BY <1>2, <1>4, <2>1, <2>2, MovedIsStatus
<1>6. CASE Quietly
  <2>1. Fits("analysis", result', status, output, passes, at)
    BY <1>1, <1>2 DEF Fits, Walking
  <2> QED
    BY <1>1, <1>2, <1>3, <1>6, <2>1 DEF Quietly, PassInv
<1>7. CASE Note(i)
  <2>1. [status EXCEPT !.shared = @ + 1] \in StatusType
        /\ SameFace(status, [status EXCEPT !.shared = @ + 1])
    BY <1>2, NewShared
  <2> QED
    BY <1>2, <1>4, <1>7, <2>1 DEF Note
<1>8. {"queued", "running", "completed", "failed", "cancelled"} \subseteq Places
  BY DEF Places
<1>9. Schedule(i) \/ NotShared(i) \/ Release(i) => Quietly
  BY DEF Schedule, NotShared, Release
<1>10. CASE Begin(i) \/ StartFollower(i)
  <2>1. Quietly \/ \E j : Moves(j, "queued", "running")
    BY <1>10 DEF Begin, StartFollower
  <2> QED
    BY <1>5, <1>6, <1>8, <2>1
<1>11. CASE Answer(i) \/ Share(i)
  <2>1. \E j : Moves(j, "running", "completed")
    BY <1>11 DEF Answer, Share
  <2> QED
    BY <1>5, <1>8, <2>1
<1>12. CASE Refuse(i) \/ Sink(i)
  <2>1. Quietly \/ \E j : Moves(j, "running", "failed")
    BY <1>12 DEF Refuse, Sink
  <2> QED
    BY <1>5, <1>6, <1>8, <2>1
<1>13. CASE GiveUp(i) \/ Drop(i) \/ Again(i)
  <2>1. Quietly \/ \E j : Moves(j, "running", "cancelled")
    BY <1>13 DEF GiveUp, Drop, Again
  <2> QED
    BY <1>5, <1>6, <1>8, <2>1
<1> QED
  BY <1>6, <1>7, <1>9, <1>10, <1>11, <1>12, <1>13 DEF PoolStep

\* The pool is empty: what was never scheduled is cancelled.
LEMMA Draining ==
    ASSUME PassInv, Drained
    PROVE  PassInv'
<1>1. pc = "analysis" /\ pc \notin Resting
  BY DEF Drained, Resting
<1>2. /\ status \in StatusType /\ status.outcome = "running"
      /\ status.published \in output
      /\ place \in [Items -> Places \cup {"none"}] /\ DOMAIN step = Items
      /\ Fits(pc, result, status, output, passes, at) /\ at \in Nat /\ known \in BOOLEAN
  BY <1>1, RunningPass DEF PassInv
<1> DEFINE s == Closed(status, {"queued"})
<1>3. s \in StatusType /\ SameFace(status, s)
  BY <1>2, ClosedIsStatus DEF Places
<1>4. /\ Forced(s) /\ pc' = (IF Over THEN "ending" ELSE "checkpoint")
      /\ UNCHANGED <<step, stopping, known, history, at, historyFile, output, passes>>
      /\ result' = IF result = "systemic" \/ ~stopping THEN result ELSE "cancelled"
      /\ place' = [j \in Items |-> IF place[j] = "queued" THEN "cancelled" ELSE place[j]]
  BY DEF Drained
<1> HIDE DEF s
<1>5. pc' = "checkpoint" \/ (pc' = "ending" /\ result' # "ok")
  BY <1>4 DEF Over
<1>6. GoodStatus(s, output)
  BY <1>2, <1>3, RunningIsGood DEF SameFace
<1>7. Fits(pc', result', s, output, passes, at)
  BY <1>1, <1>2, <1>3, <1>5 DEF Fits, SameFace, Walking, Resting, RunsIn
<1>8. place' \in [Items -> Places \cup {"none"}]
  BY <1>2, <1>4 DEF Places
<1> QED
  BY <1>2, <1>4, <1>6, <1>7, <1>8, Writes

-----------------------------------------------------------------------------
(* The planning of a pass *)

\* Parts of the failures are finite.
LEMMA FiniteParts ==
    ASSUME NEW S \in SUBSET Items
    PROVE  IsFiniteSet(S) /\ Cardinality(S) \in Nat
<1>1. IsFiniteSet(Items)
  BY PassConstants
<1>2. IsFiniteSet(S)
  BY <1>1, FS_Subset
<1> QED
  BY <1>2, FS_CardinalityType

\* There are not more executions than failures to analyze.
LEMMA ExecutionsAreFew ==
    ASSUME NEW queued \in SUBSET Items
    PROVE  Cardinality(queued) - Cardinality(Executions(queued)) \in Nat
<1> DEFINE E == Executions(queued)
           f == [i \in queued |-> (CHOOSE c \in Cohorts : i \in c) \cap queued]
<1>1. IsFiniteSet(queued) /\ Cardinality(queued) \in Nat
  BY FiniteParts
<1>2. \A i \in queued : (CHOOSE c \in Cohorts : i \in c) \in Cohorts /\ i \in f[i]
  BY PassConstants
<1>3. \A e \in E : \E i \in queued : f[i] = e
  <2>1. SUFFICES ASSUME NEW e \in E PROVE \E i \in queued : f[i] = e
    OBVIOUS
  <2>2. PICK c \in Cohorts : e = c \cap queued /\ e # {}
    BY DEF Executions
  <2>3. PICK i \in e : TRUE
    BY <2>2
  <2>4. i \in queued /\ i \in c
    BY <2>2, <2>3
  <2>5. \A d \in Cohorts : i \in d => d = c
    BY <2>2, <2>4, PassConstants
  <2>6. (CHOOSE d \in Cohorts : i \in d) = c
    BY <2>2, <2>4, <2>5
  <2> QED
    BY <2>2, <2>4, <2>6
<1>4. f \in [queued -> E]
  BY <1>2 DEF Executions
<1>5. f \in Surjection(queued, E)
  BY <1>3, <1>4 DEF Surjection
<1> HIDE DEF E, f
<1>6. IsFiniteSet(E) /\ Cardinality(E) <= Cardinality(queued)
  BY <1>1, <1>5, FS_Surjection
<1>7. Cardinality(E) \in Nat
  BY <1>6, FS_CardinalityType
<1> QED
  BY <1>1, <1>6, <1>7 DEF E

\* What is planned is a status of the same face.
LEMMA PlannedIsStatus ==
    ASSUME NEW work \in SUBSET Items, NEW queued \in SUBSET work, status \in StatusType
    PROVE  Planned(work, queued) \in StatusType /\ SameFace(status, Planned(work, queued))
<1> DEFINE all == [k \in Kinds |-> Cardinality(work \cap Subjects[k])]
           placed == [k \in Kinds |-> [p \in Places |->
                CASE p = "queued" -> Cardinality(queued \cap Subjects[k])
                  [] p = "completed" -> Cardinality((work \ queued) \cap Subjects[k])
                  [] OTHER -> 0]]
           spared == Cardinality(work \ queued)
           few == Cardinality(queued) - Cardinality(Executions(queued))
<1>1. \A k \in Kinds : /\ Cardinality(work \cap Subjects[k]) \in Nat
                       /\ Cardinality(queued \cap Subjects[k]) \in Nat
                       /\ Cardinality((work \ queued) \cap Subjects[k]) \in Nat
  BY FiniteParts
<1>2. all \in [Kinds -> Nat] /\ placed \in [Kinds -> [Places -> Nat]]
  BY <1>1
<1>3. spared \in Nat /\ few \in Nat
  BY FiniteParts, ExecutionsAreFew
<1>4. Planned(work, queued) =
        [status EXCEPT !.total = all, !.count = placed, !.reused = spared, !.saved = few]
  BY DEF Planned
<1> HIDE DEF all, placed, spared, few
<1> QED
  BY <1>2, <1>3, <1>4 DEF StatusType, SameFace

\* The planning keeps the invariant.
LEMMA Planning ==
    ASSUME PassInv, PlanAnalysisWork
    PROVE  PassInv'
<1>1. pc = "planning" /\ pc \notin Resting
  BY DEF PlanAnalysisWork, Resting
<1>2. /\ status \in StatusType /\ status.outcome = "running" /\ status.pass = passes
      /\ status.published \in output /\ passes \in 1..MaxPasses /\ DOMAIN step = Items
      /\ Fits(pc, result, status, output, passes, at)
  BY <1>1, RunningPass DEF PassInv
<1>3. PICK work \in Works[passes] : \E queued \in SUBSET work :
        /\ \/ Phase("planning", "preflight", Planned(work, queued))
           \/ Phase("planning", "merging",
                    [Planned(work, queued) EXCEPT !.stage["patterns"] = "skipped"])
        /\ place' = [i \in Items |-> CASE i \in queued -> "queued"
                                       [] i \in work \ queued -> "completed"
                                       [] OTHER -> "none"]
        /\ UNCHANGED step
  BY DEF PlanAnalysisWork
<1>4. work \in SUBSET Items
  BY <1>2, PassConstants
<1>5. PICK queued \in SUBSET work :
        /\ \/ Phase("planning", "preflight", Planned(work, queued))
           \/ Phase("planning", "merging",
                    [Planned(work, queued) EXCEPT !.stage["patterns"] = "skipped"])
        /\ place' = [i \in Items |-> CASE i \in queued -> "queued"
                                       [] i \in work \ queued -> "completed"
                                       [] OTHER -> "none"]
        /\ UNCHANGED step
  BY <1>3
<1> DEFINE s == Planned(work, queued)
<1>6. s \in StatusType /\ SameFace(status, s)
  BY <1>2, <1>4, PlannedIsStatus
<1>7. place' \in [Items -> Places \cup {"none"}] /\ DOMAIN step' = Items
  BY <1>2, <1>5 DEF Places
<1>8. CASE Phase("planning", "preflight", s)
  <2> HIDE DEF s
  <2> QED
    BY <1>6, <1>7, <1>8, FacePhase, NoStage DEF Walking
<1>9. CASE Phase("planning", "merging", [s EXCEPT !.stage["patterns"] = "skipped"])
  <2> HIDE DEF s
  <2> DEFINE t == [s EXCEPT !.stage["patterns"] = "skipped"]
  <2>1. /\ t \in StatusType /\ t.outcome = "running" /\ t.pass = passes
        /\ t.published \in output /\ t.stage = [status.stage EXCEPT !["patterns"] = "skipped"]
        /\ t.followUp = status.followUp /\ status.stage \in [Stages -> StageState]
    BY <1>2, <1>6 DEF StatusType, SameFace, Stages, StageState
  <2> HIDE DEF t
  <2>2. Fits("merging", result, t, output, passes, at)
    BY <1>1, <1>2, <2>1 DEF Fits, Walking, Resting, RunsIn
  <2> QED
    BY <1>7, <1>9, <2>1, <2>2, Phased DEF t
<1> QED
  BY <1>5, <1>8, <1>9

-----------------------------------------------------------------------------
(* Where passes begin and end, and processes *)

\* A pass begins with a status that keeps the time of the last publication.
LEMMA Beginning ==
    ASSUME PassInv, FirstPass \/ NextPass
    PROVE  PassInv'
<1>1. PICK type \in {"oneShot", "initial", "reconcile", "watch"} : BeginPass(type)
  BY DEF FirstPass, NextPass
<1>2. pc' \in {"setup", "discovery", "artifacts"}
  BY DEF FirstPass, NextPass
<1>3. /\ status \in StatusType /\ status.published \in output /\ output \subseteq Nat /\ 0 \in output /\ passes \in Nat
      /\ MaxPasses \in Nat
  BY PassConstants DEF PassInv, GoodStatus, Fits
<1>4. /\ passes' = passes + 1 /\ passes' \in 1..MaxPasses
      /\ Forced(Begun(passes + 1, type)) /\ result' = "ok"
      /\ place' = [i \in Items |-> "none"]
      /\ UNCHANGED <<stopping, known, history, step, at, historyFile, output>>
  BY <1>1, <1>3 DEF BeginPass
<1> DEFINE s == Begun(passes + 1, type)
<1>5. NoStatus \in StatusType /\ \A t \in Stages : NoStatus.stage[t] # "running"
  BY BlankStatus DEF Restful
<1>6. \A c \in Components : NoStatus.followUp[c] # "running"
  BY BlankStatus DEF Restful
<1>7. /\ s \in StatusType /\ s.outcome = "running" /\ s.pass = passes + 1
      /\ s.published = status.published /\ s.stage = NoStatus.stage
      /\ s.followUp = NoStatus.followUp
  <2> DEFINE u == [NoStatus EXCEPT !.pass = passes + 1, !.type = type, !.outcome = "running"]
  <2>1. type \in Types /\ "running" \in Outcomes /\ passes + 1 \in Nat
    BY <1>3 DEF Types, Outcomes
  <2>2. /\ u \in StatusType /\ u.outcome = "running" /\ u.pass = passes + 1
        /\ u.stage = NoStatus.stage /\ u.followUp = NoStatus.followUp
    BY <1>5, <2>1 DEF StatusType
  <2>3. s = [u EXCEPT !.checked = status.checked, !.published = status.published]
    BY DEF Begun
  <2>4. status.checked \in Nat /\ status.published \in Nat
    BY <1>3 DEF StatusType
  <2> HIDE DEF u, s
  <2> QED
    BY <2>2, <2>3, <2>4 DEF StatusType
<1> HIDE DEF s
<1>8. GoodStatus(s, output)
  BY <1>3, <1>7, RunningIsGood
<1>9. Fits(pc', "ok", s, output, passes + 1, at)
  BY <1>2, <1>3, <1>4, <1>5, <1>6, <1>7 DEF Fits, Walking, Resting
<1>10. status' = s /\ GoodStatus(statusFile', output) /\ faults' \in Nat
  BY <1>4, <1>8, Written DEF PassInv, s
<1>11. place' \in [Items -> Places \cup {"none"}]
  BY <1>4
<1> QED
  BY <1>4, <1>8, <1>9, <1>10, <1>11 DEF PassInv

\* A pass that fails goes to its end.
LEMMA Failing ==
    ASSUME PassInv, Fail
    PROVE  PassInv'
<1>1. pc \in Walking /\ pc \notin Resting
  BY DEF Fail, Fallible, Systemic, Walking, Resting
<1>2. /\ pc' = "ending" /\ result' # "ok"
      /\ UNCHANGED <<stopping, known, tracker, pool, at, disk, passes, faults, spoiled>>
  BY DEF Fail, Return
<1>3. Fits("ending", result', status, output, passes, at)
  BY <1>1, <1>2 DEF PassInv, Fits, Walking, Resting
<1> QED
  BY <1>2, <1>3 DEF PassInv, tracker, pool, disk

\* A pass ends: well, with nothing that runs, or badly, with all that ran put to rest.
LEMMA Finishing ==
    ASSUME PassInv, Finish
    PROVE  PassInv'
<1>1. pc = "ending" /\ pc \notin Resting /\ pc' = "ended"
  BY DEF Finish, Resting
<1>2. /\ status \in StatusType /\ status.outcome = "running" /\ status.pass = passes
      /\ status.published \in output /\ GoodStatus(status, output)
      /\ place \in [Items -> Places \cup {"none"}] /\ DOMAIN step = Items
      /\ Fits(pc, result, status, output, passes, at) /\ at \in Nat /\ known \in BOOLEAN
      /\ passes \in 1..MaxPasses
  BY <1>1, RunningPass DEF PassInv
<1>3. /\ Forced(IF result = "ok" THEN [status EXCEPT !.outcome = "succeeded"]
                ELSE Terminal(status, OutcomeOf(result)))
      /\ UNCHANGED <<result, stopping, history, step, at, historyFile, output, passes>>
      /\ known' = (known \/ result = "ok")
      /\ place' = [i \in Items |-> IF place[i] \in Open THEN "cancelled" ELSE place[i]]
  BY DEF Finish
<1>4. known' \in BOOLEAN /\ place' \in [Items -> Places \cup {"none"}] /\ DOMAIN step' = Items
  BY <1>2, <1>3 DEF Places
<1>5. CASE result = "ok"
  <2> DEFINE s == [status EXCEPT !.outcome = "succeeded"]
  <2>1. /\ s \in StatusType /\ s.outcome = "succeeded" /\ s.pass = status.pass
        /\ s.published = status.published /\ s.stage = status.stage
        /\ s.followUp = status.followUp
    BY <1>2 DEF StatusType, Outcomes
  <2> HIDE DEF s
  <2>2. /\ status.published = status.pass
        /\ \A t \in Stages : status.stage[t] # "running"
        /\ \A c \in Components : status.followUp[c] # "running"
    BY <1>1, <1>2, <1>5 DEF Fits, RunsIn
  <2>3. GoodStatus(s, output)
    BY <1>2, <2>1, <2>2 DEF GoodStatus, Restful
  <2>4. Fits("ended", result', s, output, passes, at)
    BY <1>2, <2>1 DEF Fits, Resting, Walking, Ended, Outcomes
  <2> QED
    BY <1>1, <1>2, <1>3, <1>4, <1>5, <2>3, <2>4, Writes DEF s
<1>6. CASE result # "ok"
  <2>1. OutcomeOf(result) \in {"failed", "cancelled", "interrupted"}
    BY <1>6 DEF OutcomeOf
  <2> DEFINE s == Terminal(status, OutcomeOf(result))
  <2>2. GoodStatus(s, output) /\ s.outcome = OutcomeOf(result)
    BY <1>2, <2>1, TerminalIsGood
  <2> HIDE DEF s
  <2>3. Fits("ended", result', s, output, passes, at)
    BY <1>2, <2>1, <2>2 DEF Fits, Resting, Walking, Ended, Outcomes
  <2> QED
    BY <1>1, <1>2, <1>3, <1>4, <1>6, <2>2, <2>3, Writes DEF s
<1> QED
  BY <1>5, <1>6

\* The history takes a pass that ended, or was found interrupted.
LEMMA Remembering ==
    ASSUME PassInv, AppendPass \/ Recover
    PROVE  PassInv'
<1>1. /\ pc \in {"ended", "recovering"} /\ AppendHistory(status)
      /\ pc' \in {"exit", "scheduling", "halted", "ready"}
      /\ UNCHANGED <<result, stopping, known, status, pool, at, statusFile, output, passes>>
  BY DEF AppendPass, Recover
<1>2. status.outcome \in Ended
  BY <1>1 DEF PassInv, Fits
<1>3. GoodHistory(history', output) /\ GoodHistory(historyFile', output) /\ faults' \in Nat
  BY <1>1, <1>2, Appended DEF PassInv
<1>4. Fits(pc', result, status, output, passes, at)
  BY <1>1 DEF PassInv, Fits, Resting, Walking
<1> QED
  BY <1>1, <1>3, <1>4 DEF PassInv, pool

\* Waiting for the next pass, and being stopped meanwhile.
LEMMA Waiting ==
    ASSUME PassInv, SetSchedule \/ Leave
    PROVE  PassInv'
<1>1. GoodStatus(status, output) /\ Fits(pc, result, status, output, passes, at)
  BY DEF PassInv
<1>2. CASE SetSchedule
  <2>1. /\ Forced(status) /\ pc' = "idle" /\ UNCHANGED <<result, place, step, at>>
        /\ UNCHANGED <<stopping, known, history, historyFile, output, passes>>
    BY <1>2 DEF SetSchedule, Phase, pool
  <2>2. Fits("idle", result, status, output, passes, at)
    BY <1>1 DEF Fits, Resting, Walking
  <2> QED
    BY <1>1, <2>1, <2>2, Writes DEF PassInv
<1>3. CASE Leave
  <2>1. UNCHANGED <<stopping, known, history, pool, at, historyFile, output, passes>>
    BY <1>3 DEF Leave
  <2>2. CASE status.outcome = "succeeded"
    <3> DEFINE s == Terminal(status, "cancelled")
    <3>1. GoodStatus(s, output) /\ s.outcome = "cancelled"
      BY <1>1, TerminalIsGood
    <3>2. pc' = "ended" /\ result' = "leaving" /\ Forced(s)
      BY <1>3, <2>2 DEF Leave
    <3> HIDE DEF s
    <3>3. Fits("ended", "leaving", s, output, passes, at)
      BY <1>1, <3>1 DEF Fits, Resting, Walking, Ended, Outcomes
    <3> QED
      BY <2>1, <3>1, <3>2, <3>3, Writes DEF PassInv, pool
  <2>3. CASE status.outcome # "succeeded"
    <3>1. pc' = "exit" /\ UNCHANGED <<result, status, statusFile, faults, spoiled>>
      BY <1>3, <2>3 DEF Leave
    <3>2. Fits("exit", result, status, output, passes, at)
      BY <1>1 DEF Fits, Resting, Walking
    <3> QED
      BY <2>1, <3>1, <3>2 DEF PassInv, pool
  <2> QED
    BY <2>2, <2>3
<1> QED
  BY <1>2, <1>3

\* A process that starts takes the files as it finds them, or ends the pass it finds.
LEMMA Starting ==
    ASSUME PassInv, Start
    PROVE  PassInv'
<1>1. /\ GoodStatus(statusFile, output) /\ GoodHistory(historyFile, output)
      /\ output \subseteq Nat /\ 0 \in output
  BY DEF PassInv, Fits
<1>2. /\ history' = historyFile
      /\ UNCHANGED <<result, stopping, known, pool, at, historyFile, output, passes>>
  BY DEF Start
<1>3. ASSUME NEW s, GoodStatus(s, output), status' = s, faults' \in Nat,
             GoodStatus(statusFile', output),
             pc' = "ready" \/ (pc' = "recovering" /\ s.outcome \in Ended)
      PROVE  PassInv'
  <2>1. Fits(pc', result, s, output, passes, at)
    BY <1>1, <1>3 DEF Fits, Resting, Walking
  <2> QED
    BY <1>1, <1>2, <1>3, <2>1 DEF PassInv, pool
<1>4. CASE Readable(statusFile) /\ statusFile.outcome = "running"
  <2> DEFINE s == Interrupted(statusFile)
  <2>1. GoodStatus(s, output) /\ s.outcome = "interrupted"
    BY <1>1, TerminalIsGood DEF Interrupted
  <2>2. Forced(s) /\ pc' \in {"recovering", "ready"}
    BY <1>4 DEF Start
  <2> HIDE DEF s
  <2>3. status' = s /\ GoodStatus(statusFile', output) /\ faults' \in Nat
    BY <1>1, <2>1, <2>2, Written DEF PassInv
  <2> QED
    BY <1>3, <2>1, <2>2, <2>3 DEF Ended, Outcomes
<1>5. CASE Readable(statusFile) /\ statusFile.outcome # "running"
  <2>1. status' = statusFile /\ pc' = "recovering" /\ UNCHANGED <<statusFile, faults>>
    BY <1>5 DEF Start
  <2>2. statusFile.outcome \in Ended
    BY <1>1, <1>5 DEF Readable, GoodStatus, StatusType, Ended
  <2> QED
    BY <1>1, <1>3, <2>1, <2>2 DEF PassInv
<1>6. CASE ~Readable(statusFile)
  <2>1. status' = NoStatus /\ pc' = "ready" /\ UNCHANGED <<statusFile, faults>>
    BY <1>6 DEF Start
  <2>2. GoodStatus(NoStatus, output)
    BY <1>1, BlankStatus DEF GoodStatus
  <2> QED
    BY <1>1, <1>3, <2>1, <2>2 DEF PassInv
<1> QED
  BY <1>4, <1>5, <1>6

\* A process that ends, dies or is asked to stop leaves the files alone.
LEMMA Stopping ==
    ASSUME PassInv, Exit \/ Crash \/ Stop
    PROVE  PassInv'
<1>1. CASE Stop
  BY <1>1 DEF Stop, PassInv, tracker, pool, disk
<1>2. CASE Exit \/ Crash
  <2>1. Gone /\ UNCHANGED <<disk, passes>> /\ faults' \in Nat
    BY <1>2 DEF Exit, Crash, PassInv
  <2>2. GoodStatus(NoStatus, output)
    BY BlankStatus DEF PassInv, GoodStatus
  <2>3. GoodHistory(<<>>, output)
    BY PassConstants DEF GoodHistory
  <2>4. Fits("down", "ok", NoStatus, output, passes, 0)
    BY DEF PassInv, Fits, Resting, Walking
  <2> QED
    BY <2>1, <2>2, <2>3, <2>4 DEF Gone, disk, PassInv
<1> QED
  BY <1>1, <1>2

-----------------------------------------------------------------------------
(* Theorems *)

\* The invariant is inductive.
LEMMA NextInv ==
    PassInv /\ [Next]_vars => PassInv'
<1> SUFFICES ASSUME PassInv, [Next]_vars PROVE PassInv'
  OBVIOUS
<1>1. CASE UNCHANGED vars
  BY <1>1 DEF PassInv, vars, tracker, pool, disk
<1>2. CASE PassStep
  BY <1>2, Starting, Remembering, Beginning, Failing, PlainPhases, Planning, Pooling, Draining,
     Correlating, Publishing, FollowingUp, Finishing, Waiting, Stopping DEF PassStep
<1>3. CASE Crash \/ Stop
  BY <1>3, Stopping
<1> QED
  BY <1>1, <1>2, <1>3 DEF Next

\* The status of memory and of the file, and the histories, are good in every state.
THEOREM PassInvariant == Spec => []PassInv
<1>1. Init => PassInv
  BY InitInv
<1>2. PassInv /\ [Next]_vars => PassInv'
  BY NextInv
<1> QED
  BY <1>1, <1>2, PTL DEF Spec

\* The tracker's status, its file and its history keep their types in every state,
\* whatever the failures, the reuse, the follow-ups and the faults.
THEOREM RefreshTypes == Spec => []TypeOK
<1>1. PassInv => TypeOK
  <2> SUFFICES ASSUME PassInv PROVE TypeOK
    OBVIOUS
  <2>1. ASSUME NEW h, GoodHistory(h, output)
        PROVE  Len(h) <= HistoryLimit /\ \A n \in DOMAIN h : h[n].outcome \in Outcomes \ {"none", "running"}
    <3>1. \A n \in DOMAIN h : h[n] \in GoodSummaries(output)
      BY <2>1 DEF GoodHistory
    <3> QED
      BY <2>1, <3>1 DEF GoodHistory, GoodSummaries, Ended
  <2> QED
    BY <2>1 DEF PassInv, GoodStatus, TypeOK
<1> QED
  BY <1>1, PassInvariant, PTL

\* The history says that a pass published only if that pass put its snapshot in place, and
\* that it succeeded only if it says so: appendHistoryLocked is given no more than the truth,
\* by the pass itself or by the process that recovers it.
THEOREM HistoryTrue == Spec => []HistoryIsTrue
<1>1. PassInv => HistoryIsTrue
  <2> SUFFICES ASSUME PassInv PROVE HistoryIsTrue
    OBVIOUS
  <2>1. \A n \in DOMAIN historyFile : historyFile[n] \in GoodSummaries(output)
    BY DEF PassInv, GoodHistory
  <2> QED
    BY <2>1 DEF PassInv, GoodSummaries, HistoryIsTrue
<1> QED
  BY <1>1, PassInvariant, PTL

\* A status file that does not say running shows no stage and no follow-up as running,
\* however the pass ended: finishTerminal, the end of the side effects and the recovery
\* leave none behind.
THEOREM NothingRunsOn == Spec => []NothingLeftRunning
<1>1. PassInv => NothingLeftRunning
  BY DEF PassInv, GoodStatus, Restful, NothingLeftRunning
<1> QED
  BY <1>1, PassInvariant, PTL
=============================================================================
