------------------------- MODULE AnalysisChatProofs -------------------------
(***************************************************************************)
(* AnalysisChat, for any number of sessions, questions, investigations,    *)
(* handlers and leases and for any limits: what an operation may make of a *)
(* session, that the work of a lease is run once, that the limits hold, and *)
(* that one key opens one session.                                         *)
(***************************************************************************)
EXTENDS AnalysisChat, FiniteSetTheorems, TLAPS

-----------------------------------------------------------------------------
(* A session on file, and what one step may make of it.                    *)

Blank(c) ==
    /\ c.active = None
    /\ \A q \in Requests : c.requests[q] = "none" /\ c.binding[q] = None
    /\ \A i \in Sources : c.sources[i].status = "none"

SessionOK(c) ==
    /\ c \in Session
    /\ \A q \in Requests :
        /\ c.requests[q] = "pending" <=> c.active # None /\ c.active.request = q
        /\ c.answers[q] = IF c.requests[q] = "succeeded" THEN 1 ELSE 0
    /\ \A i \in Sources : c.sources[i].status = "pending" <=> c.sources[i].lease # None
    /\ c.state # "open" => Blank(c)

\* A question is asked, or ends, or stays what it is; the same of an investigation.
QuestionMoves(c, d) ==
    \A q \in Requests :
        \/ d.requests[q] = c.requests[q]
        \/ c.requests[q] = "none" /\ d.requests[q] = "pending"
        \/ c.requests[q] = "pending" /\ d.requests[q] \in Settled /\ d.fresh
SourceMoves(c, d) ==
    \A i \in Sources :
        \/ d.sources[i].status = c.sources[i].status
        \/ c.sources[i].status = "none" /\ d.sources[i].status = "pending"
        \/ c.sources[i].status = "pending" /\ d.sources[i].status \in Settled /\ d.fresh

HoldsMark(c, d) ==
    c.active # None /\ c.active.cancel =>
        \/ d.requests[c.active.request] = "cancelled"
        \/ d.active # None /\ d.active.cancel /\ d.active.request = c.active.request

KeepsBinding(c, d) ==
    \A q \in Requests : c.binding[q] # None => d.binding[q] = c.binding[q]

Moves(c, d) == QuestionMoves(c, d) /\ SourceMoves(c, d) /\ HoldsMark(c, d) /\ KeepsBinding(c, d)

SessionStep(c, d) ==
    \/ d = c
    \/ c.state = "open" /\ d.state = "open" /\ Moves(c, d)
    \/ /\ c.state = "open" /\ d.state = "gone" /\ c.active = None
       /\ \A i \in Sources : c.sources[i].status # "pending"
    \/ c.state = "unused" /\ d.state = "open" /\ \A q \in Requests : d.requests[q] = "none"

\* What cleaning up an open session leaves open: nothing is asked by it.
Tidied(c, x) ==
    /\ c.state = "open" /\ x.state = "open" /\ Moves(c, x)
    /\ \A q \in Requests : c.requests[q] = "none" => x.requests[q] = "none"
    /\ \A i \in Sources : c.sources[i].status = "none" => x.sources[i].status = "none"

-----------------------------------------------------------------------------
(* Records *)

\* The blank sessions are sessions.
LEMMA BlankSessions ==
    SessionOK(Unused) /\ \A k \in Keys : SessionOK(Created(k))
<1>1. None \notin Active /\ None \notin Requests
  BY NoneIsNoActive, ChatConstants
<1>2. NoInvestigation \in Investigation
  BY DEF NoInvestigation, Investigation, Status
<1>3. Unused \in Session /\ Unused.active = None
  BY <1>2 DEF Unused, Session, Status
<1>4. SessionOK(Unused)
  BY <1>1, <1>3, ChatConstants DEF SessionOK, Unused, Blank, NoInvestigation
<1>5. ASSUME NEW k \in Keys PROVE SessionOK(Created(k))
  BY <1>1, <1>2, <1>3, <1>4 DEF SessionOK, Unused, Created, Session, Blank, NoInvestigation
<1>6. QED
  BY <1>4, <1>5

\* A session that is gone is a session.
LEMMA GoneSessions ==
    ASSUME NEW c
    PROVE  SessionOK(Gone(c)) /\ Gone(c).state = "gone"
<1>1. SessionOK(Unused)
  BY BlankSessions
<1>2. QED
  BY <1>1 DEF SessionOK, Unused, Gone, Session, Blank, NoInvestigation

\* What happens in two steps, of which the first asks nothing, happens in one.
LEMMA InTwoSteps ==
    ASSUME NEW c, NEW x, NEW d, SessionOK(c), SessionOK(x), SessionOK(d),
           Tidied(c, x), x.state = "open", d.state = "open", Moves(x, d), x.fresh => d.fresh
    PROVE  Moves(c, d)
<1>1. c \in Session /\ x \in Session
  BY DEF SessionOK
<1>2. QuestionMoves(c, d)
  BY DEF Tidied, Moves, QuestionMoves, Settled
<1>3. SourceMoves(c, d)
  BY DEF Tidied, Moves, SourceMoves, Settled
<1>4. HoldsMark(c, d)
  <2>1. SUFFICES ASSUME c.active # None, c.active.cancel PROVE HoldsMark(c, d)
    BY DEF HoldsMark
  <2>2. c.active.request \in Requests
    BY <1>1, <2>1 DEF Session, Active
  <2>3. QED
    BY <2>1, <2>2 DEF Tidied, Moves, QuestionMoves, HoldsMark, Settled
<1>5. KeepsBinding(c, d)
  BY DEF Tidied, Moves, KeepsBinding
<1>6. QED
  BY <1>2, <1>3, <1>4, <1>5 DEF Moves

\* Tidying twice is tidying.
LEMMA TidiedTwice ==
    ASSUME NEW c, NEW t, NEW x, SessionOK(c), SessionOK(t), SessionOK(x),
           Tidied(c, t), Tidied(t, x), t.fresh => x.fresh
    PROVE  Tidied(c, x)
<1>1. Moves(c, x)
  BY InTwoSteps DEF Tidied
<1>2. QED
  BY <1>1 DEF Tidied

\* Settling the turn of a session.
LEMMA TurnSettles ==
    ASSUME NEW c, SessionOK(c), c.state = "open", c.active # None,
           NEW status \in {"failed", "cancelled", "unknown"},
           c.active.cancel => status = "cancelled"
    PROVE  LET d == TurnSettled(c, status)
           IN SessionOK(d) /\ Tidied(c, d) /\ d.fresh /\ d.sources = c.sources /\ d.active = None
<1> DEFINE d == TurnSettled(c, status)
<1>1. c \in Session /\ c.active \in Active /\ c.active.request \in Requests
  BY DEF SessionOK, Session, Active
<1>2. /\ d \in Session /\ d.active = None /\ d.fresh /\ d.state = "open"
      /\ d.sources = c.sources /\ d.binding = c.binding /\ d.answers = c.answers
      /\ d.requests = [c.requests EXCEPT ![c.active.request] = status]
  BY <1>1 DEF TurnSettled, Session, Status, Settled
<1>3. c.requests[c.active.request] = "pending"
  BY <1>1 DEF SessionOK
<1>4. \A q \in Requests : d.requests[q] = IF q = c.active.request THEN status ELSE c.requests[q]
  BY <1>1, <1>2 DEF Session
<1>5. SessionOK(d)
  BY <1>1, <1>2, <1>3, <1>4 DEF SessionOK
<1>6. Tidied(c, d)
  BY <1>1, <1>2, <1>3, <1>4
     DEF Tidied, Moves, QuestionMoves, SourceMoves, HoldsMark, KeepsBinding, Settled
<1>7. QED
  BY <1>2, <1>5, <1>6

\* An answer settles the turn and joins the transcript.
LEMMA AnswerSettles ==
    ASSUME NEW c, SessionOK(c), c.state = "open", c.active # None, ~c.active.cancel
    PROVE  LET d == [TurnSettled(c, "succeeded") EXCEPT
                        !.answers[c.active.request] = @ + 1]
           IN SessionOK(d) /\ Tidied(c, d) /\ d.fresh
<1> DEFINE e == TurnSettled(c, "succeeded")
           d == [e EXCEPT !.answers[c.active.request] = @ + 1]
<1>1. c \in Session /\ c.active \in Active /\ c.active.request \in Requests
  BY DEF SessionOK, Session, Active
<1>a. /\ e \in Session /\ e.active = None /\ e.fresh /\ e.state = "open"
      /\ e.sources = c.sources /\ e.binding = c.binding /\ e.answers = c.answers
      /\ e.requests = [c.requests EXCEPT ![c.active.request] = "succeeded"]
  BY <1>1 DEF TurnSettled, Session, Status, Settled
<1>2. /\ d \in Session /\ d.active = None /\ d.fresh /\ d.state = "open"
      /\ d.sources = c.sources /\ d.binding = c.binding
      /\ d.answers = [c.answers EXCEPT ![c.active.request] = @ + 1]
      /\ d.requests = [c.requests EXCEPT ![c.active.request] = "succeeded"]
  <2> HIDE DEF e
  <2>1. QED
    BY <1>1, <1>a DEF Session
<1>3. c.requests[c.active.request] = "pending" /\ c.answers[c.active.request] = 0
  BY <1>1 DEF SessionOK
<1>4. \A q \in Requests :
        /\ d.requests[q] = IF q = c.active.request THEN "succeeded" ELSE c.requests[q]
        /\ d.answers[q] = IF q = c.active.request THEN 1 ELSE c.answers[q]
  BY <1>1, <1>2, <1>3 DEF Session
<1>5. SessionOK(d)
  BY <1>1, <1>2, <1>3, <1>4 DEF SessionOK
<1>6. Tidied(c, d)
  BY <1>1, <1>2, <1>3, <1>4
     DEF Tidied, Moves, QuestionMoves, SourceMoves, HoldsMark, KeepsBinding, Settled
<1>7. QED
  BY <1>2, <1>5, <1>6

\* Settling an investigation of a session.
LEMMA SourceSettles ==
    ASSUME NEW c, SessionOK(c), c.state = "open",
           NEW i \in Sources, c.sources[i].status = "pending", NEW status \in Settled
    PROVE  LET d == SourceSettled(c, i, status)
           IN SessionOK(d) /\ Tidied(c, d) /\ d.fresh
<1> DEFINE d == SourceSettled(c, i, status)
<1>1. c \in Session /\ c.sources[i] \in Investigation
  BY DEF SessionOK, Session
<1>2. /\ d \in Session /\ d.active = c.active /\ d.fresh /\ d.state = "open"
      /\ d.requests = c.requests /\ d.binding = c.binding /\ d.answers = c.answers
      /\ d.sources[i].status = status /\ d.sources[i].lease = None
      /\ \A j \in Sources : j # i => d.sources[j] = c.sources[j]
  BY <1>1 DEF SourceSettled, Session, Investigation, Status
<1>3. SessionOK(d)
  BY <1>1, <1>2 DEF SessionOK, Settled
<1>4. Tidied(c, d)
  BY <1>1, <1>2
     DEF Tidied, Moves, QuestionMoves, SourceMoves, HoldsMark, KeepsBinding, Settled
<1>5. QED
  BY <1>2, <1>3, <1>4

\* Settling every investigation that has lapsed.
LEMMA SourcesClean ==
    ASSUME NEW c, SessionOK(c)
    PROVE  LET d == SourcesCleaned(c)
           IN SessionOK(d) /\ (c.state = "open" => Tidied(c, d)) /\ (c.state # "open" => d = c)
              /\ (c.fresh => d.fresh)
<1> DEFINE d == SourcesCleaned(c)
<1>1. c \in Session /\ \A i \in Sources : c.sources[i] \in Investigation
  BY DEF SessionOK, Session
<1>2. \A i \in Sources :
        /\ SourceSettled(c, i, "unknown").sources[i] \in Investigation
        /\ SourceSettled(c, i, "unknown").sources[i].status = "unknown"
        /\ SourceSettled(c, i, "unknown").sources[i].lease = None
  <2> SUFFICES ASSUME NEW i \in Sources
               PROVE  LET s == SourceSettled(c, i, "unknown").sources[i]
                      IN s \in Investigation /\ s.status = "unknown" /\ s.lease = None
    OBVIOUS
  <2> DEFINE s == [c.sources[i] EXCEPT !.status = "unknown", !.lease = None,
                                       !.live = FALSE, !.cancel = FALSE]
             t == [c.sources EXCEPT ![i] = s]
  <2>1. s \in Investigation /\ s.status = "unknown" /\ s.lease = None
    <3> DEFINE o == c.sources[i]
    <3>1. o \in Investigation
      BY <1>1
    <3> HIDE DEF o
    <3>2. "unknown" \in Status
      BY DEF Status, Settled
    <3> DEFINE n == [o EXCEPT !.status = "unknown", !.lease = None, !.live = FALSE,
                              !.cancel = FALSE]
    <3>3. DOMAIN o = {"status", "about", "lease", "live", "cancel"}
      BY <3>1 DEF Investigation
    <3>4. /\ n.status = "unknown" /\ n.lease = None /\ n.about = o.about
          /\ n.live = FALSE /\ n.cancel = FALSE
      BY <3>3
    <3>5. n = [x \in {"status", "about", "lease", "live", "cancel"} |-> n[x]]
      BY <3>3
    <3>6. o.about \in Requests \cup {None}
      BY <3>1 DEF Investigation
    <3> HIDE DEF n
    <3>7. n \in Investigation
      BY <3>2, <3>4, <3>5, <3>6 DEF Investigation
    <3> QED
      BY <3>4, <3>7 DEF n, o
  <2>2. SourceSettled(c, i, "unknown") = [c EXCEPT !.sources = t, !.fresh = TRUE]
    BY <1>1 DEF SourceSettled, Session
  <2> HIDE DEF s
  <2>3. t[i] = s
    BY <1>1 DEF Session
  <2> HIDE DEF t
  <2>4. SourceSettled(c, i, "unknown").sources = t
    BY <1>1, <2>2 DEF Session
  <2> QED
    BY <2>1, <2>3, <2>4
<1>3. /\ d \in Session /\ d.active = c.active /\ d.state = c.state
      /\ d.requests = c.requests /\ d.binding = c.binding /\ d.answers = c.answers
      /\ d.fresh = (c.fresh \/ \E i \in Sources : SourceLapsed(c, i))
      /\ \A i \in Sources : d.sources[i] =
            IF SourceLapsed(c, i) THEN SourceSettled(c, i, "unknown").sources[i] ELSE c.sources[i]
  BY <1>1, <1>2 DEF SourcesCleaned, Session
<1>4. SessionOK(d)
  BY <1>1, <1>2, <1>3 DEF SessionOK, Blank, SourceLapsed, SourceActive
<1>5. ASSUME c.state = "open" PROVE Tidied(c, d)
  BY <1>1, <1>2, <1>3, <1>5
     DEF Tidied, Moves, QuestionMoves, SourceMoves, HoldsMark, KeepsBinding, Settled,
         SourceLapsed, SourceActive
<1>6. ASSUME c.state # "open" PROVE d = c
  <2>1. \A i \in Sources : ~SourceLapsed(c, i)
    BY <1>6 DEF SessionOK, Blank, SourceLapsed, SourceActive
  <2>2. c.sources = [i \in Sources |-> c.sources[i]] /\ c.fresh \in BOOLEAN
    BY <1>1 DEF Session
  <2>3. d = [c EXCEPT !.sources = c.sources, !.fresh = c.fresh]
    BY <2>1, <2>2 DEF SourcesCleaned
  <2>4. QED
    BY <1>1, <2>3 DEF Session
<1>7. QED
  BY <1>3, <1>4, <1>5, <1>6

\* Cleaning up ends an idle session that has expired, and tidies an open one.
LEMMA CleaningUp ==
    ASSUME NEW c, SessionOK(c)
    PROVE  LET x == Cleaned(c)
           IN SessionOK(x) /\ SessionStep(c, x) /\ (x.state = "open" => Tidied(c, x))
<1> DEFINE t == TurnCleaned(c)
           x == Cleaned(c)
<1>1. CASE c.state = "open" /\ ~c.fresh /\ ~Busy(c)
  <2>1. SessionOK(x) /\ x.state = "gone"
    <3>1. \A b : SessionOK(Gone(b)) /\ Gone(b).state = "gone"
      BY GoneSessions
    <3>2. QED
      BY <1>1, <3>1 DEF Cleaned
  <2>2. c.active = None /\ \A i \in Sources : c.sources[i].status # "pending"
    BY <1>1 DEF Busy, SourceActive, SessionOK
  <2>3. QED
    BY <1>1, <2>1, <2>2 DEF SessionStep
<1>2. CASE ~(c.state = "open" /\ ~c.fresh /\ ~Busy(c))
  <2>1. x = SourcesCleaned(t)
    BY <1>2 DEF Cleaned
  <2>2. SessionOK(t) /\ t.state = c.state /\ (t.fresh \/ t = c) /\ (t = c \/ Tidied(c, t))
    <3>1. CASE TurnLapsed(c)
      <4>1. c.active # None /\ c.state = "open" /\ c.active \in Active
        BY <3>1 DEF TurnLapsed, SessionOK, Blank, Session
      <4>2. PICK status \in {"cancelled", "unknown"} :
              t = TurnSettled(c, status) /\ (c.active.cancel => status = "cancelled")
        BY <3>1 DEF TurnCleaned
      <4>3. QED
        BY <4>1, <4>2, TurnSettles DEF Tidied
    <3>2. CASE ~TurnLapsed(c)
      BY <3>2 DEF TurnCleaned
    <3>3. QED
      BY <3>1, <3>2
  <2>3. /\ SessionOK(x) /\ (t.state = "open" => Tidied(t, x)) /\ (t.state # "open" => x = t)
        /\ (t.fresh => x.fresh)
    BY <2>1, <2>2, SourcesClean
  <2>4. CASE c.state # "open"
    BY <2>2, <2>3, <2>4 DEF SessionStep, Tidied
  <2>5. CASE c.state = "open"
    <3>1. Tidied(c, x)
      <4>1. CASE t = c
        BY <2>2, <2>3, <2>5, <4>1
      <4>2. CASE Tidied(c, t) /\ t.fresh
        BY <2>2, <2>3, <4>2, TidiedTwice DEF Tidied
      <4>3. QED
        BY <2>2, <4>1, <4>2
    <3>2. QED
      BY <2>3, <3>1 DEF SessionStep, Tidied
  <2>6. QED
    BY <2>4, <2>5
<1>3. QED
  BY <1>1, <1>2

-----------------------------------------------------------------------------
(* What the operations make of an open session that is tidy.               *)

Edited(x, d) == SessionOK(d) /\ d.state = "open" /\ Moves(x, d) /\ (x.fresh => d.fresh)

\* A question is admitted.
LEMMA Asking ==
    ASSUME NEW x, SessionOK(x), x.state = "open", x.active = None,
           NEW q \in Requests, x.requests[q] = "none",
           NEW a \in Active, a.request = q
    PROVE  Edited(x, [x EXCEPT !.turns = @ + 1, !.requests[q] = "pending", !.active = a])
<1> DEFINE t == [x EXCEPT !.turns = @ + 1]
           p == [t EXCEPT !.requests[q] = "pending"]
           d == [p EXCEPT !.active = a]
<1>1. x \in Session /\ a # None
  BY NoneIsNoActive DEF SessionOK
<1>2. /\ t \in Session /\ t.active = x.active /\ t.fresh = x.fresh /\ t.state = "open"
      /\ t.sources = x.sources /\ t.binding = x.binding /\ t.answers = x.answers
      /\ t.requests = x.requests
  BY <1>1 DEF Session
<1>3. /\ p \in Session /\ p.fresh = x.fresh /\ p.state = "open"
      /\ p.sources = x.sources /\ p.binding = x.binding /\ p.answers = x.answers
      /\ \A r \in Requests : p.requests[r] = IF r = q THEN "pending" ELSE x.requests[r]
  <2> HIDE DEF t
  <2>1. QED
    BY <1>2 DEF Session, Status
<1>4. /\ d \in Session /\ d.active = a /\ d.fresh = x.fresh /\ d.state = "open"
      /\ d.sources = x.sources /\ d.binding = x.binding /\ d.answers = x.answers
      /\ \A r \in Requests : d.requests[r] = IF r = q THEN "pending" ELSE x.requests[r]
  <2> HIDE DEF p
  <2>1. QED
    BY <1>3 DEF Session
<1> HIDE DEF d
<1>5. SessionOK(d)
  BY <1>1, <1>4 DEF SessionOK
<1>6. Moves(x, d)
  BY <1>4 DEF Moves, QuestionMoves, SourceMoves, HoldsMark, KeepsBinding
<1>7. Edited(x, d)
  BY <1>4, <1>5, <1>6 DEF Edited
<1>8. QED
  BY <1>7 DEF d

\* A turn is marked as cancelled.
LEMMA Cancelling ==
    ASSUME NEW x, SessionOK(x), x.state = "open", x.active # None
    PROVE  Edited(x, [x EXCEPT !.active.cancel = TRUE])
<1> DEFINE d == [x EXCEPT !.active.cancel = TRUE]
<1>1. x \in Session /\ x.active \in Active
  BY DEF SessionOK, Session
<1>2. [x.active EXCEPT !.cancel = TRUE] \in Active
  BY <1>1 DEF Active
<1>3. /\ d.active.cancel /\ d.active \in Active /\ d.active.request = x.active.request
      /\ d \in Session /\ d.fresh = x.fresh /\ d.state = "open"
      /\ d.sources = x.sources /\ d.binding = x.binding /\ d.answers = x.answers
      /\ d.requests = x.requests
  <2> DEFINE m == [x.active EXCEPT !.cancel = TRUE]
  <2>1. d = [x EXCEPT !.active = m]
    BY <1>1 DEF Session
  <2>2. m \in Active /\ m.cancel /\ m.request = x.active.request
    BY <1>1, <1>2 DEF Active
  <2> HIDE DEF m, d
  <2>3. /\ d.active = m /\ d.fresh = x.fresh /\ d.state = x.state
        /\ d.sources = x.sources /\ d.binding = x.binding /\ d.answers = x.answers
        /\ d.requests = x.requests
    BY <1>1, <2>1 DEF Session
  <2>4. d \in Session
    <3>1. m \in Active \cup {None}
      BY <2>2
    <3> QED
      BY <1>1, <2>1, <3>1 DEF Session
  <2> QED
    BY <2>2, <2>3, <2>4
<1> HIDE DEF d
<1>4. SessionOK(d)
  BY <1>3, NoneIsNoActive DEF SessionOK
<1>5. Moves(x, d)
  BY <1>3, NoneIsNoActive DEF Moves, QuestionMoves, SourceMoves, HoldsMark, KeepsBinding
<1>6. QED
  BY <1>3, <1>4, <1>5 DEF Edited, d

\* An investigation is admitted.
LEMMA Investigating ==
    ASSUME NEW x, SessionOK(x), x.state = "open", NEW i \in Sources,
           x.sources[i].status = "none", NEW q \in Requests, NEW l \in Leases
    PROVE  Edited(x, [x EXCEPT !.sources[i] = [status |-> "pending", about |-> q,
                lease |-> l, live |-> TRUE, cancel |-> FALSE]])
<1> DEFINE a == [status |-> "pending", about |-> q, lease |-> l, live |-> TRUE, cancel |-> FALSE]
           d == [x EXCEPT !.sources[i] = a]
<1>1. x \in Session /\ a \in Investigation /\ a.lease # None /\ a.status = "pending"
  BY ChatConstants DEF SessionOK, Investigation, Status
<1> HIDE DEF a
<1>2. /\ d \in Session /\ d.active = x.active /\ d.fresh = x.fresh /\ d.state = "open"
      /\ d.requests = x.requests /\ d.binding = x.binding /\ d.answers = x.answers
      /\ \A j \in Sources : d.sources[j] = IF j = i THEN a ELSE x.sources[j]
  BY <1>1 DEF Session
<1>3. SessionOK(d)
  BY <1>1, <1>2 DEF SessionOK
<1>4. Moves(x, d)
  BY <1>1, <1>2 DEF Moves, QuestionMoves, SourceMoves, HoldsMark, KeepsBinding
<1>5. QED
  BY <1>2, <1>3, <1>4 DEF Edited, a

\* A flag of an investigation changes: it is cancelled, or its lease lapses.
LEMMA SourceFlags ==
    ASSUME NEW x, SessionOK(x), x.state = "open", NEW i \in Sources
    PROVE  /\ Edited(x, [x EXCEPT !.sources[i].cancel = TRUE])
           /\ Edited(x, [x EXCEPT !.sources[i].live = FALSE])
<1>1. x \in Session /\ x.sources[i] \in Investigation
  BY DEF SessionOK, Session
<1>2. ASSUME NEW y \in Investigation, y.status = x.sources[i].status,
             y.lease = x.sources[i].lease
      PROVE  Edited(x, [x EXCEPT !.sources[i] = y])
  <2> DEFINE d == [x EXCEPT !.sources[i] = y]
  <2>1. /\ d \in Session /\ d.active = x.active /\ d.fresh = x.fresh /\ d.state = "open"
        /\ d.requests = x.requests /\ d.binding = x.binding /\ d.answers = x.answers
        /\ \A j \in Sources : d.sources[j] = IF j = i THEN y ELSE x.sources[j]
    BY <1>1, <1>2 DEF Session
  <2>2. SessionOK(d)
    BY <1>2, <2>1 DEF SessionOK
  <2>3. Moves(x, d)
    BY <1>2, <2>1 DEF Moves, QuestionMoves, SourceMoves, HoldsMark, KeepsBinding
  <2>4. QED
    BY <2>1, <2>2, <2>3 DEF Edited
<1>3. /\ [x EXCEPT !.sources[i].cancel = TRUE]
            = [x EXCEPT !.sources[i] = [x.sources[i] EXCEPT !.cancel = TRUE]]
      /\ [x EXCEPT !.sources[i].live = FALSE]
            = [x EXCEPT !.sources[i] = [x.sources[i] EXCEPT !.live = FALSE]]
  BY <1>1 DEF Session
<1>4. /\ [x.sources[i] EXCEPT !.cancel = TRUE] \in Investigation
      /\ [x.sources[i] EXCEPT !.live = FALSE] \in Investigation
      /\ [x.sources[i] EXCEPT !.cancel = TRUE].status = x.sources[i].status
      /\ [x.sources[i] EXCEPT !.cancel = TRUE].lease = x.sources[i].lease
      /\ [x.sources[i] EXCEPT !.live = FALSE].status = x.sources[i].status
      /\ [x.sources[i] EXCEPT !.live = FALSE].lease = x.sources[i].lease
  BY <1>1 DEF Investigation
<1>5. QED
  BY <1>2, <1>3, <1>4

\* The source of a fix is bound.
LEMMA Binding ==
    ASSUME NEW x, SessionOK(x), x.state = "open", NEW q \in Requests, q \notin Bound(x),
           NEW b \in Bases
    PROVE  Edited(x, [x EXCEPT !.binding[q] = b])
<1> DEFINE d == [x EXCEPT !.binding[q] = b]
<1>1. x \in Session /\ x.binding[q] = None
  BY DEF SessionOK, Bound
<1>2. /\ d \in Session /\ d.active = x.active /\ d.fresh = x.fresh /\ d.state = "open"
      /\ d.requests = x.requests /\ d.sources = x.sources /\ d.answers = x.answers
      /\ \A p \in Requests : d.binding[p] = IF p = q THEN b ELSE x.binding[p]
  BY <1>1 DEF Session
<1>3. SessionOK(d)
  BY <1>2 DEF SessionOK
<1>4. Moves(x, d)
  BY <1>1, <1>2 DEF Moves, QuestionMoves, SourceMoves, HoldsMark, KeepsBinding
<1>5. QED
  BY <1>2, <1>3, <1>4 DEF Edited

\* A turn's lease lapses, or the session expires: a step of its own.
LEMMA TimePasses ==
    ASSUME NEW c, SessionOK(c), c.state = "open"
    PROVE  /\ c.active # None =>
                SessionOK([c EXCEPT !.active.live = FALSE])
                /\ SessionStep(c, [c EXCEPT !.active.live = FALSE])
           /\ SessionOK([c EXCEPT !.fresh = FALSE])
           /\ SessionStep(c, [c EXCEPT !.fresh = FALSE])
<1>1. c \in Session
  BY DEF SessionOK
<1>2. ASSUME c.active # None
      PROVE  SessionOK([c EXCEPT !.active.live = FALSE])
             /\ SessionStep(c, [c EXCEPT !.active.live = FALSE])
  <2> DEFINE d == [c EXCEPT !.active.live = FALSE]
  <2>1. c.active \in Active /\ [c.active EXCEPT !.live = FALSE] \in Active
    BY <1>1, <1>2 DEF Session, Active
  <2>2. /\ d.active \in Active /\ d.active.cancel = c.active.cancel
        /\ d.active.request = c.active.request
        /\ d \in Session /\ d.fresh = c.fresh /\ d.state = "open"
        /\ d.sources = c.sources /\ d.binding = c.binding /\ d.answers = c.answers
        /\ d.requests = c.requests
    BY <1>1, <2>1 DEF Session, Active
  <2>3. SessionOK(d)
    BY <1>2, <2>2, NoneIsNoActive DEF SessionOK
  <2>4. Moves(c, d)
    BY <2>2, NoneIsNoActive DEF Moves, QuestionMoves, SourceMoves, HoldsMark, KeepsBinding
  <2>5. QED
    BY <2>2, <2>3, <2>4 DEF SessionStep
<1>3. SessionOK([c EXCEPT !.fresh = FALSE]) /\ SessionStep(c, [c EXCEPT !.fresh = FALSE])
  <2> DEFINE d == [c EXCEPT !.fresh = FALSE]
  <2>1. /\ d \in Session /\ d.active = c.active /\ d.state = "open"
        /\ d.requests = c.requests /\ d.sources = c.sources /\ d.answers = c.answers
        /\ d.binding = c.binding
    BY <1>1 DEF Session
  <2>2. SessionOK(d)
    BY <2>1 DEF SessionOK
  <2>3. Moves(c, d)
    BY <2>1 DEF Moves, QuestionMoves, SourceMoves, HoldsMark, KeepsBinding
  <2>4. QED
    BY <2>1, <2>2, <2>3 DEF SessionStep
<1>4. QED
  BY <1>2, <1>3

-----------------------------------------------------------------------------
(* The file, and the work of the leases.                                   *)

Asked(c, w) ==
    \/ c.state = "gone"
    \/ /\ c.state = "open"
       /\ \/ w \in Requests /\ c.requests[w] # "none"
          \/ w \in Sources /\ c.sources[w].status # "none"

FileOK == sessions \in [Sessions -> Session] /\ \A s \in Sessions : SessionOK(sessions[s])

LeaseOK(l) ==
    run[l].pc # "unused" =>
        /\ run[l].session \in Sessions /\ run[l].work \in Work
        /\ Asked(sessions[run[l].session], run[l].work)
RunsOK == run \in [Leases -> Run] /\ (\A l \in Leases : LeaseOK(l)) /\ RunsOnce

RestOK ==
    /\ rate \in [Owners -> Nat]
    /\ calls \in [Handlers -> Creation \cup Check \cup {None}]
    /\ faults \in Nat

ChatInv == FileOK /\ RunsOK /\ RestOK

\* What a step may make of the sessions.
FileStep == FileOK' /\ \A s \in Sessions : SessionStep(sessions[s], sessions'[s])

\* What was asked stays asked.
LEMMA AskedStays ==
    ASSUME NEW c, NEW d, SessionOK(c), SessionOK(d), SessionStep(c, d), NEW w, Asked(c, w)
    PROVE  Asked(d, w)
BY DEF Asked, SessionStep, Moves, QuestionMoves, SourceMoves, Settled, SessionOK, Blank

\* The sessions as an operation finds them.
LEMMA Found ==
    ASSUME FileOK
    PROVE  \A s \in Sessions :
             /\ SessionOK(Current[s]) /\ SessionStep(sessions[s], Current[s])
             /\ Current[s].state = "open" => Tidied(sessions[s], Current[s])
<1>1. ASSUME NEW s \in Sessions
      PROVE  /\ SessionOK(Current[s]) /\ SessionStep(sessions[s], Current[s])
             /\ Current[s].state = "open" => Tidied(sessions[s], Current[s])
  <2>1. SessionOK(sessions[s]) /\ Current[s] = Cleaned(sessions[s])
    BY DEF FileOK, Current
  <2>2. QED
    BY <2>1, CleaningUp
<1>2. QED
  BY <1>1

\* An edit of one session, and the clean up of all, is a step of the file.
LEMMA OneEdit ==
    ASSUME FileOK, NEW s \in Sessions, Current[s].state = "open",
           NEW d, Edited(Current[s], d),
           sessions' = With(s, d) \/ sessions' = sessions
    PROVE  FileStep
<1>1. CASE sessions' = sessions
  BY <1>1 DEF FileStep, FileOK, SessionStep
<1>2. CASE sessions' = With(s, d)
  <2>1. \A u \in Sessions : sessions'[u] = IF u = s THEN d ELSE Current[u]
    BY <1>2 DEF With, Current
  <2>2. DOMAIN sessions' = Sessions /\ sessions' = [u \in Sessions |-> sessions'[u]]
    BY <1>2 DEF With, Current
  <2>3. SessionOK(d) /\ SessionStep(sessions[s], d)
    <3>1. Tidied(sessions[s], Current[s]) /\ SessionOK(sessions[s]) /\ SessionOK(Current[s])
      BY Found DEF FileOK
    <3>2. SessionOK(d) /\ d.state = "open" /\ Moves(Current[s], d) /\ (Current[s].fresh => d.fresh)
      BY DEF Edited
    <3>3. Moves(sessions[s], d)
      BY <3>1, <3>2, InTwoSteps
    <3>4. QED
      BY <3>1, <3>2, <3>3 DEF SessionStep, Tidied
  <2>4. \A u \in Sessions : SessionOK(sessions'[u]) /\ SessionStep(sessions[u], sessions'[u])
    BY <2>1, <2>3, Found
  <2>5. sessions' \in [Sessions -> Session]
    BY <2>2, <2>4 DEF SessionOK
  <2>6. QED
    BY <2>4, <2>5 DEF FileStep, FileOK
<1>3. QED
  BY <1>1, <1>2

\* So is the clean up alone, and a write that did not happen.
LEMMA OnlyCleaned ==
    ASSUME FileOK, sessions' = Current \/ sessions' = sessions
    PROVE  FileStep
<1>1. CASE sessions' = sessions
  BY <1>1 DEF FileStep, FileOK, SessionStep
<1>2. CASE sessions' = Current
  <2>1. \A u \in Sessions : SessionOK(sessions'[u]) /\ SessionStep(sessions[u], sessions'[u])
    BY <1>2, Found
  <2>2. sessions' = [u \in Sessions |-> sessions'[u]]
    BY <1>2 DEF Current
  <2>3. sessions' \in [Sessions -> Session]
    BY <2>1, <2>2 DEF SessionOK
  <2>4. QED
    BY <2>1, <2>3 DEF FileStep, FileOK
<1>3. QED
  BY <1>1, <1>2

\* What a save writes, if it writes.
LEMMA Saved ==
    ASSUME RestOK, NEW next, NEW admitted \in [Owners -> Nat],
           Save(next, admitted) \/ SaveFails(next, admitted)
    PROVE  /\ sessions' = next \/ sessions' = sessions
           /\ rate' \in [Owners -> Nat] /\ faults' \in Nat
BY DEF RestOK, Save, SaveFails, file

\* While the leases stay as they are, the work they stand for was asked for.
LEMMA RunsStay ==
    ASSUME FileOK, RunsOK, FileStep, UNCHANGED run
    PROVE  RunsOK'
<1>1. ASSUME NEW l \in Leases, run[l].pc # "unused"
      PROVE  Asked(sessions'[run[l].session], run[l].work)
  <2>1. run[l].session \in Sessions /\ Asked(sessions[run[l].session], run[l].work)
    BY <1>1 DEF RunsOK, LeaseOK
  <2>2. QED
    BY <2>1, AskedStays DEF FileOK, FileStep
<1>2. \A l \in Leases : LeaseOK(l)'
  BY <1>1 DEF RunsOK, LeaseOK
<1>3. QED
  BY <1>2 DEF RunsOK, RunsOnce

\* Nor does it matter that some work is over.
LEMMA RunsEnd ==
    ASSUME FileOK, RunsOK, FileStep, NEW L \in SUBSET Leases,
           \A l \in L : run[l].pc = "running",
           run' = [l \in Leases |-> IF l \in L THEN [run[l] EXCEPT !.pc = "over"] ELSE run[l]]
    PROVE  RunsOK'
<1>1. \A l \in Leases :
        /\ run'[l] \in Run /\ run'[l].session = run[l].session /\ run'[l].work = run[l].work
        /\ run'[l].pc # "unused" <=> run[l].pc # "unused"
  BY DEF RunsOK, Run
<1>2. run' \in [Leases -> Run]
  BY <1>1
<1>3. ASSUME NEW l \in Leases, run[l].pc # "unused"
      PROVE  Asked(sessions'[run[l].session], run[l].work)
  <2>1. run[l].session \in Sessions /\ Asked(sessions[run[l].session], run[l].work)
    BY <1>3 DEF RunsOK, LeaseOK
  <2>2. QED
    BY <2>1, AskedStays DEF FileOK, FileStep
<1>4. \A l \in Leases : LeaseOK(l)'
  BY <1>1, <1>3 DEF RunsOK, LeaseOK
<1>5. RunsOnce'
  BY <1>1 DEF RunsOK, RunsOnce
<1>6. QED
  BY <1>2, <1>4, <1>5 DEF RunsOK

\* A lease is given to work that was not asked for before.
LEMMA RunsBegin ==
    ASSUME FileOK, RunsOK, FileStep, NEW l \in Leases, NEW s \in Sessions, NEW w \in Work,
           NEW pc \in {"running", "unused"}, LeaseTo(l, pc, s, w), run[l] = Unleased,
           ~Asked(sessions[s], w), pc = "running" => Asked(sessions'[s], w)
    PROVE  RunsOK'
<1>1. /\ run' \in [Leases -> Run]
      /\ run'[l] = [pc |-> pc, session |-> s, work |-> w]
      /\ \A m \in Leases : m # l => run'[m] = run[m]
  BY DEF RunsOK, Run, LeaseTo
<1>2. ASSUME NEW m \in Leases, run[m].pc # "unused"
      PROVE  /\ Asked(sessions'[run[m].session], run[m].work)
             /\ run[m].session # s \/ run[m].work # w
  <2>1. run[m].session \in Sessions /\ Asked(sessions[run[m].session], run[m].work)
    BY <1>2 DEF RunsOK, LeaseOK
  <2>2. QED
    BY <2>1, AskedStays DEF FileOK, FileStep
<1>3. ASSUME NEW m \in Leases PROVE LeaseOK(m)'
  <2>1. CASE m = l
    BY <1>1, <2>1 DEF LeaseOK
  <2>2. CASE m # l
    BY <1>1, <1>2, <2>2 DEF LeaseOK, RunsOK
  <2>3. QED
    BY <2>1, <2>2
<1>4. RunsOnce'
  <2>1. SUFFICES ASSUME NEW m \in Leases, NEW n \in Leases,
                        run'[m].pc # "unused", run'[n].pc # "unused",
                        run'[m].session = run'[n].session, run'[m].work = run'[n].work
                 PROVE  m = n
    BY DEF RunsOnce
  <2>2. CASE m # l /\ n # l
    BY <1>1, <2>1, <2>2 DEF RunsOK, RunsOnce
  <2>3. CASE m = l /\ n # l
    BY <1>1, <1>2, <2>1, <2>3
  <2>4. CASE m # l /\ n = l
    BY <1>1, <1>2, <2>1, <2>4
  <2>5. QED
    BY <2>2, <2>3, <2>4
<1>5. QED
  BY <1>1, <1>3, <1>4 DEF RunsOK

-----------------------------------------------------------------------------
(* The steps *)

\* An operation that only cleans up, and what of the rest it may change.
LEMMA CleanStep ==
    ASSUME ChatInv, SaveOrNot(Current), run' = run,
           calls' \in [Handlers -> Creation \cup Check \cup {None}]
    PROVE  ChatInv' /\ FileStep
<1>1. /\ sessions' = Current \/ sessions' = sessions
      /\ rate' \in [Owners -> Nat] /\ faults' \in Nat
  BY Saved DEF ChatInv, RestOK, SaveOrNot
<1>2. FileStep
  BY <1>1, OnlyCleaned DEF ChatInv
<1>3. RunsOK'
  BY <1>2, RunsStay DEF ChatInv
<1>4. QED
  BY <1>1, <1>2, <1>3 DEF ChatInv, RestOK, FileStep

\* An operation that edits an open session.
LEMMA EditStep ==
    ASSUME ChatInv, NEW s \in Sessions, Open(s), NEW d, Edited(Current[s], d),
           SaveOrNot(With(s, d)), run' = run,
           calls' \in [Handlers -> Creation \cup Check \cup {None}]
    PROVE  ChatInv' /\ FileStep
<1>1. /\ sessions' = With(s, d) \/ sessions' = sessions
      /\ rate' \in [Owners -> Nat] /\ faults' \in Nat
  BY Saved DEF ChatInv, RestOK, SaveOrNot
<1>2. FileStep
  BY <1>1, OneEdit DEF ChatInv, Open
<1>3. RunsOK'
  BY <1>2, RunsStay DEF ChatInv
<1>4. QED
  BY <1>1, <1>2, <1>3 DEF ChatInv, RestOK, FileStep

\* Creating a session, or finding that there is one.
LEMMA InsertStep ==
    ASSUME ChatInv, NEW h \in Handlers, Insert(h)
    PROVE  ChatInv' /\ FileStep
<1> DEFINE k == calls[h].key
<1>1. /\ run' = run /\ calls' \in [Handlers -> Creation \cup Check \cup {None}]
      /\ k \in Keys
  BY DEF Insert, Return, ChatInv, RestOK, Creation
<1>2. CASE SaveOrNot(Current)
  BY <1>1, <1>2, CleanStep
<1>3. ASSUME NEW s \in Sessions, Current[s].state = "unused", SaveOrNot(With(s, Created(k)))
      PROVE  ChatInv' /\ FileStep
  <2>1. /\ sessions' = With(s, Created(k)) \/ sessions' = sessions
        /\ rate' \in [Owners -> Nat] /\ faults' \in Nat
    BY <1>3, Saved DEF ChatInv, RestOK, SaveOrNot
  <2>2. FileStep
    <3>1. CASE sessions' = sessions
      BY <3>1 DEF FileStep, FileOK, SessionStep, ChatInv
    <3>2. CASE sessions' = With(s, Created(k))
      <4>1. /\ SessionOK(Created(k)) /\ Created(k).state = "open"
            /\ \A q \in Requests : Created(k).requests[q] = "none"
        BY <1>1, BlankSessions DEF Created, Unused
      <4>2. \A u \in Sessions : sessions'[u] = IF u = s THEN Created(k) ELSE Current[u]
        BY <3>2 DEF With, Current
      <4>3. \A u \in Sessions :
              SessionOK(Current[u]) /\ SessionStep(sessions[u], Current[u])
        BY Found DEF ChatInv
      <4>4. sessions[s].state = "unused"
        BY <1>3, <4>3 DEF SessionStep
      <4>5. \A u \in Sessions :
              SessionOK(sessions'[u]) /\ SessionStep(sessions[u], sessions'[u])
        BY <4>1, <4>2, <4>3, <4>4 DEF SessionStep
      <4>6. sessions' = [u \in Sessions |-> sessions'[u]]
        BY <3>2 DEF With, Current
      <4>7. QED
        BY <4>5, <4>6 DEF FileStep, FileOK, SessionOK
    <3>3. QED
      BY <2>1, <3>1, <3>2
  <2>3. RunsOK'
    BY <1>1, <2>2, RunsStay DEF ChatInv
  <2>4. QED
    BY <1>1, <2>1, <2>2, <2>3 DEF ChatInv, RestOK, FileStep
<1>4. QED
  BY <1>2, <1>3 DEF Insert

\* Admitting work: what it edits makes the work asked for, if it is written.
LEMMA AdmitStep ==
    ASSUME ChatInv, NEW s \in Sessions, Open(s), NEW w \in Work, ~Asked(Current[s], w),
           NEW d, Edited(Current[s], d), Asked(d, w),
           NEW l \in Leases, run[l] = Unleased, AdmitOrNot(l, s, w, With(s, d)), calls' = calls
    PROVE  ChatInv' /\ FileStep
<1>1. Counted(s) \in [Owners -> Nat]
  BY DEF Counted, ChatInv, RestOK, Owners
<1>2. /\ sessions' = With(s, d) \/ sessions' = sessions
      /\ rate' \in [Owners -> Nat] /\ faults' \in Nat
  BY <1>1, Saved DEF ChatInv, AdmitOrNot
<1>3. FileStep
  BY <1>2, OneEdit DEF ChatInv, Open
<1>4. ~Asked(sessions[s], w)
  BY Found, AskedStays DEF ChatInv, FileOK
<1>5. PICK pc \in {"running", "unused"} :
        LeaseTo(l, pc, s, w) /\ (pc = "running" => Save(With(s, d), Counted(s)))
  BY DEF AdmitOrNot
<1>6. pc = "running" => Asked(sessions'[s], w)
  BY <1>5 DEF Save, With, Current
<1>7. RunsOK'
  BY <1>3, <1>4, <1>5, <1>6, RunsBegin DEF ChatInv
<1>8. QED
  BY <1>2, <1>3, <1>7 DEF ChatInv, RestOK, FileStep

\* A question is asked.
LEMMA StartTurnStep ==
    ASSUME ChatInv, NEW s \in Sessions, NEW q \in Requests, StartTurn(s, q)
    PROVE  ChatInv' /\ FileStep
<1>1. PICK l \in Leases :
        /\ run[l] = Unleased
        /\ AdmitOrNot(l, s, q, With(s, [Current[s] EXCEPT
                !.turns = @ + 1, !.requests[q] = "pending",
                !.active = [request |-> q, lease |-> l, live |-> TRUE, cancel |-> FALSE]]))
  BY DEF StartTurn
<1> DEFINE x == Current[s]
           a == [request |-> q, lease |-> l, live |-> TRUE, cancel |-> FALSE]
           d == [x EXCEPT !.turns = @ + 1, !.requests[q] = "pending", !.active = a]
<1>2. /\ SessionOK(x) /\ x.state = "open" /\ x.active = None
      /\ x.requests[q] = "none" /\ Open(s) /\ calls' = calls
  BY Found DEF StartTurn, Admissible, Open, NewQuestion, ChatInv
<1>3. a \in Active /\ a.request = q
  BY DEF Active
<1>4. AdmitOrNot(l, s, q, With(s, d)) /\ run[l] = Unleased
  BY <1>1
<1> HIDE DEF a
<1>5. Edited(x, d)
  BY <1>2, <1>3, Asking
<1> HIDE DEF x
<1>6. d.requests = [x.requests EXCEPT ![q] = "pending"] /\ x \in Session
  BY <1>2 DEF SessionOK, Session
<1>7. Asked(d, q)
  BY <1>5, <1>6 DEF Asked, Edited, Session
<1>8. ~Asked(x, q) /\ q \in Work
  BY <1>2, ChatConstants DEF Asked, Work
<1> USE DEF x
<1> HIDE DEF d
<1>9. QED
  BY <1>2, <1>4, <1>5, <1>7, <1>8, AdmitStep

\* An investigation is asked for.
LEMMA StartSourceStep ==
    ASSUME ChatInv, NEW s \in Sessions, NEW i \in Sources, NEW q \in Requests,
           StartSource(s, i, q)
    PROVE  ChatInv' /\ FileStep
<1>1. PICK l \in Leases :
        /\ run[l] = Unleased
        /\ AdmitOrNot(l, s, i, With(s, [Current[s] EXCEPT !.sources[i] =
                [status |-> "pending", about |-> q, lease |-> l,
                 live |-> TRUE, cancel |-> FALSE]]))
  BY DEF StartSource
<1> DEFINE x == Current[s]
           a == [status |-> "pending", about |-> q, lease |-> l, live |-> TRUE, cancel |-> FALSE]
           d == [x EXCEPT !.sources[i] = a]
<1>2. /\ SessionOK(x) /\ x.state = "open"
      /\ x.sources[i].status = "none" /\ Open(s) /\ calls' = calls
  BY Found DEF StartSource, Open, ChatInv
<1>3. AdmitOrNot(l, s, i, With(s, d)) /\ run[l] = Unleased
  BY <1>1
<1>4. Edited(x, d)
  BY <1>2, Investigating
<1>5. d.sources = [x.sources EXCEPT ![i] = a] /\ x \in Session
  BY <1>2 DEF SessionOK, Session
<1>6. Asked(d, i)
  BY <1>4, <1>5 DEF Asked, Edited, Session
<1>7. ~Asked(x, i) /\ i \in Work
  BY <1>2, ChatConstants DEF Asked, Work
<1> HIDE DEF d
<1>8. QED
  BY <1>2, <1>3, <1>4, <1>6, <1>7, AdmitStep

\* Creating and cleaning up change no session otherwise.
LEMMA QuietSteps ==
    ASSUME ChatInv,
           \/ Cleanup
           \/ \E h \in Handlers, o \in Owners, k \in Keys : Create(h, o, k)
           \/ \E h \in Handlers, s \in Sessions, q \in Requests : PreflightTestFix(h, s, q)
    PROVE  ChatInv' /\ FileStep
<1>1. CASE Cleanup
  BY <1>1, CleanStep DEF Cleanup, ChatInv, RestOK
<1>2. ASSUME NEW h \in Handlers, NEW o \in Owners, NEW k \in Keys, Create(h, o, k)
      PROVE  ChatInv' /\ FileStep
  <2>1. [owner |-> o, key |-> k] \in Creation
    BY DEF Creation
  <2>2. QED
    BY <1>2, <2>1, CleanStep DEF Create, ChatInv, RestOK
<1>3. ASSUME NEW h \in Handlers, NEW s \in Sessions, NEW q \in Requests,
             PreflightTestFix(h, s, q)
      PROVE  ChatInv' /\ FileStep
  <2>1. \A b \in Bases : [session |-> s, request |-> q, base |-> b] \in Check
    BY DEF Check
  <2>2. QED
    BY <1>3, <2>1, CleanStep DEF PreflightTestFix, ChatInv, RestOK
<1>4. QED
  BY <1>1, <1>2, <1>3

\* Cancellations, of a turn and of an investigation.
LEMMA CancelSteps ==
    ASSUME ChatInv, NEW s \in Sessions,
           (\E q \in Requests : Cancel(s, q)) \/ (\E i \in Sources : CancelSource(s, i))
    PROVE  ChatInv' /\ FileStep
<1>1. SessionOK(Current[s])
  BY Found DEF ChatInv
<1>2. ASSUME NEW q \in Requests, Cancel(s, q) PROVE ChatInv' /\ FileStep
  <2>1. Edited(Current[s], [Current[s] EXCEPT !.active.cancel = TRUE])
    BY <1>1, <1>2, Cancelling DEF Cancel, Open
  <2>2. QED
    BY <1>2, <2>1, EditStep DEF Cancel, ChatInv, RestOK
<1>3. ASSUME NEW i \in Sources, CancelSource(s, i) PROVE ChatInv' /\ FileStep
  <2>1. Edited(Current[s], [Current[s] EXCEPT !.sources[i].cancel = TRUE])
    BY <1>1, <1>3, SourceFlags DEF CancelSource, Open
  <2>2. QED
    BY <1>3, <2>1, EditStep DEF CancelSource, ChatInv, RestOK
<1>4. QED
  BY <1>2, <1>3

\* Binding the source of a fix.
LEMMA BindStep ==
    ASSUME ChatInv, NEW h \in Handlers, Bind(h)
    PROVE  ChatInv' /\ FileStep
<1> DEFINE s == calls[h].session
           q == calls[h].request
           b == calls[h].base
<1>1. /\ run' = run /\ calls' \in [Handlers -> Creation \cup Check \cup {None}]
      /\ s \in Sessions /\ q \in Requests /\ b \in Bases
  BY DEF Bind, Return, ChatInv, RestOK, Check
<1>2. CASE SaveOrNot(Current)
  BY <1>1, <1>2, CleanStep
<1>3. CASE /\ Open(s) /\ Bindable(Current[s], q)
           /\ SaveOrNot(With(s, [Current[s] EXCEPT !.binding[q] = b]))
  <2>1. SessionOK(Current[s]) /\ Current[s].state = "open" /\ q \notin Bound(Current[s])
    BY <1>1, <1>3, Found DEF ChatInv, Open, Bindable
  <2>2. Edited(Current[s], [Current[s] EXCEPT !.binding[q] = b])
    BY <1>1, <2>1, Binding
  <2>3. QED
    BY <1>1, <1>3, <2>2, EditStep
<1>4. QED
  BY <1>2, <1>3 DEF Bind

\* Work ends, and its outcome is recorded if the lease is still the one on file.
LEMMA EndStep ==
    ASSUME ChatInv, NEW l \in Leases, run[l].pc = "running",
           run' = [run EXCEPT ![l].pc = "over"], calls' = calls,
           \/ SaveOrNot(Current)
           \/ \E s \in Sessions : \E d :
                Open(s) /\ Edited(Current[s], d) /\ SaveOrNot(With(s, d))
    PROVE  ChatInv' /\ FileStep
<1>1. FileStep /\ rate' \in [Owners -> Nat] /\ faults' \in Nat
  <2>1. CASE SaveOrNot(Current)
    <3>1. /\ sessions' = Current \/ sessions' = sessions
          /\ rate' \in [Owners -> Nat] /\ faults' \in Nat
      BY <2>1, Saved DEF ChatInv, RestOK, SaveOrNot
    <3>2. QED
      BY <3>1, OnlyCleaned DEF ChatInv
  <2>2. ASSUME NEW s \in Sessions, NEW d, Open(s), Edited(Current[s], d),
               SaveOrNot(With(s, d))
        PROVE  FileStep /\ rate' \in [Owners -> Nat] /\ faults' \in Nat
    <3>1. /\ sessions' = With(s, d) \/ sessions' = sessions
          /\ rate' \in [Owners -> Nat] /\ faults' \in Nat
      BY <2>2, Saved DEF ChatInv, RestOK, SaveOrNot
    <3>2. QED
      BY <2>2, <3>1, OneEdit DEF ChatInv, Open
  <2>3. QED
    BY <2>1, <2>2
<1>2. run' = [m \in Leases |-> IF m \in {l} THEN [run[m] EXCEPT !.pc = "over"] ELSE run[m]]
  BY DEF ChatInv, RunsOK, Run
<1>3. RunsOK'
  BY <1>1, <1>2, RunsEnd DEF ChatInv
<1>4. QED
  BY <1>1, <1>3 DEF ChatInv, RestOK, FileStep

\* The turn of a lease ends.
LEMMA FinishTurnStep ==
    ASSUME ChatInv, NEW l \in Leases, FinishTurn(l)
    PROVE  ChatInv' /\ FileStep
<1> DEFINE s == run[l].session
           w == run[l].work
           c == Current[s]
<1>1. /\ run[l].pc = "running" /\ run' = [run EXCEPT ![l].pc = "over"] /\ calls' = calls
      /\ s \in Sessions /\ w \in Requests
  BY DEF FinishTurn, ChatInv, RunsOK, LeaseOK
<1>2. CASE SaveOrNot(Current)
  BY <1>1, <1>2, EndStep
<1>3. ASSUME TurnIsOurs(c, l), NEW outcome \in Outcomes(c.active.cancel),
             SaveOrNot(With(s, [TurnSettled(c, outcome) EXCEPT
                        !.answers[w] = IF outcome = "succeeded" THEN @ + 1 ELSE @]))
      PROVE  ChatInv' /\ FileStep
  <2> DEFINE d == [TurnSettled(c, outcome) EXCEPT
                        !.answers[w] = IF outcome = "succeeded" THEN @ + 1 ELSE @]
  <2>1. SessionOK(c) /\ c.active # None /\ c.active.request = w
    BY <1>1, <1>3, Found DEF ChatInv, TurnIsOurs
  <2>2. c.state = "open"
    BY <2>1 DEF SessionOK, Blank
  <2>3. Edited(c, d)
    <3>1. CASE outcome = "succeeded"
      <4>1. ~c.active.cancel
        BY <1>3, <3>1 DEF Outcomes
      <4> DEFINE e == [TurnSettled(c, "succeeded") EXCEPT !.answers[c.active.request] = @ + 1]
      <4>2. d = e
        BY <2>1, <3>1
      <4>3. SessionOK(e) /\ Tidied(c, e) /\ e.fresh
        BY <2>1, <2>2, <4>1, AnswerSettles
      <4> HIDE DEF e, d
      <4>4. QED
        BY <4>2, <4>3 DEF Edited, Tidied
    <3>2. CASE outcome # "succeeded"
      <4>1. outcome \in {"failed", "cancelled", "unknown"} /\ (c.active.cancel => outcome = "cancelled")
        BY <1>3, <3>2 DEF Outcomes
      <4> DEFINE e == TurnSettled(c, outcome)
      <4>2. SessionOK(e) /\ Tidied(c, e) /\ e.fresh
        BY <2>1, <2>2, <4>1, TurnSettles
      <4>3. d = e
        <5>1. d = [e EXCEPT !.answers[w] = @]
          BY <3>2
        <5>2. e \in Session
          BY <4>2 DEF SessionOK
        <5> HIDE DEF e, d
        <5>3. QED
          BY <5>1, <5>2 DEF Session
      <4> HIDE DEF e, d
      <4>4. QED
        BY <4>2, <4>3 DEF Edited, Tidied
    <3>3. QED
      BY <3>1, <3>2
  <2> HIDE DEF d
  <2>4. SaveOrNot(With(s, d))
    BY <1>3 DEF d
  <2>5. QED
    BY <1>1, <2>2, <2>3, <2>4, EndStep DEF Open
<1>4. QED
  BY <1>2, <1>3 DEF FinishTurn

\* The investigation of a lease ends.
LEMMA FinishSourceStep ==
    ASSUME ChatInv, NEW l \in Leases, FinishSource(l)
    PROVE  ChatInv' /\ FileStep
<1> DEFINE s == run[l].session
           i == run[l].work
           c == Current[s]
<1>1. /\ run[l].pc = "running" /\ run' = [run EXCEPT ![l].pc = "over"] /\ calls' = calls
      /\ s \in Sessions /\ i \in Sources
  BY DEF FinishSource, ChatInv, RunsOK, LeaseOK
<1>2. CASE SaveOrNot(Current)
  BY <1>1, <1>2, EndStep
<1>3. ASSUME SourceIsOurs(c, l), NEW outcome \in Outcomes(c.sources[i].cancel),
             SaveOrNot(With(s, SourceSettled(c, i, outcome)))
      PROVE  ChatInv' /\ FileStep
  <2>1. SessionOK(c) /\ c.sources[i].status = "pending" /\ outcome \in Settled
    BY <1>1, <1>3, Found DEF ChatInv, SourceIsOurs, Outcomes, Settled
  <2>2. c.state = "open"
    BY <1>1, <2>1 DEF SessionOK, Blank
  <2>3. Edited(c, SourceSettled(c, i, outcome))
    BY <1>1, <2>1, <2>2, SourceSettles DEF Edited, Tidied
  <2>4. QED
    BY <1>1, <1>3, <2>2, <2>3, EndStep DEF Open
<1>4. QED
  BY <1>2, <1>3 DEF FinishSource

\* A lease lapses, or a session expires.
LEMMA TimeStep ==
    ASSUME ChatInv, NEW s \in Sessions,
           LapseTurn(s) \/ Expire(s) \/ (\E i \in Sources : LapseSource(s, i))
    PROVE  ChatInv' /\ FileStep
<1> DEFINE c == sessions[s]
<1>1. SessionOK(c) /\ c \in Session
  BY DEF ChatInv, FileOK
<1>2. /\ run' = run /\ calls' = calls /\ rate' = rate /\ faults' = faults
  BY DEF LapseTurn, Expire, LapseSource
<1>3. PICK d : SessionOK(d) /\ SessionStep(c, d) /\ sessions' = [sessions EXCEPT ![s] = d]
  <2>1. CASE LapseTurn(s)
    <3>1. c.active # None /\ c.state = "open"
      BY <1>1, <2>1 DEF LapseTurn, SessionOK, Blank
    <3>2. sessions' = [sessions EXCEPT ![s] = [c EXCEPT !.active.live = FALSE]]
      BY <2>1 DEF LapseTurn
    <3>3. /\ SessionOK([c EXCEPT !.active.live = FALSE])
          /\ SessionStep(c, [c EXCEPT !.active.live = FALSE])
      BY <1>1, <3>1, TimePasses
    <3>4. QED
      BY <3>2, <3>3
  <2>2. CASE Expire(s)
    <3>1. sessions' = [sessions EXCEPT ![s] = [c EXCEPT !.fresh = FALSE]] /\ c.state = "open"
      BY <2>2 DEF Expire
    <3>2. SessionOK([c EXCEPT !.fresh = FALSE]) /\ SessionStep(c, [c EXCEPT !.fresh = FALSE])
      BY <1>1, <3>1, TimePasses
    <3>3. QED
      BY <3>1, <3>2
  <2>3. ASSUME NEW i \in Sources, LapseSource(s, i)
        PROVE  \E d : SessionOK(d) /\ SessionStep(c, d) /\ sessions' = [sessions EXCEPT ![s] = d]
    <3>1. c.sources[i].status = "pending"
      BY <2>3 DEF LapseSource
    <3>2. c.state = "open"
      BY <1>1, <3>1 DEF SessionOK, Blank
    <3>3. sessions' = [sessions EXCEPT ![s] = [c EXCEPT !.sources[i].live = FALSE]]
      BY <2>3 DEF LapseSource
    <3>4. Edited(c, [c EXCEPT !.sources[i].live = FALSE])
      BY <1>1, <3>2, SourceFlags
    <3>5. QED
      BY <3>2, <3>3, <3>4 DEF Edited, SessionStep
  <2>4. QED
    BY <2>1, <2>2, <2>3
<1>4. FileStep
  BY <1>3 DEF ChatInv, FileOK, FileStep, SessionOK, SessionStep
<1>5. RunsOK'
  BY <1>2, <1>4, RunsStay DEF ChatInv
<1>6. QED
  BY <1>2, <1>4, <1>5 DEF ChatInv, RestOK, FileStep

\* A call is given up, a replica dies, or an admission falls out of the last minute.
LEMMA OtherSteps ==
    ASSUME ChatInv,
           \/ Crash \/ UNCHANGED vars
           \/ (\E h \in Handlers : GiveUp(h)) \/ (\E o \in Owners : Minute(o))
    PROVE  ChatInv' /\ FileStep
<1>1. FileStep
  BY DEF Crash, Minute, GiveUp, vars, file, FileStep, FileOK, SessionStep, ChatInv
<1>2. CASE Crash
  <2>1. PICK lost \in SUBSET {l \in Leases : run[l].pc = "running"} :
          run' = [l \in Leases |-> IF l \in lost THEN [run[l] EXCEPT !.pc = "over"] ELSE run[l]]
    BY <1>2 DEF Crash
  <2>2. lost \in SUBSET Leases /\ \A l \in lost : run[l].pc = "running"
    BY <2>1
  <2>3. RunsOK'
    BY <1>1, <2>1, <2>2, RunsEnd DEF ChatInv
  <2>4. QED
    BY <1>1, <1>2, <2>3 DEF Crash, file, ChatInv, RestOK, FileStep
<1>3. CASE (\E o \in Owners : Minute(o)) \/ UNCHANGED vars
  <2>1. RunsOK'
    BY <1>1, <1>3, RunsStay DEF Minute, vars, file, ChatInv
  <2>2. rate' \in [Owners -> Nat] /\ calls' = calls /\ faults' = faults
    BY <1>3 DEF Minute, vars, file, ChatInv, RestOK
  <2>3. QED
    BY <1>1, <2>1, <2>2 DEF ChatInv, RestOK, FileStep
<1>4. ASSUME NEW h \in Handlers, GiveUp(h) PROVE ChatInv' /\ FileStep
  <2>1. run' = run /\ rate' = rate /\ faults' = faults
        /\ calls' \in [Handlers -> Creation \cup Check \cup {None}]
    BY <1>4 DEF GiveUp, Return, file, ChatInv, RestOK
  <2>2. RunsOK'
    BY <1>1, <2>1, RunsStay DEF ChatInv
  <2>3. QED
    BY <1>1, <2>1, <2>2 DEF ChatInv, RestOK, FileStep
<1>5. QED
  BY <1>2, <1>3, <1>4

\* Every step keeps the invariant, and makes of a session what a step may.
LEMMA StepInv ==
    ASSUME ChatInv, [Next]_vars
    PROVE  ChatInv' /\ FileStep
BY QuietSteps, InsertStep, BindStep, StartTurnStep, StartSourceStep, CancelSteps,
   FinishTurnStep, FinishSourceStep, TimeStep, OtherSteps
   DEF Next

\* The invariant holds at the start.
LEMMA InitInv == Init => ChatInv
<1>1. SessionOK(Unused) /\ Unused \in Session
  BY BlankSessions DEF SessionOK
<1>2. Unleased \in Run /\ Unleased.pc = "unused"
  BY DEF Unleased, Run
<1>3. QED
  BY <1>1, <1>2 DEF Init, ChatInv, FileOK, RunsOK, RunsOnce, LeaseOK, RestOK

-----------------------------------------------------------------------------
(* The theorems *)

\* The invariant holds in every reachable state of every instance.
THEOREM ChatInvariant == Spec => []ChatInv
<1>1. Init => ChatInv
  BY InitInv
<1>2. ChatInv /\ [Next]_vars => ChatInv'
  BY StepInv
<1>3. QED
  BY <1>1, <1>2, PTL DEF Spec

\* Every operation on the file, and the work outside its lock, keeps the types.
THEOREM ChatTypes == Spec => []TypeOK
<1>1. ChatInv => TypeOK
  BY DEF ChatInv, FileOK, RunsOK, RestOK, TypeOK
<1>2. QED
  BY <1>1, ChatInvariant, PTL

\* One question or investigation is run under one lease, for any number of replicas,
\* retries, crashes and failed writes: the admission is on file before the work starts.
THEOREM RunOnce == Spec => []RunsOnce
<1>1. ChatInv => RunsOnce
  BY DEF ChatInv, RunsOK
<1>2. QED
  BY <1>1, ChatInvariant, PTL

\* What says pending has a lease that can lapse, so it cannot be pending for ever.
THEOREM PendingHasLease == Spec => []PendingIsLeased
<1>1. ChatInv => PendingIsLeased
  BY DEF ChatInv, FileOK, SessionOK, PendingIsLeased
<1>2. QED
  BY <1>1, ChatInvariant, PTL

\* A mark that a turn is to be cancelled decides its outcome.
THEOREM CancellationHolds == Spec => CancelHolds
<1>1. ChatInv /\ [Next]_vars => [\A s \in Sessions :
        LET c == sessions[s]
        IN c.active # None /\ c.active.cancel =>
            \/ sessions'[s].requests[c.active.request] = "cancelled"
            \/ sessions'[s].active # None /\ sessions'[s].active.cancel
               /\ sessions'[s].active.request = c.active.request]_vars
  <2>1. SUFFICES ASSUME ChatInv, [Next]_vars, NEW s \in Sessions,
                        sessions[s].active # None, sessions[s].active.cancel
                 PROVE  \/ sessions'[s].requests[sessions[s].active.request] = "cancelled"
                        \/ sessions'[s].active # None /\ sessions'[s].active.cancel
                           /\ sessions'[s].active.request = sessions[s].active.request
    OBVIOUS
  <2>2. SessionStep(sessions[s], sessions'[s]) /\ SessionOK(sessions[s])
    BY <2>1, StepInv DEF FileStep, ChatInv, FileOK
  <2>3. QED
    BY <2>1, <2>2 DEF SessionStep, Moves, HoldsMark, SessionOK, Blank
<1>2. QED
  BY <1>1, ChatInvariant, PTL DEF Spec, CancelHolds

\* A pending question or investigation that is settled leaves its session open and
\* with a new time to live.
THEOREM OutcomesAreKept == Spec => OutcomeIsKept
<1>1. ChatInv /\ [Next]_vars => [\A s \in Sessions :
        LET c == sessions[s]
            d == sessions'[s]
        IN /\ \A q \in Requests : c.requests[q] = "pending" /\ d.requests[q] # "pending" =>
                d.requests[q] \in Settled /\ d.state = "open" /\ d.fresh
           /\ \A i \in Sources : c.sources[i].status = "pending" /\ d.sources[i].status # "pending" =>
                d.sources[i].status \in Settled /\ d.state = "open" /\ d.fresh]_vars
  <2>1. SUFFICES ASSUME ChatInv, [Next]_vars, NEW s \in Sessions
                 PROVE  LET c == sessions[s]
                            d == sessions'[s]
        IN /\ \A q \in Requests : c.requests[q] = "pending" /\ d.requests[q] # "pending" =>
                d.requests[q] \in Settled /\ d.state = "open" /\ d.fresh
           /\ \A i \in Sources : c.sources[i].status = "pending" /\ d.sources[i].status # "pending" =>
                d.sources[i].status \in Settled /\ d.state = "open" /\ d.fresh
    OBVIOUS
  <2>2. SessionStep(sessions[s], sessions'[s]) /\ SessionOK(sessions[s])
    BY <2>1, StepInv DEF FileStep, ChatInv, FileOK
  <2>3. QED
    BY <2>2 DEF SessionStep, Moves, QuestionMoves, SourceMoves, SessionOK, Blank
<1>2. QED
  BY <1>1, ChatInvariant, PTL DEF Spec, OutcomeIsKept

\* The revision a fix of a request starts from is bound once.
THEOREM BindingIsKept == Spec => BindingStays
<1>1. ChatInv /\ [Next]_vars => [\A s \in Sessions, q \in Requests :
        sessions[s].binding[q] # None /\ sessions'[s].state = "open" =>
            sessions'[s].binding[q] = sessions[s].binding[q]]_vars
  <2>1. SUFFICES ASSUME ChatInv, [Next]_vars, NEW s \in Sessions, NEW q \in Requests,
                        sessions[s].binding[q] # None, sessions'[s].state = "open"
                 PROVE  sessions'[s].binding[q] = sessions[s].binding[q]
    OBVIOUS
  <2>2. SessionStep(sessions[s], sessions'[s]) /\ SessionOK(sessions[s])
    BY <2>1, StepInv DEF FileStep, ChatInv, FileOK
  <2>3. QED
    BY <2>1, <2>2 DEF SessionStep, Moves, KeepsBinding, SessionOK, Blank
<1>2. QED
  BY <1>1, ChatInvariant, PTL DEF Spec, BindingStays

-----------------------------------------------------------------------------
(* The conversation as ChatPromise states it *)

outcomeOf(c, q) == IF c.state = "gone" THEN "gone" ELSE c.requests[q]

\* A step of a session is a step of the promise.
LEMMA Conversing ==
    ASSUME NEW c, NEW d, SessionOK(c), SessionOK(d), SessionStep(c, d)
    PROVE  \/ /\ \A q \in Requests :
                    \/ outcomeOf(d, q) = outcomeOf(c, q) /\ d.answers[q] = c.answers[q]
                    \/ /\ <<outcomeOf(c, q), outcomeOf(d, q)>> \in Promise!Moves
                       /\ d.answers[q] = IF outcomeOf(d, q) = "succeeded" THEN 1 ELSE 0
              /\ \A p, q \in Requests :
                    outcomeOf(d, p) = "pending" /\ outcomeOf(d, q) = "pending" => p = q
           \/ \A q \in Requests :
                outcomeOf(c, q) # "pending" /\ outcomeOf(d, q) = "gone" /\ d.answers[q] = 0
<1>1. \A p, q \in Requests :
        outcomeOf(d, p) = "pending" /\ outcomeOf(d, q) = "pending" => p = q
  BY DEF outcomeOf, SessionOK
<1>2. CASE d = c
  BY <1>1, <1>2
<1>3. CASE c.state = "open" /\ d.state = "open" /\ Moves(c, d)
  <2>1. ASSUME NEW q \in Requests
        PROVE  \/ outcomeOf(d, q) = outcomeOf(c, q) /\ d.answers[q] = c.answers[q]
               \/ /\ <<outcomeOf(c, q), outcomeOf(d, q)>> \in Promise!Moves
                  /\ d.answers[q] = IF outcomeOf(d, q) = "succeeded" THEN 1 ELSE 0
    <3>1. outcomeOf(c, q) = c.requests[q] /\ outcomeOf(d, q) = d.requests[q]
      BY <1>3 DEF outcomeOf
    <3>2. CASE d.requests[q] = c.requests[q]
      BY <3>1, <3>2 DEF SessionOK
    <3>3. CASE c.requests[q] = "none" /\ d.requests[q] = "pending"
      BY <3>1, <3>3 DEF SessionOK, Promise!Moves
    <3>4. CASE c.requests[q] = "pending" /\ d.requests[q] \in Settled
      BY <3>1, <3>4 DEF SessionOK, Promise!Moves, Promise!Settled, Settled
    <3>5. QED
      BY <1>3, <3>2, <3>3, <3>4 DEF Moves, QuestionMoves
  <2>2. QED
    BY <1>1, <2>1
<1>4. CASE c.state = "open" /\ d.state = "gone" /\ c.active = None
  BY <1>4 DEF outcomeOf, SessionOK, Blank
<1>5. CASE c.state = "unused" /\ d.state = "open" /\ \A q \in Requests : d.requests[q] = "none"
  <2>1. \A q \in Requests : c.requests[q] = "none" /\ c.answers[q] = 0
    BY <1>5 DEF SessionOK, Blank
  <2>2. QED
    BY <1>1, <1>5, <2>1 DEF outcomeOf, SessionOK
<1>6. QED
  BY <1>2, <1>3, <1>4, <1>5 DEF SessionStep

\* The file implements the promise: whatever the replicas, the clients, the leases
\* and the faults do, each step of it is a step of the conversation promised.
THEOREM PromiseKept == Spec => KeepsPromise
<1> DEFINE outcomes == [s \in Sessions |-> [q \in Requests |->
                IF sessions[s].state = "gone" THEN "gone" ELSE sessions[s].requests[q]]]
           answered == [s \in Sessions |-> sessions[s].answers]
<1>1. Init => Promise!Init
  BY DEF Init, Promise!Init, Unused
<1>2. ChatInv /\ [Next]_vars => [Promise!Next]_<<outcomes, answered>>
  <2>1. SUFFICES ASSUME ChatInv, [Next]_vars PROVE Promise!Next
    OBVIOUS
  <2>2. FileOK /\ FileOK' /\ \A s \in Sessions : SessionStep(sessions[s], sessions'[s])
    BY <2>1, StepInv DEF FileStep, ChatInv
  <2>3. /\ DOMAIN outcomes' = Sessions /\ DOMAIN answered' = Sessions
        /\ \A s \in Sessions :
            /\ answered[s] = sessions[s].answers /\ answered'[s] = sessions'[s].answers
            /\ \A q \in Requests : /\ outcomes[s][q] = outcomeOf(sessions[s], q)
                                   /\ outcomes'[s][q] = outcomeOf(sessions'[s], q)
    BY DEF outcomeOf
  <2>4. ASSUME NEW s \in Sessions PROVE Promise!Converse(s) \/ Promise!Forget(s)
    <3>1. SessionOK(sessions[s]) /\ SessionOK(sessions'[s]) /\ SessionStep(sessions[s], sessions'[s])
      BY <2>2 DEF FileOK
    <3> DEFINE c == sessions[s]
               d == sessions'[s]
    <3>2. CASE /\ \A q \in Requests :
                    \/ outcomeOf(d, q) = outcomeOf(c, q) /\ d.answers[q] = c.answers[q]
                    \/ /\ <<outcomeOf(c, q), outcomeOf(d, q)>> \in Promise!Moves
                       /\ d.answers[q] = IF outcomeOf(d, q) = "succeeded" THEN 1 ELSE 0
               /\ \A p, q \in Requests :
                    outcomeOf(d, p) = "pending" /\ outcomeOf(d, q) = "pending" => p = q
      <4> HIDE DEF outcomes, answered
      <4>1. QED
        BY <2>3, <3>2 DEF Promise!Converse, outcomes, answered
    <3>3. CASE \A q \in Requests :
                outcomeOf(c, q) # "pending" /\ outcomeOf(d, q) = "gone" /\ d.answers[q] = 0
      BY <2>3, <3>3 DEF Promise!Forget
    <3>4. QED
      BY <3>1, <3>2, <3>3, Conversing
  <2>5. QED
    BY <2>3, <2>4 DEF Promise!Next
<1>3. QED
  BY <1>1, <1>2, ChatInvariant, PTL DEF Spec, KeepsPromise, Promise!Spec

-----------------------------------------------------------------------------
(* The limits, and one session per key.                                    *)

\* At most n, of which there are finitely many.
AtMost(S, n) == IsFiniteSet(S) /\ Cardinality(S) <= n

\* A part of what is within a limit is within it.
LEMMA Part ==
    ASSUME NEW S, NEW n \in Nat, AtMost(S, n), NEW T, T \subseteq S
    PROVE  AtMost(T, n)
<1>1. IsFiniteSet(T) /\ Cardinality(T) <= Cardinality(S)
  BY FS_Subset DEF AtMost
<1>2. Cardinality(T) \in Nat /\ Cardinality(S) \in Nat
  BY <1>1, FS_CardinalityType DEF AtMost
<1>3. QED
  BY <1>1, <1>2 DEF AtMost

\* One more is within it, if there was room.
LEMMA OneMore ==
    ASSUME NEW S, NEW n \in Nat, AtMost(S, n), Cardinality(S) < n, NEW x, NEW T,
           T \subseteq S \cup {x}
    PROVE  AtMost(T, n)
<1>1. IsFiniteSet(S \cup {x}) /\ Cardinality(S) \in Nat
  BY FS_AddElement, FS_CardinalityType DEF AtMost
<1>2. Cardinality(S \cup {x}) <= n
  BY <1>1, FS_AddElement DEF AtMost
<1>3. QED
  BY <1>1, <1>2, Part DEF AtMost

AdmittedIn(c) == {q \in Requests : Admitted(c, q)}

\* What a session may hold: each admitted question cost it one of its turns.
SessionFits(c) ==
    /\ AtMost(AdmittedIn(c), MaxTurns) /\ c.turns = Cardinality(AdmittedIn(c))
    /\ AtMost(Bound(c), MaxTurns)
    /\ AtMost(Investigated(c), MaxSources)

\* Session d holds what session c does, and is no busier.
Keeps(c, d) ==
    /\ d.state = c.state /\ d.key = c.key /\ d.turns = c.turns
    /\ AdmittedIn(d) = AdmittedIn(c) /\ Bound(d) = Bound(c)
    /\ Investigated(d) = Investigated(c)
    /\ d.active # None => c.active # None
    /\ \A i \in Sources : SourceActive(d, i) => SourceActive(c, i)

\* A session that nobody has used holds nothing.
Empty(c) ==
    /\ c.turns = 0 /\ AdmittedIn(c) = {} /\ Bound(c) = {} /\ Investigated(c) = {}
    /\ c.active = None /\ \A i \in Sources : ~SourceActive(c, i)

\* It does not matter how the session came to be blank.
LEMMA BlankIsEmpty ==
    /\ Empty(Unused) /\ \A k : Empty(Created(k)) /\ Created(k).state = "open" /\ Created(k).key = k
    /\ \A c : Empty(Gone(c)) /\ Gone(c).state = "gone"
<1>1. Empty(Unused)
  BY DEF Empty, Unused, AdmittedIn, Admitted, Bound, Investigated, SourceActive, NoInvestigation
<1>2. ASSUME NEW k PROVE Empty(Created(k)) /\ Created(k).state = "open" /\ Created(k).key = k
  BY DEF Empty, Unused, Created, AdmittedIn, Admitted, Bound, Investigated, SourceActive,
         NoInvestigation
<1>3. ASSUME NEW c PROVE Empty(Gone(c)) /\ Gone(c).state = "gone"
  BY DEF Empty, Unused, Gone, AdmittedIn, Admitted, Bound, Investigated, SourceActive,
         NoInvestigation
<1>4. QED
  BY <1>1, <1>2, <1>3

\* What is empty, or no fuller than what fits, fits.
LEMMA StillFits ==
    ASSUME NEW c, NEW d, SessionFits(c), Keeps(c, d) \/ Empty(d)
    PROVE  SessionFits(d)
<1>1. CASE Keeps(c, d)
  BY <1>1 DEF Keeps, SessionFits
<1>2. CASE Empty(d)
  <2>1. IsFiniteSet({}) /\ Cardinality({}) = 0
    BY FS_EmptySet
  <2>2. QED
    BY <1>2, <2>1, ChatConstants DEF Empty, SessionFits, AtMost
<1>3. QED
  BY <1>1, <1>2

\* Settling the turn.
LEMMA TurnKeeps ==
    ASSUME NEW c, SessionOK(c), c.active # None, NEW status \in Settled
    PROVE  Keeps(c, TurnSettled(c, status))
<1> DEFINE d == TurnSettled(c, status)
<1>1. c \in Session /\ c.active \in Active /\ c.active.request \in Requests
  BY DEF SessionOK, Session, Active
<1>2. /\ d.active = None /\ d.state = c.state /\ d.key = c.key /\ d.turns = c.turns
      /\ d.sources = c.sources /\ d.binding = c.binding
      /\ d.requests = [c.requests EXCEPT ![c.active.request] = status]
  BY <1>1 DEF TurnSettled, Session
<1>3. c.requests[c.active.request] = "pending" /\ status # "none"
  BY <1>1 DEF SessionOK, Settled
<1>4. \A q \in Requests : d.requests[q] = "none" <=> c.requests[q] = "none"
  BY <1>1, <1>2, <1>3 DEF Session
<1> HIDE DEF d
<1>5. AdmittedIn(d) = AdmittedIn(c) /\ Bound(d) = Bound(c) /\ Investigated(d) = Investigated(c)
  BY <1>2, <1>4 DEF AdmittedIn, Admitted, Bound, Investigated
<1>6. Keeps(c, d)
  BY <1>2, <1>5 DEF Keeps, SourceActive
<1>7. QED
  BY <1>6 DEF d

\* Its answer joins the transcript, which no limit is about.
LEMMA AnswerKeeps ==
    ASSUME NEW c, NEW d, Keeps(c, d), d \in Session, NEW q \in Requests, NEW n
    PROVE  Keeps(c, [d EXCEPT !.answers[q] = n])
<1> DEFINE e == [d EXCEPT !.answers[q] = n]
<1>1. /\ e.active = d.active /\ e.state = d.state /\ e.key = d.key /\ e.turns = d.turns
      /\ e.sources = d.sources /\ e.binding = d.binding /\ e.requests = d.requests
  BY DEF Session
<1> HIDE DEF e
<1>2. Keeps(c, e)
  BY <1>1 DEF Keeps, AdmittedIn, Admitted, Bound, Investigated, SourceActive
<1>3. QED
  BY <1>2 DEF e

\* Changing one investigation, or all of them: no other is pending afterwards, and
\* none is forgotten.
LEMMA SourcesKeep ==
    ASSUME NEW c, c \in Session, NEW t, NEW f \in BOOLEAN,
           \A i \in Sources :
               /\ t[i].status = "none" <=> c.sources[i].status = "none"
               /\ t[i].status = "pending" /\ t[i].lease # None => SourceActive(c, i)
    PROVE  Keeps(c, [c EXCEPT !.sources = t, !.fresh = f])
<1> DEFINE d == [c EXCEPT !.sources = t, !.fresh = f]
<1>1. /\ d.active = c.active /\ d.state = c.state /\ d.key = c.key /\ d.turns = c.turns
      /\ d.sources = t /\ d.binding = c.binding /\ d.requests = c.requests
  BY DEF Session
<1> HIDE DEF d
<1>2. AdmittedIn(d) = AdmittedIn(c) /\ Bound(d) = Bound(c) /\ Investigated(d) = Investigated(c)
  BY <1>1 DEF AdmittedIn, Admitted, Bound, Investigated
<1>3. Keeps(c, d)
  BY <1>1, <1>2 DEF Keeps, SourceActive
<1>4. QED
  BY <1>3 DEF d

\* Settling one investigation.
LEMMA SourceKeeps ==
    ASSUME NEW c, SessionOK(c), NEW i \in Sources, c.sources[i].status = "pending",
           NEW status \in Settled
    PROVE  /\ Keeps(c, SourceSettled(c, i, status))
           /\ SourceSettled(c, i, status).sources[i].status = status
<1> DEFINE y == [c.sources[i] EXCEPT !.status = status, !.lease = None, !.live = FALSE,
                                     !.cancel = FALSE]
           t == [c.sources EXCEPT ![i] = y]
<1>1. c \in Session /\ c.sources[i] \in Investigation
  BY DEF SessionOK, Session
<1>2. y.status = status /\ y.lease = None
  BY <1>1 DEF Investigation
<1>3. SourceSettled(c, i, status) = [c EXCEPT !.sources = t, !.fresh = TRUE]
  BY <1>1 DEF SourceSettled, Session
<1> HIDE DEF y
<1>4. \A j \in Sources : t[j] = IF j = i THEN y ELSE c.sources[j]
  BY <1>1 DEF Session
<1>5. status # "none" /\ status # "pending"
  BY DEF Settled
<1> HIDE DEF t
<1>6. Keeps(c, [c EXCEPT !.sources = t, !.fresh = TRUE])
  BY <1>1, <1>2, <1>4, <1>5, SourcesKeep DEF SourceActive
<1>7. [c EXCEPT !.sources = t, !.fresh = TRUE].sources = t
  BY <1>1 DEF Session
<1>8. QED
  BY <1>2, <1>3, <1>4, <1>6, <1>7

\* Cleaning up a session keeps what it holds, or ends it.
LEMMA CleanedKeeps ==
    ASSUME NEW c, SessionOK(c)
    PROVE  Keeps(c, Cleaned(c)) \/ (Empty(Cleaned(c)) /\ Cleaned(c).state = "gone")
<1> DEFINE t == TurnCleaned(c)
<1>1. CASE c.state = "open" /\ ~c.fresh /\ ~Busy(c)
  BY <1>1, BlankIsEmpty DEF Cleaned
<1>2. CASE ~(c.state = "open" /\ ~c.fresh /\ ~Busy(c))
  <2>1. Cleaned(c) = SourcesCleaned(t)
    BY <1>2 DEF Cleaned
  <2>2. Keeps(c, t) /\ SessionOK(t)
    <3>1. CASE TurnLapsed(c)
      <4>1. c.active # None /\ c.state = "open"
        BY <3>1 DEF TurnLapsed, SessionOK, Blank
      <4>2. PICK status \in {"cancelled", "unknown"} :
              t = TurnSettled(c, status) /\ (c.active.cancel => status = "cancelled")
        BY <3>1 DEF TurnCleaned
      <4>3. status \in Settled
        BY DEF Settled
      <4>4. Keeps(c, t)
        BY <4>1, <4>2, <4>3, TurnKeeps
      <4>5. SessionOK(t)
        BY <4>1, <4>2, TurnSettles
      <4>6. QED
        BY <4>4, <4>5
    <3>2. CASE ~TurnLapsed(c)
      BY <3>2 DEF TurnCleaned, Keeps
    <3>3. QED
      BY <3>1, <3>2
  <2> HIDE DEF t
  <2>3. Keeps(t, SourcesCleaned(t))
    <3> DEFINE all == [i \in Sources |-> IF SourceLapsed(t, i)
                          THEN SourceSettled(t, i, "unknown").sources[i] ELSE t.sources[i]]
               f == t.fresh \/ \E i \in Sources : SourceLapsed(t, i)
    <3>1. t \in Session
      BY <2>2 DEF SessionOK
    <3>2. SourcesCleaned(t) = [t EXCEPT !.sources = all, !.fresh = f]
      BY DEF SourcesCleaned
    <3>3. ASSUME NEW i \in Sources
          PROVE  /\ all[i].status = "none" <=> t.sources[i].status = "none"
                 /\ all[i].status = "pending" /\ all[i].lease # None => SourceActive(t, i)
      <4>1. CASE SourceLapsed(t, i)
        <5>1. t.sources[i].status = "pending" /\ SourceActive(t, i)
          BY <4>1 DEF SourceLapsed, SourceActive
        <5>2. SourceSettled(t, i, "unknown").sources[i].status = "unknown"
          BY <2>2, <5>1, SourceKeeps DEF Settled
        <5>3. all[i].status = "unknown"
          BY <4>1, <5>2
        <5>4. QED
          BY <5>1, <5>3
      <4>2. CASE ~SourceLapsed(t, i)
        <5>1. all[i] = t.sources[i]
          BY <4>2
        <5>2. QED
          BY <5>1 DEF SourceActive
      <4>3. QED
        BY <4>1, <4>2
    <3>4. f \in BOOLEAN
      BY <3>1 DEF Session
    <3> HIDE DEF all, f
    <3>5. \A i \in Sources :
              /\ all[i].status = "none" <=> t.sources[i].status = "none"
              /\ all[i].status = "pending" /\ all[i].lease # None => SourceActive(t, i)
      BY <3>3, Zenon
    <3>6. Keeps(t, [t EXCEPT !.sources = all, !.fresh = f])
      BY <3>1, <3>4, <3>5, SourcesKeep, Zenon
    <3>7. QED
      BY <3>2, <3>6, Zenon
  <2>4. Keeps(c, SourcesCleaned(t))
    BY <2>2, <2>3 DEF Keeps
  <2>5. QED
    BY <2>1, <2>4
<1>3. QED
  BY <1>1, <1>2

-----------------------------------------------------------------------------
(* The same of all sessions *)

OpenedIn(T) == {s \in Sessions : T[s].state = "open"}
OpenedFor(T, o) == {s \in Sessions : Owner[s] = o /\ T[s].state = "open"}
BusyFor(T, o) == {s \in Sessions : Owner[s] = o /\ T[s].active # None}
SearchingFor(T, o) ==
    {p \in Sessions \X Sources : Owner[p[1]] = o /\ SourceActive(T[p[1]], p[2])}

Fits(T) ==
    /\ \A s \in Sessions : SessionFits(T[s])
    /\ AtMost(OpenedIn(T), MaxSessions)
    /\ \A o \in Owners :
        /\ AtMost(OpenedFor(T, o), MaxPerOwner)
        /\ AtMost(BusyFor(T, o), MaxActive)
        /\ AtMost(SearchingFor(T, o), MaxActiveSources)
    /\ \A s, u \in Sessions :
        T[s].state = "open" /\ T[u].state = "open" /\ Owner[s] = Owner[u] /\ T[s].key = T[u].key
        => s = u

\* What one operation may do to session s: open it where there is room and its key
\* is free, and give it one more turn or investigation where there is room.
Opens(T, s, d) ==
    /\ Cardinality(OpenedIn(T)) < MaxSessions
    /\ Cardinality(OpenedFor(T, Owner[s])) < MaxPerOwner
    /\ \A u \in Sessions : T[u].state = "open" /\ Owner[u] = Owner[s] => T[u].key # d.key
Searches(T, s, d, i) ==
    \A j \in Sources : SourceActive(d, j) =>
        \/ SourceActive(T[s], j)
        \/ j = i /\ Cardinality(SearchingFor(T, Owner[s])) < MaxActiveSources
Grows(T, s, d) ==
    /\ SessionFits(d)
    /\ d.state = "open" => (T[s].state = "open" /\ d.key = T[s].key) \/ Opens(T, s, d)
    /\ d.active # None =>
        T[s].active # None \/ Cardinality(BusyFor(T, Owner[s])) < MaxActive
    /\ \E i : Searches(T, s, d, i)

\* Cleaning up all sessions keeps every limit.
LEMMA CleanedFits == ASSUME FileOK, Fits(sessions) PROVE Fits(Current)
<1> DEFINE T == sessions
           U == Current
<1>1. \A s \in Sessions : Keeps(T[s], U[s]) \/ (Empty(U[s]) /\ U[s].state = "gone")
  BY CleanedKeeps DEF FileOK, Current
<1> HIDE DEF U
<1>2. \A s \in Sessions : SessionFits(U[s])
  BY <1>1, StillFits DEF Fits
<1>3. \A s \in Sessions :
        /\ U[s].state = "open" => T[s].state = "open" /\ U[s].key = T[s].key
        /\ U[s].active # None => T[s].active # None
        /\ \A i \in Sources : SourceActive(U[s], i) => SourceActive(T[s], i)
  BY <1>1 DEF Keeps, Empty
<1>4. AtMost(OpenedIn(U), MaxSessions)
  <2>1. OpenedIn(U) \subseteq OpenedIn(T)
    BY <1>3 DEF OpenedIn
  <2>2. QED
    BY <2>1, Part, ChatConstants DEF Fits
<1>5. ASSUME NEW o \in Owners
      PROVE  /\ AtMost(OpenedFor(U, o), MaxPerOwner)
             /\ AtMost(BusyFor(U, o), MaxActive)
             /\ AtMost(SearchingFor(U, o), MaxActiveSources)
  <2>1. OpenedFor(U, o) \subseteq OpenedFor(T, o) /\ BusyFor(U, o) \subseteq BusyFor(T, o)
    BY <1>3 DEF OpenedFor, BusyFor
  <2>2. SearchingFor(U, o) \subseteq SearchingFor(T, o)
    BY <1>3 DEF SearchingFor
  <2>3. QED
    BY <2>1, <2>2, Part, ChatConstants DEF Fits
<1>6. \A s, u \in Sessions :
        U[s].state = "open" /\ U[u].state = "open" /\ Owner[s] = Owner[u] /\ U[s].key = U[u].key
        => s = u
  BY <1>3 DEF Fits
<1>7. Fits(U)
  BY <1>2, <1>4, <1>5, <1>6 DEF Fits
<1>8. QED
  BY <1>7 DEF U

\* So does an operation on one of them.
LEMMA GrownFits ==
    ASSUME NEW T, Fits(T), NEW s \in Sessions, NEW d, Grows(T, s, d), NEW U,
           \A u \in Sessions : U[u] = IF u = s THEN d ELSE T[u]
    PROVE  Fits(U)
<1>1. \A u \in Sessions : SessionFits(U[u])
  BY DEF Fits, Grows
<1>2. Owner[s] \in Owners
  BY DEF Owners
<1>3. AtMost(OpenedIn(U), MaxSessions)
  <2>1. CASE OpenedIn(U) \subseteq OpenedIn(T)
    BY <2>1, Part, ChatConstants DEF Fits
  <2>2. CASE Opens(T, s, d)
    <3>1. OpenedIn(U) \subseteq OpenedIn(T) \cup {s}
      BY DEF OpenedIn
    <3>2. QED
      BY <2>2, <3>1, OneMore, ChatConstants DEF Fits, Opens
  <2>3. QED
    BY <2>1, <2>2 DEF Grows, OpenedIn
<1>4. ASSUME NEW o \in Owners
      PROVE  AtMost(OpenedFor(U, o), MaxPerOwner)
  <2>1. CASE OpenedFor(U, o) \subseteq OpenedFor(T, o)
    BY <2>1, Part, ChatConstants DEF Fits
  <2>2. CASE Opens(T, s, d) /\ o = Owner[s]
    <3>1. OpenedFor(U, o) \subseteq OpenedFor(T, o) \cup {s}
      BY DEF OpenedFor
    <3>2. QED
      BY <2>2, <3>1, OneMore, ChatConstants DEF Fits, Opens
  <2>3. QED
    BY <2>1, <2>2 DEF Grows, OpenedFor
<1>5. ASSUME NEW o \in Owners
      PROVE  AtMost(BusyFor(U, o), MaxActive)
  <2>1. CASE BusyFor(U, o) \subseteq BusyFor(T, o)
    BY <2>1, Part, ChatConstants DEF Fits
  <2>2. CASE o = Owner[s] /\ Cardinality(BusyFor(T, o)) < MaxActive
    <3>1. BusyFor(U, o) \subseteq BusyFor(T, o) \cup {s}
      BY DEF BusyFor
    <3>2. QED
      BY <2>2, <3>1, OneMore, ChatConstants DEF Fits
  <2>3. QED
    BY <2>1, <2>2 DEF Grows, BusyFor
<1>6. ASSUME NEW o \in Owners
      PROVE  AtMost(SearchingFor(U, o), MaxActiveSources)
  <2>1. PICK i : Searches(T, s, d, i)
    BY DEF Grows
  <2>2. CASE SearchingFor(U, o) \subseteq SearchingFor(T, o)
    BY <2>2, Part, ChatConstants DEF Fits
  <2>3. CASE o = Owner[s] /\ Cardinality(SearchingFor(T, o)) < MaxActiveSources
    <3>1. SearchingFor(U, o) \subseteq SearchingFor(T, o) \cup {<<s, i>>}
      <4> SUFFICES ASSUME NEW u \in Sessions, NEW j \in Sources, <<u, j>> \in SearchingFor(U, o),
                          <<u, j>> # <<s, i>>
                   PROVE  <<u, j>> \in SearchingFor(T, o)
        BY DEF SearchingFor
      <4>1. Owner[u] = o /\ SourceActive(U[u], j)
        BY DEF SearchingFor
      <4>2. SourceActive(T[u], j)
        BY <2>1, <4>1 DEF Searches
      <4>3. QED
        BY <4>1, <4>2 DEF SearchingFor
    <3>2. QED
      BY <2>3, <3>1, OneMore, ChatConstants DEF Fits
  <2>4. QED
    BY <2>1, <2>2, <2>3 DEF Searches, SearchingFor
<1>7. ASSUME NEW u \in Sessions, NEW v \in Sessions,
             U[u].state = "open", U[v].state = "open", Owner[u] = Owner[v], U[u].key = U[v].key
      PROVE  u = v
  <2>1. CASE u # s /\ v # s
    BY <1>7, <2>1 DEF Fits
  <2>2. CASE T[s].state = "open" /\ d.key = T[s].key
    BY <1>7, <2>2 DEF Fits
  <2>3. CASE Opens(T, s, d)
    BY <1>7, <2>1, <2>3 DEF Opens
  <2>4. CASE u = s /\ v = s
    BY <2>4
  <2>5. d.state = "open" \/ (u # s /\ v # s)
    BY <1>7
  <2>6. QED
    BY <2>1, <2>2, <2>3, <2>5 DEF Grows
<1>8. QED
  BY <1>1, <1>3, <1>4, <1>5, <1>6, <1>7 DEF Fits

\* A session that is no fuller needs no room.
LEMMA KeepsGrows ==
    ASSUME NEW T, Fits(T), NEW s \in Sessions, NEW d, Keeps(T[s], d)
    PROVE  Grows(T, s, d)
<1>1. SessionFits(d)
  BY StillFits DEF Fits
<1>2. \A i : Searches(T, s, d, i)
  BY DEF Searches, Keeps
<1>3. QED
  BY <1>1, <1>2 DEF Grows, Keeps

-----------------------------------------------------------------------------
(* The operations on one session, against the limits *)

\* A turn is marked as cancelled, or its lease lapses; an investigation likewise; or
\* the session's time to live ends.
LEMMA FlagsKeep ==
    ASSUME NEW c, SessionOK(c)
    PROVE  /\ c.active # None => /\ Keeps(c, [c EXCEPT !.active.cancel = TRUE])
                                 /\ Keeps(c, [c EXCEPT !.active.live = FALSE])
           /\ \A i \in Sources : /\ Keeps(c, [c EXCEPT !.sources[i].cancel = TRUE])
                                 /\ Keeps(c, [c EXCEPT !.sources[i].live = FALSE])
           /\ Keeps(c, [c EXCEPT !.fresh = FALSE])
<1>1. c \in Session
  BY DEF SessionOK
<1>2. ASSUME NEW a, c.active # None PROVE Keeps(c, [c EXCEPT !.active = a])
  <2> DEFINE d == [c EXCEPT !.active = a]
  <2>1. /\ d.state = c.state /\ d.key = c.key /\ d.turns = c.turns
        /\ d.sources = c.sources /\ d.binding = c.binding /\ d.requests = c.requests
    BY <1>1 DEF Session
  <2> HIDE DEF d
  <2>2. Keeps(c, d)
    BY <1>2, <2>1 DEF Keeps, AdmittedIn, Admitted, Bound, Investigated, SourceActive
  <2>3. QED
    BY <2>2 DEF d
<1>3. c.active # None => /\ Keeps(c, [c EXCEPT !.active.cancel = TRUE])
                         /\ Keeps(c, [c EXCEPT !.active.live = FALSE])
  <2>1. /\ [c EXCEPT !.active.cancel = TRUE]
              = [c EXCEPT !.active = [c.active EXCEPT !.cancel = TRUE]]
        /\ [c EXCEPT !.active.live = FALSE]
              = [c EXCEPT !.active = [c.active EXCEPT !.live = FALSE]]
    BY <1>1 DEF Session
  <2>2. QED
    BY <1>2, <2>1
<1>4. ASSUME NEW i \in Sources, NEW y, y.status = c.sources[i].status,
             y.lease = c.sources[i].lease
      PROVE  Keeps(c, [c EXCEPT !.sources[i] = y])
  <2> DEFINE t == [c.sources EXCEPT ![i] = y]
  <2>1. [c EXCEPT !.sources[i] = y] = [c EXCEPT !.sources = t, !.fresh = c.fresh]
    BY <1>1 DEF Session
  <2>2. \A j \in Sources : t[j] = IF j = i THEN y ELSE c.sources[j]
    BY <1>1 DEF Session
  <2> HIDE DEF t
  <2>3. c.fresh \in BOOLEAN
    BY <1>1 DEF Session
  <2>4. Keeps(c, [c EXCEPT !.sources = t, !.fresh = c.fresh])
    BY <1>1, <1>4, <2>2, <2>3, SourcesKeep DEF SourceActive
  <2>5. QED
    BY <2>1, <2>4
<1>5. ASSUME NEW i \in Sources
      PROVE  /\ Keeps(c, [c EXCEPT !.sources[i].cancel = TRUE])
             /\ Keeps(c, [c EXCEPT !.sources[i].live = FALSE])
  <2> DEFINE o == c.sources[i]
             p == [o EXCEPT !.cancel = TRUE]
             l == [o EXCEPT !.live = FALSE]
  <2>1. o \in Investigation
    BY <1>1 DEF Session
  <2>2. p.status = o.status /\ p.lease = o.lease /\ l.status = o.status /\ l.lease = o.lease
    BY <2>1 DEF Investigation
  <2>3. /\ [c EXCEPT !.sources[i].cancel = TRUE] = [c EXCEPT !.sources[i] = p]
        /\ [c EXCEPT !.sources[i].live = FALSE] = [c EXCEPT !.sources[i] = l]
    BY <1>1 DEF Session
  <2> HIDE DEF p, l
  <2>4. QED
    BY <1>4, <2>2, <2>3
<1>6. Keeps(c, [c EXCEPT !.fresh = FALSE])
  <2>1. [c EXCEPT !.fresh = FALSE] = [c EXCEPT !.sources = c.sources, !.fresh = FALSE]
    BY <1>1 DEF Session
  <2>2. Keeps(c, [c EXCEPT !.sources = c.sources, !.fresh = FALSE])
    BY <1>1, SourcesKeep DEF SourceActive
  <2>3. QED
    BY <2>1, <2>2
<1>7. QED
  BY <1>3, <1>5, <1>6

\* An admitted question costs a turn.
LEMMA AskingFits ==
    ASSUME NEW x, SessionOK(x), SessionFits(x), NEW q \in Requests, x.requests[q] = "none",
           x.turns < MaxTurns, NEW a
    PROVE  LET d == [x EXCEPT !.turns = @ + 1, !.requests[q] = "pending", !.active = a]
           IN SessionFits(d) /\ d.state = x.state /\ d.key = x.key /\ d.sources = x.sources
<1> DEFINE t == [x EXCEPT !.turns = @ + 1]
           p == [t EXCEPT !.requests[q] = "pending"]
           d == [p EXCEPT !.active = a]
<1>1. x \in Session
  BY DEF SessionOK
<1>2. /\ DOMAIN t = DOMAIN x /\ t.turns = x.turns + 1 /\ t.state = x.state /\ t.key = x.key
      /\ t.sources = x.sources /\ t.binding = x.binding /\ t.requests = x.requests
  BY <1>1 DEF Session
<1> HIDE DEF t
<1>3. /\ DOMAIN p = DOMAIN x /\ p.turns = x.turns + 1 /\ p.state = x.state /\ p.key = x.key
      /\ p.sources = x.sources /\ p.binding = x.binding
      /\ \A r \in Requests : p.requests[r] = IF r = q THEN "pending" ELSE x.requests[r]
  BY <1>1, <1>2 DEF Session
<1> HIDE DEF p
<1>4. /\ d.turns = x.turns + 1 /\ d.state = x.state /\ d.key = x.key
      /\ d.sources = x.sources /\ d.binding = x.binding
      /\ \A r \in Requests : d.requests[r] = IF r = q THEN "pending" ELSE x.requests[r]
  BY <1>1, <1>3 DEF Session
<1> HIDE DEF d
<1>5. Bound(d) = Bound(x) /\ Investigated(d) = Investigated(x)
  BY <1>4 DEF Bound, Investigated
<1>6. AdmittedIn(d) = AdmittedIn(x) \cup {q} /\ q \notin AdmittedIn(x)
  BY <1>4 DEF AdmittedIn, Admitted
<1>7. Cardinality(AdmittedIn(d)) = Cardinality(AdmittedIn(x)) + 1 /\ IsFiniteSet(AdmittedIn(d))
  BY <1>6, FS_AddElement DEF SessionFits, AtMost
<1>8. x.turns \in Nat /\ MaxTurns \in Nat
  BY <1>1, ChatConstants DEF Session
<1>9. SessionFits(d)
  BY <1>4, <1>5, <1>7, <1>8 DEF SessionFits, AtMost
<1>10. QED
  BY <1>4, <1>9 DEF d, p, t

\* So does an investigation, of its own.
LEMMA InvestigatingFits ==
    ASSUME NEW x, SessionOK(x), SessionFits(x), NEW i \in Sources, NEW a, a.status # "none",
           Cardinality(Investigated(x)) < MaxSources
    PROVE  LET d == [x EXCEPT !.sources[i] = a]
           IN /\ SessionFits(d) /\ d.state = x.state /\ d.key = x.key /\ d.active = x.active
              /\ \A j \in Sources \ {i} : d.sources[j] = x.sources[j]
<1> DEFINE d == [x EXCEPT !.sources[i] = a]
<1>1. x \in Session
  BY DEF SessionOK
<1>2. /\ d.turns = x.turns /\ d.state = x.state /\ d.key = x.key /\ d.active = x.active
      /\ d.requests = x.requests /\ d.binding = x.binding
      /\ \A j \in Sources : d.sources[j] = IF j = i THEN a ELSE x.sources[j]
  BY <1>1 DEF Session
<1> HIDE DEF d
<1>3. AdmittedIn(d) = AdmittedIn(x) /\ Bound(d) = Bound(x)
  BY <1>2 DEF AdmittedIn, Admitted, Bound
<1>4. Investigated(d) \subseteq Investigated(x) \cup {i}
  BY <1>2 DEF Investigated
<1>5. AtMost(Investigated(d), MaxSources)
  BY <1>4, OneMore, ChatConstants DEF SessionFits
<1>6. SessionFits(d)
  BY <1>2, <1>3, <1>5 DEF SessionFits
<1>7. QED
  BY <1>2, <1>6 DEF d

\* And a binding.
LEMMA BindingFits ==
    ASSUME NEW x, SessionOK(x), SessionFits(x), NEW q \in Requests, Bindable(x, q), NEW b
    PROVE  LET d == [x EXCEPT !.binding[q] = b]
           IN /\ SessionFits(d) /\ d.state = x.state /\ d.key = x.key /\ d.active = x.active
              /\ d.sources = x.sources
<1> DEFINE d == [x EXCEPT !.binding[q] = b]
<1>1. x \in Session
  BY DEF SessionOK
<1>2. /\ d.turns = x.turns /\ d.state = x.state /\ d.key = x.key /\ d.active = x.active
      /\ d.requests = x.requests /\ d.sources = x.sources
      /\ \A r \in Requests : d.binding[r] = IF r = q THEN b ELSE x.binding[r]
  BY <1>1 DEF Session
<1> HIDE DEF d
<1>3. AdmittedIn(d) = AdmittedIn(x) /\ Investigated(d) = Investigated(x)
  BY <1>2 DEF AdmittedIn, Admitted, Investigated
<1>4. Bound(d) \subseteq Bound(x) \cup {q}
  BY <1>2 DEF Bound
<1>5. AtMost(Bound(d), MaxTurns)
  BY <1>4, OneMore, ChatConstants DEF SessionFits, Bindable
<1>6. SessionFits(d)
  BY <1>2, <1>3, <1>5 DEF SessionFits
<1>7. QED
  BY <1>2, <1>6 DEF d

-----------------------------------------------------------------------------
(* The limits, action by action *)

\* The sessions as they were, cleaned up, or with one of them changed.
LimitStep ==
    \/ sessions' \in {sessions, Current}
    \/ \E s \in Sessions : \E d : Grows(Current, s, d) /\ sessions' = With(s, d)

\* What a save writes, if it writes.
LEMMA SavedSessions ==
    ASSUME NEW next, NEW admitted, Save(next, admitted) \/ SaveFails(next, admitted)
    PROVE  sessions' \in {sessions, next}
BY DEF Save, SaveFails, file

\* A key is still free, and there is still room, when the session is inserted.
LEMMA InsertFits ==
    ASSUME ChatInv, Fits(Current), NEW h \in Handlers, Insert(h)
    PROVE  LimitStep
<1> DEFINE o == calls[h].owner
           k == calls[h].key
<1>1. CASE SaveOrNot(Current)
  BY <1>1, SavedSessions DEF SaveOrNot, LimitStep
<1>2. ASSUME Insertable(o, k), NEW s \in Sessions, Owner[s] = o,
             SaveOrNot(With(s, Created(k)))
      PROVE  LimitStep
  <2>1. Empty(Created(k)) /\ Created(k).key = k
    BY BlankIsEmpty
  <2>2. SessionFits(Created(k))
    BY <2>1, StillFits DEF Fits
  <2>3. Opens(Current, s, Created(k))
    <3>1. OpenedIn(Current) = OpenSessions /\ OpenedFor(Current, o) = OpenOf(o)
      BY DEF OpenedIn, OpenedFor, OpenSessions, OpenOf, Open
    <3>2. \A u \in Sessions : Current[u].state = "open" /\ Owner[u] = o => Current[u].key # k
      BY <1>2 DEF Insertable, KeyIsFree, OpenOf, OpenSessions, Open
    <3>3. QED
      BY <1>2, <2>1, <3>1, <3>2 DEF Insertable, RoomFor, Opens
  <2>4. Grows(Current, s, Created(k))
    BY <2>1, <2>2, <2>3 DEF Grows, Empty, Searches
  <2>5. QED
    BY <1>2, <2>4, SavedSessions DEF SaveOrNot, LimitStep
<1>3. QED
  BY <1>1, <1>2 DEF Insert

\* A question is admitted where a turn is left and the owner is not too busy.
LEMMA StartTurnFits ==
    ASSUME ChatInv, Fits(Current), NEW s \in Sessions, NEW q \in Requests, StartTurn(s, q)
    PROVE  LimitStep
<1>1. PICK l \in Leases :
        AdmitOrNot(l, s, q, With(s, [Current[s] EXCEPT
                !.turns = @ + 1, !.requests[q] = "pending",
                !.active = [request |-> q, lease |-> l, live |-> TRUE, cancel |-> FALSE]]))
  BY DEF StartTurn
<1> DEFINE x == Current[s]
           a == [request |-> q, lease |-> l, live |-> TRUE, cancel |-> FALSE]
           d == [x EXCEPT !.turns = @ + 1, !.requests[q] = "pending", !.active = a]
<1>2. /\ SessionOK(x) /\ SessionFits(x) /\ x.state = "open" /\ x.requests[q] = "none"
      /\ x.turns < MaxTurns
  BY Found DEF StartTurn, Admissible, Open, NewQuestion, ChatInv, Fits
<1>3. SessionFits(d) /\ d.state = x.state /\ d.key = x.key /\ d.sources = x.sources
  BY <1>2, AskingFits
<1>4. Cardinality(BusyFor(Current, Owner[s])) < MaxActive
  <2>1. \A u \in Sessions : Current[u].active # None => Current[u].state = "open"
    BY Found DEF ChatInv, SessionOK, Blank
  <2>2. BusyFor(Current, Owner[s]) = ActiveTurns(Owner[s])
    BY <2>1 DEF BusyFor, ActiveTurns, OpenSessions, Open
  <2>3. QED
    BY <2>2 DEF StartTurn, Admissible
<1>5. sessions' \in {sessions, With(s, d)}
  BY <1>1, SavedSessions DEF AdmitOrNot
<1> HIDE DEF d
<1>6. \A i : Searches(Current, s, d, i)
  BY <1>3 DEF Searches, SourceActive
<1>7. Grows(Current, s, d)
  BY <1>2, <1>3, <1>4, <1>6 DEF Grows
<1>8. QED
  BY <1>5, <1>7 DEF LimitStep

\* An investigation is admitted where the session and the owner may have another.
LEMMA StartSourceFits ==
    ASSUME ChatInv, Fits(Current), NEW s \in Sessions, NEW i \in Sources, NEW q \in Requests,
           StartSource(s, i, q)
    PROVE  LimitStep
<1>1. PICK l \in Leases :
        AdmitOrNot(l, s, i, With(s, [Current[s] EXCEPT !.sources[i] =
                [status |-> "pending", about |-> q, lease |-> l,
                 live |-> TRUE, cancel |-> FALSE]]))
  BY DEF StartSource
<1> DEFINE x == Current[s]
           a == [status |-> "pending", about |-> q, lease |-> l, live |-> TRUE, cancel |-> FALSE]
           d == [x EXCEPT !.sources[i] = a]
<1>2. /\ SessionOK(x) /\ SessionFits(x) /\ x.state = "open"
      /\ Cardinality(Investigated(x)) < MaxSources
      /\ a.status # "none"
  BY Found DEF StartSource, Open, ChatInv, Fits
<1>3. /\ SessionFits(d) /\ d.state = x.state /\ d.key = x.key /\ d.active = x.active
      /\ \A j \in Sources \ {i} : d.sources[j] = x.sources[j]
  <2> HIDE DEF a, x
  <2> QED
    BY <1>2, InvestigatingFits
<1>4. Cardinality(SearchingFor(Current, Owner[s])) < MaxActiveSources
  <2>1. \A u \in Sessions, j \in Sources :
          SourceActive(Current[u], j) => Current[u].state = "open"
    BY Found DEF ChatInv, SessionOK, Blank, SourceActive
  <2>2. SearchingFor(Current, Owner[s]) = ActiveSources(Owner[s])
    BY <2>1 DEF SearchingFor, ActiveSources, OpenSessions, Open
  <2>3. QED
    BY <2>2 DEF StartSource
<1>5. sessions' \in {sessions, With(s, d)}
  BY <1>1, SavedSessions DEF AdmitOrNot
<1> HIDE DEF d
<1>6. Searches(Current, s, d, i)
  BY <1>3, <1>4 DEF Searches, SourceActive
<1>7. Grows(Current, s, d)
  BY <1>3, <1>6 DEF Grows
<1>8. QED
  BY <1>5, <1>7 DEF LimitStep

\* Work that ends is no longer counted as active.
LEMMA FinishFits ==
    ASSUME ChatInv, Fits(Current), NEW l \in Leases, FinishTurn(l) \/ FinishSource(l)
    PROVE  LimitStep
<1> DEFINE s == run[l].session
           w == run[l].work
           c == Current[s]
<1>1. s \in Sessions /\ SessionOK(c)
  BY Found DEF FinishTurn, FinishSource, ChatInv, RunsOK, LeaseOK
<1>2. CASE SaveOrNot(Current)
  BY <1>2, SavedSessions DEF SaveOrNot, LimitStep
<1>3. ASSUME NEW d, Keeps(c, d), SaveOrNot(With(s, d)) PROVE LimitStep
  BY <1>1, <1>3, KeepsGrows, SavedSessions DEF SaveOrNot, LimitStep
<1>4. ASSUME w \in Requests, TurnIsOurs(c, l), NEW outcome \in Outcomes(c.active.cancel),
             SaveOrNot(With(s, [TurnSettled(c, outcome) EXCEPT
                        !.answers[w] = IF outcome = "succeeded" THEN @ + 1 ELSE @]))
      PROVE  LimitStep
  <2> DEFINE e == TurnSettled(c, outcome)
             n == IF outcome = "succeeded" THEN e.answers[w] + 1 ELSE e.answers[w]
  <2>1. outcome \in Settled /\ c.active # None
    BY <1>4 DEF Outcomes, Settled, TurnIsOurs
  <2>2. Keeps(c, e)
    BY <1>1, <2>1, TurnKeeps
  <2>3. e \in Session
    <3>1. c \in Session /\ c.active \in Active /\ outcome \in Status
      BY <1>1, <2>1 DEF SessionOK, Session, Status
    <3>2. QED
      BY <3>1 DEF TurnSettled, Session, Active
  <2>4. [e EXCEPT !.answers[w] = IF outcome = "succeeded" THEN @ + 1 ELSE @]
          = [e EXCEPT !.answers[w] = n]
    BY <1>4, <2>3 DEF Session
  <2> HIDE DEF e, n
  <2>5. Keeps(c, [e EXCEPT !.answers[w] = n])
    BY <1>4, <2>2, <2>3, AnswerKeeps
  <2>6. SaveOrNot(With(s, [e EXCEPT !.answers[w] = n]))
    BY <1>4, <2>4 DEF e
  <2>7. QED
    BY <1>3, <2>5, <2>6
<1>5. ASSUME w \in Sources, SourceIsOurs(c, l), NEW outcome \in Outcomes(c.sources[w].cancel),
             SaveOrNot(With(s, SourceSettled(c, w, outcome)))
      PROVE  LimitStep
  <2>1. outcome \in Settled /\ c.sources[w].status = "pending"
    BY <1>5 DEF Outcomes, Settled, SourceIsOurs
  <2>2. Keeps(c, SourceSettled(c, w, outcome))
    BY <1>1, <1>5, <2>1, SourceKeeps
  <2>3. QED
    BY <1>3, <1>5, <2>2
<1>6. QED
  BY <1>2, <1>4, <1>5 DEF FinishTurn, FinishSource

\* Cancelling, binding, and operations that only clean up.
LEMMA OtherFits ==
    ASSUME ChatInv, Fits(Current),
           \/ Cleanup \/ Crash
           \/ \E h \in Handlers :
                \/ Bind(h) \/ GiveUp(h)
                \/ \E o \in Owners, k \in Keys : Create(h, o, k)
                \/ \E s \in Sessions, q \in Requests : PreflightTestFix(h, s, q)
           \/ \E s \in Sessions :
                \/ \E q \in Requests : Cancel(s, q)
                \/ \E i \in Sources : CancelSource(s, i)
           \/ \E o \in Owners : Minute(o)
           \/ UNCHANGED vars
    PROVE  LimitStep
<1>1. CASE SaveOrNot(Current) \/ UNCHANGED sessions
  BY <1>1, SavedSessions DEF SaveOrNot, LimitStep
<1>2. ASSUME NEW s \in Sessions, NEW d, Grows(Current, s, d), SaveOrNot(With(s, d))
      PROVE  LimitStep
  BY <1>2, SavedSessions DEF SaveOrNot, LimitStep
<1>3. ASSUME NEW h \in Handlers, Bind(h) PROVE LimitStep
  <2> DEFINE s == calls[h].session
             q == calls[h].request
             b == calls[h].base
             d == [Current[s] EXCEPT !.binding[q] = b]
  <2>1. s \in Sessions /\ q \in Requests
    BY <1>3 DEF Bind, ChatInv, RestOK, Check
  <2>2. CASE Bindable(Current[s], q) /\ SaveOrNot(With(s, d))
    <3>1. SessionOK(Current[s]) /\ SessionFits(Current[s])
      BY <2>1, Found DEF ChatInv, Fits
    <3>2. /\ SessionFits(d) /\ d.state = Current[s].state /\ d.key = Current[s].key
          /\ d.active = Current[s].active /\ d.sources = Current[s].sources
      BY <2>1, <2>2, <3>1, BindingFits
    <3> HIDE DEF d
    <3>3. \A i : Searches(Current, s, d, i)
      BY <3>2 DEF Searches, SourceActive
    <3>4. Grows(Current, s, d)
      BY <3>2, <3>3 DEF Grows
    <3>5. QED
      BY <1>2, <2>1, <2>2, <3>4
  <2>3. QED
    BY <1>1, <1>3, <2>2 DEF Bind
<1>4. ASSUME NEW s \in Sessions, NEW q \in Requests, Cancel(s, q) PROVE LimitStep
  <2>1. SessionOK(Current[s]) /\ Current[s].active # None
    BY <1>4, Found DEF Cancel, ChatInv
  <2>2. Keeps(Current[s], [Current[s] EXCEPT !.active.cancel = TRUE])
    BY <2>1, FlagsKeep
  <2>3. QED
    BY <1>2, <1>4, <2>2, KeepsGrows DEF Cancel
<1>5. ASSUME NEW s \in Sessions, NEW i \in Sources, CancelSource(s, i) PROVE LimitStep
  <2>1. SessionOK(Current[s])
    BY <1>5, Found DEF ChatInv
  <2>2. Keeps(Current[s], [Current[s] EXCEPT !.sources[i].cancel = TRUE])
    BY <2>1, FlagsKeep
  <2>3. QED
    BY <1>2, <1>5, <2>2, KeepsGrows DEF CancelSource
<1>6. QED
  BY <1>1, <1>3, <1>4, <1>5 DEF Cleanup, Crash, GiveUp, Create, PreflightTestFix, Minute, vars, file

\* Every step keeps the limits.
LEMMA FitsInductive ==
    ASSUME ChatInv, Fits(sessions), [Next]_vars
    PROVE  Fits(sessions)'
<1>1. Fits(Current)
  BY CleanedFits DEF ChatInv
<1>2. CASE LimitStep
  <2>1. CASE sessions' \in {sessions, Current}
    BY <1>1, <2>1
  <2>2. ASSUME NEW s \in Sessions, NEW d, Grows(Current, s, d), sessions' = With(s, d)
        PROVE  Fits(sessions')
    <3>1. \A u \in Sessions : sessions'[u] = IF u = s THEN d ELSE Current[u]
      BY <2>2 DEF With, Current
    <3>2. PICK T : T = Current
      OBVIOUS
    <3>3. PICK U : U = sessions'
      OBVIOUS
    <3>4. Fits(U)
      BY <1>1, <2>2, <3>1, <3>2, <3>3, GrownFits
    <3>5. QED
      BY <3>3, <3>4
  <2>3. QED
    BY <1>2, <2>1, <2>2 DEF LimitStep
<1>3. ASSUME NEW s \in Sessions,
             \/ LapseTurn(s) \/ Expire(s)
             \/ \E i \in Sources : LapseSource(s, i)
      PROVE  Fits(sessions')
  <2>1. SessionOK(sessions[s]) /\ sessions \in [Sessions -> Session]
    BY DEF ChatInv, FileOK
  <2>2. PICK d : Keeps(sessions[s], d) /\ sessions' = [sessions EXCEPT ![s] = d]
    <3>1. CASE LapseTurn(s)
      <4>1. sessions' = [sessions EXCEPT ![s] = [sessions[s] EXCEPT !.active.live = FALSE]]
        BY <2>1, <3>1 DEF LapseTurn
      <4>2. QED
        BY <2>1, <3>1, <4>1, FlagsKeep DEF LapseTurn
    <3>2. CASE Expire(s)
      BY <2>1, <3>2, FlagsKeep DEF Expire
    <3>3. ASSUME NEW i \in Sources, LapseSource(s, i)
          PROVE  \E d : Keeps(sessions[s], d) /\ sessions' = [sessions EXCEPT ![s] = d]
      <4>1. sessions' = [sessions EXCEPT ![s] = [sessions[s] EXCEPT !.sources[i].live = FALSE]]
        BY <2>1, <3>3 DEF LapseSource
      <4>2. QED
        BY <2>1, <3>3, <4>1, FlagsKeep
    <3>4. QED
      BY <1>3, <3>1, <3>2, <3>3
  <2>3. Grows(sessions, s, d)
    BY <2>2, KeepsGrows
  <2>4. \A u \in Sessions : sessions'[u] = IF u = s THEN d ELSE sessions[u]
    BY <2>1, <2>2
  <2>5. PICK T : T = sessions
    OBVIOUS
  <2>6. PICK U : U = sessions'
    OBVIOUS
  <2>7. Fits(U)
    BY <2>3, <2>4, <2>5, <2>6, GrownFits
  <2>8. QED
    BY <2>6, <2>7
<1>4. ASSUME NEW h \in Handlers, Insert(h) PROVE LimitStep
  BY <1>1, <1>4, InsertFits
<1>5. ASSUME NEW s \in Sessions, NEW q \in Requests,
             StartTurn(s, q) \/ \E i \in Sources : StartSource(s, i, q)
      PROVE  LimitStep
  BY <1>1, <1>5, StartTurnFits, StartSourceFits
<1>6. ASSUME NEW l \in Leases, FinishTurn(l) \/ FinishSource(l) PROVE LimitStep
  BY <1>1, <1>6, FinishFits
<1>7. ASSUME \/ Cleanup \/ Crash
             \/ \E h \in Handlers :
                  \/ Bind(h) \/ GiveUp(h)
                  \/ \E o \in Owners, k \in Keys : Create(h, o, k)
                  \/ \E s \in Sessions, q \in Requests : PreflightTestFix(h, s, q)
             \/ \E s \in Sessions :
                  \/ \E q \in Requests : Cancel(s, q)
                  \/ \E i \in Sources : CancelSource(s, i)
             \/ \E o \in Owners : Minute(o)
             \/ UNCHANGED vars
      PROVE  LimitStep
  BY <1>1, <1>7, OtherFits
<1>8. QED
  BY <1>2, <1>3, <1>4, <1>5, <1>6, <1>7 DEF Next

\* The limits hold of every state.
LEMMA FitsInvariant == Spec => []Fits(sessions)
<1>1. Init => Fits(sessions)
  <2> SUFFICES ASSUME Init PROVE Fits(sessions)
    OBVIOUS
  <2>1. \A s \in Sessions : sessions[s] = Unused /\ Empty(Unused) /\ Unused.state = "unused"
    BY BlankIsEmpty DEF Init, Unused
  <2>2. \A s \in Sessions : SessionFits(sessions[s])
    <3>1. IsFiniteSet({}) /\ Cardinality({}) = 0
      BY FS_EmptySet
    <3>2. QED
      BY <2>1, <3>1, ChatConstants DEF Empty, SessionFits, AtMost
  <2>3. \A o : /\ OpenedIn(sessions) = {} /\ OpenedFor(sessions, o) = {}
               /\ BusyFor(sessions, o) = {} /\ SearchingFor(sessions, o) = {}
    BY <2>1 DEF OpenedIn, OpenedFor, BusyFor, SearchingFor, Empty
  <2>4. AtMost({}, MaxSessions) /\ AtMost({}, MaxPerOwner) /\ AtMost({}, MaxActive)
        /\ AtMost({}, MaxActiveSources)
    BY FS_EmptySet, ChatConstants DEF AtMost
  <2>5. QED
    BY <2>1, <2>2, <2>3, <2>4 DEF Fits
<1>2. ChatInv /\ Fits(sessions) /\ [Next]_vars => Fits(sessions)'
  BY FitsInductive
<1>3. QED
  BY <1>1, <1>2, ChatInvariant, PTL DEF Spec

\* Whatever number of replicas admit sessions, questions, investigations and bindings
\* in whatever order, writes fail or leases lapse, no limit is passed, and a session's
\* turns are what its questions cost.
THEOREM LimitsHold == Spec => []WithinLimits
<1>1. Fits(sessions) => WithinLimits
  BY DEF Fits, WithinLimits, SessionFits, AtMost, OpenedIn, OpenedFor, BusyFor, SearchingFor,
         AdmittedIn
<1>2. QED
  BY <1>1, FitsInvariant, PTL

\* An owner's key names one open session, though creations overlap.
THEOREM KeyNamesOne == Spec => []OneSessionPerKey
<1>1. Fits(sessions) => OneSessionPerKey
  BY DEF Fits, OneSessionPerKey
<1>2. QED
  BY <1>1, FitsInvariant, PTL
=============================================================================
