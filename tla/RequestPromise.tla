--------------------------- MODULE RequestPromise ---------------------------
(***************************************************************************)
(* What an action request promises its admin, whatever the server does to  *)
(* keep it: a request goes through its phases in order, several may move   *)
(* at once (expiry, a restart), at most one GitHub object is filed for a   *)
(* target, and only for a draft whose outcome is on record as in doubt.    *)
(***************************************************************************)
EXTENDS Naturals

CONSTANTS
    Requests,
    Target      \* request -> what its GitHub object is about

VARIABLES
    phase,      \* of each request
    filed       \* how many GitHub objects each request created

Phases == {"absent", "drafting", "stopping", "ready", "doubt", "done", "closed"}

Moves == {
    <<"absent", "drafting">>,
    <<"drafting", "ready">>, <<"drafting", "stopping">>, <<"drafting", "closed">>,
    <<"ready", "doubt">>, <<"ready", "stopping">>, <<"ready", "closed">>,
    <<"stopping", "closed">>, <<"doubt", "closed">>, <<"done", "closed">>}

Filed(r) == \E q \in Requests : Target[q] = Target[r] /\ filed[q] > 0

Init ==
    /\ phase = [r \in Requests |-> "absent"]
    /\ filed = [r \in Requests |-> 0]

\* Out of doubt: the object is there, or GitHub refused and none was made.
Resolved(r) ==
    /\ phase[r] = "doubt"
    /\ \/ phase'[r] = "done" /\ Filed(r)
       \/ phase'[r] = "ready" /\ filed[r] = 0

Move ==
    /\ phase' \in [Requests -> Phases]
    /\ \A r \in Requests :
        \/ phase'[r] = phase[r]
        \/ <<phase[r], phase'[r]>> \in Moves
        \/ Resolved(r)
    /\ UNCHANGED filed

File(r) ==
    /\ phase[r] = "doubt" /\ ~Filed(r)
    /\ filed' = [filed EXCEPT ![r] = 1]
    /\ UNCHANGED phase

Next == Move \/ \E r \in Requests : File(r)

Spec == Init /\ [][Next]_<<phase, filed>>
=============================================================================
