---------------------------- MODULE ChatPromise ----------------------------
(***************************************************************************)
(* What a conversation promises whoever asks: a question is answered or    *)
(* not, once; what became of it never changes; every answer of the         *)
(* transcript belongs to a question that says so; one question at a time;  *)
(* and a conversation is not forgotten while a question is open.           *)
(***************************************************************************)
EXTENDS Naturals

CONSTANTS Sessions, Requests

VARIABLES
    outcome,    \* session -> request -> what became of it
    transcript  \* session -> request -> how many answers it has

Settled == {"succeeded", "failed", "cancelled", "unknown"}

Init ==
    /\ outcome = [s \in Sessions |-> [q \in Requests |-> "none"]]
    /\ transcript = [s \in Sessions |-> [q \in Requests |-> 0]]

Moves == {<<"none", "pending">>} \cup {<<"pending", p>> : p \in Settled}

Converse(s) ==
    /\ \A q \in Requests :
        \/ outcome'[s][q] = outcome[s][q] /\ transcript'[s][q] = transcript[s][q]
        \/ /\ <<outcome[s][q], outcome'[s][q]>> \in Moves
           /\ transcript'[s][q] = IF outcome'[s][q] = "succeeded" THEN 1 ELSE 0
    /\ \A p, q \in Requests :
        outcome'[s][p] = "pending" /\ outcome'[s][q] = "pending" => p = q

Forget(s) ==
    \A q \in Requests :
        outcome[s][q] # "pending" /\ outcome'[s][q] = "gone" /\ transcript'[s][q] = 0

Next ==
    /\ DOMAIN outcome' = Sessions /\ DOMAIN transcript' = Sessions
    /\ \A s \in Sessions : Converse(s) \/ Forget(s)

Spec == Init /\ [][Next]_<<outcome, transcript>>
=============================================================================
