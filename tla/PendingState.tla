---------------------------- MODULE PendingState ----------------------------
(***************************************************************************)
(* What the OAuth broker expects of its state store (oauth_state_store.py, *)
(* kv_stores.py): the data saved under a state token is handed out to one  *)
(* caller, unless it is lost first; after that the token is worth nothing. *)
(***************************************************************************)
EXTENDS Naturals

CONSTANT Tokens     \* state tokens

VARIABLES
    status,         \* token -> absent, pending, claimed or gone
    claims          \* token -> how many callers got its data

Init ==
    /\ status = [t \in Tokens |-> "absent"]
    /\ claims = [t \in Tokens |-> 0]

Save(t) ==
    /\ status[t] = "absent"
    /\ status' = [status EXCEPT ![t] = "pending"]
    /\ UNCHANGED claims

Claim(t) ==
    /\ status[t] = "pending"
    /\ status' = [status EXCEPT ![t] = "claimed"]
    /\ claims' = [claims EXCEPT ![t] = @ + 1]

\* The secret is collected, or a delete whose caller got no answer removed it.
Lose(t) ==
    /\ status[t] = "pending"
    /\ status' = [status EXCEPT ![t] = "gone"]
    /\ UNCHANGED claims

Next == \E t \in Tokens : Save(t) \/ Claim(t) \/ Lose(t)

Spec == Init /\ [][Next]_<<status, claims>>
=============================================================================
