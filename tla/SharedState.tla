----------------------------- MODULE SharedState -----------------------------
(***************************************************************************)
(* What the state store of the broker still promises when several callers  *)
(* share the vault (kv_stores.py): pop_state reads the secret and deletes  *)
(* it in two calls, so callers that have read it before the first delete   *)
(* all get the data.  Nobody who reads later does, and a token is never    *)
(* saved a second time.                                                    *)
(***************************************************************************)
EXTENDS Naturals

CONSTANTS
    Tokens,     \* state tokens
    Callers     \* whoever calls pop_state, one call at a time

VARIABLES
    status,     \* token -> absent, pending or gone
    readers,    \* token -> the callers that have read it and not returned
    claims      \* token -> how many callers got its data

vars == <<status, readers, claims>>

Init ==
    /\ status = [t \in Tokens |-> "absent"]
    /\ readers = [t \in Tokens |-> {}]
    /\ claims = [t \in Tokens |-> 0]

Save(t) ==
    /\ status[t] = "absent"
    /\ status' = [status EXCEPT ![t] = "pending"]
    /\ UNCHANGED <<readers, claims>>

Read(t, c) ==
    /\ status[t] = "pending"
    /\ c \notin readers[t]
    /\ readers' = [readers EXCEPT ![t] = @ \union {c}]
    /\ UNCHANGED <<status, claims>>

\* The delete, applied or too late, and the data for the caller.
Claim(t, c) ==
    /\ c \in readers[t]
    /\ status' = [status EXCEPT ![t] = "gone"]
    /\ readers' = [readers EXCEPT ![t] = @ \ {c}]
    /\ claims' = [claims EXCEPT ![t] = @ + 1]

\* The caller gets no answer to its delete, or is no more.
GiveUp(t, c) ==
    /\ c \in readers[t]
    /\ \/ UNCHANGED status
       \/ status' = [status EXCEPT ![t] = "gone"]
    /\ readers' = [readers EXCEPT ![t] = @ \ {c}]
    /\ UNCHANGED claims

\* The secret is collected.
Lose(t) ==
    /\ status[t] = "pending"
    /\ status' = [status EXCEPT ![t] = "gone"]
    /\ UNCHANGED <<readers, claims>>

Next ==
    \E t \in Tokens :
        \/ Save(t) \/ Lose(t)
        \/ \E c \in Callers : Read(t, c) \/ Claim(t, c) \/ GiveUp(t, c)

Spec == Init /\ [][Next]_vars
==============================================================================
