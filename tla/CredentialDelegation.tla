---------------------- MODULE CredentialDelegation ----------------------
(***************************************************************************)
(* The credential path of the sidecar: get_connection_headers (server.py)  *)
(* against the OAuth token store (datastores/kv_stores.py), together with  *)
(* everything else that writes that store: the OAuth callback, which saves *)
(* a newly exchanged token, and oauth_revoke, which deletes one.           *)
(*                                                                         *)
(* get_connection_headers touches one shared resource per step - it reads  *)
(* the store, then awaits the identity provider, then writes the store -   *)
(* and holds nothing in between.  Every interleaving of those steps is     *)
(* possible: other coroutines run at each await, oauth_revoke runs in a    *)
(* worker thread, the callback in its own thread, and a second pod shares  *)
(* the vault.                                                              *)
(*                                                                         *)
(* Tokens are numbers: the n-th answer of the identity provider carries    *)
(* access token n and, when it carries a refresh token, refresh token n.   *)
(* A bundle is the stored JSON object: access token at, refresh token rt   *)
(* (0: none) and exp, the token whose lifetime its expires_at was stamped  *)
(* from (0: expires_at unknown).                                           *)
(***************************************************************************)
EXTENDS Naturals

CONSTANTS
    Pairs,          \* (principal, server) pairs that call the sidecar
    Names,          \* Key Vault secret names
    SecretNameOf,   \* pair -> name, KeyVaultTokenStore._secret_name
    Pats,           \* pairs for which the ops team stored a static PAT
    Requests,       \* get_connection_headers calls that may overlap
    Callbacks,      \* OAuth callbacks that may overlap with them
    ReportsExpiry,  \* whether token answers carry expires_in: a set of BOOLEANs
    MaxTokens       \* bound: answers the identity provider gives

ASSUME ConstantsAssumption ==
    /\ Pairs # {}
    /\ SecretNameOf \in [Pairs -> Names]
    /\ Pats \subseteq Pairs
    /\ ReportsExpiry \in SUBSET BOOLEAN
    /\ MaxTokens \in Nat

VARIABLES
    store,      \* secret name -> bundle (NoBundle: no such secret)
    issued,     \* number of answers the identity provider gave
    grant,      \* token -> the user authorization it descends from
    owner,      \* token -> the pair that authorization was made for
    live,       \* refresh tokens the identity provider accepts
    rotates,    \* TRUE: it replaces the refresh token at every refresh
    stale,      \* access tokens within 60 seconds of their end, or past it
    pc,         \* request -> what it waits for
    pair,       \* request -> whom it is for
    bundle,     \* request -> the bundle in its local variable
    answer,     \* request -> what it last returned
    pending,    \* callback -> bundle exchanged and not saved yet
    cbPair,     \* callback -> whom it is for
    faulted     \* names for which a rotated refresh token was lost

vars == <<store, issued, grant, owner, live, rotates, stale, pc, pair, bundle,
          answer, pending, cbPair, faulted>>
idpVars == <<issued, grant, owner, live, rotates>>
callbackVars == <<pending, cbPair>>

Ids == 1 .. MaxTokens
IdOrNone == 0 .. MaxTokens

Bundles == [at : Ids, rt : IdOrNone, exp : IdOrNone]
NoBundle == [at |-> 0, rt |-> 0, exp |-> 0]
\* Faulty variant: the name leaves the principal out.
SharedName(r) == SecretNameOf[CHOOSE p \in Pairs : TRUE]
NameOf(r) == SecretNameOf[pair[r]]

\* is_token_expired: an unknown expires_at counts as not expired.
IsTokenExpired(b) == b.exp # 0 /\ b.exp \in stale

AnswerKinds == {"none", "bearer", "pat", "empty", "invalid_request",
                "expired_credentials", "internal_error"}
NoAnswer == [kind |-> "none", token |-> 0]
Bearer(b) == [kind |-> "bearer", token |-> b.at]
Only(kind) == [kind |-> kind, token |-> 0]

SomePair == CHOOSE p \in Pairs : TRUE

Init ==
    /\ store = [n \in Names |-> NoBundle]
    /\ issued = 0
    /\ grant = [i \in Ids |-> 0]
    /\ owner = [i \in Ids |-> SomePair]
    /\ live = {}
    /\ rotates \in BOOLEAN
    /\ stale = {}
    /\ pc = [r \in Requests |-> "idle"]
    /\ pair = [r \in Requests |-> SomePair]
    /\ bundle = [r \in Requests |-> NoBundle]
    /\ answer = [r \in Requests |-> NoAnswer]
    /\ pending = [c \in Callbacks |-> NoBundle]
    /\ cbPair = [c \in Callbacks |-> SomePair]
    /\ faulted = {}

-------------------------------------------------------------------------------
(* get_connection_headers *)

\* The call ends with answer a; its local variables are gone.
Return(r, a) ==
    /\ pc' = [pc EXCEPT ![r] = "idle"]
    /\ bundle' = [bundle EXCEPT ![r] = NoBundle]
    /\ answer' = [answer EXCEPT ![r] = a]

\* The call goes on to step, with b in its bundle variable.
Continue(r, step, b) ==
    /\ pc' = [pc EXCEPT ![r] = step]
    /\ bundle' = [bundle EXCEPT ![r] = b]
    /\ answer' = [answer EXCEPT ![r] = NoAnswer]

\* principal_id or server_name is empty.
RejectIncomplete(r) ==
    /\ pc[r] = "idle"
    /\ Return(r, Only("invalid_request"))
    /\ UNCHANGED <<store, idpVars, stale, pair, callbackVars, faulted>>

\* Faulty variant: refreshes an expired bundle that has no refresh token.
LookupUnchecked(r, p) ==
    LET b == store[SecretNameOf[p]] IN
    /\ pc[r] = "idle"
    /\ pair' = [pair EXCEPT ![r] = p]
    /\ \/ b = NoBundle /\ Continue(r, "pat", NoBundle)
       \/ b # NoBundle /\ IsTokenExpired(b) /\ Continue(r, "refresh", b)
       \/ b # NoBundle /\ ~IsTokenExpired(b) /\ Return(r, Bearer(b))
    /\ UNCHANGED <<store, idpVars, stale, callbackVars, faulted>>

\* get_token answered.  A bundle past its expiry is refreshed if it can be; an
\* expired bundle without a refresh token is handed out as it is.
Lookup(r, p) ==
    LET b == store[SecretNameOf[p]] IN
    /\ pc[r] = "idle"
    /\ pair' = [pair EXCEPT ![r] = p]
    /\ \/ b = NoBundle /\ Continue(r, "pat", NoBundle)
       \/ b # NoBundle /\ IsTokenExpired(b) /\ b.rt # 0 /\ Continue(r, "refresh", b)
       \/ b # NoBundle /\ ~(IsTokenExpired(b) /\ b.rt # 0) /\ Return(r, Bearer(b))
    /\ UNCHANGED <<store, idpVars, stale, callbackVars, faulted>>

\* get_token raised: the bundle counts as absent.
LookupFails(r, p) ==
    /\ pc[r] = "idle"
    /\ pair' = [pair EXCEPT ![r] = p]
    /\ Continue(r, "pat", NoBundle)
    /\ UNCHANGED <<store, idpVars, stale, callbackVars, faulted>>

\* The static PAT: found, not found, or the vault call raised.
PatLookup(r) ==
    /\ pc[r] = "pat"
    /\ \/ pair[r] \in Pats /\ Return(r, Only("pat"))
       \/ pair[r] \notin Pats /\ Return(r, Only("empty"))
       \/ Return(r, Only("internal_error"))
    /\ UNCHANGED <<store, idpVars, stale, pair, callbackVars, faulted>>

\* The identity provider's side of a refresh with token x: the next number is
\* issued, under the grant x descends from, and x is replaced if tokens rotate.
Reissue(x) ==
    LET n == issued + 1 IN
    /\ x \in live
    /\ issued < MaxTokens
    /\ issued' = n
    /\ grant' = [grant EXCEPT ![n] = grant[x]]
    /\ owner' = [owner EXCEPT ![n] = owner[x]]
    /\ live' = IF rotates THEN (live \ {x}) \union {n} ELSE live
    /\ UNCHANGED rotates

\* Faulty variants of the merge: the old refresh token wins; an expires_at that is
\* there is never stamped again; what the answer lacks is dropped.
MergedBackwards(b, n, lifetime) ==
    [at |-> n, rt |-> b.rt, exp |-> IF lifetime THEN n ELSE b.exp]
MergedUnstamped(b, n, lifetime) ==
    [at |-> n, rt |-> IF rotates THEN n ELSE b.rt, exp |-> b.exp]
AnswerOnly(b, n, lifetime) ==
    [at |-> n, rt |-> IF rotates THEN n ELSE 0, exp |-> IF lifetime THEN n ELSE 0]

\* {**bundle, **refreshed}, then stamp_token_expiry: what the answer lacks keeps
\* its old value, and an expires_at that is already there is not stamped again.
Merged(b, n, lifetime) ==
    [at  |-> n,
     rt  |-> IF rotates THEN n ELSE b.rt,
     exp |-> IF lifetime THEN n ELSE b.exp]

\* The refresh request succeeds and its answer arrives.
Refresh(r) ==
    /\ pc[r] = "refresh"
    /\ Reissue(bundle[r].rt)
    /\ \E lifetime \in ReportsExpiry :
          Continue(r, "save", Merged(bundle[r], issued + 1, lifetime))
    /\ UNCHANGED <<store, stale, pair, callbackVars, faulted>>

\* The identity provider answers, but the answer is lost, late or unusable.
RefreshAnswerLost(r) ==
    /\ pc[r] = "refresh"
    /\ Reissue(bundle[r].rt)
    /\ Return(r, Only("expired_credentials"))
    /\ faulted' = IF rotates THEN faulted \union {NameOf(r)} ELSE faulted
    /\ UNCHANGED <<store, stale, pair, callbackVars>>

\* Faulty variant: the old bundle is written back.
RefreshFailsAndSaves(r) ==
    /\ pc[r] = "refresh"
    /\ Return(r, Only("expired_credentials"))
    /\ store' = [store EXCEPT ![NameOf(r)] = bundle[r]]
    /\ UNCHANGED <<idpVars, stale, pair, callbackVars, faulted>>

\* The refresh token is not accepted, or the identity provider is not reachable.
RefreshFails(r) ==
    /\ pc[r] = "refresh"
    /\ Return(r, Only("expired_credentials"))
    /\ UNCHANGED <<store, idpVars, stale, pair, callbackVars, faulted>>

SaveRefreshed(r) ==
    /\ pc[r] = "save"
    /\ store' = [store EXCEPT ![NameOf(r)] = bundle[r]]
    /\ Return(r, Bearer(bundle[r]))
    /\ UNCHANGED <<idpVars, stale, pair, callbackVars, faulted>>

\* save_token raises, whether or not the vault applied the write.
SaveRefreshedFails(r) ==
    /\ pc[r] = "save"
    /\ \/ store' = [store EXCEPT ![NameOf(r)] = bundle[r]]
       \/ UNCHANGED store
    /\ Return(r, Only("expired_credentials"))
    /\ faulted' = IF rotates THEN faulted \union {NameOf(r)} ELSE faulted
    /\ UNCHANGED <<idpVars, stale, pair, callbackVars>>

\* The pod is gone or the call is cancelled: nobody gets an answer.
Abort(r) ==
    /\ pc[r] # "idle"
    /\ Return(r, NoAnswer)
    /\ faulted' = IF rotates /\ pc[r] = "save"
                  THEN faulted \union {NameOf(r)} ELSE faulted
    /\ UNCHANGED <<store, idpVars, stale, pair, callbackVars>>

-------------------------------------------------------------------------------
(* The other writers of the token store *)

\* exchange_code_for_token: a new grant, with or without a refresh token and a
\* lifetime.
CallbackExchange(c, p) ==
    LET n == issued + 1 IN
    /\ pending[c] = NoBundle
    /\ issued < MaxTokens
    /\ issued' = n
    /\ grant' = [grant EXCEPT ![n] = n]
    /\ owner' = [owner EXCEPT ![n] = p]
    /\ \E refreshable \in BOOLEAN, lifetime \in ReportsExpiry :
          /\ live' = IF refreshable THEN live \union {n} ELSE live
          /\ pending' = [pending EXCEPT ![c] =
                [at  |-> n,
                 rt  |-> IF refreshable THEN n ELSE 0,
                 exp |-> IF lifetime THEN n ELSE 0]]
    /\ cbPair' = [cbPair EXCEPT ![c] = p]
    /\ UNCHANGED <<store, rotates, stale, pc, pair, bundle, answer, faulted>>

CallbackSave(c) ==
    /\ pending[c] # NoBundle
    /\ store' = [store EXCEPT ![SecretNameOf[cbPair[c]]] = pending[c]]
    /\ pending' = [pending EXCEPT ![c] = NoBundle]
    /\ UNCHANGED <<idpVars, stale, pc, pair, bundle, answer, cbPair, faulted>>

\* save_token raised before the write, or the pod is gone.
CallbackFails(c) ==
    /\ pending[c] # NoBundle
    /\ pending' = [pending EXCEPT ![c] = NoBundle]
    /\ UNCHANGED <<store, idpVars, stale, pc, pair, bundle, answer, cbPair, faulted>>

\* oauth_revoke: delete_token, a missing secret included.
Revoke(p) ==
    /\ store' = [store EXCEPT ![SecretNameOf[p]] = NoBundle]
    /\ UNCHANGED <<idpVars, stale, pc, pair, bundle, answer, callbackVars, faulted>>

-------------------------------------------------------------------------------
(* Time: access token i comes within buffer_seconds of its end. *)
Age(i) ==
    /\ i \in 1 .. issued
    /\ stale' = stale \union {i}
    /\ UNCHANGED <<store, idpVars, pc, pair, bundle, answer, callbackVars, faulted>>

-------------------------------------------------------------------------------
RequestStep(r) ==
    \/ PatLookup(r)
    \/ Refresh(r)
    \/ RefreshAnswerLost(r)
    \/ RefreshFails(r)
    \/ SaveRefreshed(r)
    \/ SaveRefreshedFails(r)

Next ==
    \/ \E r \in Requests : RejectIncomplete(r) \/ RequestStep(r) \/ Abort(r)
    \/ \E r \in Requests, p \in Pairs : Lookup(r, p) \/ LookupFails(r, p)
    \/ \E c \in Callbacks, p \in Pairs : CallbackExchange(c, p)
    \/ \E c \in Callbacks : CallbackSave(c) \/ CallbackFails(c)
    \/ \E p \in Pairs : Revoke(p)
    \/ \E i \in Ids : Age(i)

Spec == Init /\ [][Next]_vars
-------------------------------------------------------------------------------
Answers == [kind : AnswerKinds, token : IdOrNone]

\* Every variable has its type, and a request waits to refresh or to save only
\* with a bundle that carries a refresh token (server.py:208-221).
TypeOK ==
    /\ store \in [Names -> Bundles \union {NoBundle}]
    /\ issued \in IdOrNone
    /\ grant \in [Ids -> IdOrNone]
    /\ owner \in [Ids -> Pairs]
    /\ live \subseteq Ids
    /\ rotates \in BOOLEAN
    /\ stale \subseteq Ids
    /\ pc \in [Requests -> {"idle", "pat", "refresh", "save"}]
    /\ pair \in [Requests -> Pairs]
    /\ bundle \in [Requests -> Bundles \union {NoBundle}]
    /\ \A r \in Requests : pc[r] \in {"refresh", "save"} =>
          bundle[r] \in Bundles /\ bundle[r].rt # 0
    /\ answer \in [Requests -> Answers]
    /\ pending \in [Callbacks -> Bundles \union {NoBundle}]
    /\ cbPair \in [Callbacks -> Pairs]
    /\ faulted \subseteq Names

\* Delegation (server.py:227): the Bearer token a call returns was issued to the
\* principal and server the call named, whatever refreshed, saved or revoked
\* under whichever secret name in between.
OwnCredential ==
    \A r \in Requests :
        answer[r].kind = "bearer" => owner[answer[r].token] = pair[r]

\* A stored refresh token that the identity provider no longer accepts is either
\* about to be replaced by the request that used it (server.py:212-220), or its
\* successor was lost to a failure: overlapping refreshes alone never strand a
\* user on a dead refresh token.
StrandedOnlyByFault ==
    \A n \in Names :
        \/ store[n].rt \in live \union {0}
        \/ n \in faulted
        \/ \E r \in Requests : pc[r] = "save" /\ NameOf(r) = n

\* A refresh is under way only for a bundle whose own access token is at its end
\* (is_token_expired, oauth_client.py:494-496, at server.py:209).
RefreshOnlyWhenStale ==
    \A r \in Requests : pc[r] = "refresh" => bundle[r].at \in stale

\* save_token (server.py:220) never puts back an older refresh token of the same
\* user authorization: of two overlapping refreshes, the later one wins.
RefreshNeverGoesBack ==
    [][\A n \in Names :
          (/\ store[n].rt # 0
           /\ store'[n].rt # 0
           /\ grant[store[n].at] = grant[store'[n].at])
          => store'[n].rt >= store[n].rt]_vars

\* A refresh never loses the refresh token of an authorization that has one: what
\* the answer lacks is kept from the old bundle (server.py:218).
RefreshTokenKept ==
    [][\A n \in Names :
          (/\ store[n].rt # 0
           /\ store'[n] # NoBundle
           /\ grant[store[n].at] = grant[store'[n].at])
          => store'[n].rt # 0]_vars

\* oauth_revoke "deletes the user's stored token" (oauth_server.py:568): after
\* it, only a new authorization stores one again.
RevokedStaysRevoked ==
    [][\A n \in Names :
          (store[n] = NoBundle /\ store'[n] # NoBundle)
          => \E c \in Callbacks : pending[c] # NoBundle /\ pending'[c] = NoBundle]_vars
==============================================================================
