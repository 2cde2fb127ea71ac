------------------ MODULE CredentialDelegation_proofs ------------------
(***************************************************************************)
(* Proofs about CredentialDelegation, for any pairs, names, requests,      *)
(* callbacks and number of tokens.                                         *)
(***************************************************************************)
EXTENDS CredentialDelegation, TLAPS

Refreshers == {r \in Requests : pc[r] = "refresh"}
Savers == {r \in Requests : pc[r] = "save"}

-------------------------------------------------------------------------------
(* Whose token is whose *)

\* The secret name of the pair token i was issued for.
NameFor(i) == SecretNameOf[owner[i]]

OwnedBy(b, n) ==
    /\ b.at \in 1 .. issued
    /\ NameFor(b.at) = n
    /\ b.rt \in 0 .. issued
    /\ b.rt # 0 => NameFor(b.rt) = n

\* What is stored under a name, carried by a request or a callback, or was
\* returned, was issued for a pair of that name.
OwnershipInv ==
    /\ \A n \in Names : store[n].at # 0 => OwnedBy(store[n], n)
    /\ \A r \in Requests : bundle[r].at # 0 => OwnedBy(bundle[r], NameOf(r))
    /\ \A c \in Callbacks : pending[c].at # 0 => OwnedBy(pending[c], SecretNameOf[cbPair[c]])
    /\ \A r \in Requests : answer[r].kind = "bearer" =>
          answer[r].token \in 1 .. issued /\ NameFor(answer[r].token) = NameOf(r)

-------------------------------------------------------------------------------
(* Which refresh tokens are alive, and who holds them *)

Known(b) ==
    /\ b.at \in 1 .. issued
    /\ b.rt \in 0 .. issued
    /\ b.rt # 0 => grant[b.rt] = grant[b.at]

\* Bundles refer to issued tokens, and pair tokens of one grant.
KnownInv ==
    /\ live \subseteq 1 .. issued
    /\ \A i \in 1 .. issued : grant[i] <= issued
    /\ \A n \in Names : store[n] # NoBundle => Known(store[n])
    /\ \A r \in Requests : bundle[r] # NoBundle => Known(bundle[r])
    /\ \A c \in Callbacks : pending[c] # NoBundle => Known(pending[c])

\* A bundle that waits to be saved carries a live refresh token.
HeldLiveInv ==
    /\ \A r \in Savers : bundle[r].rt \in live
    /\ \A c \in Callbacks : pending[c].rt \in live \union {0}

\* Rotation: the live refresh token of a grant is the last one issued in it.
HeadInv ==
    rotates => \A i \in live, j \in 1 .. issued : grant[i] = grant[j] => j <= i

\* Neither the store nor a request that is about to refresh has token x.
Unseen(x) ==
    /\ \A n \in Names : store[n].rt # x
    /\ \A s \in Refreshers : bundle[s].rt # x

\* Rotation: nobody else has the refresh token of a bundle that waits to be
\* saved, and a stored one is known only to the requests of its own name.
ExclusiveInv ==
    rotates =>
    /\ \A r \in Savers : Unseen(bundle[r].rt)
    /\ \A r, s \in Savers : bundle[r].rt = bundle[s].rt => r = s
    /\ \A r \in Savers, c \in Callbacks : pending[c].rt # bundle[r].rt
    /\ \A c \in Callbacks : pending[c].rt # 0 => Unseen(pending[c].rt)
    /\ \A c, d \in Callbacks : pending[c].rt # 0 /\ pending[c].rt = pending[d].rt => c = d
    /\ \A m, n \in Names : store[m].rt # 0 /\ store[m].rt = store[n].rt => m = n
    /\ \A r \in Refreshers, n \in Names :
          store[n].rt = bundle[r].rt => n = NameOf(r)

Original(b) == b.rt # 0 => b.rt \in live /\ b.rt = grant[b.at]

\* No rotation: the refresh token of a grant is its first token, and stays live.
FixedInv ==
    ~rotates =>
    /\ \A n \in Names : Original(store[n])
    /\ \A r \in Requests : Original(bundle[r])
    /\ \A c \in Callbacks : Original(pending[c])

ChainInv ==
    /\ TypeOK
    /\ KnownInv
    /\ HeldLiveInv
    /\ HeadInv
    /\ ExclusiveInv
    /\ FixedInv
    /\ StrandedOnlyByFault

-------------------------------------------------------------------------------
(* Lifetimes *)

\* When every answer reports a lifetime, expires_at is about the bundle's own
\* access token.
StampInv ==
    /\ \A n \in Names : store[n].exp \in {0, store[n].at}
    /\ \A r \in Requests : bundle[r].exp \in {0, bundle[r].at}
    /\ \A c \in Callbacks : pending[c].exp \in {0, pending[c].at}

-------------------------------------------------------------------------------
(* Type correctness *)

\* The values for nothing, and the answers, have their types.
LEMMA BundleFacts ==
    /\ SomePair \in Pairs
    /\ NoBundle \notin Bundles
    /\ NoAnswer \in Answers
    /\ \A kind \in AnswerKinds : Only(kind) \in Answers
    /\ \A b \in Bundles : Bearer(b) \in Answers
  BY ConstantsAssumption DEF SomePair, NoBundle, Bundles, NoAnswer, Answers,
     AnswerKinds, Only, Bearer, Ids, IdOrNone

\* What a Return and a Continue do to the request's variables.
LEMMA ReturnType ==
    ASSUME TypeOK, NEW r \in Requests, NEW a \in Answers, Return(r, a)
    PROVE  /\ pc' \in [Requests -> {"idle", "pat", "refresh", "save"}]
           /\ bundle' \in [Requests -> Bundles \union {NoBundle}]
           /\ answer' \in [Requests -> Answers]
           /\ \A s \in Requests : pc'[s] \in {"refresh", "save"} =>
                 bundle'[s] \in Bundles /\ bundle'[s].rt # 0
  BY DEF TypeOK, Return

\* The same for Continue, whose bundle must carry what the next step uses.
LEMMA ContinueType ==
    ASSUME TypeOK, NEW r \in Requests, NEW step \in {"pat", "refresh", "save"},
           NEW b \in Bundles \union {NoBundle}, Continue(r, step, b),
           step # "pat" => b \in Bundles /\ b.rt # 0
    PROVE  /\ pc' \in [Requests -> {"idle", "pat", "refresh", "save"}]
           /\ bundle' \in [Requests -> Bundles \union {NoBundle}]
           /\ answer' \in [Requests -> Answers]
           /\ \A s \in Requests : pc'[s] \in {"refresh", "save"} =>
                 bundle'[s] \in Bundles /\ bundle'[s].rt # 0
  BY BundleFacts DEF TypeOK, Continue

\* The identity provider's answer keeps the types of its variables.
LEMMA ReissueType ==
    ASSUME TypeOK, NEW x \in Ids, Reissue(x)
    PROVE  /\ issued' \in IdOrNone
           /\ issued + 1 \in Ids
           /\ grant' \in [Ids -> IdOrNone]
           /\ owner' \in [Ids -> Pairs]
           /\ live' \subseteq Ids
           /\ rotates' \in BOOLEAN
  BY ConstantsAssumption DEF TypeOK, Reissue, Ids, IdOrNone

\* The initial state has its types.
LEMMA TypeInit == Init => TypeOK
  BY BundleFacts, ConstantsAssumption DEF Init, TypeOK, Ids, IdOrNone

\* Every action keeps the types, one step of the proof per action.
LEMMA TypeStep == TypeOK /\ [Next]_vars => TypeOK'
  <1> SUFFICES ASSUME TypeOK, [Next]_vars PROVE TypeOK'
    OBVIOUS
  <1> USE DEF idpVars, callbackVars
  <1>1. ASSUME NEW r \in Requests, RejectIncomplete(r) PROVE TypeOK'
    <2>1. Only("invalid_request") \in Answers
      BY BundleFacts DEF AnswerKinds
    <2> QED
      BY <1>1, <2>1, ReturnType DEF RejectIncomplete, TypeOK
  <1>2. ASSUME NEW r \in Requests, NEW p \in Pairs, Lookup(r, p) PROVE TypeOK'
    <2> DEFINE b == store[SecretNameOf[p]]
    <2>1. b \in Bundles \union {NoBundle}
      BY ConstantsAssumption DEF TypeOK
    <2>2. CASE b = NoBundle /\ Continue(r, "pat", NoBundle)
      BY <1>2, <2>2, ContinueType DEF Lookup, TypeOK
    <2>3. CASE b # NoBundle /\ b.rt # 0 /\ Continue(r, "refresh", b)
      BY <1>2, <2>1, <2>3, ContinueType DEF Lookup, TypeOK
    <2>4. CASE b # NoBundle /\ Return(r, Bearer(b))
      BY <1>2, <2>1, <2>4, ReturnType, BundleFacts DEF Lookup, TypeOK
    <2> QED
      BY <1>2, <2>2, <2>3, <2>4 DEF Lookup
  <1>3. ASSUME NEW r \in Requests, NEW p \in Pairs, LookupFails(r, p) PROVE TypeOK'
    BY <1>3, ContinueType DEF LookupFails, TypeOK
  <1>4. ASSUME NEW r \in Requests, PatLookup(r) PROVE TypeOK'
    <2>1. PICK a \in Answers : Return(r, a)
      BY <1>4, BundleFacts DEF PatLookup, AnswerKinds
    <2> QED
      BY <1>4, <2>1, ReturnType DEF PatLookup, TypeOK
  <1>5. ASSUME NEW r \in Requests, Refresh(r) PROVE TypeOK'
    <2>1. bundle[r] \in Bundles /\ bundle[r].rt \in Ids
      BY <1>5 DEF Refresh, TypeOK, Bundles, Ids, IdOrNone
    <2>2. PICK lifetime \in ReportsExpiry :
             Continue(r, "save", Merged(bundle[r], issued + 1, lifetime))
      BY <1>5 DEF Refresh
    <2>3. /\ Merged(bundle[r], issued + 1, lifetime) \in Bundles
          /\ Merged(bundle[r], issued + 1, lifetime).rt # 0
      BY <1>5, <2>1, ReissueType DEF Refresh, Merged, Bundles, Ids, IdOrNone
    <2> QED
      BY <1>5, <2>1, <2>2, <2>3, ContinueType, ReissueType DEF Refresh, TypeOK
  <1>6. ASSUME NEW r \in Requests, RefreshAnswerLost(r) PROVE TypeOK'
    <2>1. bundle[r].rt \in Ids
      BY <1>6 DEF RefreshAnswerLost, TypeOK, Bundles, Ids, IdOrNone
    <2>2. Only("expired_credentials") \in Answers
      BY BundleFacts DEF AnswerKinds
    <2>3. faulted' \subseteq Names
      BY <1>6, ConstantsAssumption DEF RefreshAnswerLost, TypeOK, NameOf
    <2> QED
      BY <1>6, <2>1, <2>2, <2>3, ReturnType, ReissueType DEF RefreshAnswerLost, TypeOK
  <1>7. ASSUME NEW r \in Requests, RefreshFails(r) PROVE TypeOK'
    <2>1. Only("expired_credentials") \in Answers
      BY BundleFacts DEF AnswerKinds
    <2> QED
      BY <1>7, <2>1, ReturnType DEF RefreshFails, TypeOK
  <1>8. ASSUME NEW r \in Requests, SaveRefreshed(r) PROVE TypeOK'
    <2>1. bundle[r] \in Bundles
      BY <1>8 DEF SaveRefreshed, TypeOK
    <2> QED
      BY <1>8, <2>1, ReturnType, BundleFacts DEF SaveRefreshed, TypeOK
  <1>9. ASSUME NEW r \in Requests, SaveRefreshedFails(r) PROVE TypeOK'
    <2>1. bundle[r] \in Bundles
      BY <1>9 DEF SaveRefreshedFails, TypeOK
    <2>2. Only("expired_credentials") \in Answers
      BY BundleFacts DEF AnswerKinds
    <2>3. faulted' \subseteq Names
      BY <1>9, ConstantsAssumption DEF SaveRefreshedFails, TypeOK, NameOf
    <2>4. store' \in [Names -> Bundles \union {NoBundle}]
      BY <1>9, <2>1 DEF SaveRefreshedFails, TypeOK
    <2> QED
      BY <1>9, <2>2, <2>3, <2>4, ReturnType DEF SaveRefreshedFails, TypeOK
  <1>10. ASSUME NEW r \in Requests, Abort(r) PROVE TypeOK'
    <2>1. faulted' \subseteq Names
      BY <1>10, ConstantsAssumption DEF Abort, TypeOK, NameOf
    <2> QED
      BY <1>10, <2>1, ReturnType, BundleFacts DEF Abort, TypeOK
  <1>11. ASSUME NEW c \in Callbacks, NEW p \in Pairs, CallbackExchange(c, p)
         PROVE  TypeOK'
    <2>1. issued + 1 \in Ids /\ issued + 1 \in IdOrNone
      BY <1>11, ConstantsAssumption DEF CallbackExchange, TypeOK, Ids, IdOrNone
    <2>2. /\ live' \subseteq Ids
          /\ pending' \in [Callbacks -> Bundles \union {NoBundle}]
      <3> DEFINE n == issued + 1
                 new(refreshable, lifetime) ==
                    [at  |-> n,
                     rt  |-> IF refreshable THEN n ELSE 0,
                     exp |-> IF lifetime THEN n ELSE 0]
      <3>1. PICK refreshable \in BOOLEAN, lifetime \in ReportsExpiry :
               /\ live' = IF refreshable THEN live \union {n} ELSE live
               /\ pending' = [pending EXCEPT ![c] = new(refreshable, lifetime)]
        BY <1>11 DEF CallbackExchange
      <3>2. 0 \in IdOrNone
        BY ConstantsAssumption DEF IdOrNone
      <3>3. new(refreshable, lifetime) \in Bundles
        BY <2>1, <3>2 DEF Bundles
      <3>4. live' \subseteq Ids
        BY <2>1, <3>1 DEF TypeOK
      <3> HIDE DEF n, new
      <3> QED
        BY <3>1, <3>3, <3>4 DEF TypeOK
    <2> QED
      BY <1>11, <2>1, <2>2 DEF CallbackExchange, TypeOK
  <1>12. ASSUME NEW c \in Callbacks, CallbackSave(c) PROVE TypeOK'
    BY <1>12 DEF CallbackSave, TypeOK
  <1>13. ASSUME NEW c \in Callbacks, CallbackFails(c) PROVE TypeOK'
    BY <1>13 DEF CallbackFails, TypeOK
  <1>14. ASSUME NEW p \in Pairs, Revoke(p) PROVE TypeOK'
    BY <1>14 DEF Revoke, TypeOK
  <1>15. ASSUME NEW i \in Ids, Age(i) PROVE TypeOK'
    BY <1>15 DEF Age, TypeOK
  <1>16. CASE UNCHANGED vars
    BY <1>16 DEF vars, TypeOK
  <1> QED
    BY <1>1, <1>2, <1>3, <1>4, <1>5, <1>6, <1>7, <1>8, <1>9, <1>10, <1>11,
       <1>12, <1>13, <1>14, <1>15, <1>16 DEF Next, RequestStep

\* Every variable of the credential path always has its type.
THEOREM TypeCorrect == Spec => []TypeOK
  BY TypeInit, TypeStep, PTL DEF Spec

\* The identity provider rotates refresh tokens or keeps them, and does not change
\* its mind.
LEMMA RotatesStays == [Next]_vars => rotates' = rotates
  BY DEF Next, vars, idpVars, callbackVars, RequestStep, RejectIncomplete, Abort,
     Lookup, LookupFails, PatLookup, Refresh, RefreshAnswerLost, RefreshFails,
     SaveRefreshed, SaveRefreshedFails, Reissue, CallbackExchange, CallbackSave,
     CallbackFails, Revoke, Age

-------------------------------------------------------------------------------
(* What the two answers of the identity provider leave behind *)

\* An exchange leaves a bundle of one new token with the callback.
LEMMA ExchangeEffect ==
    ASSUME TypeOK, NEW c \in Callbacks, NEW p \in Pairs, CallbackExchange(c, p)
    PROVE  /\ issued' = issued + 1 /\ issued + 1 \in Ids
           /\ \E b : /\ pending' = [pending EXCEPT ![c] = b]
                     /\ b.at = issued + 1
                     /\ b.rt \in {0, issued + 1}
                     /\ live' = IF b.rt = 0 THEN live ELSE live \union {issued + 1}
                     /\ ReportsExpiry \subseteq {TRUE} => b.exp = b.at
  <1> DEFINE n == issued + 1
             new(refreshable, lifetime) ==
                [at  |-> n,
                 rt  |-> IF refreshable THEN n ELSE 0,
                 exp |-> IF lifetime THEN n ELSE 0]
  <1>1. issued' = n /\ n \in Ids
    BY ConstantsAssumption DEF CallbackExchange, TypeOK, Ids, IdOrNone
  <1>2. PICK refreshable \in BOOLEAN, lifetime \in ReportsExpiry :
           /\ live' = IF refreshable THEN live \union {n} ELSE live
           /\ pending' = [pending EXCEPT ![c] = new(refreshable, lifetime)]
    BY DEF CallbackExchange
  <1>3. live' = IF new(refreshable, lifetime).rt = 0 THEN live ELSE live \union {n}
    BY <1>1, <1>2 DEF Ids
  <1>4. ReportsExpiry \subseteq {TRUE} => new(refreshable, lifetime).exp = n
    OBVIOUS
  <1>5. new(refreshable, lifetime).at = n /\ new(refreshable, lifetime).rt \in {0, n}
    OBVIOUS
  <1> HIDE DEF new
  <1> QED
    BY <1>1, <1>2, <1>3, <1>4, <1>5

\* A refresh leaves the merged bundle, around one new token, with the request.
LEMMA RefreshEffect ==
    ASSUME TypeOK, NEW r \in Requests, Refresh(r)
    PROVE  /\ issued' = issued + 1 /\ issued + 1 \in Ids
           /\ bundle[r].rt \in live /\ bundle[r].rt \in Ids
           /\ pc[r] = "refresh" /\ pc' = [pc EXCEPT ![r] = "save"]
           /\ \E m : /\ bundle' = [bundle EXCEPT ![r] = m]
                     /\ m.at = issued + 1
                     /\ m.rt = IF rotates THEN issued + 1 ELSE bundle[r].rt
                     /\ ReportsExpiry \subseteq {TRUE} => m.exp = m.at
  <1>1. bundle[r].rt \in live /\ bundle[r].rt \in Ids
    BY DEF Refresh, Reissue, TypeOK
  <1>2. PICK lifetime \in ReportsExpiry :
           Continue(r, "save", Merged(bundle[r], issued + 1, lifetime))
    BY DEF Refresh
  <1> DEFINE m == Merged(bundle[r], issued + 1, lifetime)
  <1>3. /\ m.at = issued + 1
        /\ m.rt = IF rotates THEN issued + 1 ELSE bundle[r].rt
        /\ ReportsExpiry \subseteq {TRUE} => m.exp = m.at
    BY DEF Merged
  <1>4. issued' = issued + 1 /\ issued + 1 \in Ids
    BY <1>1, ReissueType DEF Refresh, Reissue
  <1>5. /\ bundle' = [bundle EXCEPT ![r] = m]
        /\ pc[r] = "refresh" /\ pc' = [pc EXCEPT ![r] = "save"]
    BY <1>2 DEF Refresh, Continue
  <1> HIDE DEF m
  <1> QED
    BY <1>1, <1>3, <1>4, <1>5

-------------------------------------------------------------------------------
(* A call returns the credential of the pair it was made for *)

\* Tokens issued so far keep their owner and their grant.
History ==
    /\ issued' \in Nat /\ issued <= issued'
    /\ \A i \in 1 .. issued : owner'[i] = owner[i] /\ grant'[i] = grant[i]

\* Every action keeps the owners and the grants of issued tokens.
LEMMA HistoryStep == ASSUME TypeOK, [Next]_vars PROVE History
  <1> USE DEF idpVars, callbackVars
  <1>1. CASE UNCHANGED <<issued, owner, grant>>
    BY <1>1, ConstantsAssumption DEF TypeOK, History, IdOrNone
  <1>2. ASSUME NEW x \in live, Reissue(x) PROVE History
    BY <1>2, ConstantsAssumption DEF TypeOK, History, Reissue, Ids, IdOrNone
  <1>3. ASSUME NEW c \in Callbacks, NEW p \in Pairs, CallbackExchange(c, p)
        PROVE  History
    BY <1>3, ConstantsAssumption DEF TypeOK, History, CallbackExchange, Ids, IdOrNone
  <1>4. ASSUME NEW r \in Requests, Refresh(r) \/ RefreshAnswerLost(r) PROVE History
    BY <1>2, <1>4 DEF Refresh, RefreshAnswerLost, Reissue
  <1> QED
    BY <1>1, <1>3, <1>4 DEF Next, RequestStep, vars, RejectIncomplete, Lookup,
       LookupFails, PatLookup, RefreshFails, SaveRefreshed, SaveRefreshedFails,
       Abort, CallbackSave, CallbackFails, Revoke, Age

\* Ownership outlasts a step.
NameAfter(i) == SecretNameOf[owner'[i]]

OwnedAfter(b, n) ==
    /\ b.at \in 1 .. issued'
    /\ NameAfter(b.at) = n
    /\ b.rt \in 0 .. issued'
    /\ b.rt # 0 => NameAfter(b.rt) = n

\* So what was owned before a step is owned after it.
LEMMA OwnedStays ==
    ASSUME TypeOK, History, NEW b, NEW n, OwnedBy(b, n)
    PROVE  OwnedAfter(b, n)
  BY DEF TypeOK, History, OwnedBy, OwnedAfter, NameFor, NameAfter, IdOrNone

\* Nobody has a token yet.
LEMMA OwnershipInit == Init => OwnershipInv
  BY ConstantsAssumption DEF Init, OwnershipInv, NoBundle, NoAnswer

\* A step keeps the invariant when whatever a bundle variable or an answer holds
\* afterwards is owned.
OwnershipAfter ==
    /\ \A n \in Names : store'[n].at # 0 => OwnedAfter(store'[n], n)
    /\ \A r \in Requests : bundle'[r].at # 0 => OwnedAfter(bundle'[r], SecretNameOf[pair'[r]])
    /\ \A c \in Callbacks : pending'[c].at # 0 => OwnedAfter(pending'[c], SecretNameOf[cbPair'[c]])
    /\ \A r \in Requests : answer'[r].kind = "bearer" =>
          answer'[r].token \in 1 .. issued' /\ NameAfter(answer'[r].token) = SecretNameOf[pair'[r]]

\* Every action hands a bundle only to a pair of the name it is owned by.
LEMMA OwnershipStep ==
    ASSUME TypeOK, OwnershipInv, [Next]_vars
    PROVE  OwnershipInv'
  <1> SUFFICES OwnershipAfter
    BY DEF OwnershipAfter, OwnershipInv, OwnedAfter, OwnedBy, NameFor, NameAfter, NameOf
  <1>0. History
    BY HistoryStep
  <1>s. \A n \in Names : store[n].at # 0 => OwnedAfter(store[n], n)
    BY <1>0, OwnedStays DEF OwnershipInv
  <1>b. \A r \in Requests : bundle[r].at # 0 => OwnedAfter(bundle[r], NameOf(r))
    BY <1>0, OwnedStays DEF OwnershipInv
  <1>c. \A c \in Callbacks : pending[c].at # 0 => OwnedAfter(pending[c], SecretNameOf[cbPair[c]])
    BY <1>0, OwnedStays DEF OwnershipInv
  <1>a. \A r \in Requests : answer[r].kind = "bearer" =>
           answer[r].token \in 1 .. issued' /\ NameAfter(answer[r].token) = NameOf(r)
    BY <1>0 DEF OwnershipInv, History, TypeOK, IdOrNone, NameFor, NameAfter
  <1>n. NoBundle.at = 0 /\ NoAnswer.kind # "bearer"
    BY DEF NoBundle, NoAnswer
  <1>k. \A kind \in AnswerKinds \ {"bearer"} : Only(kind).kind # "bearer"
    BY DEF Only
  <1> USE DEF idpVars, callbackVars
  <1> HIDE DEF NoBundle, NoAnswer
  <1>ret. ASSUME NEW r \in Requests, NEW a, Return(r, a), UNCHANGED pair,
                 a.kind = "bearer" =>
                    a.token \in 1 .. issued' /\ NameAfter(a.token) = NameOf(r)
          PROVE  /\ \A s \in Requests : bundle'[s].at # 0 => OwnedAfter(bundle'[s], SecretNameOf[pair'[s]])
                 /\ \A s \in Requests : answer'[s].kind = "bearer" =>
                       answer'[s].token \in 1 .. issued' /\ NameAfter(answer'[s].token) = SecretNameOf[pair'[s]]
    BY <1>b, <1>a, <1>n, <1>ret DEF Return, TypeOK, NameOf
  <1>1. ASSUME NEW r \in Requests, RejectIncomplete(r) PROVE OwnershipAfter
    <2>1. Only("invalid_request").kind # "bearer"
      BY <1>k DEF AnswerKinds
    <2> QED
      BY <1>1, <1>s, <1>c, <1>ret, <2>1 DEF RejectIncomplete, OwnershipAfter
  <1>2. ASSUME NEW r \in Requests, NEW p \in Pairs, Lookup(r, p) PROVE OwnershipAfter
    <2> DEFINE b == store[SecretNameOf[p]]
    <2>0. b.at # 0 => OwnedAfter(b, SecretNameOf[p])
      BY <1>s, ConstantsAssumption
    <2>1. b # NoBundle => b.at # 0
      BY ConstantsAssumption DEF TypeOK, Bundles, Ids
    <2>2. /\ bundle' = [bundle EXCEPT ![r] = b] \/ bundle' = [bundle EXCEPT ![r] = NoBundle]
          /\ \/ answer' = [answer EXCEPT ![r] = NoAnswer]
             \/ b # NoBundle /\ answer' = [answer EXCEPT ![r] = Bearer(b)]
      <3>1. CASE Continue(r, "pat", NoBundle) \/ Continue(r, "refresh", b)
        BY <3>1 DEF Continue
      <3>2. CASE b # NoBundle /\ Return(r, Bearer(b))
        BY <3>2 DEF Return
      <3> QED
        BY <1>2, <3>1, <3>2 DEF Lookup
    <2>3. \A s \in Requests : bundle'[s].at # 0 => OwnedAfter(bundle'[s], SecretNameOf[pair'[s]])
      BY <1>2, <1>b, <1>n, <2>0, <2>2 DEF Lookup, TypeOK, NameOf
    <2>4. ASSUME NEW s \in Requests, answer'[s].kind = "bearer"
          PROVE  answer'[s].token \in 1 .. issued' /\ NameAfter(answer'[s].token) = SecretNameOf[pair'[s]]
      <3>1. CASE s = r
        BY <1>2, <1>n, <2>0, <2>1, <2>2, <2>4, <3>1 DEF Lookup, TypeOK, Bearer, OwnedAfter, NameOf
      <3>2. CASE s # r
        BY <1>2, <1>a, <2>2, <2>4, <3>2 DEF Lookup, TypeOK, NameOf
      <3> QED
        BY <3>1, <3>2
    <2> QED
      BY <1>2, <1>s, <1>c, <2>3, <2>4 DEF Lookup, OwnershipAfter
  <1>3. ASSUME NEW r \in Requests, NEW p \in Pairs, LookupFails(r, p) PROVE OwnershipAfter
    BY <1>3, <1>s, <1>b, <1>c, <1>a, <1>n DEF LookupFails, Continue, TypeOK, OwnershipAfter, NameOf
  <1>4. ASSUME NEW r \in Requests, PatLookup(r) PROVE OwnershipAfter
    <2>1. PICK kind \in AnswerKinds \ {"bearer"} : Return(r, Only(kind))
      BY <1>4 DEF PatLookup, AnswerKinds
    <2>2. Only(kind).kind # "bearer"
      BY <1>k
    <2> QED
      BY <1>4, <1>s, <1>c, <1>ret, <2>1, <2>2 DEF PatLookup, OwnershipAfter
  <1>5. ASSUME NEW r \in Requests, Refresh(r) PROVE OwnershipAfter
    <2> DEFINE x == bundle[r].rt
               n == issued + 1
    <2>1. PICK lifetime \in ReportsExpiry : Continue(r, "save", Merged(bundle[r], n, lifetime))
      BY <1>5 DEF Refresh
    <2> DEFINE m == Merged(bundle[r], n, lifetime)
    <2>2. bundle[r].at # 0 /\ x # 0 /\ x \in Ids
      BY <1>5, ConstantsAssumption DEF Refresh, TypeOK, Bundles, Ids, IdOrNone
    <2>3. NameFor(x) = NameOf(r) /\ x \in 1 .. issued
      BY <2>2 DEF OwnershipInv, OwnedBy
    <2>4. /\ issued' = n
          /\ n \in Ids
          /\ NameAfter(n) = NameOf(r)
      BY <1>5, <2>2, <2>3, ReissueType DEF Refresh, Reissue, TypeOK, NameFor, NameAfter
    <2>5. NameAfter(x) = NameOf(r)
      BY <1>0, <2>3 DEF History, NameFor, NameAfter
    <2>6. OwnedAfter(m, NameOf(r))
      <3>1. m.at = n /\ m.rt \in {n, x}
        BY DEF Merged
      <3>2. issued \in Nat /\ issued <= n /\ n \in 1 .. n
        BY ConstantsAssumption DEF TypeOK, IdOrNone
      <3>3. x \in 1 .. n
        BY <2>3, <3>2
      <3> QED
        BY <2>4, <2>5, <3>1, <3>2, <3>3 DEF OwnedAfter
    <2>7. \A s \in Requests : bundle'[s].at # 0 => OwnedAfter(bundle'[s], SecretNameOf[pair'[s]])
      BY <1>5, <1>b, <2>1, <2>6 DEF Refresh, Continue, TypeOK, NameOf
    <2>8. \A s \in Requests : answer'[s].kind = "bearer" =>
             answer'[s].token \in 1 .. issued' /\ NameAfter(answer'[s].token) = SecretNameOf[pair'[s]]
      BY <1>5, <1>a, <1>n, <2>1 DEF Refresh, Continue, TypeOK, NameOf
    <2> QED
      BY <1>5, <1>s, <1>c, <2>7, <2>8 DEF Refresh, OwnershipAfter
  <1>6. ASSUME NEW r \in Requests, RefreshAnswerLost(r) \/ RefreshFails(r)
        PROVE  OwnershipAfter
    <2>1. Only("expired_credentials").kind # "bearer"
      BY <1>k DEF AnswerKinds
    <2> QED
      BY <1>6, <1>s, <1>c, <1>ret, <2>1 DEF RefreshAnswerLost, RefreshFails, OwnershipAfter
  <1>7. ASSUME NEW r \in Requests, SaveRefreshed(r) PROVE OwnershipAfter
    <2>1. bundle[r].at # 0
      BY <1>7, ConstantsAssumption DEF SaveRefreshed, TypeOK, Bundles, Ids
    <2>2. OwnedAfter(bundle[r], NameOf(r))
      BY <1>b, <2>1
    <2>3. Bearer(bundle[r]).token \in 1 .. issued' /\ NameAfter(Bearer(bundle[r]).token) = NameOf(r)
      BY <2>2 DEF OwnedAfter, Bearer
    <2>4. \A n \in Names : store'[n].at # 0 => OwnedAfter(store'[n], n)
      BY <1>7, <1>s, <2>2, ConstantsAssumption DEF SaveRefreshed, TypeOK, NameOf
    <2> QED
      BY <1>7, <1>c, <1>ret, <2>3, <2>4 DEF SaveRefreshed, OwnershipAfter
  <1>8. ASSUME NEW r \in Requests, SaveRefreshedFails(r) PROVE OwnershipAfter
    <2>1. bundle[r].at # 0
      BY <1>8, ConstantsAssumption DEF SaveRefreshedFails, TypeOK, Bundles, Ids
    <2>2. OwnedAfter(bundle[r], NameOf(r))
      BY <1>b, <2>1
    <2>3. Only("expired_credentials").kind # "bearer"
      BY <1>k DEF AnswerKinds
    <2>4. \A n \in Names : store'[n].at # 0 => OwnedAfter(store'[n], n)
      BY <1>8, <1>s, <2>2, ConstantsAssumption DEF SaveRefreshedFails, TypeOK, NameOf
    <2> QED
      BY <1>8, <1>c, <1>ret, <2>3, <2>4 DEF SaveRefreshedFails, OwnershipAfter
  <1>9. ASSUME NEW r \in Requests, Abort(r) PROVE OwnershipAfter
    BY <1>9, <1>s, <1>c, <1>ret, <1>n DEF Abort, OwnershipAfter
  <1>10. ASSUME NEW c \in Callbacks, NEW p \in Pairs, CallbackExchange(c, p)
         PROVE  OwnershipAfter
    <2> DEFINE n == issued + 1
    <2>1. n \in Ids /\ issued' = n /\ NameAfter(n) = SecretNameOf[p]
      BY <1>10, ExchangeEffect DEF CallbackExchange, TypeOK, NameAfter
    <2>2. PICK b : pending' = [pending EXCEPT ![c] = b] /\ b.at = n /\ b.rt \in {0, n}
      BY <1>10, ExchangeEffect
    <2>3. OwnedAfter(b, SecretNameOf[p])
      BY <2>1, <2>2 DEF OwnedAfter, Ids
    <2>4. \A d \in Callbacks : pending'[d].at # 0 => OwnedAfter(pending'[d], SecretNameOf[cbPair'[d]])
      BY <1>10, <1>c, <2>2, <2>3 DEF CallbackExchange, TypeOK
    <2> QED
      BY <1>10, <1>s, <1>b, <1>a, <2>4 DEF CallbackExchange, OwnershipAfter, NameOf
  <1>11. ASSUME NEW c \in Callbacks, CallbackSave(c) PROVE OwnershipAfter
    <2>1. OwnedAfter(pending[c], SecretNameOf[cbPair[c]])
      BY <1>11, <1>c, ConstantsAssumption DEF CallbackSave, TypeOK, Bundles, Ids
    <2>2. \A n \in Names : store'[n].at # 0 => OwnedAfter(store'[n], n)
      BY <1>11, <1>s, <2>1, ConstantsAssumption DEF CallbackSave, TypeOK
    <2> QED
      BY <1>11, <1>b, <1>c, <1>a, <1>n, <2>2 DEF CallbackSave, TypeOK, OwnershipAfter, NameOf
  <1>12. ASSUME NEW c \in Callbacks, CallbackFails(c) PROVE OwnershipAfter
    BY <1>12, <1>s, <1>b, <1>c, <1>a, <1>n DEF CallbackFails, TypeOK, OwnershipAfter, NameOf
  <1>13. ASSUME NEW p \in Pairs, Revoke(p) PROVE OwnershipAfter
    BY <1>13, <1>s, <1>b, <1>c, <1>a, <1>n, ConstantsAssumption
       DEF Revoke, TypeOK, OwnershipAfter, NameOf
  <1>14. ASSUME NEW i \in Ids, Age(i) PROVE OwnershipAfter
    BY <1>14, <1>s, <1>b, <1>c, <1>a DEF Age, OwnershipAfter, NameOf
  <1>15. CASE UNCHANGED vars
    BY <1>15, <1>s, <1>b, <1>c, <1>a DEF vars, OwnershipAfter, NameOf
  <1> QED
    BY <1>1, <1>2, <1>3, <1>4, <1>5, <1>6, <1>7, <1>8, <1>9, <1>10, <1>11,
       <1>12, <1>13, <1>14, <1>15 DEF Next, RequestStep

\* Every Bearer token a call returns was issued for a pair with the secret name
\* of the pair the call was made for (server.py:227, kv_stores.py:53-54).
CredentialOfTheName ==
    \A r \in Requests : answer[r].kind = "bearer" =>
        /\ answer[r].token \in 1 .. issued
        /\ SecretNameOf[owner[answer[r].token]] = SecretNameOf[pair[r]]

\* Whatever the secret names are: the store hands a token across to another pair
\* only if the two pairs share a name.
THEOREM CredentialOfTheNameHolds == Spec => []CredentialOfTheName
  <1>1. OwnershipInv => CredentialOfTheName
    BY DEF OwnershipInv, CredentialOfTheName, NameFor, NameOf
  <1>2. TypeOK /\ OwnershipInv /\ [Next]_vars => OwnershipInv'
    BY OwnershipStep
  <1> QED
    BY TypeCorrect, OwnershipInit, <1>1, <1>2, PTL DEF Spec

NamesApart == \A p, q \in Pairs : SecretNameOf[p] = SecretNameOf[q] => p = q

\* As long as different pairs have different secret names, every Bearer token a
\* call returns was issued to the pair the call was made for.
THEOREM OwnCredentialHolds == ASSUME NamesApart PROVE Spec => []OwnCredential
  <1>1. TypeOK /\ OwnershipInv => OwnCredential
    <2> SUFFICES ASSUME TypeOK, OwnershipInv, NEW r \in Requests,
                        answer[r].kind = "bearer"
                 PROVE  owner[answer[r].token] = pair[r]
      BY DEF OwnCredential
    <2>1. owner[answer[r].token] \in Pairs /\ pair[r] \in Pairs
      BY ConstantsAssumption DEF TypeOK, OwnershipInv, Ids, IdOrNone
    <2>2. SecretNameOf[owner[answer[r].token]] = SecretNameOf[pair[r]]
      BY DEF OwnershipInv, NameFor, NameOf
    <2> QED
      BY <2>1, <2>2 DEF NamesApart
  <1>2. TypeOK /\ OwnershipInv /\ [Next]_vars => OwnershipInv'
    BY OwnershipStep
  <1> QED
    BY TypeCorrect, OwnershipInit, <1>1, <1>2, PTL DEF Spec

-------------------------------------------------------------------------------
(* The refresh tokens: what a step can do to them                          *)
(*                                                                         *)
(* Most actions do the same thing to the refresh tokens: a request lets go *)
(* of its bundle, or a bundle is written.  The steps of the proof are the  *)
(* shapes below rather than the actions.                                   *)

tokenVars == <<store, issued, grant, live, pending>>

\* r lets go of its bundle, if it had one; if it was about to save a rotated
\* refresh token, that is a fault.
Drop(r) ==
    /\ \E step \in {"idle", "pat"} : pc' = [pc EXCEPT ![r] = step]
    /\ bundle' = [bundle EXCEPT ![r] = NoBundle]
    /\ \E p \in Pairs : pair' = [pair EXCEPT ![r] = p]
    /\ faulted \subseteq faulted'
    /\ rotates /\ pc[r] = "save" => NameOf(r) \in faulted'
    /\ UNCHANGED tokenVars

\* r has read a bundle it is going to refresh.
Start(r, p) ==
    /\ pc[r] = "idle"
    /\ store[SecretNameOf[p]] \in Bundles /\ store[SecretNameOf[p]].rt # 0
    /\ pc' = [pc EXCEPT ![r] = "refresh"]
    /\ bundle' = [bundle EXCEPT ![r] = store[SecretNameOf[p]]]
    /\ pair' = [pair EXCEPT ![r] = p]
    /\ UNCHANGED <<tokenVars, faulted>>

\* The refreshed bundle of r is in the store.
Save(r) ==
    /\ pc[r] = "save"
    /\ store' = [store EXCEPT ![NameOf(r)] = bundle[r]]
    /\ pc' = [pc EXCEPT ![r] = "idle"]
    /\ bundle' = [bundle EXCEPT ![r] = NoBundle]
    /\ faulted \subseteq faulted'
    /\ UNCHANGED <<issued, grant, live, pending, pair>>

Quiet == UNCHANGED <<tokenVars, pc, bundle, pair, faulted>>

Shape ==
    \/ \E r \in Requests : \/ Drop(r)
                           \/ Refresh(r)
                           \/ RefreshAnswerLost(r)
                           \/ Save(r)
    \/ \E r \in Requests, p \in Pairs : Start(r, p)
    \/ \E c \in Callbacks, p \in Pairs : CallbackExchange(c, p)
    \/ \E c \in Callbacks : CallbackSave(c) \/ CallbackFails(c)
    \/ \E p \in Pairs : Revoke(p)
    \/ Quiet

\* Every step has one of the shapes.
LEMMA StepShape == ASSUME TypeOK, [Next]_vars PROVE Shape
  <1> USE DEF idpVars, callbackVars, tokenVars
  <1>0. ASSUME NEW r \in Requests PROVE pair[r] \in Pairs /\ pair = [pair EXCEPT ![r] = pair[r]]
    BY DEF TypeOK
  <1>1. ASSUME NEW r \in Requests, RejectIncomplete(r) PROVE Drop(r)
    BY <1>0, <1>1 DEF RejectIncomplete, Return, Drop
  <1>2. ASSUME NEW r \in Requests, NEW p \in Pairs, Lookup(r, p)
        PROVE  Drop(r) \/ Start(r, p)
    <2> DEFINE b == store[SecretNameOf[p]]
    <2>1. CASE Continue(r, "pat", NoBundle)
      BY <1>2, <2>1 DEF Lookup, Continue, Drop
    <2>2. CASE b # NoBundle /\ b.rt # 0 /\ Continue(r, "refresh", b)
      <3>1. b \in Bundles
        BY <2>2, ConstantsAssumption DEF TypeOK
      <3> QED
        BY <1>2, <2>2, <3>1 DEF Lookup, Continue, Start
    <2>3. CASE Return(r, Bearer(b))
      BY <1>2, <2>3 DEF Lookup, Return, Drop
    <2> QED
      BY <1>2, <2>1, <2>2, <2>3 DEF Lookup
  <1>3. ASSUME NEW r \in Requests, NEW p \in Pairs, LookupFails(r, p) PROVE Drop(r)
    BY <1>3 DEF LookupFails, Continue, Drop
  <1>4. ASSUME NEW r \in Requests, PatLookup(r) PROVE Drop(r)
    BY <1>0, <1>4 DEF PatLookup, Return, Drop
  <1>5. ASSUME NEW r \in Requests, RefreshFails(r) PROVE Drop(r)
    BY <1>0, <1>5 DEF RefreshFails, Return, Drop
  <1>6. ASSUME NEW r \in Requests, SaveRefreshed(r) PROVE Save(r)
    BY <1>6 DEF SaveRefreshed, Return, Save
  <1>7. ASSUME NEW r \in Requests, SaveRefreshedFails(r) PROVE Save(r) \/ Drop(r)
    <2>1. CASE store' = [store EXCEPT ![NameOf(r)] = bundle[r]]
      BY <1>7, <2>1 DEF SaveRefreshedFails, Return, Save
    <2>2. CASE UNCHANGED store
      BY <1>0, <1>7, <2>2 DEF SaveRefreshedFails, Return, Drop
    <2> QED
      BY <1>7, <2>1, <2>2 DEF SaveRefreshedFails
  <1>8. ASSUME NEW r \in Requests, Abort(r) PROVE Drop(r)
    BY <1>0, <1>8 DEF Abort, Return, Drop
  <1>9. (\E i \in Ids : Age(i)) \/ UNCHANGED vars => Quiet
    BY DEF Age, vars, Quiet
  <1> QED
    BY <1>1, <1>2, <1>3, <1>4, <1>5, <1>6, <1>7, <1>8, <1>9 DEF Next, RequestStep, Shape

-------------------------------------------------------------------------------

\* Types of what the lemmas below look at.
LEMMA TokenFacts ==
    ASSUME TypeOK
    PROVE  /\ NoBundle.rt = 0 /\ NoBundle.at = 0
           /\ issued \in Nat /\ MaxTokens \in Nat
           /\ \A r \in Savers \union Refreshers : bundle[r] \in Bundles /\ bundle[r].rt # 0
           /\ \A b \in Bundles : b.at \in Nat \ {0} /\ b.rt \in Nat
           /\ \A r \in Requests : NameOf(r) \in Names
           /\ \A p \in Pairs : SecretNameOf[p] \in Names
  BY ConstantsAssumption
     DEF TypeOK, NoBundle, Savers, Refreshers, Bundles, Ids, IdOrNone, NameOf

\* Bundles after a step refer to tokens issued by then.
KnownAfter(b) ==
    /\ b.at \in 1 .. issued'
    /\ b.rt \in 0 .. issued'
    /\ b.rt # 0 => grant'[b.rt] = grant'[b.at]

\* What was known before a step is known after it.
LEMMA KnownStays ==
    ASSUME TypeOK, History, NEW b, Known(b)
    PROVE  KnownAfter(b)
  BY TokenFacts DEF History, Known, KnownAfter

\* Every shape keeps KnownInv: new bundles are about new tokens.
LEMMA KnownStep ==
    ASSUME TypeOK, KnownInv, [Next]_vars
    PROVE  KnownInv'
  <1> DEFINE After ==
        /\ live' \subseteq 1 .. issued'
        /\ \A i \in 1 .. issued' : grant'[i] <= issued'
        /\ \A n \in Names : store'[n] # NoBundle => KnownAfter(store'[n])
        /\ \A r \in Requests : bundle'[r] # NoBundle => KnownAfter(bundle'[r])
        /\ \A c \in Callbacks : pending'[c] # NoBundle => KnownAfter(pending'[c])
  <1> SUFFICES After
    BY DEF KnownInv, Known, KnownAfter
  <1>0. History
    BY HistoryStep
  <1>l. live \subseteq 1 .. issued'
    BY <1>0, TokenFacts DEF History, KnownInv
  <1>g. \A i \in 1 .. issued' : grant'[i] <= issued'
    <2>1. CASE UNCHANGED <<issued, grant>>
      BY <2>1 DEF KnownInv
    <2>2. ASSUME NEW r \in Requests, Refresh(r) \/ RefreshAnswerLost(r)
          PROVE  \A i \in 1 .. issued' : grant'[i] <= issued'
      <3>1. bundle[r].rt \in 1 .. issued /\ Reissue(bundle[r].rt)
        BY <2>2 DEF Refresh, RefreshAnswerLost, Reissue, KnownInv
      <3> QED
        BY <3>1, TokenFacts, ConstantsAssumption
           DEF Reissue, KnownInv, TypeOK, Ids, IdOrNone
    <2>3. ASSUME NEW c \in Callbacks, NEW p \in Pairs, CallbackExchange(c, p)
          PROVE  \A i \in 1 .. issued' : grant'[i] <= issued'
      BY <2>3, TokenFacts, ConstantsAssumption
         DEF CallbackExchange, KnownInv, TypeOK, Ids, IdOrNone
    <2> QED
      BY <2>1, <2>2, <2>3, StepShape DEF Shape, Drop, Save, Start, Quiet, CallbackSave,
         CallbackFails, Revoke, idpVars, tokenVars
  <1>s. \A n \in Names : store[n] # NoBundle => KnownAfter(store[n])
    BY <1>0, KnownStays DEF KnownInv
  <1>b. \A r \in Requests : bundle[r] # NoBundle => KnownAfter(bundle[r])
    BY <1>0, KnownStays DEF KnownInv
  <1>c. \A c \in Callbacks : pending[c] # NoBundle => KnownAfter(pending[c])
    BY <1>0, KnownStays DEF KnownInv
  <1> USE DEF idpVars, callbackVars, tokenVars
  <1> HIDE DEF NoBundle
  <1>1. ASSUME NEW r \in Requests, Drop(r) PROVE After
    BY <1>1, <1>l, <1>g, <1>s, <1>b, <1>c DEF Drop, TypeOK
  <1>2. ASSUME NEW r \in Requests, Refresh(r) PROVE After
    <2> DEFINE x == bundle[r].rt
               n == issued + 1
    <2>1. PICK lifetime \in ReportsExpiry : Continue(r, "save", Merged(bundle[r], n, lifetime))
      BY <1>2 DEF Refresh
    <2> DEFINE m == Merged(bundle[r], n, lifetime)
    <2>2. x # 0 /\ Known(bundle[r]) /\ x \in Ids
      BY <1>2, TokenFacts, BundleFacts DEF Refresh, Refreshers, KnownInv, TypeOK, Known,
         Ids, Bundles, IdOrNone
    <2>3. issued' = n /\ n \in Ids /\ n \in 1 .. n /\ issued \in Nat
      BY <1>2, <2>2, ReissueType, TokenFacts DEF Refresh, Reissue, Ids
    <2>4. grant'[n] = grant[x] /\ grant'[x] = grant[x] /\ x \in 1 .. n
      BY <1>0, <1>2, <2>2, <2>3 DEF Refresh, Reissue, TypeOK, Known, History
    <2>5. KnownAfter(m)
      <3>1. m.at = n /\ m.rt \in {n, x}
        BY DEF Merged
      <3> QED
        BY <2>3, <2>4, <3>1 DEF KnownAfter
    <2>6. live' \subseteq 1 .. issued'
      BY <1>2, <1>l, <2>3 DEF Refresh, Reissue
    <2>7. \A s \in Requests : bundle'[s] # NoBundle => KnownAfter(bundle'[s])
      BY <1>b, <2>1, <2>5 DEF Continue, TypeOK
    <2> QED
      BY <1>2, <1>g, <1>s, <1>c, <2>6, <2>7 DEF Refresh
  <1>3. ASSUME NEW r \in Requests, RefreshAnswerLost(r) PROVE After
    <2>1. live' \subseteq 1 .. issued'
      BY <1>3, <1>l, TokenFacts DEF RefreshAnswerLost, Reissue
    <2> QED
      BY <1>3, <1>g, <1>s, <1>b, <1>c, <2>1 DEF RefreshAnswerLost, Return, TypeOK
  <1>4. ASSUME NEW r \in Requests, Save(r) PROVE After
    <2>1. KnownAfter(bundle[r])
      BY <1>4, <1>b, BundleFacts, TokenFacts DEF Save, Savers
    <2> QED
      BY <1>4, <1>l, <1>g, <1>s, <1>b, <1>c, <2>1, TokenFacts DEF Save, TypeOK
  <1>5. ASSUME NEW r \in Requests, NEW p \in Pairs, Start(r, p) PROVE After
    <2>1. KnownAfter(store[SecretNameOf[p]])
      BY <1>5, <1>s, BundleFacts, TokenFacts DEF Start
    <2> QED
      BY <1>5, <1>l, <1>g, <1>s, <1>b, <1>c, <2>1 DEF Start, TypeOK
  <1>6. ASSUME NEW c \in Callbacks, NEW p \in Pairs, CallbackExchange(c, p) PROVE After
    <2> DEFINE n == issued + 1
    <2>1. issued' = n /\ n \in 1 .. n
      BY <1>6, TokenFacts DEF CallbackExchange
    <2>2. PICK b : pending' = [pending EXCEPT ![c] = b] /\ b.at = n /\ b.rt \in {0, n}
      BY <1>6, ExchangeEffect
    <2>3. KnownAfter(b)
      BY <2>1, <2>2, TokenFacts DEF KnownAfter
    <2>4. live' \subseteq 1 .. issued'
      BY <1>6, <1>l, <2>1 DEF CallbackExchange
    <2>5. \A d \in Callbacks : pending'[d] # NoBundle => KnownAfter(pending'[d])
      BY <1>c, <2>2, <2>3 DEF TypeOK
    <2> QED
      BY <1>6, <1>g, <1>s, <1>b, <2>4, <2>5 DEF CallbackExchange
  <1>7. ASSUME NEW c \in Callbacks, CallbackSave(c) PROVE After
    BY <1>7, <1>l, <1>g, <1>s, <1>b, <1>c DEF CallbackSave, TypeOK
  <1>8. ASSUME NEW c \in Callbacks, CallbackFails(c) PROVE After
    BY <1>8, <1>l, <1>g, <1>s, <1>b, <1>c DEF CallbackFails, TypeOK
  <1>9. ASSUME NEW p \in Pairs, Revoke(p) PROVE After
    BY <1>9, <1>l, <1>g, <1>s, <1>b, <1>c DEF Revoke, TypeOK
  <1>10. CASE Quiet
    BY <1>10, <1>l, <1>g, <1>s, <1>b, <1>c DEF Quiet
  <1> QED
    BY <1>1, <1>2, <1>3, <1>4, <1>5, <1>6, <1>7, <1>8, <1>9, <1>10, StepShape DEF Shape

-------------------------------------------------------------------------------

\* Every shape keeps HeldLiveInv: a refresh cannot kill what another one holds.
LEMMA HeldLiveStep ==
    ASSUME TypeOK, TypeOK', HeldLiveInv, ExclusiveInv, KnownInv, [Next]_vars
    PROVE  HeldLiveInv'
  <1> USE DEF idpVars, callbackVars, tokenVars
  <1> HIDE DEF NoBundle
  <1>1. ASSUME NEW r \in Requests, Drop(r) PROVE HeldLiveInv'
    BY <1>1 DEF Drop, HeldLiveInv, Savers, TypeOK
  <1>2. ASSUME NEW r \in Requests, Refresh(r) PROVE HeldLiveInv'
    <2> DEFINE x == bundle[r].rt
    <2>1. /\ x \in live /\ r \in Refreshers
          /\ pc' = [pc EXCEPT ![r] = "save"]
      BY <1>2, RefreshEffect DEF Refreshers
    <2>2. PICK m : bundle' = [bundle EXCEPT ![r] = m]
                   /\ m.rt = IF rotates THEN issued + 1 ELSE x
      BY <1>2, RefreshEffect
    <2>3. live' = IF rotates THEN (live \ {x}) \union {issued + 1} ELSE live
      BY <1>2 DEF Refresh, Reissue
    <2>4. ASSUME NEW s \in Savers' PROVE bundle'[s].rt \in live'
      <3>1. CASE s = r
        BY <2>1, <2>2, <2>3, <3>1 DEF TypeOK
      <3>2. CASE s # r
        BY <2>1, <2>2, <2>3, <3>2 DEF TypeOK, HeldLiveInv, ExclusiveInv, Unseen, Savers
      <3> QED
        BY <3>1, <3>2
    <2>5. ASSUME NEW c \in Callbacks PROVE pending'[c].rt \in live' \union {0}
      BY <1>2, <2>1, <2>3 DEF Refresh, HeldLiveInv, ExclusiveInv, Unseen
    <2> QED
      BY <2>4, <2>5 DEF HeldLiveInv
  <1>3. ASSUME NEW r \in Requests, RefreshAnswerLost(r) PROVE HeldLiveInv'
    <2> DEFINE x == bundle[r].rt
    <2>1. r \in Refreshers /\ r \notin Savers
      BY <1>3 DEF RefreshAnswerLost, Refreshers, Savers
    <2>2. live \ {x} \subseteq live' /\ (~rotates => live \subseteq live')
      BY <1>3 DEF RefreshAnswerLost, Reissue
    <2>3. \A s \in Savers' : s \in Savers /\ bundle'[s] = bundle[s]
      BY <1>3, <2>1 DEF RefreshAnswerLost, Return, Savers, TypeOK
    <2> QED
      BY <1>3, <2>1, <2>2, <2>3 DEF RefreshAnswerLost, HeldLiveInv, ExclusiveInv, Unseen
  <1>4. ASSUME NEW r \in Requests, Save(r) PROVE HeldLiveInv'
    BY <1>4 DEF Save, HeldLiveInv, Savers, TypeOK
  <1>5. ASSUME NEW r \in Requests, NEW p \in Pairs, Start(r, p) PROVE HeldLiveInv'
    BY <1>5 DEF Start, HeldLiveInv, Savers, TypeOK
  <1>6. ASSUME NEW c \in Callbacks, NEW p \in Pairs, CallbackExchange(c, p)
        PROVE  HeldLiveInv'
    <2>1. PICK b : /\ pending' = [pending EXCEPT ![c] = b]
                   /\ b.rt \in {0, issued + 1}
                   /\ live' = IF b.rt = 0 THEN live ELSE live \union {issued + 1}
      BY <1>6, ExchangeEffect
    <2> QED
      BY <1>6, <2>1 DEF CallbackExchange, HeldLiveInv, Savers, TypeOK
  <1>7. ASSUME NEW c \in Callbacks, CallbackSave(c) \/ CallbackFails(c) PROVE HeldLiveInv'
    BY <1>7, TokenFacts DEF CallbackSave, CallbackFails, HeldLiveInv, Savers, TypeOK
  <1>8. ASSUME NEW p \in Pairs, Revoke(p) PROVE HeldLiveInv'
    BY <1>8 DEF Revoke, HeldLiveInv, Savers
  <1>9. CASE Quiet
    BY <1>9 DEF Quiet, HeldLiveInv, Savers
  <1> QED
    BY <1>1, <1>2, <1>3, <1>4, <1>5, <1>6, <1>7, <1>8, <1>9, StepShape DEF Shape

\* Every shape keeps HeadInv: rotation moves the head of a grant along.
LEMMA HeadStep ==
    ASSUME TypeOK, KnownInv, HeadInv, [Next]_vars
    PROVE  HeadInv'
  <1> SUFFICES ASSUME rotates, NEW i \in live', NEW j \in 1 .. issued', grant'[i] = grant'[j]
               PROVE  j <= i
    BY RotatesStays DEF HeadInv
  <1> USE DEF idpVars, callbackVars, tokenVars
  <1>1. CASE UNCHANGED <<issued, grant, live>>
    BY <1>1 DEF HeadInv
  <1>2. ASSUME NEW x \in live, Reissue(x) PROVE j <= i
    <2> DEFINE n == issued + 1
    <2>1. x \in Ids /\ x \in 1 .. issued /\ issued \in Nat
      BY TokenFacts DEF KnownInv, TypeOK
    <2>2. /\ issued' = n /\ n \in Ids
          /\ live' = (live \ {x}) \union {n}
          /\ grant' = [grant EXCEPT ![n] = grant[x]]
      BY <1>2, <2>1, ReissueType DEF Reissue
    <2>3. CASE i = n
      BY <2>1, <2>2, <2>3
    <2>4. CASE i # n
      <3>1. i \in live /\ i # x /\ i \in 1 .. issued
        BY <2>2, <2>4 DEF KnownInv
      <3>2. grant'[i] = grant[i]
        BY <2>1, <2>2, <3>1 DEF TypeOK, Ids
      <3>3. CASE j = n
        \* i and x are both live in one grant
        <4>1. grant[i] = grant[x]
          BY <2>2, <3>2, <3>3 DEF TypeOK
        <4>2. i <= x /\ x <= i
          BY <2>1, <3>1, <4>1 DEF HeadInv
        <4> QED
          BY <2>1, <3>1, <4>2
      <3>4. CASE j # n
        <4>1. j \in 1 .. issued
          BY <2>1, <2>2, <3>4
        <4>2. grant'[j] = grant[j]
          BY <2>1, <2>2, <3>4, <4>1, ConstantsAssumption DEF TypeOK, Ids, IdOrNone
        <4> QED
          BY <3>1, <3>2, <4>1, <4>2 DEF HeadInv
      <3> QED
        BY <3>3, <3>4
    <2> QED
      BY <2>3, <2>4
  <1>3. ASSUME NEW c \in Callbacks, NEW p \in Pairs, CallbackExchange(c, p) PROVE j <= i
    <2> DEFINE n == issued + 1
    <2>1. issued' = n /\ n \in Ids /\ issued \in Nat /\ live' \subseteq live \union {n}
      BY <1>3, ExchangeEffect, TokenFacts
    <2>2. grant' = [grant EXCEPT ![n] = n]
      BY <1>3 DEF CallbackExchange
    <2>3. CASE i = n
      BY <2>1, <2>3
    <2>4. CASE i # n
      <3>1. i \in live /\ i \in 1 .. issued
        BY <2>1, <2>4 DEF KnownInv
      <3>2. grant'[i] = grant[i]
        BY <2>1, <2>2, <3>1 DEF TypeOK, Ids
      <3>3. CASE j # n
        <4>1. j \in 1 .. issued /\ j \in Ids
          BY <2>1, <3>3, TokenFacts DEF Ids
        <4>2. grant'[j] = grant[j]
          BY <2>1, <2>2, <3>3, <4>1 DEF TypeOK
        <4> QED
          BY <3>1, <3>2, <4>1, <4>2 DEF HeadInv
      <3>4. CASE j = n
        BY <2>1, <2>2, <3>1, <3>2, <3>4 DEF TypeOK, KnownInv
      <3> QED
        BY <3>3, <3>4
    <2> QED
      BY <2>3, <2>4
  <1>4. ASSUME NEW r \in Requests, Refresh(r) \/ RefreshAnswerLost(r) PROVE j <= i
    BY <1>2, <1>4 DEF Refresh, RefreshAnswerLost, Reissue
  <1> QED
    BY <1>1, <1>3, <1>4, StepShape DEF Shape, Drop, Save, Start, Quiet, CallbackSave,
       CallbackFails, Revoke

\* Every shape keeps ExclusiveInv: a rotated token has one holder until saved.
LEMMA ExclusiveStep ==
    ASSUME TypeOK, TypeOK', KnownInv, ExclusiveInv, [Next]_vars
    PROVE  ExclusiveInv'
  <1> SUFFICES ASSUME rotates, rotates' PROVE ExclusiveInv'
    BY RotatesStays DEF ExclusiveInv
  <1> USE DEF idpVars, callbackVars, tokenVars
  <1> HIDE DEF NoBundle
  <1>x. /\ \A r \in Savers : Unseen(bundle[r].rt)
        /\ \A r, s \in Savers : bundle[r].rt = bundle[s].rt => r = s
        /\ \A r \in Savers, c \in Callbacks : pending[c].rt # bundle[r].rt
        /\ \A c \in Callbacks : pending[c].rt # 0 => Unseen(pending[c].rt)
        /\ \A c, d \in Callbacks : pending[c].rt # 0 /\ pending[c].rt = pending[d].rt => c = d
        /\ \A m, n \in Names : store[m].rt # 0 /\ store[m].rt = store[n].rt => m = n
        /\ \A r \in Refreshers, n \in Names :
              store[n].rt = bundle[r].rt => n = NameOf(r)
    BY DEF ExclusiveInv
  \* the next token number has been seen nowhere
  <1>n. LET n == issued + 1 IN
        /\ Unseen(n)
        /\ \A r \in Requests : bundle[r].rt # n
        /\ \A c \in Callbacks : pending[c].rt # n
    BY TokenFacts DEF Unseen, KnownInv, Known, Refreshers
  <1>1. ASSUME NEW r \in Requests, Drop(r) PROVE ExclusiveInv'
    <2>1. /\ Savers' \subseteq Savers \ {r} /\ Refreshers' \subseteq Refreshers \ {r}
          /\ \A s \in Requests \ {r} : bundle'[s] = bundle[s] /\ NameOf(s)' = NameOf(s)
      BY <1>1 DEF Drop, Savers, Refreshers, NameOf, TypeOK
    <2> QED
      BY <1>1, <1>x, <2>1 DEF Drop, ExclusiveInv, Unseen, Savers, Refreshers
  <1>2. ASSUME NEW r \in Requests, Refresh(r) PROVE ExclusiveInv'
    <2> DEFINE n == issued + 1
    <2>1. PICK m : bundle' = [bundle EXCEPT ![r] = m] /\ m.rt = n
      BY <1>2, RefreshEffect
    <2>2. /\ Savers' = Savers \union {r} /\ Refreshers' = Refreshers \ {r}
          /\ \A s \in Requests \ {r} : bundle'[s] = bundle[s]
          /\ bundle'[r].rt = n
          /\ \A s \in Requests : NameOf(s)' = NameOf(s)
          /\ r \notin Savers
      <3>1. pc[r] = "refresh" /\ pc' = [pc EXCEPT ![r] = "save"] /\ UNCHANGED pair
        BY <1>2, RefreshEffect DEF Refresh
      <3>2. r \notin Savers /\ Savers' = Savers \union {r} /\ Refreshers' = Refreshers \ {r}
        BY <3>1 DEF Savers, Refreshers, TypeOK
      <3> QED
        BY <2>1, <3>1, <3>2 DEF NameOf, TypeOK
    <2>3. UNCHANGED <<store, pending>>
      BY <1>2 DEF Refresh
    <2>4. \A s \in Savers' : Unseen(bundle[s].rt)' /\ \A c \in Callbacks : pending'[c].rt # bundle'[s].rt
      BY <1>x, <1>n, <2>2, <2>3 DEF Unseen, Savers, Refreshers
    <2>5. \A s, t \in Savers' : bundle'[s].rt = bundle'[t].rt => s = t
      BY <1>x, <1>n, <2>2 DEF Savers
    <2>6. \A c \in Callbacks : pending'[c].rt # 0 => Unseen(pending[c].rt)'
      BY <1>x, <2>2, <2>3 DEF Unseen, Refreshers
    <2>7. \A s \in Refreshers', k \in Names : store'[k].rt = bundle'[s].rt => k = NameOf(s)'
      BY <1>x, <2>2, <2>3 DEF Refreshers
    <2> QED
      BY <1>x, <2>3, <2>4, <2>5, <2>6, <2>7 DEF ExclusiveInv
  <1>3. ASSUME NEW r \in Requests, RefreshAnswerLost(r) PROVE ExclusiveInv'
    <2>1. /\ Savers' \subseteq Savers \ {r} /\ Refreshers' \subseteq Refreshers \ {r}
          /\ \A s \in Requests \ {r} : bundle'[s] = bundle[s] /\ NameOf(s)' = NameOf(s)
          /\ UNCHANGED <<store, pending>>
      BY <1>3 DEF RefreshAnswerLost, Return, Savers, Refreshers, NameOf, TypeOK
    <2> QED
      BY <1>x, <2>1 DEF ExclusiveInv, Unseen, Savers, Refreshers
  <1>4. ASSUME NEW r \in Requests, Save(r) PROVE ExclusiveInv'
    <2> DEFINE x == bundle[r].rt
    <2>1. /\ r \in Savers
          /\ Savers' = Savers \ {r} /\ Refreshers' = Refreshers
          /\ \A s \in Savers' \union Refreshers' : bundle'[s] = bundle[s] /\ s # r
          /\ \A s \in Requests : NameOf(s)' = NameOf(s)
          /\ UNCHANGED pending
      BY <1>4 DEF Save, Savers, Refreshers, NameOf, TypeOK
    <2>2. \A k \in Names : store'[k].rt = IF k = NameOf(r) THEN x ELSE store[k].rt
      BY <1>4 DEF Save, TypeOK
    <2>3. /\ \A s \in Savers' : Unseen(bundle[s].rt)'
          /\ \A c \in Callbacks : pending'[c].rt # 0 => Unseen(pending[c].rt)'
      BY <1>x, <2>1, <2>2 DEF Unseen
    <2>4. \A k, l \in Names : store'[k].rt # 0 /\ store'[k].rt = store'[l].rt => k = l
      BY <1>x, <2>1, <2>2 DEF Unseen
    <2>5. \A s \in Refreshers', k \in Names : store'[k].rt = bundle'[s].rt => k = NameOf(s)'
      BY <1>x, <2>1, <2>2 DEF Unseen, Refreshers
    <2> QED
      BY <1>x, <2>1, <2>3, <2>4, <2>5 DEF ExclusiveInv
  <1>5. ASSUME NEW r \in Requests, NEW p \in Pairs, Start(r, p) PROVE ExclusiveInv'
    <2> DEFINE k == SecretNameOf[p]
    <2>1. k \in Names /\ store[k].rt # 0
      BY <1>5, TokenFacts DEF Start
    <2>2. /\ Savers' = Savers /\ Refreshers' = Refreshers \union {r}
          /\ r \notin Savers /\ r \notin Refreshers
          /\ \A s \in Requests \ {r} : bundle'[s] = bundle[s] /\ NameOf(s)' = NameOf(s)
          /\ bundle'[r] = store[k] /\ NameOf(r)' = k
          /\ UNCHANGED <<store, pending>>
      BY <1>5 DEF Start, Savers, Refreshers, NameOf, TypeOK
    <2>3. /\ \A s \in Savers' : Unseen(bundle[s].rt)'
          /\ \A c \in Callbacks : pending'[c].rt # 0 => Unseen(pending[c].rt)'
      BY <1>x, <2>1, <2>2 DEF Unseen, Savers, Refreshers
    <2>4. \A s \in Refreshers', l \in Names : store'[l].rt = bundle'[s].rt => l = NameOf(s)'
      BY <1>x, <2>1, <2>2 DEF Refreshers
    <2>5. /\ \A s, t \in Savers' : bundle'[s].rt = bundle'[t].rt => s = t
          /\ \A s \in Savers', c \in Callbacks : pending'[c].rt # bundle'[s].rt
      BY <1>x, <2>2 DEF Savers
    <2> QED
      BY <1>x, <2>2, <2>3, <2>4, <2>5 DEF ExclusiveInv
  <1>6. ASSUME NEW c \in Callbacks, NEW p \in Pairs, CallbackExchange(c, p)
        PROVE  ExclusiveInv'
    <2> DEFINE n == issued + 1
    <2>1. PICK b : pending' = [pending EXCEPT ![c] = b] /\ b.rt \in {0, n}
      BY <1>6, ExchangeEffect
    <2>2. /\ \A d \in Callbacks \ {c} : pending'[d] = pending[d]
          /\ pending'[c].rt \in {0, n}
          /\ UNCHANGED <<store, bundle, Savers, Refreshers>>
          /\ \A s \in Requests : NameOf(s)' = NameOf(s)
      BY <1>6, <2>1 DEF CallbackExchange, TypeOK, Savers, Refreshers, NameOf
    <2>3. \A d \in Callbacks : pending'[d].rt # 0 => Unseen(pending[d].rt)'
      BY <1>x, <1>n, <2>2 DEF Unseen
    <2>4. \A s \in Savers' : bundle'[s].rt # 0
      BY <2>2, TokenFacts
    <2>5. /\ \A s \in Savers : Unseen(bundle[s].rt)'
          /\ \A s \in Savers, d \in Callbacks : pending'[d].rt # bundle[s].rt
      BY <1>x, <1>n, <2>2, <2>4 DEF Unseen, Savers
    <2>6. \A d, e \in Callbacks :
             pending'[d].rt # 0 /\ pending'[d].rt = pending'[e].rt => d = e
      BY <1>x, <1>n, <2>2
    <2> QED
      BY <1>x, <2>2, <2>3, <2>5, <2>6 DEF ExclusiveInv, Refreshers
  <1>7. ASSUME NEW c \in Callbacks, CallbackSave(c) PROVE ExclusiveInv'
    <2> DEFINE x == pending[c].rt
               k == SecretNameOf[cbPair[c]]
    <2>1. /\ \A d \in Callbacks \ {c} : pending'[d] = pending[d]
          /\ pending'[c].rt = 0
          /\ UNCHANGED <<bundle, Savers, Refreshers>>
          /\ \A s \in Requests : NameOf(s)' = NameOf(s)
      BY <1>7, TokenFacts DEF CallbackSave, TypeOK, Savers, Refreshers, NameOf
    <2>2. \A l \in Names : store'[l].rt = IF l = k THEN x ELSE store[l].rt
      BY <1>7 DEF CallbackSave, TypeOK
    <2>3. \A s \in Savers \union Refreshers : bundle[s].rt # 0
      BY TokenFacts
    <2>4. \A s \in Savers : Unseen(bundle[s].rt)'
      BY <1>x, <2>1, <2>2 DEF Unseen
    <2>5. \A d \in Callbacks : pending'[d].rt # 0 => Unseen(pending[d].rt)'
      BY <1>x, <2>1, <2>2 DEF Unseen
    <2>6. \A l, m \in Names : store'[l].rt # 0 /\ store'[l].rt = store'[m].rt => l = m
      BY <1>x, <2>2 DEF Unseen
    <2>7. \A s \in Refreshers, l \in Names : store'[l].rt = bundle[s].rt => l = NameOf(s)'
      BY <1>x, <2>1, <2>2, <2>3 DEF Unseen, Refreshers
    <2>8. /\ \A s \in Savers, d \in Callbacks : pending'[d].rt # bundle[s].rt
          /\ \A d, e \in Callbacks :
                pending'[d].rt # 0 /\ pending'[d].rt = pending'[e].rt => d = e
      BY <1>x, <2>1, <2>3
    <2> QED
      BY <1>x, <2>1, <2>4, <2>5, <2>6, <2>7, <2>8 DEF ExclusiveInv
  <1>8. ASSUME NEW c \in Callbacks, CallbackFails(c) PROVE ExclusiveInv'
    <2>1. /\ \A d \in Callbacks : pending'[d] = pending[d] \/ pending'[d].rt = 0
          /\ UNCHANGED <<store, bundle, Savers, Refreshers>>
          /\ \A s \in Requests : NameOf(s)' = NameOf(s)
      BY <1>8, TokenFacts DEF CallbackFails, TypeOK, Savers, Refreshers, NameOf
    <2>2. \A s \in Savers : bundle[s].rt # 0
      BY TokenFacts
    <2> QED
      BY <1>x, <2>1, <2>2 DEF ExclusiveInv, Unseen, Refreshers
  <1>9. ASSUME NEW p \in Pairs, Revoke(p) PROVE ExclusiveInv'
    <2>1. /\ \A l \in Names : store'[l].rt \in {0, store[l].rt}
          /\ UNCHANGED <<pending, bundle, Savers, Refreshers>>
          /\ \A s \in Requests : NameOf(s)' = NameOf(s)
      BY <1>9, TokenFacts DEF Revoke, TypeOK, Savers, Refreshers, NameOf
    <2>2. \A s \in Savers \union Refreshers : bundle[s].rt # 0
      BY TokenFacts
    <2> QED
      BY <1>x, <2>1, <2>2 DEF ExclusiveInv, Unseen, Refreshers
  <1>10. CASE Quiet
    <2>1. UNCHANGED <<store, pending, bundle, Savers, Refreshers>>
          /\ \A s \in Requests : NameOf(s)' = NameOf(s)
      BY <1>10 DEF Quiet, Savers, Refreshers, NameOf
    <2> QED
      BY <1>x, <2>1 DEF ExclusiveInv, Unseen, Refreshers
  <1> QED
    BY <1>1, <1>2, <1>3, <1>4, <1>5, <1>6, <1>7, <1>8, <1>9, <1>10, StepShape DEF Shape

\* Every shape keeps FixedInv: without rotation no refresh token ever dies.
LEMMA FixedStep ==
    ASSUME TypeOK, TypeOK', KnownInv, HeldLiveInv, FixedInv, [Next]_vars
    PROVE  FixedInv'
  <1> SUFFICES ASSUME ~rotates, ~rotates' PROVE FixedInv'
    BY RotatesStays DEF FixedInv
  <1> DEFINE OriginalAfter(b) == b.rt # 0 => b.rt \in live' /\ b.rt = grant'[b.at]
             After ==
                /\ \A n \in Names : OriginalAfter(store'[n])
                /\ \A r \in Requests : OriginalAfter(bundle'[r])
                /\ \A c \in Callbacks : OriginalAfter(pending'[c])
  <1> SUFFICES After
    BY DEF FixedInv, Original
  <1> USE DEF idpVars, callbackVars, tokenVars
  <1> HIDE DEF NoBundle
  <1>0. History
    BY HistoryStep
  <1>i. NoBundle.rt = 0
    BY TokenFacts
  <1>l. live \subseteq live'
    <2>1. ASSUME NEW r \in Requests, Refresh(r) \/ RefreshAnswerLost(r)
          PROVE  live \subseteq live'
      BY <2>1 DEF Refresh, RefreshAnswerLost, Reissue
    <2>2. ASSUME NEW c \in Callbacks, NEW p \in Pairs, CallbackExchange(c, p)
          PROVE  live \subseteq live'
      BY <2>2 DEF CallbackExchange
    <2> QED
      BY <2>1, <2>2, StepShape DEF Shape, Drop, Save, Start, Quiet, CallbackSave,
         CallbackFails, Revoke
  \* what was original stays so
  <1>o. ASSUME NEW b, b = NoBundle \/ Known(b), Original(b) PROVE OriginalAfter(b)
    BY <1>0, <1>i, <1>l, <1>o DEF Original, Known, History
  <1>s. \A n \in Names : OriginalAfter(store[n])
    BY <1>o DEF KnownInv, FixedInv
  <1>b. \A r \in Requests : OriginalAfter(bundle[r])
    BY <1>o DEF KnownInv, FixedInv
  <1>c. \A c \in Callbacks : OriginalAfter(pending[c])
    BY <1>o DEF KnownInv, FixedInv
  <1>1. ASSUME NEW r \in Requests, Drop(r) PROVE After
    BY <1>1, <1>i, <1>s, <1>b, <1>c DEF Drop, TypeOK
  <1>2. ASSUME NEW r \in Requests, Refresh(r) PROVE After
    <2> DEFINE x == bundle[r].rt
               n == issued + 1
    <2>1. PICK m : bundle' = [bundle EXCEPT ![r] = m] /\ m.at = n /\ m.rt = x
      BY <1>2, RefreshEffect
    <2>2. bundle[r] \in Bundles /\ x # 0 /\ x \in live
      BY <1>2, RefreshEffect, TokenFacts DEF Refreshers
    <2>3. grant'[n] = grant[x] /\ x = grant[bundle[r].at] /\ grant[x] = grant[bundle[r].at]
      <3>1. bundle[r] # NoBundle
        BY <2>2, BundleFacts
      <3>2. grant'[n] = grant[x]
        BY <1>2, RefreshEffect DEF Refresh, Reissue, TypeOK
      <3> QED
        BY <2>2, <3>1, <3>2 DEF KnownInv, Known, FixedInv, Original
    <2>4. OriginalAfter(m)
      BY <1>l, <2>1, <2>2, <2>3
    <2>5. \A s \in Requests : OriginalAfter(bundle'[s])
      BY <1>b, <2>1, <2>4 DEF TypeOK
    <2> HIDE DEF OriginalAfter
    <2> QED
      BY <1>2, <1>s, <1>c, <2>5 DEF Refresh
  <1>3. ASSUME NEW r \in Requests, RefreshAnswerLost(r) PROVE After
    BY <1>3, <1>i, <1>s, <1>b, <1>c DEF RefreshAnswerLost, Return, TypeOK
  <1>4. ASSUME NEW r \in Requests, Save(r) PROVE After
    BY <1>4, <1>i, <1>s, <1>b, <1>c DEF Save, TypeOK
  <1>5. ASSUME NEW r \in Requests, NEW p \in Pairs, Start(r, p) PROVE After
    BY <1>5, <1>s, <1>b, <1>c, TokenFacts DEF Start, TypeOK
  <1>6. ASSUME NEW c \in Callbacks, NEW p \in Pairs, CallbackExchange(c, p) PROVE After
    <2> DEFINE n == issued + 1
    <2>1. PICK b : /\ pending' = [pending EXCEPT ![c] = b]
                   /\ b.at = n
                   /\ b.rt \in {0, n}
                   /\ live' = IF b.rt = 0 THEN live ELSE live \union {n}
      BY <1>6, ExchangeEffect
    <2>2. grant'[n] = n
      BY <1>6, ExchangeEffect DEF CallbackExchange, TypeOK
    <2>3. OriginalAfter(b)
      BY <2>1, <2>2
    <2>4. \A d \in Callbacks : OriginalAfter(pending'[d])
      BY <1>c, <2>1, <2>3 DEF TypeOK
    <2> HIDE DEF OriginalAfter
    <2> QED
      BY <1>6, <1>s, <1>b, <2>4 DEF CallbackExchange
  <1>7. ASSUME NEW c \in Callbacks, CallbackSave(c) \/ CallbackFails(c) PROVE After
    BY <1>7, <1>i, <1>s, <1>b, <1>c DEF CallbackSave, CallbackFails, TypeOK
  <1>8. ASSUME NEW p \in Pairs, Revoke(p) PROVE After
    BY <1>8, <1>i, <1>s, <1>b, <1>c DEF Revoke, TypeOK
  <1>9. CASE Quiet
    BY <1>9, <1>s, <1>b, <1>c DEF Quiet
  <1> QED
    BY <1>1, <1>2, <1>3, <1>4, <1>5, <1>6, <1>7, <1>8, <1>9, StepShape DEF Shape

\* Every shape keeps StrandedOnlyByFault, given the four invariants.
LEMMA StrandedStep ==
    ASSUME TypeOK, TypeOK', KnownInv, HeldLiveInv, ExclusiveInv, FixedInv,
           StrandedOnlyByFault, [Next]_vars
    PROVE  StrandedOnlyByFault'
  <1> SUFFICES ASSUME NEW n \in Names
               PROVE  \/ store'[n].rt \in live' \union {0}
                      \/ n \in faulted'
                      \/ \E r \in Savers' : NameOf(r)' = n
    BY DEF StrandedOnlyByFault, Savers
  <1> DEFINE Goal == \/ store'[n].rt \in live' \union {0}
                     \/ n \in faulted'
                     \/ \E r \in Savers' : NameOf(r)' = n
  <1> USE DEF idpVars, callbackVars, tokenVars
  <1> HIDE DEF NoBundle
  <1>s. \/ store[n].rt \in live \union {0}
        \/ n \in faulted
        \/ \E r \in Savers : NameOf(r) = n
    BY DEF StrandedOnlyByFault, Savers
  <1>f. ~rotates => store[n].rt \in live \union {0}
    BY DEF FixedInv, Original
  <1>1. ASSUME NEW r \in Requests, Drop(r) PROVE Goal
    <2>1. \A s \in Savers \ {r} : s \in Savers' /\ NameOf(s)' = NameOf(s)
      BY <1>1 DEF Drop, Savers, NameOf, TypeOK
    <2>2. rotates /\ r \in Savers => NameOf(r) \in faulted'
      BY <1>1 DEF Drop, Savers
    <2> QED
      BY <1>1, <1>s, <1>f, <2>1, <2>2 DEF Drop
  <1>2. ASSUME NEW r \in Requests, Refresh(r) \/ RefreshAnswerLost(r) PROVE Goal
    <2> DEFINE x == bundle[r].rt
    <2>1. r \in Refreshers /\ r \notin Savers
      BY <1>2 DEF Refresh, RefreshAnswerLost, Refreshers, Savers
    <2>2. /\ \A s \in Savers : s \in Savers' /\ NameOf(s)' = NameOf(s)
          /\ NameOf(r)' = NameOf(r)
          /\ faulted \subseteq faulted'
          /\ UNCHANGED store
      BY <1>2, <2>1 DEF Refresh, RefreshAnswerLost, Continue, Return, Savers, NameOf, TypeOK
    <2>3. live \ {x} \subseteq live' /\ (~rotates => live \subseteq live')
      BY <1>2 DEF Refresh, RefreshAnswerLost, Reissue
    <2>4. CASE rotates /\ store[n].rt = x
      <3>1. n = NameOf(r)
        BY <2>1, <2>4 DEF ExclusiveInv
      <3>2. r \in Savers' \/ NameOf(r) \in faulted'
        BY <1>2, <2>4 DEF Refresh, RefreshAnswerLost, Continue, Savers, TypeOK
      <3> QED
        BY <2>2, <3>1, <3>2
    <2> QED
      BY <1>s, <1>f, <2>2, <2>3, <2>4
  <1>3. ASSUME NEW r \in Requests, Save(r) PROVE Goal
    <2>1. \A s \in Savers \ {r} : s \in Savers' /\ NameOf(s)' = NameOf(s)
      BY <1>3 DEF Save, Savers, NameOf, TypeOK
    <2>2. CASE n = NameOf(r)
      BY <1>3, <2>2 DEF Save, TypeOK, HeldLiveInv, Savers
    <2>3. CASE n # NameOf(r)
      BY <1>3, <1>s, <2>1, <2>3 DEF Save, TypeOK
    <2> QED
      BY <2>2, <2>3
  <1>4. ASSUME NEW r \in Requests, NEW p \in Pairs, Start(r, p) PROVE Goal
    <2>1. \A s \in Savers : s \in Savers' /\ NameOf(s)' = NameOf(s)
      BY <1>4 DEF Start, Savers, NameOf, TypeOK
    <2> QED
      BY <1>4, <1>s, <2>1 DEF Start
  <1>5. ASSUME NEW c \in Callbacks, NEW p \in Pairs, CallbackExchange(c, p) PROVE Goal
    <2>1. \A s \in Savers : s \in Savers' /\ NameOf(s)' = NameOf(s)
      BY <1>5 DEF CallbackExchange, Savers, NameOf
    <2>2. live \subseteq live'
      BY <1>5 DEF CallbackExchange
    <2> QED
      BY <1>5, <1>s, <2>1, <2>2 DEF CallbackExchange
  <1>6. ASSUME NEW c \in Callbacks, CallbackSave(c) \/ CallbackFails(c) PROVE Goal
    <2>1. \A s \in Savers : s \in Savers' /\ NameOf(s)' = NameOf(s)
      BY <1>6 DEF CallbackSave, CallbackFails, Savers, NameOf
    <2>2. store'[n].rt \in {store[n].rt} \union {pending[c].rt}
      BY <1>6 DEF CallbackSave, CallbackFails, TypeOK
    <2> QED
      BY <1>6, <1>s, <2>1, <2>2 DEF CallbackSave, CallbackFails, HeldLiveInv
  <1>7. ASSUME NEW p \in Pairs, Revoke(p) PROVE Goal
    <2>1. \A s \in Savers : s \in Savers' /\ NameOf(s)' = NameOf(s)
      BY <1>7 DEF Revoke, Savers, NameOf
    <2>2. store'[n].rt \in {0, store[n].rt}
      BY <1>7, TokenFacts DEF Revoke, TypeOK
    <2> QED
      BY <1>7, <1>s, <2>1, <2>2 DEF Revoke
  <1>8. CASE Quiet
    <2>1. \A s \in Savers : s \in Savers' /\ NameOf(s)' = NameOf(s)
      BY <1>8 DEF Quiet, Savers, NameOf
    <2> QED
      BY <1>8, <1>s, <2>1 DEF Quiet
  <1> QED
    BY <1>1, <1>2, <1>3, <1>4, <1>5, <1>6, <1>7, <1>8, StepShape DEF Shape

\* The whole invariant holds at first.
LEMMA ChainInit == Init => ChainInv
  <1> SUFFICES ASSUME Init PROVE ChainInv
    OBVIOUS
  <1>1. TypeOK
    BY TypeInit
  <1>2. /\ \A n \in Names : store[n] = NoBundle
        /\ \A r \in Requests : bundle[r] = NoBundle
        /\ \A c \in Callbacks : pending[c] = NoBundle
        /\ Savers = {} /\ Refreshers = {} /\ live = {} /\ issued = 0
    BY DEF Init, Savers, Refreshers
  <1>3. NoBundle.rt = 0
    BY DEF NoBundle
  <1>4. KnownInv /\ HeldLiveInv /\ HeadInv
    BY <1>2, <1>3 DEF KnownInv, HeldLiveInv, HeadInv
  <1>5. ExclusiveInv /\ FixedInv /\ StrandedOnlyByFault
    BY <1>2, <1>3 DEF ExclusiveInv, FixedInv, Original, StrandedOnlyByFault
  <1> QED
    BY <1>1, <1>4, <1>5 DEF ChainInv

\* Every step keeps the whole invariant.
LEMMA ChainStep == ChainInv /\ [Next]_vars => ChainInv'
  BY TypeStep, KnownStep, HeldLiveStep, HeadStep, ExclusiveStep, FixedStep, StrandedStep
     DEF ChainInv

\* The invariant behind the theorems on refresh tokens.
LEMMA ChainHolds == Spec => []ChainInv
  BY ChainInit, ChainStep, PTL DEF Spec

\* Overlapping refreshes alone never leave a dead refresh token in the store.
THEOREM StrandedOnlyByFaultHolds == Spec => []StrandedOnlyByFault
  <1>1. ChainInv => StrandedOnlyByFault
    BY DEF ChainInv
  <1> QED
    BY ChainHolds, <1>1, PTL

-------------------------------------------------------------------------------
NoStepBack ==
    \A n \in Names :
       (/\ store[n].rt # 0
        /\ store'[n].rt # 0
        /\ grant[store[n].at] = grant[store'[n].at])
       => store'[n].rt >= store[n].rt

\* No single step puts an older refresh token of the same grant back.
LEMMA NoStepBackStep ==
    ASSUME ChainInv, [Next]_vars
    PROVE  NoStepBack
  <1> USE DEF ChainInv
  <1> SUFFICES ASSUME NEW n \in Names,
                      store[n].rt # 0, store'[n].rt # 0,
                      grant[store[n].at] = grant[store'[n].at]
               PROVE  store'[n].rt >= store[n].rt
    BY DEF NoStepBack
  <1>n. store[n] \in Bundles /\ store[n].rt \in Nat
    BY TokenFacts DEF TypeOK
  \* a bundle that replaces another one of its grant carries a live token, the
  \* last one of the grant
  <1>h. ASSUME NEW b, b \in Bundles, Known(b), b.rt \in live, ~rotates => Original(b),
               grant[store[n].at] = grant[b.at]
        PROVE  b.rt >= store[n].rt
    <2>1. Known(store[n])
      BY <1>n, BundleFacts DEF KnownInv
    <2>0. b.rt # 0 /\ b.rt \in Nat
      BY <1>h, TokenFacts DEF TypeOK, Ids
    <2>2. grant[store[n].rt] = grant[b.rt] /\ store[n].rt \in 1 .. issued
      BY <1>h, <1>n, <2>0, <2>1, TokenFacts DEF Known
    <2>3. CASE rotates
      BY <1>h, <2>2, <2>3, <1>n, TokenFacts DEF HeadInv
    <2>4. CASE ~rotates
      <3>1. store[n].rt = grant[store[n].at] /\ b.rt = grant[b.at]
        BY <1>h, <2>0, <2>4 DEF FixedInv, Original
      <3> QED
        BY <1>h, <1>n, <2>0, <3>1
    <2> QED
      BY <2>3, <2>4
  <1>1. CASE store'[n] = store[n]
    BY <1>1, <1>n
  <1>2. ASSUME NEW r \in Requests, Save(r), store'[n] = bundle[r]
        PROVE  store'[n].rt >= store[n].rt
    <2>1. /\ r \in Savers /\ bundle[r] \in Bundles /\ Known(bundle[r])
          /\ bundle[r].rt \in live
      BY <1>2, TokenFacts, BundleFacts DEF Save, Savers, KnownInv, HeldLiveInv
    <2>2. ~rotates => Original(bundle[r])
      BY DEF FixedInv
    <2> QED
      BY <1>h, <1>2, <2>1, <2>2
  <1>3. ASSUME NEW c \in Callbacks, CallbackSave(c), store'[n] = pending[c]
        PROVE  store'[n].rt >= store[n].rt
    <2>1. /\ pending[c] \in Bundles /\ Known(pending[c])
          /\ pending[c].rt \in live
      BY <1>3, BundleFacts DEF CallbackSave, TypeOK, KnownInv, HeldLiveInv
    <2>2. ~rotates => Original(pending[c])
      BY DEF FixedInv
    <2> QED
      BY <1>h, <1>3, <2>1, <2>2
  <1>4. ASSUME NEW r \in Requests, Save(r) PROVE store'[n] \in {store[n], bundle[r]}
    BY <1>4 DEF Save, TypeOK
  <1>5. ASSUME NEW c \in Callbacks, CallbackSave(c)
        PROVE  store'[n] \in {store[n], pending[c]}
    BY <1>5 DEF CallbackSave, TypeOK
  <1>6. ASSUME NEW p \in Pairs, Revoke(p) PROVE store'[n] = store[n]
    BY <1>6, TokenFacts DEF Revoke, TypeOK
  <1>7. CASE UNCHANGED store
    BY <1>1, <1>7
  <1> QED
    BY <1>1, <1>2, <1>3, <1>4, <1>5, <1>6, <1>7, StepShape
       DEF Shape, Drop, Refresh, RefreshAnswerLost, Start, CallbackExchange,
           CallbackFails, Quiet, tokenVars

\* Of two overlapping refreshes of one authorization, the later token stays.
THEOREM RefreshNeverGoesBackHolds == Spec => RefreshNeverGoesBack
  <1>1. ChainInv /\ [Next]_vars => [NoStepBack]_vars
    BY NoStepBackStep
  <1>2. Spec => [][NoStepBack]_vars
    BY ChainHolds, <1>1, PTL DEF Spec
  <1> QED
    BY <1>2 DEF NoStepBack, RefreshNeverGoesBack

-------------------------------------------------------------------------------
(* A refresh token is not lost to a bundle without one *)

\* Something stored, or carried by a request, descends from authorization g.
HeldGrant(g) ==
    \/ \E n \in Names : store[n] # NoBundle /\ grant[store[n].at] = g
    \/ \E r \in Requests : bundle[r] # NoBundle /\ grant[bundle[r].at] = g

\* What a callback is about to save is an authorization of its own; one without a
\* refresh token has left nothing anywhere yet.
FreshInv ==
    /\ \A c \in Callbacks : pending[c] # NoBundle => grant[pending[c].at] = pending[c].at
    /\ \A c, d \in Callbacks :
          pending[c] # NoBundle /\ pending[d] # NoBundle /\ pending[c].at = pending[d].at => c = d
    /\ \A c \in Callbacks :
          pending[c] # NoBundle /\ pending[c].rt = 0 => ~HeldGrant(pending[c].at)

\* A step that begins no authorization, and gives only what a callback lets go of a
\* new place, keeps FreshInv.
LEMMA FreshKept ==
    ASSUME TypeOK, KnownInv, FreshInv, History,
           \A c \in Callbacks : pending'[c] \in {pending[c], NoBundle},
           \A g : HeldGrant(g)' => \/ HeldGrant(g)
                                   \/ \E c \in Callbacks : /\ pending[c] # NoBundle
                                                           /\ pending'[c] = NoBundle
                                                           /\ pending[c].at = g
    PROVE  FreshInv'
  <1> HIDE DEF NoBundle
  <1>1. ASSUME NEW c \in Callbacks, pending'[c] # NoBundle
        PROVE  /\ pending'[c] = pending[c] /\ pending[c] # NoBundle
               /\ grant'[pending[c].at] = pending[c].at
    <2>1. pending'[c] = pending[c] /\ Known(pending[c])
      BY <1>1 DEF KnownInv
    <2> QED
      BY <1>1, <2>1 DEF FreshInv, History, Known
  <1>2. \A c \in Callbacks : pending'[c] # NoBundle => grant'[pending'[c].at] = pending'[c].at
    BY <1>1
  <1>3. \A c, d \in Callbacks :
           pending'[c] # NoBundle /\ pending'[d] # NoBundle /\ pending'[c].at = pending'[d].at
           => c = d
    BY <1>1 DEF FreshInv
  <1>4. ASSUME NEW c \in Callbacks, pending'[c] # NoBundle, pending'[c].rt = 0
        PROVE  ~HeldGrant(pending[c].at)'
    <2> DEFINE g == pending[c].at
    <2>1. pending'[c] = pending[c] /\ pending[c] # NoBundle /\ ~HeldGrant(g)
      BY <1>1, <1>4 DEF FreshInv
    <2>2. ~\E d \in Callbacks : pending[d] # NoBundle /\ pending'[d] = NoBundle /\ pending[d].at = g
      BY <1>4, <2>1 DEF FreshInv
    <2>3. PICK h : h = g
      OBVIOUS
    <2> HIDE DEF g
    <2>4. ~HeldGrant(h)'
      BY <2>1, <2>2, <2>3
    <2>5. h = pending'[c].at
      BY <2>1, <2>3 DEF g
    <2> QED
      BY <2>4, <2>5 DEF HeldGrant
  <1> QED
    BY <1>2, <1>3, <1>4 DEF FreshInv

\* Every shape keeps FreshInv: new grants are only begun by exchanges.
LEMMA FreshStep ==
    ASSUME TypeOK, KnownInv, FreshInv, [Next]_vars
    PROVE  FreshInv'
  <1> USE DEF idpVars, callbackVars, tokenVars
  <1> HIDE DEF NoBundle
  <1>0. History
    BY HistoryStep
  <1>s. \A n \in Names : store[n] # NoBundle =>
            grant'[store[n].at] = grant[store[n].at] /\ HeldGrant(grant[store[n].at])
    BY <1>0 DEF KnownInv, Known, History, HeldGrant
  <1>b. \A r \in Requests : bundle[r] # NoBundle =>
            grant'[bundle[r].at] = grant[bundle[r].at] /\ HeldGrant(grant[bundle[r].at])
    BY <1>0 DEF KnownInv, Known, History, HeldGrant
  <1> DEFINE Same == /\ \A c \in Callbacks : pending'[c] \in {pending[c], NoBundle}
                     /\ \A g : HeldGrant(g)' => HeldGrant(g)
  <1>x. Same => FreshInv'
    BY <1>0, FreshKept
  <1>h. ASSUME \A n \in Names : store'[n] # NoBundle => HeldGrant(grant'[store'[n].at]),
               \A r \in Requests : bundle'[r] # NoBundle => HeldGrant(grant'[bundle'[r].at])
        PROVE  \A g : HeldGrant(g)' => HeldGrant(g)
    <2>1. ASSUME NEW CONSTANT g, HeldGrant(g)' PROVE HeldGrant(g)
      <3>1. \/ \E n \in Names : store'[n] # NoBundle /\ grant'[store'[n].at] = g
            \/ \E r \in Requests : bundle'[r] # NoBundle /\ grant'[bundle'[r].at] = g
        BY <2>1 DEF HeldGrant
      <3> QED
        BY <1>h, <3>1
    <2> QED
      BY <2>1
  <1>1. ASSUME NEW r \in Requests, Drop(r) PROVE FreshInv'
    <2>1. \A s \in Requests : bundle'[s] \in {bundle[s], NoBundle}
      BY <1>1 DEF Drop, TypeOK
    <2> QED
      BY <1>1, <2>1, <1>s, <1>b, <1>h, <1>x DEF Drop
  <1>2. ASSUME NEW r \in Requests, Refresh(r) PROVE FreshInv'
    <2> DEFINE x == bundle[r].rt
               n == issued + 1
    <2>1. PICK m : bundle' = [bundle EXCEPT ![r] = m] /\ m.at = n
      BY <1>2, RefreshEffect
    <2>2. bundle[r] # NoBundle /\ x # 0 /\ Known(bundle[r])
      BY <1>2, TokenFacts, BundleFacts DEF Refresh, Refreshers, KnownInv
    <2>3. grant' = [grant EXCEPT ![n] = grant[x]] /\ n \in Ids
      BY <1>2, RefreshEffect DEF Refresh, Reissue
    <2>4. grant'[m.at] = grant[bundle[r].at]
      BY <2>1, <2>2, <2>3 DEF TypeOK, Known
    <2>5. \A s \in Requests : bundle'[s] # NoBundle => HeldGrant(grant'[bundle'[s].at])
      BY <1>b, <2>1, <2>2, <2>4 DEF TypeOK
    <2> QED
      BY <1>2, <2>5, <1>s, <1>h, <1>x DEF Refresh
  <1>3. ASSUME NEW r \in Requests, RefreshAnswerLost(r) PROVE FreshInv'
    <2>1. \A s \in Requests : bundle'[s] \in {bundle[s], NoBundle}
      BY <1>3 DEF RefreshAnswerLost, Return, TypeOK
    <2> QED
      BY <1>3, <2>1, <1>s, <1>b, <1>h, <1>x DEF RefreshAnswerLost
  <1>4. ASSUME NEW r \in Requests, Save(r) PROVE FreshInv'
    <2>1. bundle[r] # NoBundle
      BY <1>4, TokenFacts, BundleFacts DEF Save, Savers
    <2>2. \A n \in Names : store'[n] \in {store[n], bundle[r]}
      BY <1>4 DEF Save, TypeOK
    <2>3. \A s \in Requests : bundle'[s] \in {bundle[s], NoBundle}
      BY <1>4 DEF Save, TypeOK
    <2> QED
      BY <1>4, <2>1, <2>2, <2>3, <1>s, <1>b, <1>h, <1>x DEF Save
  <1>5. ASSUME NEW r \in Requests, NEW p \in Pairs, Start(r, p) PROVE FreshInv'
    <2>1. \A s \in Requests : bundle'[s] \in {bundle[s], store[SecretNameOf[p]]}
      BY <1>5 DEF Start, TypeOK
    <2>2. SecretNameOf[p] \in Names
      BY TokenFacts
    <2> QED
      BY <1>5, <2>1, <2>2, <1>s, <1>b, <1>h, <1>x DEF Start
  <1>6. ASSUME NEW c \in Callbacks, NEW p \in Pairs, CallbackExchange(c, p) PROVE FreshInv'
    <2> DEFINE n == issued + 1
    <2>1. PICK b : pending' = [pending EXCEPT ![c] = b] /\ b.at = n
      BY <1>6, ExchangeEffect
    <2>2. /\ issued \in Nat /\ n \in Ids /\ grant' = [grant EXCEPT ![n] = n]
          /\ UNCHANGED <<store, bundle>>
      BY <1>6, ExchangeEffect, TokenFacts DEF CallbackExchange
    <2>3. grant'[n] = n
      BY <2>2 DEF TypeOK
    <2>4. \A i \in 1 .. issued : grant[i] # n
      BY <2>2, ConstantsAssumption DEF KnownInv, TypeOK, Ids, IdOrNone
    <2>5. \A g : HeldGrant(g)' <=> HeldGrant(g)
      BY <2>2, <1>s, <1>b DEF HeldGrant
    <2>6. ~HeldGrant(n)
      BY <2>4 DEF HeldGrant, KnownInv, Known
    <2>7. ASSUME NEW d \in Callbacks, d # c, pending[d] # NoBundle
          PROVE  /\ pending'[d] = pending[d] /\ pending[d].at # n
                 /\ grant'[pending[d].at] = pending[d].at
      BY <1>0, <2>1, <2>2, <2>7 DEF TypeOK, KnownInv, Known, FreshInv, History
    <2>8. pending'[c] = b /\ \A d \in Callbacks \ {c} : pending'[d] = pending[d]
      BY <2>1 DEF TypeOK
    <2>9. \A d \in Callbacks : pending'[d] # NoBundle => grant'[pending'[d].at] = pending'[d].at
      BY <2>1, <2>3, <2>7, <2>8
    <2>10. \A d, e \in Callbacks :
             pending'[d] # NoBundle /\ pending'[e] # NoBundle /\ pending'[d].at = pending'[e].at
             => d = e
      BY <2>1, <2>7, <2>8 DEF FreshInv
    <2>11. ASSUME NEW d \in Callbacks, pending'[d] # NoBundle, pending'[d].rt = 0
           PROVE  ~HeldGrant(pending[d].at)'
      <3>1. ~HeldGrant(pending'[d].at)
        BY <2>1, <2>6, <2>8, <2>11 DEF FreshInv
      <3>2. PICK h : h = pending'[d].at
        OBVIOUS
      <3>3. ~HeldGrant(h)'
        BY <2>5, <3>1, <3>2
      <3> QED
        BY <3>2, <3>3 DEF HeldGrant
    <2> QED
      BY <2>9, <2>10, <2>11 DEF FreshInv
  <1>7. ASSUME NEW c \in Callbacks, CallbackSave(c) PROVE FreshInv'
    <2>1. /\ pending[c] # NoBundle /\ pending'[c] = NoBundle /\ UNCHANGED <<grant, bundle>>
          /\ \A n \in Names : store'[n] \in {store[n], pending[c]}
          /\ \A d \in Callbacks : pending'[d] \in {pending[d], NoBundle}
      BY <1>7 DEF CallbackSave, TypeOK
    <2>2. grant[pending[c].at] = pending[c].at
      BY <2>1 DEF FreshInv
    <2>3. ASSUME NEW CONSTANT g, HeldGrant(g)' PROVE HeldGrant(g) \/ pending[c].at = g
      <3>1. \/ \E n \in Names : store'[n] # NoBundle /\ grant'[store'[n].at] = g
            \/ \E r \in Requests : bundle'[r] # NoBundle /\ grant'[bundle'[r].at] = g
        BY <2>3 DEF HeldGrant
      <3> QED
        BY <2>1, <2>2, <3>1 DEF HeldGrant
    <2> QED
      BY <1>0, <2>1, <2>3, FreshKept
  <1>8. ASSUME NEW c \in Callbacks, CallbackFails(c) PROVE FreshInv'
    <2>1. \A d \in Callbacks : pending'[d] \in {pending[d], NoBundle}
      BY <1>8 DEF CallbackFails, TypeOK
    <2> QED
      BY <1>8, <2>1, <1>s, <1>b, <1>h, <1>x DEF CallbackFails
  <1>9. ASSUME NEW p \in Pairs, Revoke(p) PROVE FreshInv'
    <2>1. \A n \in Names : store'[n] \in {store[n], NoBundle}
      BY <1>9 DEF Revoke, TypeOK
    <2> QED
      BY <1>9, <2>1, <1>s, <1>b, <1>h, <1>x DEF Revoke
  <1>10. CASE Quiet
    BY <1>10, <1>s, <1>b, <1>h, <1>x DEF Quiet
  <1> QED
    BY <1>1, <1>2, <1>3, <1>4, <1>5, <1>6, <1>7, <1>8, <1>9, <1>10, StepShape DEF Shape

\* The formula under the box of RefreshTokenKept.
KeepsToken ==
    \A n \in Names :
        (/\ store[n].rt # 0
         /\ store'[n] # NoBundle
         /\ grant[store[n].at] = grant[store'[n].at])
        => store'[n].rt # 0

\* Only a request that carries a refresh token, or a callback, writes the store; and
\* a callback's bundle without one is not of the stored authorization.
LEMMA KeepsTokenStep == ASSUME TypeOK, FreshInv, [Next]_vars PROVE KeepsToken
  <1> USE DEF idpVars, callbackVars, tokenVars
  <1> HIDE DEF NoBundle
  <1>0. NoBundle.rt = 0
    BY TokenFacts
  <1>1. ASSUME NEW r \in Requests, Save(r) PROVE KeepsToken
    <2>1. bundle[r].rt # 0
      BY <1>1, TokenFacts DEF Save, Savers
    <2>2. \A n \in Names : store'[n] \in {store[n], bundle[r]}
      BY <1>1 DEF Save, TypeOK
    <2> QED
      BY <2>1, <2>2 DEF KeepsToken
  <1>2. ASSUME NEW c \in Callbacks, CallbackSave(c) PROVE KeepsToken
    <2>1. /\ pending[c] # NoBundle
          /\ \A n \in Names : store'[n] \in {store[n], pending[c]}
      BY <1>2 DEF CallbackSave, TypeOK
    <2>2. ASSUME NEW n \in Names, store[n].rt # 0, pending[c].rt = 0
          PROVE  grant[store[n].at] # grant[pending[c].at]
      BY <1>0, <2>1, <2>2 DEF FreshInv, HeldGrant
    <2> QED
      BY <2>1, <2>2 DEF KeepsToken
  <1>3. ASSUME NEW p \in Pairs, Revoke(p) PROVE KeepsToken
    <2>1. \A n \in Names : store'[n] \in {store[n], NoBundle}
      BY <1>3 DEF Revoke, TypeOK
    <2> QED
      BY <2>1 DEF KeepsToken
  <1>4. CASE UNCHANGED store
    BY <1>4 DEF KeepsToken
  <1> QED
    BY <1>1, <1>2, <1>3, <1>4, StepShape DEF Shape, Drop, Refresh, RefreshAnswerLost, Start,
       CallbackExchange, CallbackFails, Quiet

\* A refresh never loses the refresh token of an authorization that has one, nor
\* does a callback that overlaps it, with or without rotation.
THEOREM RefreshTokenKeptHolds == Spec => RefreshTokenKept
  <1>1. Init => FreshInv
    BY DEF Init, FreshInv
  <1>2. TypeOK /\ KnownInv /\ FreshInv /\ [Next]_vars => FreshInv'
    BY FreshStep
  <1>3. ChainInv => TypeOK /\ KnownInv
    BY DEF ChainInv
  <1>4. Spec => []FreshInv
    BY <1>1, <1>2, <1>3, ChainHolds, PTL DEF Spec
  <1>5. TypeOK /\ FreshInv /\ [Next]_vars => [KeepsToken]_vars
    BY KeepsTokenStep
  <1>6. Spec => [][KeepsToken]_vars
    BY <1>4, <1>5, TypeCorrect, PTL DEF Spec
  <1> QED
    BY <1>6 DEF KeepsToken, RefreshTokenKept

-------------------------------------------------------------------------------
(* Refreshes are started only for tokens at their end *)

RefreshingInv ==
    \A r \in Refreshers : bundle[r].exp # 0 /\ bundle[r].exp \in stale

\* Every action keeps expires_at about the bundle's own access token.
LEMMA StampStep ==
    ASSUME ReportsExpiry \subseteq {TRUE}, TypeOK, StampInv, RefreshingInv, [Next]_vars
    PROVE  StampInv' /\ RefreshingInv'
  <1> USE DEF idpVars, callbackVars, tokenVars
  <1>i. NoBundle.exp = 0
    BY DEF NoBundle
  <1> HIDE DEF NoBundle
  <1>2. ASSUME NEW r \in Requests, Refresh(r) PROVE StampInv' /\ RefreshingInv'
    <2>1. PICK m : bundle' = [bundle EXCEPT ![r] = m] /\ m.exp = m.at
      BY <1>2, RefreshEffect
    <2>2. pc' = [pc EXCEPT ![r] = "save"]
      BY <1>2, RefreshEffect
    <2> QED
      BY <1>2, <2>1, <2>2 DEF Refresh, StampInv, RefreshingInv, Refreshers, TypeOK
  <1>3. ASSUME NEW r \in Requests, RefreshAnswerLost(r) PROVE StampInv' /\ RefreshingInv'
    BY <1>3, <1>i DEF RefreshAnswerLost, Return, StampInv, RefreshingInv, Refreshers, TypeOK
  <1>5. ASSUME NEW r \in Requests, NEW p \in Pairs, Lookup(r, p)
        PROVE  StampInv' /\ RefreshingInv'
    <2> DEFINE b == store[SecretNameOf[p]]
    <2>1. b.exp \in {0, b.at}
      BY ConstantsAssumption DEF StampInv
    <2>2. CASE Continue(r, "pat", NoBundle)
      BY <1>5, <1>i, <2>2 DEF Lookup, Continue, StampInv, RefreshingInv, Refreshers, TypeOK
    <2>3. CASE IsTokenExpired(b) /\ Continue(r, "refresh", b)
      BY <1>5, <2>1, <2>3
         DEF Lookup, Continue, IsTokenExpired, StampInv, RefreshingInv, Refreshers, TypeOK
    <2>4. CASE Return(r, Bearer(b))
      BY <1>5, <1>i, <2>4 DEF Lookup, Return, StampInv, RefreshingInv, Refreshers, TypeOK
    <2> QED
      BY <1>5, <2>2, <2>3, <2>4 DEF Lookup
  <1>6. ASSUME NEW c \in Callbacks, NEW p \in Pairs, CallbackExchange(c, p)
        PROVE  StampInv' /\ RefreshingInv'
    <2>1. PICK b : pending' = [pending EXCEPT ![c] = b] /\ b.exp = b.at
      BY <1>6, ExchangeEffect
    <2> QED
      BY <1>6, <2>1 DEF CallbackExchange, StampInv, RefreshingInv, Refreshers, TypeOK
  <1>7. ASSUME NEW c \in Callbacks, CallbackSave(c) \/ CallbackFails(c)
        PROVE  StampInv' /\ RefreshingInv'
    BY <1>7, <1>i DEF CallbackSave, CallbackFails, StampInv, RefreshingInv, Refreshers, TypeOK
  <1>8. ASSUME NEW p \in Pairs, Revoke(p) PROVE StampInv' /\ RefreshingInv'
    BY <1>8, <1>i DEF Revoke, StampInv, RefreshingInv, Refreshers, TypeOK
  <1>9. ASSUME NEW i \in Ids, Age(i) PROVE StampInv' /\ RefreshingInv'
    BY <1>9 DEF Age, StampInv, RefreshingInv, Refreshers
  <1>10. CASE UNCHANGED vars
    BY <1>10 DEF vars, StampInv, RefreshingInv, Refreshers
  <1>11. ASSUME NEW r \in Requests, NEW p \in Pairs,
                \/ RejectIncomplete(r) \/ LookupFails(r, p) \/ PatLookup(r)
                \/ RefreshFails(r) \/ SaveRefreshed(r) \/ SaveRefreshedFails(r) \/ Abort(r)
         PROVE  StampInv' /\ RefreshingInv'
    <2>1. stale' = stale
      BY <1>11 DEF RejectIncomplete, LookupFails, PatLookup, RefreshFails, SaveRefreshed,
         SaveRefreshedFails, Abort
    <2>2. /\ bundle' = [bundle EXCEPT ![r] = NoBundle]
          /\ pc'[r] # "refresh" /\ \A s \in Requests \ {r} : pc'[s] = pc[s]
      BY <1>11 DEF RejectIncomplete, LookupFails, PatLookup, RefreshFails, SaveRefreshed,
         SaveRefreshedFails, Abort, Return, Continue, TypeOK
    <2>3. \A n \in Names : store'[n] = store[n] \/ store'[n] = bundle[r]
      BY <1>11 DEF RejectIncomplete, LookupFails, PatLookup, RefreshFails, SaveRefreshed,
         SaveRefreshedFails, Abort, TypeOK
    <2>4. UNCHANGED pending
      BY <1>11 DEF RejectIncomplete, LookupFails, PatLookup, RefreshFails, SaveRefreshed,
         SaveRefreshedFails, Abort
    <2> QED
      BY <1>i, <2>1, <2>2, <2>3, <2>4 DEF StampInv, RefreshingInv, Refreshers, TypeOK
  <1> QED
    BY <1>2, <1>3, <1>5, <1>6, <1>7, <1>8, <1>9, <1>10, <1>11, BundleFacts
       DEF Next, RequestStep

\* When every answer of the identity provider reports a lifetime, a refresh is
\* started only for a bundle whose own access token is at its end.
THEOREM RefreshOnlyWhenStaleHolds ==
    ASSUME ReportsExpiry \subseteq {TRUE} PROVE Spec => []RefreshOnlyWhenStale
  <1>1. Init => StampInv /\ RefreshingInv
    BY DEF Init, StampInv, RefreshingInv, Refreshers, NoBundle
  <1>2. TypeOK /\ StampInv /\ RefreshingInv /\ [Next]_vars => StampInv' /\ RefreshingInv'
    BY StampStep
  <1>3. StampInv /\ RefreshingInv => RefreshOnlyWhenStale
    BY DEF StampInv, RefreshingInv, RefreshOnlyWhenStale, Refreshers
  <1> QED
    BY TypeCorrect, <1>1, <1>2, <1>3, PTL DEF Spec
========================================================================
