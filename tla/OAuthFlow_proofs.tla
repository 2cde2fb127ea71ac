-------------------------- MODULE OAuthFlow_proofs --------------------------
(***************************************************************************)
(* Proofs about OAuthFlow, for any flows, pods, apps, configs and bounds.  *)
(***************************************************************************)
EXTENDS OAuthFlow, FiniteSetTheorems, TLAPS

Entries == [client : Clients, config : Configs]
Busy == [pc : HandlerPcs, flow : Flows, client : 0 .. MaxClients]

\* What is in the cache, in a call, in the vault or in a handler names one
\* client per flow, registered for the flow's own config.
ClientInv ==
    /\ \A p \in Pods, a \in Apps : cache[p][a] # NoEntry =>
          clientConfig[cache[p][a].client] = cache[p][a].config
          /\ cache[p][a].client <= clients
    /\ \A f \in Flows : client[f] # 0 =>
          clientConfig[client[f]] = call[f].config /\ client[f] <= clients
    /\ \A f \in Flows : apc[f] \in {"new", "discover", "register"} => client[f] = 0
    /\ \A f \in Flows : secret[f] # 0 =>
          secret[f] = client[f] /\ apc[f] \in {"returned", "failed"}
    /\ \A p \in Pods : handler[p].pc \in {"delete", "exchange", "store", "notify"} =>
          /\ handler[p].client # 0
          /\ handler[p].client = client[handler[p].flow]

-------------------------------------------------------------------------------
(* Type correctness *)

\* The initial state has its types.
LEMMA TypeInit == Init => TypeOK
  BY FlowAssumption DEF Init, TypeOK, EmptyCache, AuthorizePcs

\* The values for nothing are none of the real ones.
LEMMA IdleFacts ==
    /\ Idle.pc = "idle" /\ Idle \notin Busy
    /\ NoEntry \notin Entries
  BY FlowAssumption DEF Idle, Busy, HandlerPcs, NoEntry, Entries, Clients

\* A handler with something to do has a flow.
LEMMA BusyHandler ==
    ASSUME TypeOK, NEW p \in Pods, handler[p].pc \in HandlerPcs
    PROVE  handler[p] \in Busy /\ handler[p].flow \in Flows
                              /\ handler[p].client \in 0 .. MaxClients
  BY IdleFacts DEF TypeOK, Busy, HandlerPcs

\* A handler that moves on, and one that answers, keep the types.
LEMMA StepType ==
    ASSUME TypeOK, NEW p \in Pods, NEW pc \in HandlerPcs, handler[p] \in Busy, Step(p, pc)
    PROVE  handler' \in [Pods -> Busy \union {Idle}]
  BY DEF TypeOK, Step, Busy

\* A page leaves the handler idle and is one of the three pages.
LEMMA AnswerType ==
    ASSUME TypeOK, NEW p \in Pods, handler[p] \in Busy,
           NEW page \in {"success", "failed", "unknown"}, NEW found \in BOOLEAN,
           Answer(p, page, found)
    PROVE  /\ handler' \in [Pods -> Busy \union {Idle}]
           /\ answered' \subseteq [flow : Flows, page : {"success", "failed", "unknown"},
                                   found : BOOLEAN]
  BY DEF TypeOK, Answer, Busy

\* Every action keeps the types, one step of the proof per action.
LEMMA TypeStep == TypeOK /\ [Next]_vars => TypeOK'
  <1> SUFFICES ASSUME TypeOK, [Next]_vars PROVE TypeOK'
    OBVIOUS
  <1> USE DEF authorizeVars, callbackVars, eventVars
  <1>1. ASSUME NEW f \in Flows, NEW p \in Pods, NEW a \in Apps, NEW c \in Configs,
               Authorize(f, p, a, c)
        PROVE  TypeOK'
    <2>1. cache[p][a] \in Entries \union {NoEntry}
      BY DEF TypeOK, Entries
    <2>2. /\ call' \in [Flows -> Calls \union {NoCall}]
          /\ \A g \in Flows : call'[g] = IF g = f THEN call'[f] ELSE call[g]
          /\ call'[f] \in Calls
      BY <1>1 DEF Authorize, TypeOK, Calls
    <2>3. CASE UNCHANGED client /\ apc' = [apc EXCEPT ![f] = "discover"]
      BY <1>1, <2>2, <2>3 DEF Authorize, TypeOK, AuthorizePcs
    <2>4. CASE /\ cache[p][a] # NoEntry
               /\ client' = [client EXCEPT ![f] = cache[p][a].client]
               /\ apc' = [apc EXCEPT ![f] = Redirecting(c)]
      <3>1. cache[p][a].client \in 0 .. MaxClients /\ cache[p][a].client # 0
        BY <2>1, <2>4, FlowAssumption DEF Entries, Clients
      <3>2. Redirecting(c) \in AuthorizePcs /\ Redirecting(c) # "new"
        BY DEF Redirecting, AuthorizePcs
      <3> QED
        BY <1>1, <2>2, <2>4, <3>1, <3>2 DEF Authorize, TypeOK
    <2> QED
      BY <1>1, <2>3, <2>4 DEF Authorize
  <1>2. ASSUME NEW f \in Flows, Register(f) PROVE TypeOK'
    <2> DEFINE n == clients + 1
    <2>1. n \in Clients /\ n \in 0 .. MaxClients
      BY <1>2, FlowAssumption DEF Register, TypeOK, Clients
    <2>2. call[f] \in Calls /\ call[f].pod \in Pods /\ call[f].app \in Apps
          /\ call[f].config \in Configs
      BY <1>2 DEF Register, TypeOK, Calls
    <2>3. Redirecting(call[f].config) \in AuthorizePcs
      BY DEF Redirecting, AuthorizePcs
    <2>4. [client |-> n, config |-> call[f].config] \in Entries
      BY <2>1, <2>2 DEF Entries
    <2>5. cache' \in [Pods -> [Apps -> Entries \union {NoEntry}]]
      BY <1>2, <2>2, <2>4 DEF Register, TypeOK, Entries
    <2>6. /\ clientConfig' \in [Clients -> Configs \union {"none"}]
          /\ client' \in [Flows -> 0 .. MaxClients]
          /\ clients' \in 0 .. MaxClients
      BY <1>2, <2>1, <2>2 DEF Register, TypeOK
    <2>7. /\ apc' \in [Flows -> AuthorizePcs]
          /\ \A g \in Flows : apc'[g] # "new" => call'[g] \in Calls
      BY <1>2, <2>2, <2>3 DEF Register, TypeOK
    <2> QED
      BY <1>2, <2>5, <2>6, <2>7 DEF Register, TypeOK, Entries
  <1>3. ASSUME NEW f \in Flows, Discover(f) \/ Resolve(f) PROVE TypeOK'
    BY <1>3 DEF Discover, Resolve, TypeOK, AuthorizePcs
  <1>4. ASSUME NEW f \in Flows, SaveState(f) PROVE TypeOK'
    BY <1>4 DEF SaveState, TypeOK, AuthorizePcs
  <1>5. ASSUME NEW f \in Flows, AuthorizeFails(f) PROVE TypeOK'
    BY <1>5 DEF AuthorizeFails, TypeOK, AuthorizePcs
  <1>6. ASSUME NEW f \in Flows, Consent(f) PROVE TypeOK'
    BY <1>6 DEF Consent, TypeOK
  <1>7. ASSUME NEW f \in Flows, Expire(f) PROVE TypeOK'
    BY <1>7, FlowAssumption DEF Expire, TypeOK
  <1>8. ASSUME NEW p \in Pods, NEW f \in Flows, Hit(p, f) PROVE TypeOK'
    BY <1>8, FlowAssumption DEF Hit, TypeOK, HandlerPcs
  <1>9. ASSUME NEW p \in Pods, HandlerStep(p) PROVE TypeOK'
    <2> DEFINE f == handler[p].flow
    <2>0. handler[p] \in Busy /\ f \in Flows
      BY <1>9, BusyHandler DEF HandlerStep, HandlerPcs, ReadState, DeleteState, PopFails,
         Exchange, ExchangeFails, ExchangeMalformed, StoreToken, StoreFails, Notify
    <2>1. CASE ReadState(p)
      <3>1. CASE Answer(p, "unknown", FALSE)
        BY <2>0, <2>1, <3>1, AnswerType DEF ReadState, TypeOK, Busy
      <3>2. CASE handler' = [handler EXCEPT ![p] =
                    [pc |-> "delete", flow |-> f, client |-> secret[f]]] /\ UNCHANGED answered
        <4>1. [pc |-> "delete", flow |-> f, client |-> secret[f]] \in Busy
          BY <2>0 DEF Busy, HandlerPcs, TypeOK
        <4>2. handler' \in [Pods -> Busy \union {Idle}]
          BY <3>2, <4>1 DEF TypeOK, Busy
        <4> QED
          BY <2>1, <3>2, <4>2 DEF ReadState, TypeOK, Busy
      <3> QED
        BY <2>1, <3>1, <3>2 DEF ReadState
    <2>2. CASE DeleteState(p)
      <3>1. popped' \in [Flows -> Nat] /\ secret' \in [Flows -> 0 .. MaxClients]
        BY <2>0, <2>2, FlowAssumption DEF DeleteState, TypeOK
      <3>2. handler' \in [Pods -> Busy \union {Idle}]
        BY <2>0, <2>2, StepType DEF DeleteState, HandlerPcs
      <3> QED
        BY <2>2, <3>1, <3>2 DEF DeleteState, TypeOK, Busy
    <2>3. CASE PopFails(p)
      <3>1. secret' \in [Flows -> 0 .. MaxClients] /\ lost' \subseteq Flows
        BY <2>0, <2>3, FlowAssumption DEF PopFails, TypeOK
      <3> QED
        BY <2>0, <2>3, <3>1, AnswerType DEF PopFails, TypeOK, Busy
    <2>4. CASE Exchange(p)
      <3>1. handler' \in [Pods -> Busy \union {Idle}]
        BY <2>0, <2>4, StepType DEF Exchange, HandlerPcs
      <3> QED
        BY <2>0, <2>4, <3>1 DEF Exchange, TypeOK, Busy
    <2>5. CASE ExchangeFails(p) \/ ExchangeMalformed(p)
      <3>1. code' \in [Flows -> {"none", "issued", "used"}]
        <4>1. code' \in {code, [code EXCEPT ![f] = "used"]}
          BY <2>5 DEF ExchangeFails, ExchangeMalformed
        <4> QED
          BY <4>1 DEF TypeOK
      <3> QED
        BY ZenonT(60), <2>0, <2>5, <3>1, AnswerType DEF ExchangeFails, ExchangeMalformed, TypeOK, Busy
    <2>6. CASE StoreToken(p)
      <3>1. handler' \in [Pods -> Busy \union {Idle}]
        BY <2>0, <2>6, StepType DEF StoreToken, HandlerPcs
      <3> QED
        BY <2>0, <2>6, <3>1 DEF StoreToken, TypeOK, Busy
    <2>7. CASE StoreFails(p)
      BY <2>0, <2>7, AnswerType DEF StoreFails, TypeOK, Busy
    <2>8. CASE Notify(p)
      <3>1. events' \in [Pods -> SUBSET Flows]
        BY <2>0, <2>8 DEF Notify, TypeOK
      <3> QED
        BY <2>0, <2>8, <3>1, AnswerType DEF Notify, TypeOK, Busy
    <2> QED
      BY <1>9, <2>1, <2>2, <2>3, <2>4, <2>5, <2>6, <2>7, <2>8 DEF HandlerStep
  <1>10. ASSUME NEW p \in Pods, NEW f \in Flows, Drain(p, f) PROVE TypeOK'
    BY <1>10 DEF Drain, TypeOK
  <1>11. ASSUME NEW p \in Pods, StartListening(p) PROVE TypeOK'
    BY <1>11 DEF StartListening, TypeOK
  <1>12. ASSUME NEW p \in Pods, Crash(p) PROVE TypeOK'
    BY <1>12 DEF Crash, TypeOK, EmptyCache, AuthorizePcs
  <1>13. CASE UNCHANGED vars
    BY <1>13 DEF vars, TypeOK
  <1> QED
    BY <1>1, <1>2, <1>3, <1>4, <1>5, <1>6, <1>7, <1>8, <1>9, <1>10, <1>11, <1>12,
       <1>13 DEF Next, AuthorizeStep

\* Every variable of the OAuth broker always has its type.
THEOREM TypeCorrect == Spec => []TypeOK
  BY TypeInit, TypeStep, PTL DEF Spec

-------------------------------------------------------------------------------
(* A flow keeps its client *)

\* No flow has a client yet.
LEMMA ClientInit == Init => ClientInv
  BY IdleFacts DEF Init, ClientInv, EmptyCache, Idle

\* A handler that steps, or is done, keeps the invariant: its data does not change.
LEMMA HandlerClient ==
    ASSUME TypeOK, ClientInv, NEW p \in Pods, handler[p] \in Busy,
           handler[p].pc # "read",
           \/ \E pc \in HandlerPcs : Step(p, pc)
           \/ handler' = [handler EXCEPT ![p] = Idle],
           UNCHANGED client
    PROVE  \A q \in Pods : handler'[q].pc \in {"delete", "exchange", "store", "notify"} =>
              /\ handler'[q].client # 0
              /\ handler'[q].client = client'[handler'[q].flow]
  <1>1. handler[p].client # 0 /\ handler[p].client = client[handler[p].flow]
    BY DEF ClientInv, Busy, HandlerPcs
  <1>2. \A q \in Pods \ {p} : handler'[q] = handler[q]
    BY DEF TypeOK, Step
  <1>3. \/ handler'[p].client = handler[p].client /\ handler'[p].flow = handler[p].flow
        \/ handler'[p] = Idle
    <2>1. CASE \E pc \in HandlerPcs : Step(p, pc)
      BY <2>1 DEF TypeOK, Step, Busy
    <2>2. CASE handler' = [handler EXCEPT ![p] = Idle]
      BY <2>2 DEF TypeOK
    <2> QED
      BY <2>1, <2>2
  <1>4. Idle.pc = "idle"
    BY DEF Idle
  <1> QED
    BY <1>1, <1>2, <1>3, <1>4 DEF ClientInv

\* Every action keeps each flow's client where its call put it.
LEMMA ClientStep == TypeOK /\ ClientInv /\ [Next]_vars => ClientInv'
  <1> SUFFICES ASSUME TypeOK, ClientInv, [Next]_vars PROVE ClientInv'
    OBVIOUS
  <1> USE DEF authorizeVars, callbackVars, eventVars
  <1>1. ASSUME NEW f \in Flows, NEW p \in Pods, NEW a \in Apps, NEW c \in Configs,
               Authorize(f, p, a, c)
        PROVE  ClientInv'
    <2> DEFINE entry == cache[p][a]
    <2>0. client[f] = 0 /\ secret[f] = 0 /\ apc[f] = "new"
      BY <1>1 DEF Authorize, ClientInv, TypeOK
    <2>1. \A q \in Pods : handler[q].pc \in {"delete", "exchange", "store", "notify"} =>
             handler[q].flow # f
      BY <2>0 DEF ClientInv
    <2>2. /\ \A g \in Flows \ {f} : call'[g] = call[g]
          /\ call'[f].config = c
      BY <1>1 DEF Authorize, TypeOK
    <2>3. CASE UNCHANGED client /\ apc' = [apc EXCEPT ![f] = "discover"]
      BY <1>1, <2>0, <2>2, <2>3 DEF Authorize, ClientInv, TypeOK
    <2>4. CASE /\ entry # NoEntry /\ entry.config = c
               /\ client' = [client EXCEPT ![f] = entry.client]
               /\ apc' = [apc EXCEPT ![f] = Redirecting(c)]
      <3>1. /\ entry.client \in Clients /\ entry.client # 0
            /\ clientConfig[entry.client] = c /\ entry.client <= clients
        BY <2>4, FlowAssumption DEF ClientInv, TypeOK, Clients
      <3>2. Redirecting(c) \in {"resolve", "save"}
        BY DEF Redirecting
      <3> HIDE DEF entry
      <3>3. /\ \A g \in Flows \ {f} : client'[g] = client[g] /\ apc'[g] = apc[g]
            /\ client'[f] = entry.client /\ apc'[f] \in {"resolve", "save"}
        BY <2>4, <3>2 DEF TypeOK
      <3>4. UNCHANGED <<cache, clients, clientConfig, secret, handler>>
        BY <1>1 DEF Authorize
      <3>5. \A q \in Pods : handler'[q].pc \in {"delete", "exchange", "store", "notify"} =>
               /\ handler'[q].client # 0
               /\ handler'[q].client = client'[handler'[q].flow]
        <4> SUFFICES ASSUME NEW q \in Pods,
                            handler[q].pc \in {"delete", "exchange", "store", "notify"}
                     PROVE  /\ handler[q].client # 0
                            /\ handler[q].client = client'[handler[q].flow]
          BY <3>4
        <4>1. handler[q].flow \in Flows
          BY BusyHandler DEF HandlerPcs
        <4> QED
          BY <2>1, <3>3, <4>1 DEF ClientInv
      <3> QED
        BY <2>0, <2>2, <3>1, <3>3, <3>4, <3>5 DEF ClientInv
    <2> QED
      BY <1>1, <2>3, <2>4 DEF Authorize
  <1>2. ASSUME NEW f \in Flows, Register(f) PROVE ClientInv'
    <2> DEFINE n == clients + 1
               config == call[f].config
    <2>1. n \in Clients /\ n # 0 /\ clients \in Nat
      BY <1>2, FlowAssumption DEF Register, TypeOK, Clients
    <2>2. /\ \A i \in Clients : i <= clients => clientConfig'[i] = clientConfig[i]
          /\ clientConfig'[n] = config
          /\ clients' = n
      BY <1>2, <2>1 DEF Register, TypeOK, Clients
    <2>3. client[f] = 0 /\ secret[f] = 0 /\ apc[f] = "register"
      BY <1>2 DEF Register, ClientInv
    <2>4. call[f].pod \in Pods /\ call[f].app \in Apps
      BY <1>2 DEF Register, TypeOK, Calls
    <2>5. \A q \in Pods, a \in Apps :
             cache'[q][a] = cache[q][a] \/ cache'[q][a] = [client |-> n, config |-> config]
      BY <1>2, <2>4 DEF Register, TypeOK
    <2>6. \A q \in Pods, a \in Apps : cache'[q][a] # NoEntry =>
             clientConfig'[cache'[q][a].client] = cache'[q][a].config
             /\ cache'[q][a].client <= clients'
      <3> SUFFICES ASSUME NEW q \in Pods, NEW a \in Apps, cache'[q][a] # NoEntry
                   PROVE  /\ clientConfig'[cache'[q][a].client] = cache'[q][a].config
                          /\ cache'[q][a].client <= clients'
        OBVIOUS
      <3>1. CASE cache'[q][a] = cache[q][a]
        <4>1. cache[q][a].client \in Clients /\ cache[q][a].client <= clients
          BY <3>1 DEF ClientInv, TypeOK
        <4> QED
          BY <2>1, <2>2, <3>1, <4>1 DEF ClientInv, Clients
      <3>2. CASE cache'[q][a] = [client |-> n, config |-> config]
        BY <2>1, <2>2, <3>2
      <3> QED
        BY <2>5, <3>1, <3>2
    <2>7. /\ \A g \in Flows \ {f} : client'[g] = client[g] /\ apc'[g] = apc[g]
          /\ client'[f] = n /\ apc'[f] \in {"resolve", "save"}
          /\ UNCHANGED <<call, secret, handler>>
      BY <1>2 DEF Register, TypeOK, Redirecting
    <2>8. \A g \in Flows : client'[g] # 0 =>
             clientConfig'[client'[g]] = call'[g].config /\ client'[g] <= clients'
      <3> SUFFICES ASSUME NEW g \in Flows, client'[g] # 0
                   PROVE  clientConfig'[client'[g]] = call'[g].config /\ client'[g] <= clients'
        OBVIOUS
      <3>1. CASE g = f
        BY <2>1, <2>2, <2>7, <3>1
      <3>2. CASE g # f
        <4>1. client[g] # 0 /\ client[g] <= clients /\ client[g] \in Clients
          BY <2>7, <3>2 DEF ClientInv, TypeOK, Clients
        <4> QED
          BY <2>1, <2>2, <2>7, <3>2, <4>1 DEF ClientInv, Clients
      <3> QED
        BY <3>1, <3>2
    <2>9. \A q \in Pods : handler'[q].pc \in {"delete", "exchange", "store", "notify"} =>
             /\ handler'[q].client # 0
             /\ handler'[q].client = client'[handler'[q].flow]
      <3> SUFFICES ASSUME NEW q \in Pods,
                          handler[q].pc \in {"delete", "exchange", "store", "notify"}
                   PROVE  /\ handler[q].client # 0
                          /\ handler[q].client = client'[handler[q].flow]
        BY <2>7
      <3>1. handler[q].flow \in Flows /\ handler[q].flow # f
        BY <2>3, BusyHandler DEF HandlerPcs, ClientInv
      <3> QED
        BY <2>7, <3>1 DEF ClientInv
    <2> QED
      BY <2>1, <2>3, <2>6, <2>7, <2>8, <2>9 DEF ClientInv
  <1>3. ASSUME NEW f \in Flows, Discover(f) \/ Resolve(f) PROVE ClientInv'
    <2>1. CASE Discover(f)
      BY <2>1 DEF Discover, ClientInv, TypeOK
    <2>2. CASE Resolve(f)
      BY <2>2 DEF Resolve, ClientInv, TypeOK
    <2> QED
      BY <1>3, <2>1, <2>2
  <1>4. ASSUME NEW f \in Flows, SaveState(f) PROVE ClientInv'
    BY <1>4 DEF SaveState, ClientInv, TypeOK
  <1>5. ASSUME NEW f \in Flows, AuthorizeFails(f) PROVE ClientInv'
    BY <1>5 DEF AuthorizeFails, ClientInv, TypeOK
  <1>6. ASSUME NEW f \in Flows, Consent(f) \/ Expire(f) PROVE ClientInv'
    BY <1>6 DEF Consent, Expire, ClientInv, TypeOK
  <1>7. ASSUME NEW p \in Pods, NEW f \in Flows, Hit(p, f) PROVE ClientInv'
    BY <1>7 DEF Hit, ClientInv, TypeOK
  <1>8. ASSUME NEW p \in Pods, HandlerStep(p) PROVE ClientInv'
    <2> DEFINE f == handler[p].flow
    <2>0. handler[p] \in Busy /\ f \in Flows
      BY <1>8, BusyHandler DEF HandlerStep, HandlerPcs, ReadState, DeleteState, PopFails,
         Exchange, ExchangeFails, ExchangeMalformed, StoreToken, StoreFails, Notify
    <2>u. /\ UNCHANGED authorizeVars
          /\ secret' \in {secret, [secret EXCEPT ![f] = 0]}
      BY <1>8 DEF HandlerStep, ReadState, DeleteState, PopFails,
         Exchange, ExchangeFails, ExchangeMalformed, StoreToken, StoreFails, Notify
    <2>h. \A q \in Pods : handler'[q].pc \in {"delete", "exchange", "store", "notify"} =>
              /\ handler'[q].client # 0
              /\ handler'[q].client = client'[handler'[q].flow]
      <3>1. CASE /\ secret[f] # 0
                 /\ handler' = [handler EXCEPT ![p] =
                       [pc |-> "delete", flow |-> f, client |-> secret[f]]]
        BY <2>0, <2>u, <3>1 DEF ClientInv, TypeOK
      <3>2. CASE handler' = [handler EXCEPT ![p] = Idle]
        BY <2>u, <3>2 DEF ClientInv, TypeOK, Idle
      <3>3. CASE handler[p].pc # "read" /\ \E pc \in HandlerPcs : Step(p, pc)
        BY <2>0, <2>u, <3>3, HandlerClient
      <3> QED
        BY <1>8, <3>1, <3>2, <3>3 DEF HandlerStep, HandlerPcs, ReadState, DeleteState, PopFails,
         Exchange, ExchangeFails, ExchangeMalformed, StoreToken, StoreFails, Notify, Answer
    <2>s. \A g \in Flows : secret'[g] # 0 => secret'[g] = secret[g]
      BY <2>u DEF TypeOK
    <2> QED
      BY <2>u, <2>h, <2>s DEF ClientInv
  <1>9. ASSUME NEW p \in Pods, StartListening(p) \/ \E f \in Flows : Drain(p, f)
        PROVE  ClientInv'
    BY <1>9 DEF Drain, StartListening, ClientInv
  <1>10. ASSUME NEW p \in Pods, Crash(p) PROVE ClientInv'
    <2>1. /\ UNCHANGED <<clients, clientConfig, call, client, secret>>
          /\ \A q \in Pods : handler'[q] = handler[q] \/ handler'[q] = Idle
          /\ \A q \in Pods, a \in Apps : cache'[q][a] = cache[q][a] \/ cache'[q][a] = NoEntry
          /\ \A f \in Flows : \/ apc'[f] = apc[f]
                              \/ apc[f] \in {"discover", "register", "resolve", "save"} /\ apc'[f] = "failed"
      BY <1>10 DEF Crash, TypeOK, EmptyCache
    <2>2. Idle.pc = "idle"
      BY DEF Idle
    <2>3. /\ \A q \in Pods, a \in Apps : cache'[q][a] # NoEntry =>
                clientConfig'[cache'[q][a].client] = cache'[q][a].config
                /\ cache'[q][a].client <= clients'
          /\ \A f \in Flows : client'[f] # 0 =>
                clientConfig'[client'[f]] = call'[f].config /\ client'[f] <= clients'
      BY <2>1 DEF ClientInv
    <2>4. \A f \in Flows :
             /\ apc'[f] \in {"new", "discover", "register"} => client'[f] = 0
             /\ secret'[f] # 0 =>
                   secret'[f] = client'[f] /\ apc'[f] \in {"returned", "failed"}
      BY <2>1 DEF ClientInv
    <2>5. \A q \in Pods : handler'[q].pc \in {"delete", "exchange", "store", "notify"} =>
             /\ handler'[q].client # 0
             /\ handler'[q].client = client'[handler'[q].flow]
      BY <2>1, <2>2 DEF ClientInv
    <2> QED
      BY <2>3, <2>4, <2>5 DEF ClientInv
  <1>11. CASE UNCHANGED vars
    BY <1>11 DEF vars, ClientInv
  <1> QED
    BY <1>1, <1>2, <1>3, <1>4, <1>5, <1>6, <1>7, <1>8, <1>9, <1>10, <1>11
       DEF Next, AuthorizeStep

\* Every callback finishes its flow with the client that the flow's own URL
\* named, whatever happened to the shared cache in between.
THEOREM FlowKeepsItsClientHolds == Spec => []FlowKeepsItsClient
  <1>1. TypeOK /\ ClientInv => FlowKeepsItsClient
    <2> SUFFICES ASSUME TypeOK, ClientInv, NEW p \in Pods,
                        handler[p].pc \in {"exchange", "store", "notify"}
                 PROVE  /\ handler[p].client = client[handler[p].flow]
                        /\ clientConfig[handler[p].client] = call[handler[p].flow].config
      BY DEF FlowKeepsItsClient
    <2>1. handler[p].flow \in Flows
      BY BusyHandler DEF HandlerPcs
    <2> QED
      BY <2>1 DEF ClientInv
  <1>2. Spec => []ClientInv
    BY TypeCorrect, ClientInit, ClientStep, PTL DEF Spec
  <1> QED
    BY TypeCorrect, <1>1, <1>2, PTL

-------------------------------------------------------------------------------
(* One pod: a state is used once *)

OnePod == \A p, q \in Pods : p = q

\* The state of a call that has not answered yet was never in the vault.
Fresh(f) == secret[f] = 0 /\ f \notin lost /\ popped[f] = 0 /\ code[f] = "none"

\* Codes exist for answered calls only, handlers work on flows with a code, and
\* a state is in the vault, or held by a handler, or used, or lost.
UseInv ==
    /\ \A f \in Flows : apc[f] \in {"new", "discover", "register", "resolve", "save"} => Fresh(f)
    /\ \A f \in Flows : code[f] # "none" => apc[f] = "returned"
    /\ \A p \in Pods : handler[p] # Idle => code[handler[p].flow] # "none"
    /\ \A f \in Flows : popped[f] > 0 => secret[f] = 0 /\ ~Held(f)
    /\ \A f \in Flows : popped[f] <= 1
    /\ \A f \in Flows : Held(f) => secret[f] # 0 \/ f \in lost
    /\ \A f \in Flows : f \in lost => secret[f] = 0

\* Nothing is popped, nothing is held.
LEMMA UseInit == Init => UseInv
  BY DEF Init, UseInv, Fresh, Held, Idle

\* With one pod, every action keeps the count of pops of a state at one at most.
LEMMA UseStep ==
    ASSUME OnePod, TypeOK, UseInv, [Next]_vars
    PROVE  UseInv'
  <1> USE DEF authorizeVars, callbackVars, eventVars
  <1>i. Idle.pc = "idle"
    BY DEF Idle
  <1>1. ASSUME NEW f \in Flows,
               \/ AuthorizeStep(f) \/ Consent(f) \/ Expire(f)
               \/ \E p \in Pods, a \in Apps, c \in Configs : Authorize(f, p, a, c)
        PROVE  UseInv'
    <2>1. UNCHANGED <<popped, handler>> /\ \A g \in Flows : Held(g)' = Held(g)
      BY <1>1 DEF AuthorizeStep, Discover, Register, Resolve, SaveState, AuthorizeFails, Consent,
         Expire, Authorize, Held
    <2>2. \A g \in Flows \ {f} :
             /\ apc'[g] = apc[g] /\ code'[g] = code[g] /\ secret'[g] = secret[g]
             /\ g \in lost' <=> g \in lost
      BY <1>1 DEF AuthorizeStep, Discover, Register, Resolve, SaveState, AuthorizeFails, Consent,
         Expire, Authorize, TypeOK
    <2>3. \/ /\ apc[f] \in {"new", "discover", "register", "resolve"}
             /\ apc'[f] \in {"discover", "register", "resolve", "save", "failed"}
             /\ UNCHANGED <<secret, code, lost>>
          \/ /\ apc[f] = "save" /\ apc'[f] \in {"returned", "failed"}
             /\ UNCHANGED <<code, lost>>
          \/ /\ apc[f] = "returned" /\ UNCHANGED <<apc, secret, lost>>
          \/ /\ secret[f] # 0 /\ secret'[f] = 0 /\ f \in lost'
             /\ UNCHANGED <<apc, code>>
      BY <1>1 DEF AuthorizeStep, Discover, Register, Resolve, SaveState, AuthorizeFails, Consent,
         Expire, Authorize, Redirecting, TypeOK
    <2>4. \A p \in Pods : handler[p] # Idle => code'[handler[p].flow] # "none"
      <3>1. \A g \in Flows : code[g] # "none" => code'[g] # "none"
        BY <1>1 DEF AuthorizeStep, Discover, Register, Resolve, SaveState, AuthorizeFails, Consent,
           Expire, Authorize, TypeOK
      <3>2. \A p \in Pods : handler[p] # Idle => handler[p].flow \in Flows
        BY DEF TypeOK
      <3> QED
        BY <3>1, <3>2 DEF UseInv
    <2>5. Held(f) => code[f] # "none"
      BY <1>i DEF Held, UseInv
    <2>6. \A g \in Flows : popped[g] \in Nat
      BY DEF TypeOK
    <2>7. \A g \in Flows \ {f} :
             /\ apc'[g] \in {"new", "discover", "register", "resolve", "save"} => Fresh(g)'
             /\ code'[g] # "none" => apc'[g] = "returned"
             /\ popped'[g] > 0 => secret'[g] = 0 /\ ~Held(g)'
             /\ Held(g)' => secret'[g] # 0 \/ g \in lost'
             /\ g \in lost' => secret'[g] = 0
      BY <2>1, <2>2 DEF UseInv, Fresh
    <2>8. /\ apc'[f] \in {"new", "discover", "register", "resolve", "save"} => Fresh(f)'
          /\ code'[f] # "none" => apc'[f] = "returned"
          /\ popped'[f] > 0 => secret'[f] = 0 /\ ~Held(f)'
          /\ Held(f)' => secret'[f] # 0 \/ f \in lost'
          /\ f \in lost' => secret'[f] = 0
      BY <2>1, <2>3, <2>5, <2>6 DEF UseInv, Fresh
    <2> QED
      BY <2>1, <2>4, <2>7, <2>8 DEF UseInv
  <1>2. ASSUME NEW p \in Pods, NEW f \in Flows, Hit(p, f) PROVE UseInv'
    <2>1. \A g \in Flows : ~Held(g) /\ ~Held(g)'
      BY <1>2, <1>i DEF Hit, Held, OnePod, TypeOK
    <2>2. \A q \in Pods : handler'[q] # Idle => code'[handler'[q].flow] # "none"
      BY <1>2 DEF Hit, UseInv, TypeOK
    <2> QED
      BY <1>2, <2>1, <2>2 DEF Hit, UseInv, Fresh
  <1>3. ASSUME NEW p \in Pods, HandlerStep(p) PROVE UseInv'
    <2>b. handler[p] \in Busy /\ handler[p] # Idle
      BY <1>3, BusyHandler, IdleFacts DEF HandlerStep, HandlerPcs, ReadState, DeleteState,
         PopFails, Exchange, ExchangeFails, ExchangeMalformed, StoreToken, StoreFails, Notify
    <2>p. PICK f \in Flows : f = handler[p].flow
      BY <2>b DEF Busy
    <2>0. handler[p] \in Busy /\ f = handler[p].flow /\ handler[p] # Idle
      BY <2>b, <2>p
    <2>1. /\ code[f] # "none" /\ apc[f] = "returned" /\ ~(f \in lost /\ secret[f] # 0)
      BY <2>0 DEF UseInv
    <2>2. \A g \in Flows : Held(g) <=> handler[p].pc = "delete" /\ g = f
      BY <2>0 DEF Held, OnePod
    <2>3. \A g \in Flows : Held(g)' <=> handler'[p].pc = "delete" /\ g = handler'[p].flow
      BY DEF Held, OnePod
    <2>4. UNCHANGED apc
      BY <1>3 DEF HandlerStep, ReadState, DeleteState, PopFails,
         Exchange, ExchangeFails, ExchangeMalformed, StoreToken, StoreFails, Notify
    <2>5. \A g \in Flows \ {f} :
             /\ code'[g] = code[g] /\ secret'[g] = secret[g] /\ popped'[g] = popped[g]
             /\ g \in lost' <=> g \in lost
      <3>1. /\ code' \in {code, [code EXCEPT ![f] = "used"]}
            /\ lost' \in {lost, lost \union {f}}
        BY <1>3, <2>0 DEF HandlerStep, ReadState, DeleteState, PopFails,
           Exchange, ExchangeFails, ExchangeMalformed, StoreToken, StoreFails, Notify
      <3>2. /\ secret' \in {secret, [secret EXCEPT ![f] = 0]}
            /\ popped' \in {popped, [popped EXCEPT ![f] = @ + 1]}
        BY <1>3, <2>0 DEF HandlerStep, ReadState, DeleteState, PopFails,
           Exchange, ExchangeFails, ExchangeMalformed, StoreToken, StoreFails, Notify
      <3> QED
        BY <3>1, <3>2 DEF TypeOK
    <2>6. code'[f] # "none"
      BY <1>3, <2>0, <2>1 DEF HandlerStep, ReadState, DeleteState, PopFails,
         Exchange, ExchangeFails, ExchangeMalformed, StoreToken, StoreFails, Notify, TypeOK
    <2>7. handler'[p] = Idle \/ handler'[p].flow = f
      BY <1>3, <2>0 DEF HandlerStep, ReadState, DeleteState, PopFails, Answer, Step, Busy,
         Exchange, ExchangeFails, ExchangeMalformed, StoreToken, StoreFails, Notify, TypeOK
    <2>8. \A q \in Pods : handler'[q] # Idle => code'[handler'[q].flow] # "none"
      BY <2>6, <2>7 DEF OnePod
    <2>9. \/ /\ handler[p].pc = "read" /\ secret[f] # 0
             /\ UNCHANGED <<secret, popped, lost>>
          \/ /\ handler[p].pc = "delete" /\ handler'[p].pc # "delete"
             /\ \/ secret'[f] = 0 /\ popped'[f] = popped[f] + 1 /\ UNCHANGED lost
                \/ secret'[f] = 0 /\ UNCHANGED popped /\ f \in lost'
                \/ UNCHANGED <<secret, popped, lost>>
          \/ /\ handler[p].pc # "delete" /\ handler'[p].pc # "delete"
             /\ UNCHANGED <<secret, popped, lost>>
      BY <1>3, <1>i, <2>0 DEF HandlerStep, ReadState, DeleteState, PopFails, Answer, Step, Busy,
         Exchange, ExchangeFails, ExchangeMalformed, StoreToken, StoreFails, Notify, TypeOK
    <2>10. popped[f] \in Nat /\ (Held(f) => popped[f] = 0)
      BY <2>0 DEF UseInv, TypeOK
    <2>11. /\ popped'[f] > 0 => secret'[f] = 0 /\ ~Held(f)'
           /\ popped'[f] <= 1
           /\ Held(f)' => secret'[f] # 0 \/ f \in lost'
           /\ f \in lost' => secret'[f] = 0
      <3>0. /\ popped[f] > 0 => secret[f] = 0
            /\ popped[f] <= 1
            /\ Held(f) => secret[f] # 0 \/ f \in lost
            /\ f \in lost => secret[f] = 0
        BY <2>0 DEF UseInv
      <3>h. Held(f) <=> handler[p].pc = "delete"
        BY <2>0, <2>2
      <3>h2. handler'[p].pc # "delete" => ~Held(f)'
        BY <2>0, <2>3
      <3>1. CASE /\ handler[p].pc = "read" /\ secret[f] # 0
                 /\ UNCHANGED <<secret, popped, lost>>
        BY <2>10, <3>0, <3>1
      <3>2. CASE /\ handler[p].pc = "delete" /\ handler'[p].pc # "delete"
                 /\ secret'[f] = 0 /\ popped'[f] = popped[f] + 1
        BY <2>10, <3>h, <3>h2, <3>2
      <3>3. CASE /\ handler'[p].pc # "delete" /\ UNCHANGED popped
                 /\ \/ secret'[f] = 0
                    \/ UNCHANGED <<secret, lost>>
        BY <2>10, <3>0, <3>h2, <3>3
      <3> QED
        BY <2>9, <3>1, <3>2, <3>3
    <2>12. \A g \in Flows \ {f} : ~Held(g) /\ ~Held(g)'
      BY <1>i, <2>2, <2>3, <2>7
    <2>13. \A g \in Flows \ {f} :
             /\ apc'[g] \in {"new", "discover", "register", "resolve", "save"} => Fresh(g)'
             /\ code'[g] # "none" => apc'[g] = "returned"
             /\ popped'[g] > 0 => secret'[g] = 0
             /\ popped'[g] <= 1
             /\ g \in lost' => secret'[g] = 0
      BY <2>4, <2>5 DEF UseInv, Fresh
    <2>14. apc'[f] = "returned"
      BY <2>1, <2>4
    <2> QED
      BY <2>0, <2>8, <2>11, <2>12, <2>13, <2>14 DEF UseInv
  <1>4. ASSUME NEW p \in Pods, StartListening(p) \/ \E f \in Flows : Drain(p, f)
        PROVE  UseInv'
    BY <1>4 DEF Drain, StartListening, UseInv, Fresh, Held
  <1>5. ASSUME NEW p \in Pods, Crash(p) PROVE UseInv'
    <2>1. /\ UNCHANGED <<secret, code, popped, lost>>
          /\ \A q \in Pods : handler'[q] = Idle
          /\ \A f \in Flows : \/ apc'[f] = apc[f]
                              \/ apc[f] \in {"discover", "register", "resolve", "save"} /\ apc'[f] = "failed"
      <3>1. \A q \in Pods : handler'[q] = Idle
        BY <1>5 DEF Crash, TypeOK, OnePod
      <3>2. \A f \in Flows :
               \/ apc'[f] = apc[f]
               \/ apc[f] \in {"discover", "register", "resolve", "save"} /\ apc'[f] = "failed"
        BY <1>5 DEF Crash
      <3> QED
        BY <1>5, <3>1, <3>2 DEF Crash
    <2>2. \A f \in Flows : ~Held(f)'
      BY <1>i, <2>1 DEF Held
    <2>3. \A f \in Flows : apc'[f] \in {"new", "discover", "register", "resolve", "save"} => Fresh(f)'
      BY <2>1 DEF UseInv, Fresh
    <2>4. \A f \in Flows : code'[f] # "none" => apc'[f] = "returned"
      BY <2>1 DEF UseInv
    <2> QED
      BY <2>1, <2>2, <2>3, <2>4 DEF UseInv
  <1>6. CASE UNCHANGED vars
    BY <1>6 DEF vars, UseInv, Fresh, Held
  <1> QED
    BY <1>1, <1>2, <1>3, <1>4, <1>5, <1>6 DEF Next

\* With one pod, pop_state hands out the data of a flow at most once.
THEOREM SingleUseHolds == ASSUME OnePod PROVE Spec => []SingleUse
  <1>1. Spec => []UseInv
    BY TypeCorrect, UseInit, UseStep, PTL DEF Spec
  <1>2. UseInv => SingleUse
    BY DEF UseInv, SingleUse
  <1> QED
    BY <1>1, <1>2, PTL

-------------------------------------------------------------------------------
(* One pod: the state store keeps its promise *)

\* A step leaves every state where it was, or moves the state of one flow along.
Moves(f) ==
    /\ \A g \in Flows \ {f} : StatusOf(g)' = StatusOf(g)
    /\ \/ /\ StatusOf(f) = "absent" /\ StatusOf(f)' = "pending"
          /\ UNCHANGED popped
       \/ /\ StatusOf(f) = "pending" /\ StatusOf(f)' = "claimed"
          /\ popped' = [popped EXCEPT ![f] = @ + 1]
       \/ /\ StatusOf(f) = "pending" /\ StatusOf(f)' = "gone"
          /\ UNCHANGED popped

Stays == UNCHANGED popped /\ \A g \in Flows : StatusOf(g)' = StatusOf(g)

\* With one pod, a step of the broker is a step of one state, or of none.
LEMMA StayOrMove ==
    ASSUME OnePod, TypeOK, ClientInv, UseInv, [Next]_vars
    PROVE  Stays \/ \E f \in Flows : Moves(f)
  <1> USE DEF authorizeVars, callbackVars, eventVars
  <1>i. Idle.pc = "idle"
    BY DEF Idle
  <1>t. \A f \in Flows : popped[f] \in Nat
    BY DEF TypeOK
  <1>1. ASSUME NEW f \in Flows, SaveState(f) \/ AuthorizeFails(f)
        PROVE  Stays \/ Moves(f)
    <2>1. CASE UNCHANGED secret
      BY <1>1, <2>1 DEF SaveState, AuthorizeFails, Stays, StatusOf, Held
    <2>2. CASE apc[f] = "save" /\ secret' = [secret EXCEPT ![f] = client[f]]
      <3>1. Fresh(f) /\ client[f] # 0
        BY <2>2 DEF UseInv, TypeOK
      <3>2. ~Held(f)
        BY <2>2, <1>i DEF Held, UseInv
      <3>3. UNCHANGED <<popped, handler, lost>> /\ \A g \in Flows : Held(g)' = Held(g)
        BY <1>1 DEF SaveState, AuthorizeFails, Held
      <3>4. StatusOf(f) = "absent" /\ StatusOf(f)' = "pending"
        BY <2>2, <3>1, <3>2, <3>3 DEF StatusOf, Fresh, TypeOK
      <3>5. \A g \in Flows \ {f} : StatusOf(g)' = StatusOf(g)
        BY <2>2, <3>3 DEF StatusOf, TypeOK
      <3> QED
        BY <3>3, <3>4, <3>5 DEF Moves
    <2> QED
      BY <1>1, <2>1, <2>2 DEF SaveState, AuthorizeFails
  <1>2. ASSUME NEW f \in Flows, Expire(f) PROVE Stays \/ Moves(f)
    <2>1. UNCHANGED <<popped, handler>> /\ \A g \in Flows : Held(g)' = Held(g)
      BY <1>2 DEF Expire, Held
    <2>2. popped[f] = 0 /\ StatusOf(f) = "pending"
      BY <1>2, <1>t DEF Expire, UseInv, StatusOf
    <2>3. StatusOf(f)' = IF Held(f) THEN "pending" ELSE "gone"
      BY <1>2, <2>1, <2>2 DEF Expire, StatusOf, TypeOK
    <2>4. \A g \in Flows \ {f} : StatusOf(g)' = StatusOf(g)
      BY <1>2, <2>1 DEF Expire, StatusOf, TypeOK
    <2> QED
      BY <2>1, <2>2, <2>3, <2>4 DEF Stays, Moves
  <1>3. ASSUME NEW p \in Pods, handler[p] # Idle,
               ReadState(p) \/ DeleteState(p) \/ PopFails(p) \/ Crash(p)
        PROVE  Stays \/ \E f \in Flows : Moves(f)
    <2>1. PICK f \in Flows : f = handler[p].flow
      BY <1>3 DEF TypeOK
    <2>2. \A g \in Flows : Held(g) <=> handler[p].pc = "delete" /\ g = f
      BY <2>1 DEF Held, OnePod
    <2>3. handler[p] \in Busy
      BY <1>3 DEF TypeOK, Busy
    <2>4. handler'[p] = Idle \/ handler'[p].flow = f
      BY <1>3, <2>1, <2>3 DEF ReadState, DeleteState, PopFails, Crash, Answer, Step, TypeOK, Busy
    <2>5. \A g \in Flows : Held(g)' <=> handler'[p].pc = "delete" /\ g = f
      BY <1>i, <2>4 DEF Held, OnePod
    <2>6. \A g \in Flows \ {f} :
             /\ secret'[g] = secret[g] /\ popped'[g] = popped[g]
             /\ g \in lost' <=> g \in lost
      BY <1>3, <2>1 DEF ReadState, DeleteState, PopFails, Crash, TypeOK
    <2>7. \A g \in Flows \ {f} : StatusOf(g)' = StatusOf(g)
      BY <2>2, <2>5, <2>6 DEF StatusOf
    <2>8. /\ popped[f] \in Nat
          /\ popped[f] > 0 => secret[f] = 0 /\ ~Held(f)
          /\ Held(f) => secret[f] # 0 \/ f \in lost
      BY <1>t DEF UseInv
    <2>9. CASE ReadState(p)
      <3>1. UNCHANGED <<secret, popped, lost>> /\ ~Held(f)
        BY <2>2, <2>9 DEF ReadState
      <3>2. Held(f)' => secret[f] # 0
        BY <1>i, <2>1, <2>5, <2>9 DEF ReadState, Answer, TypeOK
      <3>3. StatusOf(f)' = StatusOf(f)
        BY <2>8, <3>1, <3>2 DEF StatusOf
      <3> QED
        BY <2>7, <3>1, <3>3 DEF Stays
    <2>10. CASE DeleteState(p)
      <3>1. Held(f) /\ popped' = [popped EXCEPT ![f] = @ + 1] /\ popped[f] = 0
        BY <2>1, <2>2, <2>8, <2>10 DEF DeleteState
      <3>2. popped'[f] = 1
        BY <3>1 DEF TypeOK
      <3>3. StatusOf(f) = "pending" /\ StatusOf(f)' = "claimed"
        BY <3>1, <3>2 DEF StatusOf
      <3> QED
        BY <2>7, <3>1, <3>3 DEF Moves
    <2>11. CASE PopFails(p) \/ Crash(p)
      <3>1. UNCHANGED popped /\ ~Held(f)'
        BY <1>i, <2>5, <2>11 DEF PopFails, Crash, Answer, TypeOK
      <3>2. \/ UNCHANGED <<secret, lost>>
            \/ Held(f) /\ secret'[f] = 0 /\ f \in lost'
        BY <2>1, <2>2, <2>11 DEF PopFails, Crash, TypeOK
      <3>3. CASE popped[f] > 0
        BY <2>7, <3>1, <3>3 DEF Stays, StatusOf
      <3>4. CASE popped[f] = 0 /\ ~Held(f)
        BY <2>7, <3>1, <3>2, <3>4 DEF Stays, StatusOf
      <3>5. CASE popped[f] = 0 /\ Held(f)
        <4>1. StatusOf(f) = "pending" /\ StatusOf(f)' \in {"pending", "gone"}
          BY <2>8, <3>1, <3>2, <3>5 DEF StatusOf
        <4> QED
          BY <2>7, <3>1, <4>1 DEF Stays, Moves
      <3> QED
        BY <2>8, <3>3, <3>4, <3>5
    <2> QED
      BY <1>3, <2>9, <2>10, <2>11
  <1>4. ASSUME UNCHANGED <<secret, popped, lost>>,
               \A f \in Flows : Held(f)' <=> Held(f)
        PROVE  Stays
    BY <1>4 DEF Stays, StatusOf
  <1>5. ASSUME NEW f \in Flows,
               \/ Discover(f) \/ Register(f) \/ Resolve(f) \/ Consent(f)
               \/ \E p \in Pods, a \in Apps, c \in Configs : Authorize(f, p, a, c)
               \/ \E p \in Pods : Drain(p, f)
        PROVE  Stays
    BY <1>4, <1>5 DEF Discover, Register, Resolve, Consent, Authorize, Drain, Held
  <1>6. ASSUME NEW p \in Pods, NEW f \in Flows, Hit(p, f) PROVE Stays
    <2>1. \A g \in Flows : ~Held(g) /\ ~Held(g)'
      BY <1>6, <1>i DEF Hit, Held, OnePod, TypeOK
    <2> QED
      BY <1>4, <1>6, <2>1 DEF Hit
  <1>7. ASSUME NEW p \in Pods, StartListening(p) \/ (Crash(p) /\ handler[p] = Idle) PROVE Stays
    <2>1. UNCHANGED <<secret, popped, lost>> /\ \A f \in Flows : Held(f)' <=> Held(f)
      BY <1>7 DEF StartListening, Crash, Held, TypeOK
    <2> QED
      BY <1>4, <2>1
  <1>8. ASSUME NEW p \in Pods,
               \/ Exchange(p) \/ ExchangeFails(p) \/ ExchangeMalformed(p)
               \/ StoreToken(p) \/ StoreFails(p) \/ Notify(p)
        PROVE  Stays
    <2>1. handler[p].pc # "delete" /\ handler'[p].pc # "delete"
          /\ UNCHANGED <<secret, popped, lost>>
      BY <1>8, <1>i, BusyHandler DEF Exchange, ExchangeFails, ExchangeMalformed, StoreToken,
         StoreFails, Notify, Answer, Step, TypeOK, Busy, HandlerPcs
    <2>2. \A g \in Flows : ~Held(g) /\ ~Held(g)'
      BY <2>1 DEF Held, OnePod
    <2> QED
      BY <1>4, <2>1, <2>2
  <1>9. CASE UNCHANGED vars
    BY <1>4, <1>9 DEF vars, Held
  <1>10. \A p \in Pods : ReadState(p) \/ DeleteState(p) \/ PopFails(p) => handler[p] # Idle
    BY <1>i DEF ReadState, DeleteState, PopFails
  <1> DEFINE Goal == Stays \/ \E f \in Flows : Moves(f)
  <1> HIDE DEF Goal
  <1>11. ASSUME NEW f \in Flows, AuthorizeStep(f) \/ Consent(f) \/ Expire(f) PROVE Goal
    BY <1>1, <1>2, <1>5, <1>11 DEF AuthorizeStep, Goal
  <1>12. ASSUME NEW p \in Pods, HandlerStep(p) PROVE Goal
    BY <1>3, <1>8, <1>10, <1>12 DEF HandlerStep, Goal
  <1>13. ASSUME NEW p \in Pods, StartListening(p) \/ Crash(p) PROVE Goal
    BY <1>3, <1>7, <1>13 DEF Goal
  <1>14. ASSUME NEW p \in Pods, NEW f \in Flows, Hit(p, f) \/ Drain(p, f) PROVE Goal
    BY <1>5, <1>6, <1>14 DEF Goal
  <1>15. ASSUME NEW f \in Flows, NEW p \in Pods, NEW a \in Apps, NEW c \in Configs,
                Authorize(f, p, a, c)
         PROVE  Goal
    BY <1>5, <1>15 DEF Goal
  <1>16. Goal
    BY <1>9, <1>11, <1>12, <1>13, <1>14, <1>15 DEF Next, Goal
  <1> QED
    BY <1>16 DEF Goal

\* Such a step is a step of PendingState.
LEMMA PromiseStep ==
    ASSUME Stays \/ \E f \in Flows : Moves(f)
    PROVE  [Promise!Next]_<<[f \in Flows |-> StatusOf(f)], popped>>
  <1> DEFINE status == [f \in Flows |-> StatusOf(f)]
  <1>1. CASE Stays
    BY <1>1 DEF Stays
  <1>2. ASSUME NEW f \in Flows, Moves(f) PROVE Promise!Next
    <2>1. /\ status' = [status EXCEPT ![f] = StatusOf(f)']
          /\ status[f] = StatusOf(f)
      BY <1>2 DEF Moves
    <2>2. Promise!Save(f) \/ Promise!Claim(f) \/ Promise!Lose(f)
      BY <1>2, <2>1 DEF Moves, Promise!Save, Promise!Claim, Promise!Lose
    <2> QED
      BY <2>2 DEF Promise!Next
  <1> QED
    BY <1>1, <1>2

\* With one pod, the vault-backed state store implements PendingState.
THEOREM PromiseKeptHolds == ASSUME OnePod PROVE Spec => PromiseKept
  <1>1. Init => Promise!Init
    <2> SUFFICES ASSUME Init PROVE Promise!Init
      OBVIOUS
    <2>1. \A f \in Flows : StatusOf(f) = "absent"
      <3>1. \A f \in Flows : popped[f] = 0 /\ secret[f] = 0 /\ f \notin lost
        BY DEF Init
      <3>2. \A p \in Pods : handler[p].pc = "idle"
        BY DEF Init, Idle
      <3>3. \A f \in Flows : ~Held(f)
        BY <3>2 DEF Held
      <3> SUFFICES ASSUME NEW f \in Flows PROVE StatusOf(f) = "absent"
        OBVIOUS
      <3>4. /\ ~(popped[f] > 0)
            /\ ~(secret[f] # 0 \/ Held(f))
            /\ f \notin lost
        BY <3>1, <3>3
      <3> QED
        BY <3>4 DEF StatusOf
    <2> QED
      BY <2>1 DEF Init, Promise!Init
  <1>2. TypeOK /\ ClientInv /\ UseInv /\ [Next]_vars
           => [Promise!Next]_<<[f \in Flows |-> StatusOf(f)], popped>>
    BY StayOrMove, PromiseStep
  <1>3. Spec => []UseInv
    BY TypeCorrect, UseInit, UseStep, PTL DEF Spec
  <1>4. Spec => []ClientInv
    BY TypeCorrect, ClientInit, ClientStep, PTL DEF Spec
  <1> QED
    BY TypeCorrect, <1>1, <1>2, <1>3, <1>4, PTL DEF Spec, PromiseKept, Promise!Spec

-------------------------------------------------------------------------------
(* Any number of pods: what the pages say *)

\* A handler works on a flow whose URL has left, and whose state was saved before:
\* it is in the vault, or used, or lost.
KnownInv ==
    /\ \A p \in Pods : handler[p] # Idle => code[handler[p].flow] # "none"
    /\ \A f \in Flows : code[f] # "none" => apc[f] = "returned"
    /\ \A f \in Flows : apc[f] = "returned" => secret[f] # 0 \/ popped[f] > 0 \/ f \in lost

\* A handler that is to notify has stored its token.
NotifyInv == \A p \in Pods : handler[p].pc = "notify" => handler[p].flow \in stored

\* What the step of a handler can change, of what the pages depend on.
LEMMA HandlerStepMeans ==
    ASSUME TypeOK, NEW p \in Pods, HandlerStep(p)
    PROVE  /\ handler[p] \in Busy /\ handler[p].flow \in Flows
           /\ UNCHANGED <<apc, announced>> /\ stored \subseteq stored' /\ lost \subseteq lost'
           /\ handler' \in [Pods -> Busy \union {Idle}]
           /\ \A q \in Pods \ {p} : handler'[q] = handler[q]
           /\ handler'[p] = Idle \/ handler'[p].flow = handler[p].flow
           /\ \A f \in Flows : code'[f] = code[f] \/ (f = handler[p].flow /\ code'[f] # "none")
           /\ \A f \in Flows : popped'[f] >= popped[f]
           /\ \A f \in Flows : secret'[f] = secret[f] \/ popped'[f] > 0 \/ f \in lost'
  <1> USE DEF authorizeVars, callbackVars, eventVars, Step, Answer
  <1> DEFINE f == handler[p].flow
  <1>1. handler[p] \in Busy /\ f \in Flows
    BY BusyHandler DEF HandlerStep, HandlerPcs, ReadState, DeleteState, PopFails,
       Exchange, ExchangeFails, ExchangeMalformed, StoreToken, StoreFails, Notify
  <1>2. handler' \in [Pods -> Busy \union {Idle}]
    BY TypeStep DEF Next, TypeOK, Busy
  <1>3. popped \in [Flows -> Nat] /\ code \in [Flows -> {"none", "issued", "used"}]
        /\ secret \in [Flows -> 0 .. MaxClients] /\ handler \in [Pods -> Busy \union {Idle}]
    BY DEF TypeOK, Busy
  <1>4. CASE ReadState(p)
    BY <1>1, <1>2, <1>3, <1>4 DEF ReadState
  <1>5. CASE DeleteState(p)
    <2>1. popped' = [popped EXCEPT ![f] = @ + 1] /\ secret' = [secret EXCEPT ![f] = 0]
          /\ handler' = [handler EXCEPT ![p].pc = "exchange"]
          /\ UNCHANGED <<apc, announced, stored, lost, code>>
      BY <1>5 DEF DeleteState
    <2>2. handler'[p].flow = f /\ \A q \in Pods \ {p} : handler'[q] = handler[q]
      BY <1>1, <1>3, <2>1 DEF Busy
    <2>3. \A g \in Flows : popped'[g] >= popped[g] /\ (secret'[g] = secret[g] \/ popped'[g] > 0)
      BY <1>1, <1>3, <2>1
    <2> QED
      BY <1>1, <1>2, <2>1, <2>2, <2>3
  <1>6. CASE PopFails(p)
    BY <1>1, <1>2, <1>3, <1>6 DEF PopFails
  <1>7. CASE Exchange(p) \/ StoreToken(p)
    <2>1. \E pc \in HandlerPcs : handler' = [handler EXCEPT ![p].pc = pc]
      BY <1>7 DEF Exchange, StoreToken, HandlerPcs
    <2>2. handler'[p].flow = f /\ \A q \in Pods \ {p} : handler'[q] = handler[q]
      BY <1>1, <1>3, <2>1 DEF Busy
    <2>3. code' = code \/ code' = [code EXCEPT ![f] = "used"]
      BY <1>7 DEF Exchange, StoreToken
    <2>4. UNCHANGED <<apc, announced, lost, popped, secret>> /\ stored \subseteq stored'
      BY <1>7 DEF Exchange, StoreToken
    <2> QED
      BY <1>1, <1>2, <1>3, <2>2, <2>3, <2>4
  <1>8. CASE ExchangeFails(p) \/ ExchangeMalformed(p) \/ StoreFails(p) \/ Notify(p)
    <2>1. handler' = [handler EXCEPT ![p] = Idle]
      BY <1>8 DEF ExchangeFails, ExchangeMalformed, StoreFails, Notify
    <2>2. code' = code \/ code' = [code EXCEPT ![f] = "used"]
      BY <1>8 DEF ExchangeFails, ExchangeMalformed, StoreFails, Notify
    <2>3. UNCHANGED <<apc, announced, lost, popped, secret>> /\ stored \subseteq stored'
      BY <1>8 DEF ExchangeFails, ExchangeMalformed, StoreFails, Notify
    <2> QED
      BY <1>1, <1>2, <1>3, <2>1, <2>2, <2>3
  <1> QED
    BY <1>4, <1>5, <1>6, <1>7, <1>8 DEF HandlerStep

\* No URL has left, no handler works.
LEMMA KnownInit == Init => KnownInv /\ NotifyInv /\ KnownUntilUsed /\ SuccessMeansStored
  BY DEF Init, KnownInv, NotifyInv, KnownUntilUsed, SuccessMeansStored, Idle

\* Every action keeps what is known of the states.
LEMMA KnownStep == TypeOK /\ KnownInv /\ [Next]_vars => KnownInv'
  <1> SUFFICES ASSUME TypeOK, KnownInv, [Next]_vars PROVE KnownInv'
    OBVIOUS
  <1> USE DEF authorizeVars, callbackVars, eventVars
  <1>1. ASSUME NEW f \in Flows, AuthorizeStep(f) PROVE KnownInv'
    <2>1. /\ UNCHANGED <<code, handler, popped, lost>>
          /\ \A g \in Flows \ {f} : apc'[g] = apc[g] /\ secret'[g] = secret[g]
      BY <1>1 DEF AuthorizeStep, Discover, Register, Resolve, SaveState, AuthorizeFails, TypeOK
    <2>2. apc[f] # "returned"
      BY <1>1 DEF AuthorizeStep, Discover, Register, Resolve, SaveState, AuthorizeFails
    <2>3. apc'[f] = "returned" => secret'[f] # 0
      <3>1. CASE SaveState(f)
        BY <3>1 DEF SaveState, TypeOK
      <3>2. CASE Discover(f) \/ Register(f) \/ Resolve(f) \/ AuthorizeFails(f)
        BY <3>2 DEF Discover, Register, Resolve, AuthorizeFails, Redirecting, TypeOK
      <3> QED
        BY <1>1, <3>1, <3>2 DEF AuthorizeStep
    <2>4. code[f] = "none"
      BY <2>2 DEF KnownInv
    <2> QED
      BY <2>1, <2>2, <2>3, <2>4 DEF KnownInv
  <1>2. ASSUME NEW f \in Flows, NEW p \in Pods, NEW a \in Apps, NEW c \in Configs,
               Authorize(f, p, a, c)
        PROVE  KnownInv'
    <2>1. /\ UNCHANGED <<code, handler, popped, lost, secret>> /\ apc[f] = "new"
          /\ \A g \in Flows \ {f} : apc'[g] = apc[g]
          /\ apc'[f] # "returned"
      BY <1>2 DEF Authorize, Redirecting, TypeOK
    <2>2. code[f] = "none"
      BY <2>1 DEF KnownInv
    <2> QED
      BY <2>1, <2>2 DEF KnownInv
  <1>3. ASSUME NEW f \in Flows, Consent(f) PROVE KnownInv'
    <2>1. /\ UNCHANGED <<apc, handler, popped, secret, lost>> /\ apc[f] = "returned"
          /\ code' = [code EXCEPT ![f] = "issued"]
      BY <1>3 DEF Consent
    <2>2. \A g \in Flows : code'[g] = code[g] \/ (g = f /\ code'[g] = "issued")
      BY <2>1 DEF TypeOK
    <2>3. \A p \in Pods : handler[p] # Idle => handler[p].flow \in Flows
      BY DEF TypeOK
    <2> QED
      BY <2>1, <2>2, <2>3 DEF KnownInv
  <1>8. ASSUME NEW f \in Flows, Expire(f) PROVE KnownInv'
    <2>1. /\ UNCHANGED <<apc, handler, popped, code>> /\ lost' = lost \union {f}
          /\ \A g \in Flows \ {f} : secret'[g] = secret[g]
      BY <1>8 DEF Expire, TypeOK
    <2> QED
      BY <2>1 DEF KnownInv
  <1>4. ASSUME NEW p \in Pods, NEW f \in Flows, Hit(p, f) PROVE KnownInv'
    <2>1. /\ UNCHANGED <<apc, code, secret, popped, lost>> /\ code[f] # "none"
          /\ handler'[p].flow = f
          /\ \A q \in Pods \ {p} : handler'[q] = handler[q]
      BY <1>4 DEF Hit, TypeOK
    <2> QED
      BY <2>1 DEF KnownInv
  <1>5. ASSUME NEW p \in Pods, HandlerStep(p) PROVE KnownInv'
    <2>1. /\ handler[p] \in Busy /\ handler[p].flow \in Flows
          /\ apc' = apc /\ lost \subseteq lost'
          /\ \A q \in Pods \ {p} : handler'[q] = handler[q]
          /\ handler'[p] = Idle \/ handler'[p].flow = handler[p].flow
          /\ \A f \in Flows : code'[f] = code[f] \/ (f = handler[p].flow /\ code'[f] # "none")
          /\ \A f \in Flows : popped'[f] >= popped[f]
          /\ \A f \in Flows : secret'[f] = secret[f] \/ popped'[f] > 0 \/ f \in lost'
      BY <1>5, HandlerStepMeans
    <2>2. handler[p] # Idle
      BY <2>1, IdleFacts
    <2>3. /\ \A q \in Pods : handler[q] # Idle => handler[q].flow \in Flows
          /\ \A f \in Flows : popped[f] \in Nat
      BY DEF TypeOK
    <2>4. \A f \in Flows : popped'[f] > 0 \/ ~(popped[f] > 0)
      <3>1. \A f \in Flows : popped'[f] \in Nat
        BY <1>5, TypeStep DEF Next, TypeOK
      <3> QED
        BY <2>1, <2>3, <3>1
    <2> QED
      BY <2>1, <2>2, <2>3, <2>4 DEF KnownInv
  <1>6. ASSUME NEW p \in Pods, Crash(p) PROVE KnownInv'
    <2>1. /\ UNCHANGED <<code, secret, popped, lost>>
          /\ \A f \in Flows : apc'[f] = apc[f] \/ (apc[f] # "returned" /\ apc'[f] = "failed")
          /\ \A q \in Pods : handler'[q] = handler[q] \/ handler'[q] = Idle
      BY <1>6 DEF Crash, TypeOK
    <2> QED
      BY <2>1 DEF KnownInv
  <1>7. CASE \/ \E p \in Pods, f \in Flows : Drain(p, f)
             \/ \E p \in Pods : StartListening(p)
             \/ UNCHANGED vars
    BY <1>7 DEF Drain, StartListening, vars, KnownInv
  <1> QED
    BY <1>1, <1>2, <1>3, <1>4, <1>5, <1>6, <1>7, <1>8 DEF Next

\* "Unknown or expired state" comes without a look at the state only when it was
\* used up or lost, whatever pod gets the callback.
THEOREM KnownUntilUsedHolds == Spec => []KnownUntilUsed
  <1>1. TypeOK /\ KnownInv /\ KnownUntilUsed /\ [Next]_vars => KnownUntilUsed'
    <2> SUFFICES ASSUME TypeOK, KnownInv, KnownUntilUsed, [Next]_vars,
                        NEW x \in answered', x.page = "unknown", ~x.found
                 PROVE  popped'[x.flow] > 0 \/ x.flow \in lost'
      BY DEF KnownUntilUsed
    <2> USE DEF authorizeVars, callbackVars, eventVars
    <2>1. CASE \E p \in Pods : HandlerStep(p)
      <3>1. PICK p \in Pods : HandlerStep(p)
        BY <2>1
      <3>2. /\ handler[p] \in Busy /\ handler[p].flow \in Flows /\ lost \subseteq lost'
            /\ \A f \in Flows : popped'[f] >= popped[f]
        BY <3>1, HandlerStepMeans
      <3>3. popped \in [Flows -> Nat] /\ popped' \in [Flows -> Nat]
        BY TypeStep DEF TypeOK
      <3>4. CASE x \in answered
        <4>1. x.flow \in Flows
          BY <3>4 DEF TypeOK
        <4>2. popped[x.flow] > 0 \/ x.flow \in lost
          BY <3>4 DEF KnownUntilUsed
        <4> QED
          BY <3>2, <3>3, <4>1, <4>2
      <3>5. CASE x \notin answered
        <4>1. /\ ReadState(p) /\ secret[handler[p].flow] = 0 /\ x.flow = handler[p].flow
              /\ UNCHANGED <<popped, lost>>
          BY <3>1, <3>5 DEF HandlerStep, ReadState, DeleteState, PopFails, Exchange, ExchangeFails,
             ExchangeMalformed, StoreToken, StoreFails, Notify, Answer
        <4>2. handler[p] # Idle
          BY <3>2, IdleFacts
        <4> QED
          BY <3>2, <4>1, <4>2 DEF KnownInv
      <3> QED
        BY <3>4, <3>5
    <2>2. CASE ~\E p \in Pods : HandlerStep(p)
      <3>1. UNCHANGED <<answered, popped>> /\ lost \subseteq lost'
        BY ZenonT(60), <2>2 DEF Next, vars, Authorize, AuthorizeStep, Discover, Register, Resolve, SaveState,
           AuthorizeFails, Consent, Expire, Hit, Drain, StartListening, Crash
      <3> QED
        BY <3>1 DEF KnownUntilUsed
    <2> QED
      BY <2>1, <2>2
  <1> QED
    BY <1>1, KnownInit, TypeCorrect, KnownStep, PTL DEF Spec

\* Success is shown and announced only for tokens that are in the store.
THEOREM SuccessMeansStoredHolds == Spec => []SuccessMeansStored
  <1>1. TypeOK /\ NotifyInv /\ SuccessMeansStored /\ [Next]_vars
           => NotifyInv' /\ SuccessMeansStored'
    <2> SUFFICES ASSUME TypeOK, NotifyInv, SuccessMeansStored, [Next]_vars
                 PROVE  NotifyInv' /\ SuccessMeansStored'
      OBVIOUS
    <2> USE DEF authorizeVars, callbackVars, eventVars
    <2>1. ASSUME NEW p \in Pods, HandlerStep(p) PROVE NotifyInv' /\ SuccessMeansStored'
      <3>1. /\ handler[p] \in Busy /\ handler[p].flow \in Flows
            /\ announced' = announced /\ stored \subseteq stored'
            /\ \A q \in Pods \ {p} : handler'[q] = handler[q]
            /\ handler'[p] = Idle \/ handler'[p].flow = handler[p].flow
        BY <2>1, HandlerStepMeans
      <3>2. handler'[p].pc = "notify" => handler[p].flow \in stored' /\ handler'[p] # Idle
        <4>1. CASE StoreToken(p)
          BY <4>1, IdleFacts, <3>1 DEF StoreToken, Step, TypeOK, Busy
        <4>2. CASE ReadState(p) \/ DeleteState(p) \/ Exchange(p)
          BY <4>2, <3>1, IdleFacts DEF ReadState, DeleteState, Exchange, Step, Answer, TypeOK, Busy
        <4>3. CASE PopFails(p) \/ ExchangeFails(p) \/ ExchangeMalformed(p)
          BY <4>3, IdleFacts DEF PopFails, ExchangeFails, ExchangeMalformed, Answer, TypeOK
        <4>4. CASE StoreFails(p) \/ Notify(p)
          BY <4>4, IdleFacts DEF StoreFails, Notify, Answer, TypeOK
        <4> QED
          BY <2>1, <4>1, <4>2, <4>3, <4>4 DEF HandlerStep
      <3>3. NotifyInv'
        BY <3>1, <3>2 DEF NotifyInv
      <3>4. \A q \in Pods : events'[q] \subseteq stored'
        <4>1. CASE Notify(p)
          <5>1. handler[p].flow \in stored /\ stored' = stored
            BY <4>1 DEF Notify, NotifyInv
          <5>2. \A q \in Pods : events'[q] = events[q] \/ events'[q] = events[q] \union {handler[p].flow}
            BY <4>1 DEF Notify, TypeOK
          <5> QED
            BY <5>1, <5>2 DEF SuccessMeansStored
        <4>2. CASE ~Notify(p)
          <5>1. events' = events
            BY <2>1, <4>2 DEF HandlerStep, ReadState, DeleteState, PopFails, Exchange,
               ExchangeFails, ExchangeMalformed, StoreToken, StoreFails
          <5> QED
            BY <3>1, <5>1 DEF SuccessMeansStored
        <4> QED
          BY <4>1, <4>2
      <3>5. ASSUME NEW x \in answered', x.page = "success" PROVE x.flow \in stored'
        <4>1. CASE x \in answered
          BY <3>1, <3>5, <4>1 DEF SuccessMeansStored
        <4>2. CASE x \notin answered
          <5>1. Notify(p) /\ x.flow = handler[p].flow
            BY <2>1, <3>5, <4>2 DEF HandlerStep, ReadState, DeleteState, PopFails, Exchange,
               ExchangeFails, ExchangeMalformed, StoreToken, StoreFails, Notify, Answer
          <5> QED
            BY <3>1, <5>1 DEF Notify, NotifyInv
        <4> QED
          BY <4>1, <4>2
      <3> QED
        BY <3>1, <3>3, <3>4, <3>5 DEF SuccessMeansStored
    <2>2. ASSUME NEW p \in Pods, NEW f \in Flows, Hit(p, f) PROVE NotifyInv' /\ SuccessMeansStored'
      <3>1. UNCHANGED <<stored, answered, events, announced>> /\ handler'[p].pc = "read"
            /\ \A q \in Pods \ {p} : handler'[q] = handler[q]
        BY <2>2 DEF Hit, TypeOK
      <3> QED
        BY <3>1 DEF NotifyInv, SuccessMeansStored
    <2>3. ASSUME NEW p \in Pods, Crash(p) PROVE NotifyInv' /\ SuccessMeansStored'
      <3>1. /\ UNCHANGED <<stored, answered, announced>>
            /\ \A q \in Pods : handler'[q] = handler[q] \/ handler'[q] = Idle
            /\ \A q \in Pods : events'[q] \subseteq events[q]
        BY <2>3 DEF Crash, TypeOK
      <3> QED
        BY <3>1, IdleFacts DEF NotifyInv, SuccessMeansStored
    <2>4. ASSUME NEW p \in Pods, NEW f \in Flows, Drain(p, f) PROVE NotifyInv' /\ SuccessMeansStored'
      <3>1. /\ UNCHANGED <<stored, answered, handler>> /\ announced' \subseteq announced \union {f}
            /\ f \in events[p] /\ \A q \in Pods : events'[q] \subseteq events[q]
        BY <2>4 DEF Drain, TypeOK
      <3> QED
        BY <3>1 DEF NotifyInv, SuccessMeansStored
    <2>5. CASE \/ \E f \in Flows : AuthorizeStep(f) \/ Consent(f) \/ Expire(f)
               \/ \E f \in Flows, p \in Pods, a \in Apps, c \in Configs : Authorize(f, p, a, c)
               \/ \E p \in Pods : StartListening(p)
               \/ UNCHANGED vars
      <3>1. UNCHANGED <<stored, answered, announced, handler, events>>
        BY ZenonT(60), <2>5 DEF AuthorizeStep, Discover, Register, Resolve, SaveState, AuthorizeFails, Consent,
           Expire, Authorize, StartListening, vars
      <3> QED
        BY <3>1 DEF NotifyInv, SuccessMeansStored
    <2> QED
      BY <2>1, <2>2, <2>3, <2>4, <2>5 DEF Next
  <1> QED
    BY <1>1, KnownInit, TypeCorrect, PTL DEF Spec
-------------------------------------------------------------------------------
(* Any number of pods: what is left of the promise *)

\* A state whose call has not answered was never in the vault; one that was handed
\* out or lost is not there any more.
UnsavedInv ==
    /\ \A f \in Flows : apc[f] \in {"new", "discover", "register", "resolve", "save"} => Fresh(f)
    /\ \A f \in Flows : popped[f] > 0 => secret[f] = 0
    /\ \A f \in Flows : f \in lost => secret[f] = 0

\* What a callback request can do to the states: those of other flows stay, and its
\* own stays, is handed out or is lost.
LEMMA HandlerTakes ==
    ASSUME TypeOK, NEW p \in Pods, HandlerStep(p), NEW f, f = handler[p].flow
    PROVE  /\ UNCHANGED apc
           /\ code' \in {code, [code EXCEPT ![f] = "used"]}
           /\ \/ UNCHANGED <<secret, popped, lost>>
              \/ /\ secret' = [secret EXCEPT ![f] = 0]
                 /\ popped' \in {popped, [popped EXCEPT ![f] = @ + 1]}
                 /\ lost' \in {lost, lost \union {f}}
  <1> USE DEF authorizeVars, callbackVars, eventVars
  <1>1. CASE DeleteState(p) \/ PopFails(p)
    BY <1>1 DEF DeleteState, PopFails
  <1>2. CASE ReadState(p) \/ Exchange(p) \/ ExchangeFails(p) \/ ExchangeMalformed(p)
    BY <1>2 DEF ReadState, Exchange, ExchangeFails, ExchangeMalformed
  <1>3. CASE StoreToken(p) \/ StoreFails(p) \/ Notify(p)
    BY <1>3 DEF StoreToken, StoreFails, Notify
  <1> QED
    BY <1>1, <1>2, <1>3 DEF HandlerStep

\* Every action keeps a state out of the vault before it is saved and after it was
\* handed out or lost.
LEMMA UnsavedStep == TypeOK /\ KnownInv /\ UnsavedInv /\ [Next]_vars => UnsavedInv'
  <1> SUFFICES ASSUME TypeOK, KnownInv, UnsavedInv, [Next]_vars PROVE UnsavedInv'
    OBVIOUS
  <1> USE DEF authorizeVars, callbackVars, eventVars
  <1>1. ASSUME NEW f \in Flows,
               \/ AuthorizeStep(f) \/ Consent(f) \/ Expire(f)
               \/ \E p \in Pods, a \in Apps, c \in Configs : Authorize(f, p, a, c)
        PROVE  UnsavedInv'
    <2>1. UNCHANGED popped
      BY <1>1 DEF AuthorizeStep, Discover, Register, Resolve, SaveState, AuthorizeFails, Consent,
         Expire, Authorize
    <2>2. \A g \in Flows \ {f} :
             /\ apc'[g] = apc[g] /\ code'[g] = code[g] /\ secret'[g] = secret[g]
             /\ g \in lost' <=> g \in lost
      BY <1>1 DEF AuthorizeStep, Discover, Register, Resolve, SaveState, AuthorizeFails, Consent,
         Expire, Authorize, TypeOK
    <2>3. \/ /\ apc[f] \in {"new", "discover", "register", "resolve"}
             /\ apc'[f] \in {"discover", "register", "resolve", "save", "failed"}
             /\ UNCHANGED <<secret, code, lost>>
          \/ /\ apc[f] = "save" /\ apc'[f] \in {"returned", "failed"}
             /\ UNCHANGED <<code, lost>>
          \/ /\ apc[f] = "returned" /\ UNCHANGED <<apc, secret, lost>>
          \/ /\ secret[f] # 0 /\ secret'[f] = 0 /\ UNCHANGED <<apc, code>>
      BY <1>1 DEF AuthorizeStep, Discover, Register, Resolve, SaveState, AuthorizeFails, Consent,
         Expire, Authorize, Redirecting, TypeOK
    <2>4. /\ apc'[f] \in {"new", "discover", "register", "resolve", "save"} => Fresh(f)'
          /\ popped'[f] > 0 => secret'[f] = 0
          /\ f \in lost' => secret'[f] = 0
      BY <2>1, <2>3 DEF UnsavedInv, Fresh, TypeOK
    <2> QED
      BY <2>1, <2>2, <2>4 DEF UnsavedInv, Fresh
  <1>2. ASSUME NEW p \in Pods, HandlerStep(p) PROVE UnsavedInv'
    <2>1. handler[p] \in Busy /\ handler[p].flow \in Flows
      BY <1>2, HandlerStepMeans
    <2>2. PICK f \in Flows : f = handler[p].flow
      BY <2>1
    <2>3. apc[f] = "returned"
      BY <2>1, <2>2, IdleFacts DEF KnownInv
    <2>4. /\ UNCHANGED apc
          /\ code' \in {code, [code EXCEPT ![f] = "used"]}
          /\ \/ UNCHANGED <<secret, popped, lost>>
             \/ /\ secret' = [secret EXCEPT ![f] = 0]
                /\ popped' \in {popped, [popped EXCEPT ![f] = @ + 1]}
                /\ lost' \in {lost, lost \union {f}}
      BY <1>2, <2>2, HandlerTakes
    <2>5. \A g \in Flows \ {f} :
             /\ code'[g] = code[g] /\ secret'[g] = secret[g] /\ popped'[g] = popped[g]
             /\ g \in lost' <=> g \in lost
      BY <2>4 DEF TypeOK
    <2>6. (popped'[f] > 0 => secret'[f] = 0) /\ (f \in lost' => secret'[f] = 0)
      BY <2>4 DEF UnsavedInv, TypeOK
    <2> QED
      BY <2>3, <2>4, <2>5, <2>6 DEF UnsavedInv, Fresh
  <1>3. ASSUME UNCHANGED <<secret, code, popped, lost>>,
               \A f \in Flows : apc'[f] = apc[f] \/ apc'[f] = "failed"
        PROVE  UnsavedInv'
    BY <1>3 DEF UnsavedInv, Fresh
  <1>4. ASSUME NEW p \in Pods, Crash(p) PROVE UnsavedInv'
    BY <1>3, <1>4 DEF Crash
  <1>5. ASSUME NEW p \in Pods, StartListening(p) \/ \E f \in Flows : Hit(p, f) \/ Drain(p, f)
        PROVE  UnsavedInv'
    BY <1>3, <1>5 DEF StartListening, Hit, Drain
  <1>6. CASE UNCHANGED vars
    BY <1>3, <1>6 DEF vars
  <1> QED
    BY <1>1, <1>2, <1>4, <1>5, <1>6 DEF Next

\* Initially no state is saved.
LEMMA UnsavedInit == Init => UnsavedInv
  BY DEF Init, UnsavedInv, Fresh

\* What a step can do to one state: save it, let a pod read it, hand it to a pod
\* that has read it, drop such a pod, lose it.
Saved(f) ==
    /\ SharedStatus(f) = "absent" /\ SharedStatus(f)' = "pending"
    /\ Readers(f)' = Readers(f) /\ popped'[f] = popped[f]
ReadBy(f, p) ==
    /\ SharedStatus(f) = "pending" /\ SharedStatus(f)' = "pending"
    /\ p \notin Readers(f) /\ Readers(f)' = Readers(f) \union {p}
    /\ popped'[f] = popped[f]
ClaimedBy(f, p) ==
    /\ p \in Readers(f) /\ Readers(f)' = Readers(f) \ {p}
    /\ SharedStatus(f)' = "gone" /\ popped'[f] = popped[f] + 1
GivenUpBy(f, p) ==
    /\ p \in Readers(f) /\ Readers(f)' = Readers(f) \ {p}
    /\ SharedStatus(f)' \in {SharedStatus(f), "gone"} /\ popped'[f] = popped[f]
LostNow(f) ==
    /\ SharedStatus(f) = "pending" /\ SharedStatus(f)' = "gone"
    /\ Readers(f)' = Readers(f) /\ popped'[f] = popped[f]

Same(f) ==
    /\ SharedStatus(f)' = SharedStatus(f) /\ Readers(f)' = Readers(f)
    /\ popped'[f] = popped[f]

Shares(f) ==
    /\ \A g \in Flows \ {f} : Same(g)
    /\ \/ Saved(f) \/ LostNow(f)
       \/ \E p \in Pods : ReadBy(f, p) \/ ClaimedBy(f, p) \/ GivenUpBy(f, p)

SharedStays == \A f \in Flows : Same(f)

\* When the handler of one pod moves, the readers of a state differ by that pod at
\* most.
LEMMA OneHandlerMoves ==
    ASSUME NEW p \in Pods, \A q \in Pods \ {p} : handler'[q] = handler[q], NEW f
    PROVE  /\ handler[p].pc # "delete" \/ handler[p].flow # f => p \notin Readers(f)
           /\ handler[p].pc = "delete" /\ handler[p].flow = f => p \in Readers(f)
           /\ handler'[p].pc # "delete" \/ handler'[p].flow # f => Readers(f)' = Readers(f) \ {p}
           /\ handler'[p].pc = "delete" /\ handler'[p].flow = f
                => Readers(f)' = Readers(f) \union {p}
  BY DEF Readers

\* The status of a state depends on the vault, the pops and the losses alone.
LEMMA StatusStays ==
    ASSUME NEW f, secret'[f] = secret[f], popped'[f] = popped[f], f \in lost' <=> f \in lost
    PROVE  SharedStatus(f)' = SharedStatus(f)
  BY DEF SharedStatus

\* A step of the broker is a step of one state, or of none, whatever the pods.
LEMMA SharesOrStays ==
    ASSUME TypeOK, KnownInv, UnsavedInv, [Next]_vars
    PROVE  SharedStays \/ \E f \in Flows : Shares(f)
  <1> USE DEF authorizeVars, callbackVars, eventVars
  <1> DEFINE Goal == SharedStays \/ \E f \in Flows : Shares(f)
  <1>i. Idle.pc = "idle"
    BY DEF Idle
  <1>s. ASSUME UNCHANGED <<secret, popped, lost>>,
               \A f \in Flows : Readers(f)' = Readers(f)
        PROVE  Goal
    BY <1>s DEF SharedStays, Same, SharedStatus
  <1>h. ASSUME UNCHANGED <<secret, popped, lost, handler>> PROVE Goal
    BY <1>s, <1>h DEF Readers
  <1>1. ASSUME NEW f \in Flows, SaveState(f) \/ AuthorizeFails(f) PROVE Goal
    <2>1. UNCHANGED <<popped, lost, handler>> /\ \A g \in Flows : Readers(g)' = Readers(g)
      BY <1>1 DEF SaveState, AuthorizeFails, Readers
    <2>2. CASE UNCHANGED secret
      BY <1>h, <2>1, <2>2
    <2>3. CASE apc[f] = "save" /\ secret' = [secret EXCEPT ![f] = client[f]]
      <3>1. Fresh(f) /\ client[f] # 0
        BY <2>3 DEF UnsavedInv, TypeOK
      <3>2. secret'[f] = client[f]
        BY <2>3 DEF TypeOK
      <3>3. Saved(f)
        BY <2>1, <3>1, <3>2 DEF Saved, SharedStatus, Fresh
      <3>4. \A g \in Flows \ {f} : Same(g)
        BY <2>1, <2>3, StatusStays DEF Same, TypeOK
      <3> QED
        BY <3>3, <3>4 DEF Shares
    <2> QED
      BY <1>1, <2>2, <2>3 DEF SaveState, AuthorizeFails
  <1>2. ASSUME NEW f \in Flows, Expire(f) PROVE Goal
    <2>1. UNCHANGED <<popped, handler>> /\ \A g \in Flows : Readers(g)' = Readers(g)
      BY <1>2 DEF Expire, Readers
    <2>2. secret[f] # 0 /\ secret' = [secret EXCEPT ![f] = 0] /\ lost' = lost \union {f}
      BY <1>2 DEF Expire
    <2>3. secret'[f] = 0
      BY <2>2 DEF TypeOK
    <2>4. LostNow(f)
      BY <2>1, <2>2, <2>3 DEF LostNow, SharedStatus
    <2>5. \A g \in Flows \ {f} : Same(g)
      BY <2>1, <2>2, StatusStays DEF Same, TypeOK
    <2> QED
      BY <2>4, <2>5 DEF Shares
  <1>3. ASSUME NEW p \in Pods, ReadState(p) \/ DeleteState(p) \/ PopFails(p) PROVE Goal
    <2>1. handler[p] \in Busy /\ handler[p].flow \in Flows
      BY <1>3, HandlerStepMeans DEF HandlerStep
    <2>2. PICK f \in Flows : f = handler[p].flow
      BY <2>1
    <2>3. /\ \A q \in Pods \ {p} : handler'[q] = handler[q]
          /\ handler'[p] = Idle \/ handler'[p].flow = f
      BY <1>3, <2>2, HandlerStepMeans DEF HandlerStep
    <2>4. \A g \in Flows \ {f} : Readers(g)' = Readers(g)
      BY <1>i, <2>2, <2>3, OneHandlerMoves
    <2>5. \A g \in Flows \ {f} : Same(g)
      <3>1. \A g \in Flows \ {f} :
               secret'[g] = secret[g] /\ popped'[g] = popped[g] /\ (g \in lost' <=> g \in lost)
        BY <1>3, <2>2 DEF ReadState, DeleteState, PopFails, TypeOK
      <3> QED
        BY <2>4, <3>1, StatusStays DEF Same
    <2>6. CASE handler'[p].pc = "delete"
      <3>1. ReadState(p)
        BY <1>3, <1>i, <2>1, <2>6 DEF DeleteState, PopFails, Answer, Step, TypeOK, Busy
      <3>2. /\ handler[p].pc = "read" /\ secret[f] # 0 /\ handler'[p].flow = f
            /\ UNCHANGED <<secret, popped, lost>>
        BY <1>i, <2>2, <2>3, <2>6, <3>1 DEF ReadState, Answer, TypeOK
      <3>3. ReadBy(f, p)
        BY <2>3, <2>6, <3>2, OneHandlerMoves DEF ReadBy, SharedStatus
      <3> QED
        BY <2>5, <3>3 DEF Shares
    <2>7. CASE handler'[p].pc # "delete" /\ handler[p].pc = "read"
      <3>1. UNCHANGED <<secret, popped, lost>>
        BY <1>3, <2>7 DEF ReadState, DeleteState, PopFails
      <3>2. Readers(f)' = Readers(f)
        BY <2>3, <2>7, OneHandlerMoves
      <3> QED
        BY <1>s, <2>4, <3>1, <3>2
    <2>8. CASE handler'[p].pc # "delete" /\ handler[p].pc = "delete"
      <3>1. p \in Readers(f) /\ Readers(f)' = Readers(f) \ {p}
        BY <2>2, <2>3, <2>8, OneHandlerMoves
      <3>2. CASE DeleteState(p)
        <4>1. secret'[f] = 0 /\ popped'[f] = popped[f] + 1 /\ popped'[f] > 0
          BY <2>2, <3>2 DEF DeleteState, TypeOK
        <4>2. ClaimedBy(f, p)
          BY <3>1, <4>1 DEF ClaimedBy, SharedStatus
        <4> QED
          BY <2>5, <4>2 DEF Shares
      <3>3. CASE PopFails(p)
        <4>1. UNCHANGED popped
              /\ (UNCHANGED <<secret, lost>> \/ (secret'[f] = 0 /\ f \in lost'))
          BY <2>2, <3>3 DEF PopFails, TypeOK
        <4>2. GivenUpBy(f, p)
          BY <3>1, <4>1 DEF GivenUpBy, SharedStatus
        <4> QED
          BY <2>5, <4>2 DEF Shares
      <3> QED
        BY <1>3, <2>8, <3>2, <3>3 DEF ReadState
    <2> QED
      BY <1>3, <2>6, <2>7, <2>8 DEF ReadState, DeleteState, PopFails
  <1>4. ASSUME NEW p \in Pods,
               \/ Exchange(p) \/ ExchangeFails(p) \/ ExchangeMalformed(p)
               \/ StoreToken(p) \/ StoreFails(p) \/ Notify(p)
        PROVE  Goal
    <2>1. UNCHANGED <<secret, popped, lost>>
      BY <1>4 DEF Exchange, ExchangeFails, ExchangeMalformed, StoreToken, StoreFails, Notify
    <2>2. handler[p].pc # "delete" /\ handler'[p].pc # "delete"
      BY <1>4, <1>i, BusyHandler DEF Exchange, ExchangeFails, ExchangeMalformed, StoreToken,
         StoreFails, Notify, Answer, Step, TypeOK, Busy, HandlerPcs
    <2>3. \A q \in Pods \ {p} : handler'[q] = handler[q]
      BY <1>4, HandlerStepMeans DEF HandlerStep
    <2> QED
      BY <1>s, <2>1, <2>2, <2>3, OneHandlerMoves
  <1>5. ASSUME NEW p \in Pods, NEW f \in Flows, Hit(p, f) PROVE Goal
    <2>1. /\ UNCHANGED <<secret, popped, lost>>
          /\ handler[p].pc # "delete" /\ handler'[p].pc # "delete"
          /\ \A q \in Pods \ {p} : handler'[q] = handler[q]
      BY <1>5, <1>i DEF Hit, TypeOK
    <2>2. \A g \in Flows : Readers(g)' = Readers(g)
      BY <2>1, OneHandlerMoves
    <2> QED
      BY <1>s, <2>1, <2>2
  <1>6. ASSUME NEW p \in Pods, Crash(p) PROVE Goal
    <2>1. /\ UNCHANGED <<secret, popped, lost>>
          /\ handler'[p].pc # "delete"
          /\ \A q \in Pods \ {p} : handler'[q] = handler[q]
      BY <1>6, <1>i DEF Crash, TypeOK
    <2>2. CASE handler[p].pc # "delete"
      BY <1>s, <2>1, <2>2, OneHandlerMoves
    <2>3. CASE handler[p].pc = "delete"
      <3>1. handler[p].flow \in Flows
        BY <2>3, BusyHandler DEF HandlerPcs
      <3>2. PICK f \in Flows : f = handler[p].flow
        BY <3>1
      <3>3. p \in Readers(f) /\ Readers(f)' = Readers(f) \ {p}
        BY <2>1, <2>3, <3>2, OneHandlerMoves
      <3>4. \A g \in Flows \ {f} : Readers(g)' = Readers(g)
        BY <2>1, <2>3, <3>2, OneHandlerMoves
      <3>5. \A g \in Flows : SharedStatus(g)' = SharedStatus(g)
        BY <2>1 DEF SharedStatus
      <3>6. GivenUpBy(f, p) /\ \A g \in Flows \ {f} : Same(g)
        BY <2>1, <3>3, <3>4, <3>5 DEF GivenUpBy, Same
      <3> QED
        BY <3>6 DEF Shares
    <2> QED
      BY <2>2, <2>3
  <1>7. ASSUME NEW f \in Flows,
               \/ Discover(f) \/ Register(f) \/ Resolve(f) \/ Consent(f)
               \/ \E p \in Pods, a \in Apps, c \in Configs : Authorize(f, p, a, c)
               \/ \E p \in Pods : Drain(p, f)
        PROVE  Goal
    BY <1>h, <1>7 DEF Discover, Register, Resolve, Consent, Authorize, Drain
  <1>8. ASSUME NEW p \in Pods, StartListening(p) PROVE Goal
    BY <1>h, <1>8 DEF StartListening
  <1>9. ASSUME UNCHANGED vars PROVE Goal
    BY <1>h, <1>9 DEF vars
  <1> HIDE DEF Goal
  <1>10. ASSUME NEW f \in Flows, AuthorizeStep(f) \/ Consent(f) \/ Expire(f) PROVE Goal
    BY <1>1, <1>2, <1>7, <1>10 DEF AuthorizeStep
  <1>11. ASSUME NEW p \in Pods, HandlerStep(p) PROVE Goal
    BY <1>3, <1>4, <1>11 DEF HandlerStep
  <1>12. ASSUME NEW f \in Flows, NEW p \in Pods, NEW a \in Apps, NEW c \in Configs,
                Authorize(f, p, a, c)
         PROVE  Goal
    BY <1>7, <1>12
  <1>13. ASSUME NEW p \in Pods, NEW f \in Flows, Hit(p, f) \/ Drain(p, f) PROVE Goal
    BY <1>5, <1>7, <1>13
  <1>14. ASSUME NEW p \in Pods, HandlerStep(p) \/ StartListening(p) \/ Crash(p) PROVE Goal
    BY <1>6, <1>8, <1>11, <1>14
  <1>15. Goal
    BY <1>9, <1>10, <1>12, <1>13, <1>14 DEF Next
  <1> QED
    BY <1>15 DEF Goal

\* Such a step is a step of SharedState.
LEMMA SharedStep ==
    ASSUME SharedStays \/ \E f \in Flows : Shares(f), popped \in [Flows -> Nat],
           popped' \in [Flows -> Nat]
    PROVE  [Shared!Next]_(Shared!vars)
  <1> DEFINE status == [f \in Flows |-> SharedStatus(f)]
             readers == [f \in Flows |-> Readers(f)]
  <1>1. CASE SharedStays
    BY <1>1 DEF SharedStays, Same, Shared!vars
  <1>2. ASSUME NEW f \in Flows, Shares(f) PROVE Shared!Next
    <2>1. /\ status' = [status EXCEPT ![f] = SharedStatus(f)']
          /\ readers' = [readers EXCEPT ![f] = Readers(f)']
          /\ popped' = [popped EXCEPT ![f] = popped'[f]]
          /\ status[f] = SharedStatus(f) /\ readers[f] = Readers(f)
      BY <1>2 DEF Shares, Same
    <2>2. status = [status EXCEPT ![f] = status[f]] /\ readers = [readers EXCEPT ![f] = readers[f]]
          /\ popped = [popped EXCEPT ![f] = popped[f]]
      OBVIOUS
    <2>3. CASE Saved(f)
      BY <2>1, <2>2, <2>3 DEF Saved, Shared!Save, Shared!Next
    <2>4. CASE LostNow(f)
      BY <2>1, <2>2, <2>4 DEF LostNow, Shared!Lose, Shared!Next
    <2>5. ASSUME NEW p \in Pods, ReadBy(f, p) PROVE Shared!Next
      <3>1. /\ status[f] = "pending" /\ p \notin readers[f]
            /\ readers' = [readers EXCEPT ![f] = readers[f] \union {p}]
        BY <2>1, <2>5 DEF ReadBy
      <3>2. UNCHANGED <<status, popped>>
        BY <2>1, <2>2, <2>5 DEF ReadBy
      <3>3. Shared!Read(f, p)
        BY <3>1, <3>2 DEF Shared!Read
      <3> QED
        BY <3>3 DEF Shared!Next
    <2>6. ASSUME NEW p \in Pods, ClaimedBy(f, p) PROVE Shared!Next
      BY <2>1, <2>2, <2>6 DEF ClaimedBy, Shared!Claim, Shared!Next
    <2>7. ASSUME NEW p \in Pods, GivenUpBy(f, p) PROVE Shared!Next
      BY <2>1, <2>2, <2>7 DEF GivenUpBy, Shared!GiveUp, Shared!Next
    <2> QED
      BY <1>2, <2>3, <2>4, <2>5, <2>6, <2>7 DEF Shares
  <1> QED
    BY <1>1, <1>2

\* Whatever the number of pods, the vault-backed state store implements SharedState.
THEOREM SharedPromiseKeptHolds == Spec => SharedPromiseKept
  <1>1. Init => Shared!Init
    <2> SUFFICES ASSUME Init PROVE Shared!Init
      OBVIOUS
    <2>1. \A f \in Flows : SharedStatus(f) = "absent" /\ Readers(f) = {}
      BY DEF Init, Idle, SharedStatus, Readers
    <2> QED
      BY <2>1 DEF Init, Shared!Init
  <1>2. TypeOK /\ TypeOK' /\ KnownInv /\ UnsavedInv /\ [Next]_vars => [Shared!Next]_(Shared!vars)
    BY SharesOrStays, SharedStep DEF TypeOK
  <1>3. Spec => []UnsavedInv
    BY TypeCorrect, KnownInit, KnownStep, UnsavedInit, UnsavedStep, PTL DEF Spec
  <1>4. Spec => []KnownInv
    BY TypeCorrect, KnownInit, KnownStep, PTL DEF Spec
  <1> QED
    BY TypeCorrect, <1>1, <1>2, <1>3, <1>4, PTL DEF Spec, SharedPromiseKept, Shared!Spec

\* Once a state was handed out, the pods that got it and those that still will are
\* no more than there are.
CountInv ==
    \A f \in Flows : popped[f] > 0 => popped[f] + Cardinality(Readers(f)) <= Cardinality(Pods)

\* No step of a state makes them more.
LEMMA CountStep ==
    ASSUME IsFiniteSet(Pods), TypeOK, UnsavedInv, CountInv, popped' \in [Flows -> Nat],
           SharedStays \/ \E f \in Flows : Shares(f)
    PROVE  CountInv'
  <1> DEFINE C(f) == Cardinality(Readers(f))
             N == Cardinality(Pods)
  <1>0. N \in Nat
    BY FS_CardinalityType
  <1>1. ASSUME NEW f \in Flows
        PROVE  /\ IsFiniteSet(Readers(f)) /\ C(f) \in Nat /\ C(f) <= N
               /\ \A p \in Readers(f) : Cardinality(Readers(f) \ {p}) = C(f) - 1
    <2>1. Readers(f) \subseteq Pods
      BY DEF Readers
    <2>2. IsFiniteSet(Readers(f)) /\ C(f) <= N
      BY <2>1, FS_Subset
    <2> QED
      BY <2>2, FS_CardinalityType, FS_RemoveElement
  <1>2. ASSUME NEW f \in Flows, Same(f) PROVE (popped[f] > 0 => popped[f] + C(f) <= N)'
    BY <1>2 DEF Same, CountInv
  <1>3. ASSUME NEW f \in Flows, popped[f] = 0, popped'[f] = popped[f]
        PROVE  (popped[f] > 0 => popped[f] + C(f) <= N)'
    BY <1>3
  <1>4. ASSUME NEW f \in Flows, NEW p \in Readers(f), Readers(f)' = Readers(f) \ {p},
               popped'[f] \in {popped[f], popped[f] + 1}
        PROVE  (popped[f] > 0 => popped[f] + C(f) <= N)'
    <2>1. C(f)' = C(f) - 1 /\ C(f) \in Nat /\ C(f) <= N
      BY <1>1, <1>4
    <2>2. popped[f] \in Nat /\ (popped[f] > 0 => popped[f] + C(f) <= N)
      BY DEF CountInv, TypeOK
    <2> QED
      BY <1>0, <1>4, <2>1, <2>2
  <1>5. ASSUME NEW f \in Flows, Shares(f) PROVE (popped[f] > 0 => popped[f] + C(f) <= N)'
    <2>1. CASE Saved(f) \/ LostNow(f)
      BY <2>1 DEF Saved, LostNow, CountInv
    <2>2. ASSUME NEW p \in Pods, ReadBy(f, p) PROVE popped[f] = 0 /\ popped'[f] = popped[f]
      BY <2>2 DEF ReadBy, SharedStatus, UnsavedInv, TypeOK
    <2>3. ASSUME NEW p \in Pods, ClaimedBy(f, p) \/ GivenUpBy(f, p)
          PROVE  (popped[f] > 0 => popped[f] + C(f) <= N)'
      BY <1>4, <2>3 DEF ClaimedBy, GivenUpBy
    <2> QED
      BY <1>3, <1>5, <2>1, <2>2, <2>3 DEF Shares
  <1>6. \A f \in Flows : (popped[f] > 0 => popped[f] + C(f) <= N)'
    BY <1>2, <1>5 DEF SharedStays, Shares
  <1> QED
    BY <1>6 DEF CountInv

\* The data of a flow is handed out once per pod at most, whatever their number.
THEOREM OncePerPodHolds == ASSUME IsFiniteSet(Pods) PROVE Spec => []OncePerPod
  <1>1. Init => CountInv
    BY DEF Init, CountInv
  <1>2. TypeOK /\ TypeOK' /\ KnownInv /\ UnsavedInv /\ CountInv /\ [Next]_vars => CountInv'
    BY SharesOrStays, CountStep DEF TypeOK
  <1>3. TypeOK /\ CountInv => OncePerPod
    <2> SUFFICES ASSUME TypeOK, CountInv, NEW f \in Flows PROVE popped[f] <= Cardinality(Pods)
      BY DEF OncePerPod
    <2>1. Readers(f) \subseteq Pods
      BY DEF Readers
    <2>2. Cardinality(Readers(f)) \in Nat /\ Cardinality(Pods) \in Nat
      BY <2>1, FS_Subset, FS_CardinalityType
    <2> QED
      BY <2>2 DEF CountInv, TypeOK
  <1>4. Spec => []UnsavedInv
    BY TypeCorrect, KnownInit, KnownStep, UnsavedInit, UnsavedStep, PTL DEF Spec
  <1>5. Spec => []KnownInv
    BY TypeCorrect, KnownInit, KnownStep, PTL DEF Spec
  <1> QED
    BY TypeCorrect, <1>1, <1>2, <1>3, <1>4, <1>5, PTL DEF Spec
-------------------------------------------------------------------------------
(* Any number of pods: a flow is finished once *)

Finished(f) ==
    (\E p \in Pods : Finishing(p, f) \/ f \in events[p]) \/ f \in announced

\* Whatever finishes a flow has the code of the flow, which is taken once.
FinishInv == FinishedOnce /\ \A f \in Flows : Finished(f) => code[f] = "used"

\* The invariant is kept by a step that finishes nothing more.
LEMMA NothingMoreFinished ==
    ASSUME FinishInv, \A f \in Flows, p \in Pods : Finishing(p, f)' => Finishing(p, f),
           \A p \in Pods : events'[p] \subseteq events[p], announced' = announced,
           \A f \in Flows : code[f] = "used" => code'[f] = "used"
    PROVE  FinishInv'
  <1>1. FinishedOnce'
    BY DEF FinishInv, FinishedOnce
  <1>2. \A f \in Flows : Finished(f)' => Finished(f)
    BY DEF Finished
  <1> QED
    BY <1>1, <1>2 DEF FinishInv

\* Every action keeps it.
LEMMA FinishStep == TypeOK /\ FinishInv /\ [Next]_vars => FinishInv'
  <1> SUFFICES ASSUME TypeOK, FinishInv, [Next]_vars PROVE FinishInv'
    OBVIOUS
  <1> USE DEF authorizeVars, callbackVars, eventVars
  <1>i. Idle.pc = "idle"
    BY DEF Idle
  <1>s. ASSUME NEW p \in Pods, \A q \in Pods \ {p} : handler'[q] = handler[q],
               handler'[p].pc \notin {"store", "notify"}
        PROVE  \A f \in Flows, q \in Pods : Finishing(q, f)' => Finishing(q, f)
    BY <1>s DEF Finishing
  <1>1. ASSUME NEW p \in Pods, HandlerStep(p),
               handler'[p].pc \notin {"store", "notify"}, ~Notify(p)
        PROVE  FinishInv'
    <2>1. /\ \A q \in Pods \ {p} : handler'[q] = handler[q]
          /\ announced' = announced /\ handler[p].flow \in Flows
      BY <1>1, HandlerStepMeans
    <2>2. events' = events
      BY <1>1 DEF HandlerStep, ReadState, DeleteState, PopFails, Exchange, ExchangeFails,
         ExchangeMalformed, StoreToken, StoreFails
    <2>3. code' \in {code, [code EXCEPT ![handler[p].flow] = "used"]}
      BY <1>1, HandlerTakes
    <2>4. \A f \in Flows : code[f] = "used" => code'[f] = "used"
      BY <2>1, <2>3 DEF TypeOK
    <2> QED
      BY <1>s, <1>1, <2>1, <2>2, <2>4, NothingMoreFinished
  <1>2. ASSUME NEW p \in Pods, Exchange(p) PROVE FinishInv'
    <2>1. handler[p] \in Busy /\ handler[p].flow \in Flows
      BY <1>2, HandlerStepMeans DEF HandlerStep
    <2>2. PICK f \in Flows : f = handler[p].flow
      BY <2>1
    <2>3. /\ code[f] = "issued" /\ code' = [code EXCEPT ![f] = "used"]
          /\ handler' = [handler EXCEPT ![p].pc = "store"] /\ UNCHANGED <<events, announced>>
      BY <1>2, <2>2 DEF Exchange, Step
    <2>4. ~Finished(f)
      BY <2>3 DEF FinishInv
    <2>5. \A q \in Pods : ~Finishing(q, f) /\ f \notin events[q]
      BY <2>4 DEF Finished
    <2>6. /\ \A q \in Pods \ {p} : handler'[q] = handler[q]
          /\ handler'[p].flow = f
      BY <2>1, <2>2, <2>3 DEF TypeOK, Busy
    <2>7. \A g \in Flows, q \in Pods : Finishing(q, g)' => Finishing(q, g) \/ (q = p /\ g = f)
      BY <2>6 DEF Finishing
    <2>8. f \notin announced
      BY <2>4 DEF Finished
    <2>9. FinishedOnce'
      BY <2>3, <2>5, <2>7, <2>8 DEF FinishInv, FinishedOnce
    <2>10. \A g \in Flows \ {f} : Finished(g)' => Finished(g)
      BY <2>3, <2>7 DEF Finished
    <2>11. code'[f] = "used" /\ \A g \in Flows \ {f} : code'[g] = code[g]
      BY <2>3 DEF TypeOK
    <2> QED
      BY <2>9, <2>10, <2>11 DEF FinishInv
  <1>3. ASSUME NEW p \in Pods, StoreToken(p) PROVE FinishInv'
    <2>1. handler[p] \in Busy /\ handler[p].pc = "store"
          /\ \A q \in Pods \ {p} : handler'[q] = handler[q]
      BY <1>3, HandlerStepMeans DEF HandlerStep, StoreToken
    <2>2. handler'[p].flow = handler[p].flow
      BY <1>3, <2>1 DEF StoreToken, Step, TypeOK, Busy
    <2>3. \A f \in Flows, q \in Pods : Finishing(q, f)' => Finishing(q, f)
      BY <2>1, <2>2 DEF Finishing
    <2> QED
      BY <1>3, <2>3, NothingMoreFinished DEF StoreToken
  <1>4. ASSUME NEW p \in Pods, Notify(p) PROVE FinishInv'
    <2>1. handler[p] \in Busy /\ handler[p].flow \in Flows /\ handler[p].pc = "notify"
      BY <1>4, HandlerStepMeans DEF HandlerStep, Notify
    <2>2. PICK f \in Flows : f = handler[p].flow
      BY <2>1
    <2>3. Finishing(p, f)
      BY <2>1, <2>2 DEF Finishing
    <2>4. /\ handler' = [handler EXCEPT ![p] = Idle] /\ UNCHANGED <<announced, code>>
          /\ \A q \in Pods \ {p} : events'[q] = events[q]
          /\ events'[p] \subseteq events[p] \union {f}
      BY <1>4, <2>2 DEF Notify, Answer, TypeOK
    <2>5. /\ handler'[p].pc = "idle" /\ \A q \in Pods \ {p} : handler'[q] = handler[q]
      BY <1>i, <2>4 DEF TypeOK
    <2>6. /\ \A g \in Flows, q \in Pods : Finishing(q, g)' => Finishing(q, g) /\ q # p
          /\ \A g \in Flows, q \in Pods : g \in events'[q] => g \in events[q] \/ (q = p /\ g = f)
      BY <2>4, <2>5 DEF Finishing
    <2>7. FinishedOnce'
      BY <2>3, <2>4, <2>6 DEF FinishInv, FinishedOnce
    <2>8. \A g \in Flows : Finished(g)' => Finished(g)
      BY <2>3, <2>4, <2>6 DEF Finished
    <2> QED
      BY <2>4, <2>7, <2>8 DEF FinishInv
  <1>5. ASSUME NEW p \in Pods, NEW f \in Flows, Drain(p, f) PROVE FinishInv'
    <2>1. /\ f \in events[p] /\ UNCHANGED <<handler, code>>
          /\ f \notin events'[p] /\ \A q \in Pods : events'[q] \subseteq events[q]
          /\ announced' \subseteq announced \union {f}
      BY <1>5 DEF Drain, TypeOK
    <2>2. \A g \in Flows, q \in Pods : Finishing(q, g)' = Finishing(q, g)
      BY <2>1 DEF Finishing
    <2>3. \A q \in Pods : f \notin events'[q] /\ ~Finishing(q, f)
      BY <2>1 DEF FinishInv, FinishedOnce
    <2>4. FinishedOnce'
      BY <2>1, <2>2, <2>3 DEF FinishInv, FinishedOnce
    <2>5. \A g \in Flows : Finished(g)' => Finished(g)
      BY <2>1, <2>2 DEF Finished
    <2> QED
      BY <2>1, <2>4, <2>5 DEF FinishInv
  <1>6. ASSUME NEW p \in Pods, Crash(p) PROVE FinishInv'
    <2>1. /\ handler' = [handler EXCEPT ![p] = Idle] /\ UNCHANGED <<announced, code>>
          /\ \A q \in Pods : events'[q] \subseteq events[q]
      BY <1>6 DEF Crash, TypeOK
    <2>2. handler'[p].pc = "idle" /\ \A q \in Pods \ {p} : handler'[q] = handler[q]
      BY <1>i, <2>1 DEF TypeOK
    <2> QED
      BY <1>s, <2>1, <2>2, NothingMoreFinished
  <1>7. ASSUME NEW p \in Pods, NEW f \in Flows, Hit(p, f) PROVE FinishInv'
    <2>1. /\ UNCHANGED <<announced, events, code>> /\ handler'[p].pc = "read"
          /\ \A q \in Pods \ {p} : handler'[q] = handler[q]
      BY <1>7 DEF Hit, TypeOK
    <2> QED
      BY <1>s, <2>1, NothingMoreFinished
  <1>8. ASSUME UNCHANGED <<handler, events, announced>>,
               \A f \in Flows : code[f] = "used" => code'[f] = "used"
        PROVE  FinishInv'
    BY <1>8, NothingMoreFinished DEF Finishing
  <1>9. ASSUME NEW f \in Flows, Consent(f) PROVE FinishInv'
    <2>1. UNCHANGED <<handler, events, announced>>
          /\ \A g \in Flows : code[g] = "used" => code'[g] = "used"
      BY <1>9 DEF Consent, TypeOK
    <2> QED
      BY <1>8, <2>1
  <1>10. ASSUME \/ \E f \in Flows : AuthorizeStep(f) \/ Expire(f)
                \/ \E f \in Flows, p \in Pods, a \in Apps, c \in Configs : Authorize(f, p, a, c)
                \/ \E p \in Pods : StartListening(p)
                \/ UNCHANGED vars
         PROVE  FinishInv'
    <2>1. UNCHANGED <<handler, events, announced, code>>
      BY ZenonT(60), <1>10 DEF AuthorizeStep, Discover, Register, Resolve, SaveState, AuthorizeFails,
         Expire, Authorize, StartListening, vars
    <2> QED
      BY <1>8, <2>1
  <1>11. ASSUME NEW p \in Pods, HandlerStep(p) PROVE FinishInv'
    <2>1. CASE ReadState(p) \/ DeleteState(p) \/ PopFails(p)
      <3>1. handler'[p].pc \notin {"store", "notify"} /\ ~Notify(p)
        BY <2>1, <1>i, BusyHandler DEF HandlerPcs, ReadState, DeleteState, PopFails, Answer, Step,
           Notify, TypeOK, Busy
      <3> QED
        BY <1>1, <1>11, <3>1
    <2>2. CASE ExchangeFails(p) \/ ExchangeMalformed(p) \/ StoreFails(p)
      <3>1. handler'[p].pc \notin {"store", "notify"} /\ ~Notify(p)
        BY <2>2, <1>i DEF ExchangeFails, ExchangeMalformed, StoreFails, Answer, Notify, TypeOK
      <3> QED
        BY <1>1, <1>11, <3>1
    <2> QED
      BY <1>2, <1>3, <1>4, <1>11, <2>1, <2>2 DEF HandlerStep
  <1> QED
    BY <1>5, <1>6, <1>7, <1>9, <1>10, <1>11 DEF Next

\* Overlapping callbacks finish a flow once, on any number of pods.
THEOREM FinishedOnceHolds == Spec => []FinishedOnce
  <1>1. Init => FinishInv
    BY DEF Init, FinishInv, FinishedOnce, Finished, Finishing, Idle
  <1>2. FinishInv => FinishedOnce
    BY DEF FinishInv
  <1> QED
    BY TypeCorrect, <1>1, <1>2, FinishStep, PTL DEF Spec
=============================================================================
