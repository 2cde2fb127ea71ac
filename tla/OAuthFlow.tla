------------------------------ MODULE OAuthFlow ------------------------------
(***************************************************************************)
(* The OAuth broker of the sidecar (oauth/oauth_server.py): oauth_authorize*)
(* coroutines, the pending-flow state in Key Vault, the browser's callback *)
(* and the log notification that follows it.                               *)
(*                                                                         *)
(* oauth_authorize yields at every await, so calls for one app overlap     *)
(* while they share the module-level _oauth_cache of their pod.  The       *)
(* callback server of a pod handles one request at a time; it runs in its  *)
(* own thread, and any pod may get any callback, any number of times.      *)
(* pop_state is two vault calls, a read and a delete.                      *)
(*                                                                         *)
(* A flow is one oauth_authorize call and the state token it draws.  A     *)
(* config stands for the server_url and catalog headers of the call, which *)
(* decide where the dynamic client registration goes.  Client ids are      *)
(* numbers in the order of registration.                                   *)
(***************************************************************************)
EXTENDS Naturals, FiniteSets

CONSTANTS
    Flows,          \* oauth_authorize calls, by the state token they draw
    Pods,           \* sidecar pods that share the vault
    Apps,           \* app names
    Configs,        \* (server_url, catalog headers) combinations
    WithHeaders,    \* the configs whose catalog headers are not empty
    MaxClients,     \* bound: dynamic client registrations
    MaxHits,        \* bound: callback requests of the browser
    MayCrash,       \* whether pods may restart
    MalformedAnswers \* whether a token answer may be a 200 that is taken for a
                     \* ValueError: no JSON, or an expires_in that is no integer

ASSUME FlowAssumption ==
    /\ WithHeaders \subseteq Configs
    /\ MaxClients \in Nat /\ MaxHits \in Nat
    /\ MayCrash \in BOOLEAN /\ MalformedAnswers \in BOOLEAN

VARIABLES
    cache,        \* _oauth_cache: pod -> app -> entry
    clients,      \* number of clients registered
    clientConfig, \* client -> the config it was registered under
    apc,          \* flow -> where its oauth_authorize call is
    call,         \* flow -> pod, app and config of the call
    client,       \* flow -> dcr_client of the call (0: none yet); in auth_url
    secret,       \* flow -> client in the vault's state secret (0: no secret)
    code,         \* flow -> authorization code at the identity provider
    hits,         \* number of callback requests made
    handler,      \* pod -> the request its callback server is handling
    popped,       \* flow -> times pop_state returned the state data
    lost,         \* flows whose secret disappeared without being returned
    stored,       \* flows whose token was saved
    answered,     \* pages the browser got
    listening,    \* pods with a captured session and an event queue
    events,       \* pod -> auth_success events not sent yet
    announced     \* flows whose auth_success was sent

authorizeVars == <<cache, clients, clientConfig, apc, call, client>>
callbackVars == <<hits, handler, popped, stored, answered>>
eventVars == <<listening, events, announced>>
vars == <<authorizeVars, secret, code, callbackVars, lost, eventVars>>

Clients == 1 .. MaxClients
NoEntry == [client |-> 0, config |-> "none"]
Calls == [pod : Pods, app : Apps, config : Configs]
NoCall == [pod |-> "none", app |-> "none", config |-> "none"]
Idle == [pc |-> "idle", flow |-> "none", client |-> 0]

EmptyCache == [a \in Apps |-> NoEntry]

Init ==
    /\ cache = [p \in Pods |-> EmptyCache]
    /\ clients = 0
    /\ clientConfig = [i \in Clients |-> "none"]
    /\ apc = [f \in Flows |-> "new"]
    /\ call = [f \in Flows |-> NoCall]
    /\ client = [f \in Flows |-> 0]
    /\ secret = [f \in Flows |-> 0]
    /\ code = [f \in Flows |-> "none"]
    /\ hits = 0
    /\ handler = [p \in Pods |-> Idle]
    /\ popped = [f \in Flows |-> 0]
    /\ lost = {}
    /\ stored = {}
    /\ answered = {}
    /\ listening = {}
    /\ events = [p \in Pods |-> {}]
    /\ announced = {}

-------------------------------------------------------------------------------
(* oauth_authorize *)

\* Where the call goes once it has its client: the authorize redirects are
\* followed only for catalog headers.
Redirecting(config) == IF config \in WithHeaders THEN "resolve" ELSE "save"

\* Faulty variant: an entry that is not there passes for a usable one.
AuthorizeUnregistered(f, p, a, c) ==
    LET entry == cache[p][a] IN
    /\ apc[f] = "new"
    /\ call' = [call EXCEPT ![f] = [pod |-> p, app |-> a, config |-> c]]
    /\ client' = [client EXCEPT ![f] = entry.client]
    /\ apc' = [apc EXCEPT ![f] = Redirecting(c)]
    /\ UNCHANGED <<cache, clients, clientConfig, secret, code, callbackVars, lost, eventVars>>

\* The cache has a usable entry for the app.
Authorize(f, p, a, c) ==
    LET entry == cache[p][a] IN
    /\ apc[f] = "new"
    /\ call' = [call EXCEPT ![f] = [pod |-> p, app |-> a, config |-> c]]
    /\ \/ /\ entry # NoEntry /\ entry.config = c
          /\ client' = [client EXCEPT ![f] = entry.client]
          /\ apc' = [apc EXCEPT ![f] = Redirecting(c)]
       \/ /\ entry = NoEntry \/ entry.config # c
          /\ apc' = [apc EXCEPT ![f] = "discover"]
          /\ UNCHANGED client
    /\ UNCHANGED <<cache, clients, clientConfig, secret, code, callbackVars, lost, eventVars>>

\* discover_oauth found the endpoints: four requests, at most, that any status,
\* scheme or field the code does not expect ends with an error.
Discover(f) ==
    /\ apc[f] = "discover"
    /\ apc' = [apc EXCEPT ![f] = "register"]
    /\ UNCHANGED <<cache, clients, clientConfig, call, client, secret, code,
                   callbackVars, lost, eventVars>>

\* perform_dcr answered: the new client goes into the cache, over whatever an
\* overlapping call put there.
Register(f) ==
    LET n == clients + 1
        config == call[f].config
    IN
    /\ apc[f] = "register"
    /\ clients < MaxClients
    /\ clients' = n
    /\ clientConfig' = [clientConfig EXCEPT ![n] = config]
    /\ client' = [client EXCEPT ![f] = n]
    /\ cache' = [cache EXCEPT ![call[f].pod][call[f].app] =
                    [client |-> n, config |-> config]]
    /\ apc' = [apc EXCEPT ![f] = Redirecting(config)]
    /\ UNCHANGED <<call, secret, code, callbackVars, lost, eventVars>>

\* _resolve_authorize_redirects answers with some URL whatever happens.
Resolve(f) ==
    /\ apc[f] = "resolve"
    /\ apc' = [apc EXCEPT ![f] = "save"]
    /\ UNCHANGED <<cache, clients, clientConfig, call, client, secret, code,
                   callbackVars, lost, eventVars>>

\* Faulty variant: the state names the client that is in the cache by now.
SaveCachedClient(f) ==
    /\ apc[f] = "save"
    /\ secret' = [secret EXCEPT ![f] = cache[call[f].pod][call[f].app].client]
    /\ apc' = [apc EXCEPT ![f] = "returned"]
    /\ UNCHANGED <<cache, clients, clientConfig, call, client, code, callbackVars,
                   lost, eventVars>>

\* save_state, then the answer with auth_url.
SaveState(f) ==
    /\ apc[f] = "save"
    /\ secret' = [secret EXCEPT ![f] = client[f]]
    /\ apc' = [apc EXCEPT ![f] = "returned"]
    /\ UNCHANGED <<cache, clients, clientConfig, call, client, code, callbackVars,
                   lost, eventVars>>

\* Faulty variant: a failed save_state is only logged, the URL leaves anyway.
AuthorizeAnyway(f) ==
    /\ apc[f] = "save"
    /\ apc' = [apc EXCEPT ![f] = "returned"]
    /\ UNCHANGED <<cache, clients, clientConfig, call, client, secret, code,
                   callbackVars, lost, eventVars>>

\* Discovery, registration or the vault raised: an oauth_error answer, with no
\* URL.  The vault may have applied the write all the same.
AuthorizeFails(f) ==
    /\ apc[f] \in {"discover", "register", "save"}
    /\ apc' = [apc EXCEPT ![f] = "failed"]
    /\ \/ UNCHANGED secret
       \/ apc[f] = "save" /\ secret' = [secret EXCEPT ![f] = client[f]]
    /\ UNCHANGED <<cache, clients, clientConfig, call, client, code, callbackVars,
                   lost, eventVars>>

-------------------------------------------------------------------------------
(* The world outside: the user, the identity provider, the vault *)

\* The user opens auth_url and consents; the browser is sent to the callback.
Consent(f) ==
    /\ apc[f] = "returned"
    /\ code[f] = "none"
    /\ code' = [code EXCEPT ![f] = "issued"]
    /\ UNCHANGED <<authorizeVars, secret, callbackVars, lost, eventVars>>

\* The vault collects the secret after its expires_on.
Expire(f) ==
    /\ secret[f] # 0
    /\ secret' = [secret EXCEPT ![f] = 0]
    /\ lost' = lost \union {f}
    /\ UNCHANGED <<authorizeVars, code, callbackVars, eventVars>>

-------------------------------------------------------------------------------
(* The callback handler *)

Step(p, pc) == handler' = [handler EXCEPT ![p].pc = pc]

\* The handler answers with a page and is free again.  found: whether it had
\* got the state data of the flow.
Answer(p, page, found) ==
    /\ answered' = answered \union
          {[flow |-> handler[p].flow, page |-> page, found |-> found]}
    /\ handler' = [handler EXCEPT ![p] = Idle]

\* The browser follows the redirect, reloads it, or sends it twice.
Hit(p, f) ==
    /\ handler[p] = Idle
    /\ code[f] # "none"
    /\ hits < MaxHits
    /\ hits' = hits + 1
    /\ handler' = [handler EXCEPT ![p] = [pc |-> "read", flow |-> f, client |-> 0]]
    /\ UNCHANGED <<authorizeVars, secret, code, popped, stored, answered, lost, eventVars>>

\* Faulty variant: get_secret finds a deleted secret as well.
ReadDeletedState(p) ==
    LET f == handler[p].flow IN
    /\ handler[p].pc = "read"
    /\ \/ /\ secret[f] # 0 \/ popped[f] > 0
          /\ handler' = [handler EXCEPT ![p] =
                [pc |-> "delete", flow |-> f, client |-> client[f]]]
          /\ UNCHANGED answered
       \/ /\ secret[f] = 0 /\ popped[f] = 0
          /\ Answer(p, "unknown", FALSE)
    /\ UNCHANGED <<authorizeVars, secret, code, hits, popped, stored, lost, eventVars>>

\* pop_state, first half: get_secret finds the state, or does not.
ReadState(p) ==
    LET f == handler[p].flow IN
    /\ handler[p].pc = "read"
    /\ \/ /\ secret[f] # 0
          /\ handler' = [handler EXCEPT ![p] =
                [pc |-> "delete", flow |-> f, client |-> secret[f]]]
          /\ UNCHANGED answered
       \/ /\ secret[f] = 0
          /\ Answer(p, "unknown", FALSE)
    /\ UNCHANGED <<authorizeVars, secret, code, hits, popped, stored, lost, eventVars>>

\* Faulty variant: the secret stays in the vault.
DeleteNothing(p) ==
    /\ handler[p].pc = "delete"
    /\ popped' = [popped EXCEPT ![handler[p].flow] = @ + 1]
    /\ Step(p, "exchange")
    /\ UNCHANGED <<authorizeVars, secret, code, hits, stored, answered, lost, eventVars>>

\* pop_state, second half: the secret is deleted; if it is gone already, that is
\* only logged.  Either way the data is returned.
DeleteState(p) ==
    LET f == handler[p].flow IN
    /\ handler[p].pc = "delete"
    /\ secret' = [secret EXCEPT ![f] = 0]
    /\ popped' = [popped EXCEPT ![f] = @ + 1]
    /\ Step(p, "exchange")
    /\ UNCHANGED <<authorizeVars, code, hits, stored, answered, lost, eventVars>>

\* A vault call of pop_state raises: the failure page.  A delete may have been
\* applied all the same.
PopFails(p) ==
    LET f == handler[p].flow IN
    /\ handler[p].pc \in {"read", "delete"}
    /\ Answer(p, "failed", FALSE)
    /\ \/ UNCHANGED <<secret, lost>>
       \/ /\ handler[p].pc = "delete"
          /\ secret' = [secret EXCEPT ![f] = 0]
          /\ lost' = lost \union {f}
    /\ UNCHANGED <<authorizeVars, code, hits, popped, stored, eventVars>>

\* The identity provider takes a code once, from the client it was issued to.
Exchange(p) ==
    LET f == handler[p].flow IN
    /\ handler[p].pc = "exchange"
    /\ code[f] = "issued"
    /\ handler[p].client = client[f]
    /\ code' = [code EXCEPT ![f] = "used"]
    /\ Step(p, "store")
    /\ UNCHANGED <<authorizeVars, secret, hits, popped, stored, answered, lost, eventVars>>

\* Faulty variant: a failed exchange is only logged.
ExchangeFailsQuietly(p) ==
    LET f == handler[p].flow IN
    /\ handler[p].pc = "exchange"
    /\ \/ UNCHANGED code
       \/ code[f] = "issued" /\ code' = [code EXCEPT ![f] = "used"]
    /\ Step(p, "store")
    /\ UNCHANGED <<authorizeVars, secret, hits, popped, stored, answered, lost, eventVars>>

\* The exchange is refused, does not arrive, or its answer does not.
ExchangeFails(p) ==
    LET f == handler[p].flow IN
    /\ handler[p].pc = "exchange"
    /\ \/ UNCHANGED code
       \/ code[f] = "issued" /\ code' = [code EXCEPT ![f] = "used"]
    /\ Answer(p, "failed", TRUE)
    /\ UNCHANGED <<authorizeVars, secret, hits, popped, stored, lost, eventVars>>

\* The answer is a 200 whose body is not JSON, or whose expires_in is no integer: the
\* ValueError of the parser, or of int(), is taken for the one of an unknown state.
ExchangeMalformed(p) ==
    LET f == handler[p].flow IN
    /\ MalformedAnswers
    /\ handler[p].pc = "exchange"
    /\ code[f] = "issued"
    /\ code' = [code EXCEPT ![f] = "used"]
    /\ Answer(p, "unknown", TRUE)
    /\ UNCHANGED <<authorizeVars, secret, hits, popped, stored, lost, eventVars>>

StoreToken(p) ==
    /\ handler[p].pc = "store"
    /\ stored' = stored \union {handler[p].flow}
    /\ Step(p, "notify")
    /\ UNCHANGED <<authorizeVars, secret, code, hits, popped, answered, lost, eventVars>>

\* Faulty variant: a failed save_token is only logged.
StoreFailsQuietly(p) ==
    /\ handler[p].pc = "store"
    /\ Step(p, "notify")
    /\ UNCHANGED <<authorizeVars, secret, code, hits, popped, stored, answered, lost,
                   eventVars>>

\* save_token raises, whether or not the vault applied the write.
StoreFails(p) ==
    /\ handler[p].pc = "store"
    /\ \/ stored' = stored \union {handler[p].flow}
       \/ UNCHANGED stored
    /\ Answer(p, "failed", TRUE)
    /\ UNCHANGED <<authorizeVars, secret, code, hits, popped, lost, eventVars>>

\* Faulty variant: the handler waits until there is a session to notify.
NotifyWaits(p) ==
    /\ handler[p].pc = "notify"
    /\ p \in listening
    /\ events' = [events EXCEPT ![p] = @ \union {handler[p].flow}]
    /\ Answer(p, "success", TRUE)
    /\ UNCHANGED <<authorizeVars, secret, code, hits, popped, stored, lost,
                   listening, announced>>

\* The event is queued if a session was captured, and the user gets the page.
Notify(p) ==
    /\ handler[p].pc = "notify"
    /\ events' = IF p \in listening
                 THEN [events EXCEPT ![p] = @ \union {handler[p].flow}]
                 ELSE events
    /\ Answer(p, "success", TRUE)
    /\ UNCHANGED <<authorizeVars, secret, code, hits, popped, stored, lost,
                   listening, announced>>

-------------------------------------------------------------------------------
(* Notifications and pod restarts *)

\* oauth_start_callback_server: session, loop, queue and drain task.
StartListening(p) ==
    /\ listening' = listening \union {p}
    /\ UNCHANGED <<authorizeVars, secret, code, callbackVars, lost, events, announced>>

\* _send_oauth_notifications: the event is sent, or dropped with the error.
Drain(p, f) ==
    /\ f \in events[p]
    /\ events' = [events EXCEPT ![p] = @ \ {f}]
    /\ \/ announced' = announced \union {f}
       \/ UNCHANGED announced
    /\ UNCHANGED <<authorizeVars, secret, code, callbackVars, lost, listening>>

\* Everything that is only in the memory of the pod is gone.
Crash(p) ==
    /\ MayCrash
    /\ cache' = [cache EXCEPT ![p] = EmptyCache]
    /\ apc' = [f \in Flows |->
          IF apc[f] \in {"discover", "register", "resolve", "save"} /\ call[f].pod = p
          THEN "failed" ELSE apc[f]]
    /\ handler' = [handler EXCEPT ![p] = Idle]
    /\ listening' = listening \ {p}
    /\ events' = [events EXCEPT ![p] = {}]
    /\ UNCHANGED <<clients, clientConfig, call, client, secret, code, hits, popped,
                   stored, answered, lost, announced>>

-------------------------------------------------------------------------------
AuthorizeStep(f) ==
    \/ Discover(f) \/ Register(f) \/ Resolve(f)
    \/ SaveState(f) \/ AuthorizeFails(f)

HandlerStep(p) ==
    \/ ReadState(p) \/ DeleteState(p) \/ PopFails(p)
    \/ Exchange(p) \/ ExchangeFails(p) \/ ExchangeMalformed(p)
    \/ StoreToken(p) \/ StoreFails(p)
    \/ Notify(p)

Next ==
    \/ \E f \in Flows, p \in Pods, a \in Apps, c \in Configs : Authorize(f, p, a, c)
    \/ \E f \in Flows : AuthorizeStep(f) \/ Consent(f) \/ Expire(f)
    \/ \E p \in Pods, f \in Flows : Hit(p, f) \/ Drain(p, f)
    \/ \E p \in Pods : HandlerStep(p) \/ StartListening(p) \/ Crash(p)

\* Calls of the sidecar keep moving: httpx gives up after 10 or 30 seconds, the
\* vault client after its retries.  Users, browsers and pods owe nothing.
Fairness ==
    /\ \A f \in Flows : WF_vars(AuthorizeStep(f))
    /\ \A p \in Pods : WF_vars(HandlerStep(p))
    /\ \A p \in Pods, f \in Flows : WF_vars(Drain(p, f))

Spec == Init /\ [][Next]_vars
FairSpec == Spec /\ Fairness

-------------------------------------------------------------------------------
AuthorizePcs == {"new", "discover", "register", "resolve", "save", "returned", "failed"}
HandlerPcs == {"read", "delete", "exchange", "store", "notify"}

\* Every variable has its type, a call that has started has its arguments, and
\* no call goes on to its URL without a client (oauth_server.py:528-541).
TypeOK ==
    /\ cache \in [Pods -> [Apps -> [client : Clients, config : Configs] \union {NoEntry}]]
    /\ clients \in 0 .. MaxClients
    /\ clientConfig \in [Clients -> Configs \union {"none"}]
    /\ apc \in [Flows -> AuthorizePcs]
    /\ call \in [Flows -> Calls \union {NoCall}]
    /\ \A f \in Flows : apc[f] # "new" => call[f] \in Calls
    /\ client \in [Flows -> 0 .. MaxClients]
    /\ \A f \in Flows : apc[f] \in {"resolve", "save", "returned"} => client[f] # 0
    /\ secret \in [Flows -> 0 .. MaxClients]
    /\ code \in [Flows -> {"none", "issued", "used"}]
    /\ hits \in 0 .. MaxHits
    /\ handler \in [Pods -> [pc : HandlerPcs, flow : Flows, client : 0 .. MaxClients]
                            \union {Idle}]
    /\ popped \in [Flows -> Nat]
    /\ lost \subseteq Flows
    /\ stored \subseteq Flows
    /\ answered \subseteq [flow : Flows, page : {"success", "failed", "unknown"},
                           found : BOOLEAN]
    /\ listening \subseteq Pods
    /\ events \in [Pods -> SUBSET Flows]
    /\ announced \subseteq Flows

\* "State tokens are short-lived (~10 min) and single-use" (kv_stores.py:113):
\* pop_state hands out the data of a flow at most once.
SingleUse == \A f \in Flows : popped[f] <= 1

\* However many pods share the vault, pop_state hands out the data of a flow at
\* most once for each of them: whoever reads after the first delete gets nothing
\* (kv_stores.py:134-151).
OncePerPod == \A f \in Flows : popped[f] <= Cardinality(Pods)

\* A callback finishes its flow with the client that the flow's auth_url named,
\* registered for the flow's own config, however many calls for the same app went
\* through _oauth_cache in between (oauth_server.py:511-557).  A config is what the
\* cache compares: the server's URL and the headers' fingerprint, which a header
\* with "|" or "=" in it may share with others (oauth_server.py:61-65).
FlowKeepsItsClient ==
    \A p \in Pods :
        LET f == handler[p].flow IN
        handler[p].pc \in {"exchange", "store", "notify"} =>
            /\ handler[p].client = client[f]
            /\ clientConfig[handler[p].client] = call[f].config

\* A user who came back through auth_url is told "Unknown or expired state"
\* (oauth_server.py:376-378) without its being looked at only when an earlier
\* callback used the state up or the vault dropped it: no URL leaves before its
\* state is saved (oauth_server.py:549-560).
KnownUntilUsed ==
    \A x \in answered :
        x.page = "unknown" /\ ~x.found => popped[x.flow] > 0 \/ x.flow \in lost

\* The 400 page "Unknown or expired state" is for states that pop_state did not
\* find (oauth_server.py:207-208, 376-378).
UnknownMeansUnknown ==
    \A x \in answered : x.page = "unknown" => ~x.found

\* The success page and the auth_success event are only for flows whose token is
\* in the store (oauth_server.py:241, 387-396).
SuccessMeansStored ==
    /\ announced \subseteq stored
    /\ \A p \in Pods : events[p] \subseteq stored
    /\ \A x \in answered : x.page = "success" => x.flow \in stored

Finishing(p, f) == handler[p].pc \in {"store", "notify"} /\ handler[p].flow = f

\* Callbacks that overlap, on one pod or several, finish a flow once, although each
\* of them may have got its data: one stores the token, and one auth_success is
\* queued and sent (oauth_server.py:215-241, 387-396).
FinishedOnce ==
    \A f \in Flows, p, q \in Pods :
        /\ Finishing(p, f) /\ Finishing(q, f) => p = q
        /\ f \in events[p] /\ f \in events[q] => p = q
        /\ ~(Finishing(p, f) /\ (f \in events[q] \/ f \in announced))
        /\ ~(f \in events[p] /\ f \in announced)

\* Every callback request that is taken up is answered, or dies with its pod.
CallbackAnswered == \A p \in Pods : handler[p] # Idle ~> handler[p] = Idle

-------------------------------------------------------------------------------
(* What the state store promises: PendingState, through this mapping.      *)
(* A state is pending as long as the vault or a handler that will get its  *)
(* data has it.                                                            *)

Held(f) == \E p \in Pods : handler[p].pc = "delete" /\ handler[p].flow = f

StatusOf(f) ==
    CASE popped[f] > 0 -> "claimed"
      [] popped[f] = 0 /\ (secret[f] # 0 \/ Held(f)) -> "pending"
      [] popped[f] = 0 /\ secret[f] = 0 /\ ~Held(f) /\ f \in lost -> "gone"
      [] OTHER -> "absent"

Promise == INSTANCE PendingState WITH
    Tokens <- Flows,
    claims <- popped,
    status <- [f \in Flows |-> StatusOf(f)]

\* One pod's pop_state keeps the promise of PendingState.
PromiseKept == Promise!Spec

\* Any number of pods: SharedState.  A token is gone once some caller has deleted
\* it or it is lost.
Readers(f) == {p \in Pods : handler[p].pc = "delete" /\ handler[p].flow = f}

SharedStatus(f) ==
    IF secret[f] # 0 THEN "pending"
    ELSE IF popped[f] > 0 \/ f \in lost THEN "gone" ELSE "absent"

Shared == INSTANCE SharedState WITH
    Tokens <- Flows,
    Callers <- Pods,
    claims <- popped,
    status <- [f \in Flows |-> SharedStatus(f)],
    readers <- [f \in Flows |-> Readers(f)]

\* What is left of the promise when pods share the vault (kv_stores.py:134-151).
SharedPromiseKept == Shared!Spec
==============================================================================
