# A TLA+ model of the MCP gateway's sidecar and log shipper

This directory holds TLA+ modules for the code of this repository that has
behaviour of its own: the Entra sidecar (`sidecar/`) and the log shipper
(`manifests/gateway-log-shipper.py`). TLC checks the modules on small
instances; TLAPS proves theorems about them for all values of their constants.
The rest of the repository is declarative input for an operator, a gateway and
a log stack whose code is elsewhere. Paths below are relative to `src/`.

## 1. Inventory

| Component | Code | State | Operations | Interacts with |
|---|---|---|---|---|
| Credential delegation | `sidecar/server.py:163-241` | none; the token store | `get_connection_headers`: lookup, refresh, save, static PAT | token store, identity provider, vault |
| OAuth broker | `sidecar/oauth/oauth_server.py` | `_oauth_cache`, session, loop and event queue, callback server and thread | `oauth-authorize`, callback `GET`, `oauth-revoke`, `oauth-ls`, start and stop of the callback server, draining of events | OAuth client, both stores, browser, MCP session |
| OAuth client | `sidecar/oauth/oauth_client.py` | none | discovery, registration, URL, code exchange, refresh, expiry | MCP servers, identity providers |
| Vault stores | `sidecar/datastores/kv_stores.py` | secrets in Key Vault | save, get, delete, list of tokens; save, pop, delete of states | Key Vault, shared by all pods |
| Local stores | `sidecar/datastores/local_stores.py` | files | the same, for development | file system |
| Gateway authentication | `sidecar/server.py:73-160` | key cache of `PyJWKClient` | `authenticate` | Entra key endpoint |
| Policy plugin | `sidecar/policy/policy.py` | none; mounted files | `evaluate_policy` | ConfigMap mount |
| Log shipper | `manifests/gateway-log-shipper.py` | per thread: pod, stream, buffer | resolve, open, read, push, restart | Kubernetes API, Loki |
| Metadata, health, telemetry stubs | `sidecar/server.py:263-351` | none | constants | gateway |
| Deployment workflow | `.github/workflows/deploy-team-a.yml` | none | a sequence of `kubectl` calls | cluster |
| Resources, proxy, log stack, client script | yaml, json, `client_setup.sh` | - | - | - |

What makes it hard:

- `get_connection_headers` reads the token store, awaits a refresh, and writes
  the store, and nothing is locked. Calls for one user overlap; `oauth-revoke`
  runs in a worker thread, the callback in a thread of its own, and a second
  pod shares the vault.
- Refresh tokens may rotate: the answer of a refresh that is lost, or not
  saved, leaves the user with a token that is worth nothing.
- `pop_state` is two vault calls. A browser may send a callback twice, to
  different pods.
- `oauth-authorize` awaits up to ten requests between its look at
  `_oauth_cache` and its last use of what it found there.
- A pod restart drops the cache, the running calls, the session and the queue;
  secrets stay.
- The callback server is named by two globals that a coroutine sets and worker
  threads reset, without a lock; its only thread serves all browsers, and
  `shutdown()` waits for that thread.
- Secret names are made from two names by a lossy substitution, secrets are
  listed page by page while they change, and the file store saves in two steps.
- The shipper's threads fail one by one, and its process ends only when all of
  them have.

What makes each part correct:

- delegation: a user's own token, not somebody else's and not an older one; a
  refresh only when needed; an answer for each call;
- broker: each flow finishes with its own client; a state works once; success
  is shown only for a token that is stored; each callback is answered;
- callback server: after a start something listens, after a stop nothing does;
  an event is sent once, in order, and not to a session that was replaced;
- token stores: `oauth-ls` shows what is stored for this user and server, and
  misses nothing that stays;
- shipper: bounded buffers, no line twice from one stream, no delivered line lost
  without an error, and a target with a pod is tailed;
- policy: a denial that stays is never missed, a change of one file is seen at
  one moment, and updates take effect without a restart;
- names: different (user, server) pairs have different secrets.

`PROJECT.json` lists every component and, under `hazards`, the places in the
code where these things are at stake.

## 2. Modules

| Module | What it is |
|---|---|
| `CredentialDelegation` | `get_connection_headers`, the token store, and all other writers of it |
| `OAuthFlow` | `oauth_authorize`, `_oauth_cache`, the pending-flow state, the callback handler, notifications, pod restarts |
| `PendingState` | abstract: what a state store promises the broker |
| `SharedState` | abstract: what is left of that promise when several pods share the vault |
| `CallbackServer` | start and stop of the callback server, its threads, the session and the queue of events |
| `SecretNames` | `_sanitize`, `_secret_name` and `_token_path` as functions on words |
| `SecretNames_proofs` | when two names differ, and what `_sanitize` makes of any word |
| `VaultDelegation` | `CredentialDelegation` over the names that `_secret_name` makes: an instance with pairs of words, and whose tokens a caller can be handed there |
| `TokenStore` | both token stores with their names, the choice between them, and `oauth-ls` |
| `PolicyReload` | `evaluate_policy` and the ConfigMap mount it reads |
| `LogShipper` | the shipper's threads and the pods they follow |
| `MC...` | instances of these for TLC |
| `..._proofs` | theorems and their proofs |

`OAuthFlow` refines `PendingState` through an `INSTANCE` (`Promise`) with one
pod, and `SharedState` (`Shared`) with any number of pods: in the first a state is
taken in one step, in the second a caller reads and then claims, so that callers
who have read before the first delete all get the data. `CredentialDelegation`
takes the names of secrets as a function it knows nothing of; `VaultDelegation`
gives it the one of `SecretNames`. `CredentialDelegation`, `OAuthFlow` and `TokenStore` are three views of the
token store: the first has the callback as two actions (exchange, save), the
second has all of its steps and treats the store as a set of flows that were
saved, the third has the names, the pages and the files, and writers that save
what they like. `CallbackServer` begins where `OAuthFlow` has `Notify`: a handler
there is "handling" until it posts an event or answers otherwise.

### CredentialDelegation

| Model | Code |
|---|---|
| `store` | Key Vault, by `_secret_name`; a bundle keeps `at` (access token), `rt` (refresh token) and `exp` (the token that `expires_at` was computed from) |
| `RejectIncomplete`, `Lookup`, `LookupFails` | `server.py:193-209`, up to the first await |
| `Refresh`, `RefreshAnswerLost`, `RefreshFails` | the await at `server.py:212`; `Merged` is lines 218-219 with `stamp_token_expiry` |
| `SaveRefreshed`, `SaveRefreshedFails` | `server.py:220-227` |
| `PatLookup` | `server.py:229-241` |
| `CallbackExchange`, `CallbackSave`, `CallbackFails` | `_do_token_exchange`, as a writer of the token store |
| `Revoke` | `oauth_revoke` |
| `Age` | the clock: an access token comes within 60 seconds of its end |
| `Abort` | the pod ends, or the call is cancelled |

`issued`, `grant`, `owner`, `live`, `stale` are the identity provider's, and
`rotates`, chosen in `Init`, says whether it replaces refresh tokens; `faulted` records the names for which a rotated refresh token was lost.

### OAuthFlow

| Model | Code |
|---|---|
| `cache` | `_oauth_cache` of each pod |
| `Authorize`, `Discover`, `Register`, `Resolve`, `SaveState`, `AuthorizeFails` | `oauth_authorize`, one action per await, in order |
| `secret`, `ReadState`, `DeleteState`, `PopFails` | the state secret, and the two calls of `pop_state` |
| `Hit`, `Exchange...`, `Store...`, `Notify` | `do_GET` and `_do_token_exchange` |
| `StartListening`, `Drain` | `oauth_start_callback_server`, `_send_oauth_notifications` |
| `Consent`, `Expire`, `Crash` | user, vault, pod |

A config is what `_oauth_cache` compares: the server URL and the fingerprint of the
catalog headers, which headers with `|` or `=` in them may share
(`oauth_server.py:61-65`); such headers are one config here. It decides where the
registration goes and whether redirects are followed. `ExchangeMalformed` is a 200
answer that raises a `ValueError`: a body that is not JSON, or an `expires_in` that is
not a number. Calls that are rejected
for missing arguments (`oauth_server.py:497-504`), and callback requests without
code or state, change nothing and are left out. A state secret always parses.

### CallbackServer

| Model | Code |
|---|---|
| `named`, `thread` | `_oauth_callback_server`, `_oauth_callback_thread` |
| `Capture`, `MakeQueue` | the start tool, `oauth_server.py:584-588` |
| `StartCheck`, `StartCreate`, `StartThread`, `StartRun` | `_start_oauth_callback_server`, one action for each access to a global |
| `StopCheck`, `StopSignal`, `StopWait`, `StopReset`, `StopForget` | `_stop_oauth_callback_server`, likewise; `shutdown()` is two of them |
| `life`, `Connect`, `Receive`, `Refuse`, `Post`, `EndLoop`, `Leave` | `serve_forever` with `do_GET`, and the end of its thread |
| `session`, `events`, `Take`, `Sent` | `_oauth_session`, `_oauth_events`, `_send_oauth_notifications` |

The start tool is a coroutine without an await, so two starts never overlap and
the drain task stands still meanwhile; the stop tool is a plain function and runs
in a worker thread. A listening socket is closed when its server is collected:
nothing calls `server_close`. Whether two sockets may listen on one port depends
on the Python version and is chosen in `Init` (`sharedPort`). `contended` records
that two stops overlapped, or that a start created a server during a stop. Left
out: connections that wait in the backlog of a server that has ended, and a
thread that cannot be started.

### SecretNames and TokenStore

| Model | Code |
|---|---|
| `Sanitize`, `SecretName` | `_sanitize`, `_secret_name`; a word is a sequence of characters, prefixes are left out, and so is the limit of 127 characters of a secret's name (`kv_stores.py:8-9`), which the code does not look at |
| `Home`, `Directory`, `FileName`, `TokenPath` | `_token_path` with what `os.path.join` and the host make of its words: a file is named by its way from the root, so `..`, `.`, doubled and leading slashes of a server name lead where they lead; the suffix is left out |
| `BackendOf`, `backend` | `get_token_store` and the environment it reads |
| `SaveSecret`; `OpenFile`, `CloseFile`, `WriteFails` | `save_token` of the vault, and of the file store: truncate, then write, or fail to |
| `Delete` | `delete_token` of both |
| `Begin`, `NextPage`, `ReadOne`, `ReadFails`, `ListFails` | `list_tokens` of both |
| `Answer` | `_do_oauth_ls`: what was read and has not expired |

`seen` keeps what each name had during the listing, `crossed` the names whose
last save overlapped another one, `failed` those in whose file a write has failed since
it was truncated. `WriteFails` is `json.dump` or the closing that raises, and also a
process that dies there: of a process death only what it does to the open files is
modelled. The vault may give any page of what it has and
what was not listed; it owes the caller only what was there the whole time.

### PolicyReload

| Model | Code |
|---|---|
| `mounted`, `visible`, `View` | the mount: the directory that all names are linked to, the links, and what opening a name shows |
| `Begin` | `_load_rules` lists the files (`policy.py:31`) |
| `Load` | one turn of its loop: a file is opened, or skipped with a warning |
| `Answer`, `Outcome` | the loop of `_evaluate`: denied, allowed, or raised by an entry that is not a mapping; a `rules:` that is itself a mapping or a string gives such entries |
| `Swap`, `Link` | the kubelet: the contents change in one step, links to new and removed names after that |

A call keeps what it read by file (`loaded`); the code's merged list is that in
the order of the names. A rule without `serverName` or `toolName` has `Any`
there. The listing, and the opening of one file, happen at one moment each: a
name that comes or goes counts as before or after the whole listing. What was
opened stays readable when the kubelet removes the old directory.

### LogShipper

| Model | Code |
|---|---|
| `Resolve`, `ResolveFails` | `resolve_pod`, called outside of the `try` |
| `Open`, `OpenFails` | `urlopen` of the log, with `tailLines` old lines |
| `Read`, `StreamEnds`, `StreamFails` | the loop over the lines, its end, and the `except` |
| `Push`, `PushFails` | `push_batch`, and the buffer emptied after it; of a push that fails, Loki may have taken any lines |
| `StreamOver` | the API server ends the log stream of a pod that is gone (external) |
| `Restart` | `join` returns for all threads, and the kubelet restarts the container |
| `StartPod`, `Write`, `StopPod` | the pods that are tailed |

The two seconds of the flush are a choice: any line may find them over. Lines
are never blank. A container that restarts inside its pod counts as a new pod.

## 3. What the runs check

| Run | Instance | Shows |
|---|---|---|
| `delegation` | 2 users, 2 overlapping calls, 1 callback, 3 tokens, with rotation and without; calls are symmetric | types, `OwnCredential`, `StrandedOnlyByFault`, `RefreshOnlyWhenStale`, `RefreshNeverGoesBack`, `RefreshTokenKept` |
| `delegation_revoke` | 1 user | **violated**: `RevokedStaysRevoked` |
| `delegation_lifetime` | 1 user, answers may lack `expires_in` | **violated**: `RefreshOnlyWhenStale` |
| `oauth_one_pod` | 1 pod, 2 flows of 1 app under 2 configs, 3 callbacks, crashes, fairness | types, `SingleUse`, `FlowKeepsItsClient`, `KnownUntilUsed`, `SuccessMeansStored`, `CallbackAnswered`, and the refinement `PromiseKept` |
| `oauth_two_pods` | 2 pods, 1 flow, 3 callbacks, crashes | `OncePerPod`, `FinishedOnce`, and the refinement `SharedPromiseKept` |
| `oauth_single_use` | 2 pods | **violated**: `SingleUse` |
| `oauth_unknown` | 2 pods | **violated**: `UnknownMeansUnknown` |
| `callback_server` | 2 stopping threads, 2 starts, 2 events, fairness | types, `StartLeavesListener`, `NoServerForgotten`, `OnlyContentionRaises`, `EventsInOrder`, `NeverToAnEarlierSession`, `StopReturns` |
| `token_store` | 2 users and 2 servers of which two pairs have one secret name and two have one file, 2 writers, 2 saves, failing writes, all backends, fairness | types, `ListedIsStored`, `StableIsListed`, `TornOnlyByFault`, `ListEnds` |
| `policy_files` | 2 files of 4 contents (absent, unreadable, a team's denial, a rule and a denial around an entry that is no rule), 2 servers, up to 3 views of the mount per call, fairness | types, `StableDenyBlocks`, `DeniedByACurrentRule`, `OneChangeIsAtomic`, `UpdateTakesEffect` |
| `shipper` | 2 targets of which one has pods: 2 of 2 lines, batches of 2, a window of 1, 2 failures, fairness | buffer bound, `OncePerStream`, `NothingLostSilently`, `LiveThreadTails` |
| `shipper_abandoned` | 2 targets, 1 pod of 1 line each | **violated**: `TailResumes` |

### Bounds

- `MaxTokens` = 3: one authorization and two refreshes, or two authorizations
  and a refresh. Two calls that refresh the same token, and one that refreshes
  the result, need three. Two overlapping calls are enough for a race over one
  secret: a third can only repeat what the second does between two of its steps.
- `MaxClients` = 2, `MaxHits` = 3: both flows of an app register, and each calls
  back, one of them twice. Flows that find no client left to register still end
  (`AuthorizeFails`). In `oauth_two_pods` there is one flow, and each pod may hold its
  data while the other has it too; the third callback comes after or between them.
  The safety properties of both runs are proved for any number of pods and flows.
- `MaxStarts` = 2 and two stopping threads: a stop against a start, a stop against
  a stop, and a start after both; with the server of `init` there are three
  servers. Two events: one in the hand of the drain task and one behind it.
- In `token_store` the users are "c/a/c" and "c", the servers "a" and "/a/c/a", and
  the file store is below "/a". In the vault the pairs ("c/a/c", "a") and
  ("c", "/a/c/a") share the secret a-c-a-c, and the tag of the second server is not its
  name. In the file store the server "/a/c/a" is the file of ("c", "a"), whoever
  names it, and the directory of "c/a/c" is "c_a_c". Two saves are what a file is
  torn by, and what replaces a token during a listing. `MCTokenStore` compares
  `Sanitize` with what its two substitutions mean on all words of up to four
  characters; that sanitizing twice changes nothing, and what the result looks
  like, is proved for all words.
- `Batch` = 2, `Window` = 1, two lines: a full batch, a partial one, and a stream that
  starts after the first line. Two pods: a target that is replaced. One target has
  pods (`Deployed`); the thread of the other asks for one and may die, which is all
  that threads notice of each other: a process ends with its last thread.
  `MaxFaults` = 2 bounds failures of the Kubernetes API and early ends of streams, so
  that both threads can die and the container restart; failures of Loki are not
  bounded.
- `MaxViews` = 3: the mount changes twice during a call, before and between the
  two files it opens. It does not bound the changes between calls. Two files are
  one that changes and one that stays, or two that change together; the theorems
  cover more.
- `shipper`, `shipper_abandoned` and `callback_server` do not check deadlock: when
  all pods were started, wrote their lines and stopped, nothing happens any more;
  and when the starts are used up and the last server has stopped, nobody calls.
  The other runs do.

### Fairness

`OAuthFlow` assumes that a handler that waits for a request goes on (weak fairness of
its steps): httpx has timeouts of 10 and 30
seconds, and the vault client gives up after its retries; either way the code
gets an answer or an exception. Nothing is assumed of users, browsers, callbacks
or crashes. `PolicyReload` assumes that a call goes on and that the kubelet
finishes the links of an update; it need not begin one. `LogShipper` assumes that
a thread that can move does, that the kubelet restarts a container that has ended,
and that the API server ends the log stream of a pod that is gone: the script reads
it with `timeout=None` (line 73), so a connection that stays open and silent would
hold the thread. Nothing is assumed about pods or writers. `CredentialDelegation`
has no liveness property and no fairness. `CallbackServer` assumes that threads run
and that a request which was read is answered (that is `CallbackAnswered`); it
assumes nothing of browsers, so `StopReturns` has as its premise that no
connection stays idle for ever, and that calls do not contend. `TokenStore`
assumes that a listing goes on; nothing of those who save and delete.

### Divergences

The five violated properties state what a docstring, a comment or a message of
the code says. `PROJECT.json` quotes the lines under `findings`:

1. A refresh in flight undoes a revocation (`server.py:220` saves what it read
   before the await). This takes a store that accepts a deleted name again: the
   file store does; a vault with soft delete refuses the save until the secret
   is purged, which in the model is `SaveRefreshedFails`.
2. After a refresh whose answer has no `expires_in`, `expires_at` is still the
   old token's, and each later call refreshes again.
3. A state is not single-use across pods.
4. "Unknown or expired state" is also the answer to a token response that does
   not parse, or whose `expires_in` is not a number.
5. An API error in `resolve_pod` ends a shipper thread for good while another
   one lives. `LiveThreadTails` is what remains true: every other thread comes to tail
   a pod that runs.

The callback server has no sentence in the code to contradict, but limits that
its properties spell out by `contended` and `relied`:

- a start that comes while a stop is between `shutdown()` and its reset of the
  global answers with the port, and nothing listens (`oauth_server.py:404`);
- a start between lines 419 and 420 of a stop loses its thread to the second
  reset: it raises at line 410, with the socket bound;
- two overlapping stops, the slower one after a start, call `None.shutdown()` or
  leave a server that runs on without a name and that no later stop ends;
- a browser that connects and sends nothing keeps all others, and a stop, waiting.

`oauth-ls` misses servers whose names `_sanitize` changes: `list_tokens` promises
"`{server_name: token_data}` for every token owned by *principal*"
(`kv_stores.py:85`) and returns the sanitized name, under which `oauth-ls` does
not look. `StableIsListed` excepts these, and holds for all others.

The policy plugin has no violated property, but a limit that its properties
spell out: with several files, a rule that moves to a file which a call has
already read is missed by that call, although each version of the ConfigMap
has it. `OneChangeIsAtomic` and `StableDenyBlocks` are what remains true. The
mount that is deployed has one file, so every decision there is that of one
version.

## 4. What is proved

All theorems hold for any values of the constants under the assumptions named
in the modules (`ConstantsAssumption`, `FlowAssumption`, `CallbackAssumption`,
`WordAssumption`, `StoreAssumption`, `PolicyAssumption`, `ShipperAssumption`), and
the ones below.

| Theorem | Extra assumption | Argument |
|---|---|---|
| `CredentialDelegation`: `TypeCorrect` | - | inductive as it stands, once a request that refreshes or saves is known to have a refresh token |
| `CredentialOfTheNameHolds` | - | `OwnershipInv`: what is stored under a name, carried by a call or a callback, or returned was issued to a pair of that name; tokens never change owner (`History`) |
| `OwnCredentialHolds` | names of different pairs differ | the same: pairs of one name are then one pair |
| `StrandedOnlyByFaultHolds` | - | `ChainInv`, see below |
| `RefreshNeverGoesBackHolds` | - | each single step, from `ChainInv` |
| `RefreshTokenKeptHolds` | - | `FreshInv`: what a callback is about to save is an authorization of its own; one without a refresh token has left nothing anywhere |
| `RefreshOnlyWhenStaleHolds` | every answer reports a lifetime | `StampInv`: `exp` is then always the bundle's own token |
| `OAuthFlow`: `TypeCorrect` | - | with "no call past registration is without a client" |
| `FlowKeepsItsClientHolds` | - | `ClientInv`: the cache entry, the call, the secret and the handler agree about a flow's client, whatever happens to the cache |
| `KnownUntilUsedHolds` | - | `KnownInv`: a handler works on a flow whose URL left, and such a flow has its secret until it is popped or dropped |
| `SuccessMeansStoredHolds` | - | `NotifyInv`: a handler that is about to notify has stored its token |
| `SingleUseHolds` | one pod | `UseInv`: a state that was popped has no secret, and its token is not drawn again |
| `SharedPromiseKeptHolds` | - | each step of `OAuthFlow` is one step of `SharedState` or none; `UnsavedInv` (a flow that is not saved yet was neither popped nor lost, and one that was has no secret) and `KnownInv` (a handler works on a saved flow) tell the status on both sides |
| `OncePerPodHolds` | finitely many pods | `CountInv`, see below |
| `FinishedOnceHolds` | - | `FinishInv`: a code is exchanged once, so whoever holds the token, stored it, or queued the event of a flow has used its code, and there is one of them |
| `PromiseKeptHolds` | one pod | each step moves the state of one flow along, or none (`StayOrMove`), from `ClientInv` and `UseInv` |
| `CallbackServer`: `TypeCorrect` | - | inductive as it stands |
| `StartLeavesListenerHolds`, `NoServerForgottenHolds`, `OnlyContentionRaisesHolds` | - | from `QuietInv`: see below |
| `EventsInOrderHolds`, `NeverToAnEarlierSessionHolds` | - | inductive, with the sessions in the queue not later than the current one; no assumption on contention |
| `TokenStore`: `TypeCorrect` | - | inductive with "an open file that was not deleted has its entry" |
| `TornOnlyByFaultHolds` | - | a file that one writer opened is empty until that writer closes it or fails |
| `VaultHoldsWholeBundles` | - | `NeverCrossed`: in the vault no save is ever under way, so none overlaps |
| `OneWriterKeepsFilesWhole` | one writer | the same, for files whose last write has not failed |
| `ListedIsStoredHolds` | - | what was read of the listing belongs to this principal by its tag, and a name is that of its tags |
| `StableIsListedHolds` | - | what stayed was listed, and is still to be read or was read |
| `NamesKeepTags`, `ApartIsListedHolds` | servers named apart and without slashes | what is stored under a pair's name carries its tags, since only its own words make that name; then nothing that stays unexpired is filtered out, as far as servers go whose name is its own tag |
| `SecretNames`: `SanitizeIsSafe`, `SafeWordsStay`, `SanitizeTwice` | - | `KeptLists`: the kept places in order, by their ranks; two dashes are never kept side by side, and none first or last |
| `SecretNamesApart`, `PlainNamesApart` | stated in them | `SplitAtSeparator`: two joined words that are equal are split at the same dash, unless one first word begins with the other and a dash |
| `TokenPathsApart` | servers without slashes; principals that are not empty, `.` or `..` | the path is then the base directory, the safe principal and the server, and is read back from its end |
| `VaultDelegation`: `CredentialOfTheWordsHolds` | servers named apart | `CredentialOfTheNameHolds` of the instance, and `SecretNamesApart` |
| `VaultOwnCredential` | also: no two principals, and no two servers, become one word | `OwnCredentialHolds` of the instance, whose premise is then proved |
| `PolicyReload`: `TypeCorrect` | - | inductive as it stands |
| `ReadsWhatWasMounted` | - | `ReadInv`: what a call has of a file was mounted at some moment of the call; files that were not listed are those that showed nothing at its start |
| `StableDenyBlocksHolds`, `DeniedByACurrentRuleHolds` | - | from `ReadInv`, and `DenialNotAllowed` and `DenialHasRule` on the decision |
| `OneChangeIsAtomicHolds` | - | from `ReadInv`: the moment at which the changing file was read fits all the others |
| `OneFileDecides` | one file | from `OneChangeIsAtomic` |
| `QuietCallIsCurrentHolds` | - | from `ReadInv`: there is one moment to have read at |
| `RulesOnlyRestrict` | - | of the decision alone: `DenialHasRule`, then `DenialNotAllowed` |
| `LogShipper`: `TypeCorrect` | - | the bound on the buffer is part of it |
| `OncePerStreamHolds` | - | `StreamInv`: lines that are still to be pushed have not used up the current stream |
| `NothingLostSilentlyHolds` | - | inductive with the types |

`StrandedOnlyByFault` is the deepest of them. It says nothing of who has the
other refresh tokens, so it is not inductive: a call could save a dead token
that it holds. The strengthening follows a rotating refresh token: the live
token of a grant is the last one issued in it (`HeadInv`); what waits to be
saved is live (`HeldLiveInv`), because only its holder could have it replaced;
and it has only that holder (`ExclusiveInv`). A call that refreshes kills the
token that the store has, and only that one, and then it is itself the call that
is about to save. Without rotation, no refresh token ever dies (`FixedInv`). The
proof does not go by actions but by the few shapes that the actions have for
refresh tokens (`StepShape`).

`QuietInv` is what holds as long as nothing has contended: at most one stop is
under way, every server but the named one has never been started or is past its
loop, and the place of the stop, the place of the start and the state of the named
server fit together. Each of the three properties is weaker than that, and none of
them is inductive: `named` alone does not say that its thread was started, nor
that a stop which has not reset it yet is the one that ended it.

Names are where the code gives two things one key, so the theorems about them say
when. `ServersApart` says that no server's sanitized name begins with that of
another and a dash. The servers of the three catalogs, `duckduckgo`, `github`,
`team-a-granola` and `team-b-notion`, are so; `github` and `github-enterprise`
would not be. Without it
`CredentialOfTheNameHolds` is what is left, and in `token_store` TLC has an instance
where two pairs meet. In the file store a server name with a slash leads elsewhere,
and `TokenPathsApart` has its absence as a premise. That principals stay apart (`StayApart`) is a premise on the
identifiers of users: `a.b` and `a-b` become the same word.

`OncePerPod` counts: `popped[f]` callers were given the data of a flow. It is not
inductive, because it does not see the handlers that have read the secret and are
about to be given it too. `CountInv` adds them: after the first delete, those that
were given the data and those that still wait for theirs are together not more than
there are pods. No handler joins them, since there is no secret left to read and the
token is not saved again (`UnsavedInv`). With one pod it is `SingleUse`.

Only model-checked: the liveness properties (`CallbackAnswered`, `StopReturns`,
`ListEnds`, `UpdateTakesEffect`, `LiveThreadTails`), which the prover cannot treat. Every invariant and action property of a passing run is proved. The
modules have no RECURSIVE operators.

## 5. What the model assumes and leaves out

- An identity provider either replaces the refresh token at every refresh or
  never does (`rotates`). One that does so now and then, or that revokes a
  whole grant when an old refresh token is used again, is not modelled.
- `OwnCredential` is about names that differ. `_sanitize` and the joining dash map
  some pairs to one name: then two users share one bundle, in the model as in the
  code. Section 4 says for which words; `CredentialOfTheNameHolds` and what is
  proved of `oauth-ls` hold for such names too.
- The identity provider, the vault's collection of expired secrets, the clock,
  users, browsers, pods and the kubelet are external: they are modelled by what
  the code has to reckon with.
- The log shipper loses lines without an error between two streams: those beyond the
  last `tailLines` that were written meanwhile. `NothingLostSilently` is about what a
  stream has delivered, `OncePerStream` about the lines of one stream: the window sends
  some again after a reconnect.
- That each `get_connection_headers` call ends is not stated as a property: its awaits
  end by the timeouts of the clients, and every waiting step has one that answers.
- A vault call takes effect at one moment, or raises, with or without effect.
- Contents of URLs, headers, pages, logs and tokens are left out.

### Not modelled

- `authenticate`: one decision on one token and one list of groups, with nothing
  kept between calls; signatures, times and the key cache are PyJWT's.
- `LocalOAuthStateStore`: its files are on the one pod whose only callback thread
  pops them, and a state is in its file before its URL leaves, so none of its
  steps meets another one, but for two servers that run after contended stops.
- The deployment workflow: a sequence of `kubectl` calls. Overlapping pushes are
  a hazard, and nothing in the workflow orders them; a model would show that and
  no more.
- Handlers that return constants, answer envelopes, logging, and everything
  declarative: no state and no order to get wrong.

## 6. Plan

Done, in this order: `CredentialDelegation` (the core: tokens of users),
`OAuthFlow` with `PendingState`, `LogShipper`, `PolicyReload`, `CallbackServer`,
`SecretNames` with `TokenStore`; their proofs; `SharedState` for any number of
pods; `VaultDelegation`, which puts the names under the delegation path.

Left, by what it would add:

1. That the vault side of `TokenStore` implements a store of whole bundles by name,
   as the refinement that `VaultHoldsWholeBundles` is the main invariant of.
2. A composition of the broker and the delegation path over one token store, so
   that a callback's save, a revoke and a refresh meet in full detail.
3. `CallbackServer` composed with `OAuthFlow`: the handler as one of several
   servers' threads, so that a forgotten server's callback meets a current one's.

## 7. Running it

    tlc -workers 4 -config delegation.cfg MCCredentialDelegation
    tlapm CredentialDelegation_proofs.tla

and likewise for the others; `PROJECT.json` lists the module and configuration
of each run. Operators whose comment begins with "Faulty variant" are not part
of the model. Each is a plausible mistake in the operator that follows it, and
substituting it must break the property that `PROJECT.json` names under
`mutants`.
