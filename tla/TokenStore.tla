----------------------------- MODULE TokenStore -----------------------------
(***************************************************************************)
(* The token store behind get_token_store (datastores/), and oauth-ls,     *)
(* which reads it.                                                         *)
(*                                                                         *)
(* The vault replaces a secret in one step, and lists secrets by pages: a  *)
(* page has names and tags, and the values are read one by one.  The file  *)
(* store truncates a file and writes it later; the callback's thread and   *)
(* the event loop may save at the same time, a write may fail or be cut    *)
(* off, and oauth-ls and oauth-revoke run in worker threads.               *)
(*                                                                         *)
(* Listings share nothing, so one at a time stands for all.  Bundles are   *)
(* numbers in the order of their saves.  A name is a path, which for the   *)
(* vault is one word.  seen, trouble, crossed and failed do not exist in   *)
(* the code.                                                               *)
(***************************************************************************)
EXTENDS SecretNames

CONSTANTS
    Principals, Servers,
    Writers,    \* threads that save tokens: the event loop, the callback server
    Missing,    \* no such secret or file
    Empty,      \* a file that was truncated and not written since
    Torn,       \* a file that is neither empty nor the whole of one bundle
    Closed,     \* a writer that is not saving
    MaxTokens   \* bound: saves

Bundles == 1 .. MaxTokens
Backends == {"kv", "local", "none"}

Names == {<<SecretName(p, s)>> : p \in Principals, s \in Servers}
         \union {TokenPath(p, s) : p \in Principals, s \in Servers}
OwnerTags == {<<Sanitize(p)>> : p \in Principals}
             \union {Directory(p, s) : p \in Principals, s \in Servers}
ServerTags == {Sanitize(s) : s \in Servers} \union {FileName(s) : s \in Servers}
Entries == [value : Bundles \union {Empty, Torn}, principal : OwnerTags, server : ServerTags]

ASSUME StoreAssumption ==
    /\ MaxTokens \in Nat
    /\ Principals \union Servers \subseteq Seq(STRING)
    /\ Missing \notin Entries /\ Empty \notin Bundles /\ Torn \notin Bundles
    /\ Closed \notin [name : Names, bundle : Bundles, linked : BOOLEAN]

VARIABLES
    backend,    \* what the factory makes of the environment
    store,      \* name -> entry
    saved,      \* number of bundles saved
    expired,    \* bundles whose expires_at is near or past
    writing,    \* writer -> the file it has open
    phase,      \* of oauth-ls: "idle", "listing", "done"
    principal,  \* whose tokens it lists
    pending,    \* what is left to read of the listing, or of its last page
    covered,    \* names that were listed
    tokens,     \* what list_tokens has collected
    authorized, \* the answer
    trouble,    \* something could not be read
    seen,       \* name -> what was stored under it during the listing
    crossed,    \* names whose last save overlapped another one
    failed      \* names in whose files a write has failed since they were opened

storeVars == <<store, saved, expired, writing, crossed, failed>>
listVars == <<phase, principal, pending, covered, tokens, authorized, trouble>>
vars == <<backend, storeVars, listVars, seen>>

\* get_token_store: an unknown type, or "kv" without a URL, raises.
BackendOf(storeType, hasUrl) ==
    CASE storeType = "auto" -> IF hasUrl THEN "kv" ELSE "local"
      [] storeType = "kv" /\ hasUrl -> "kv"
      [] storeType = "local" -> "local"
      [] OTHER -> "none"

NameOf(p, s) == IF backend = "kv" THEN <<SecretName(p, s)>> ELSE TokenPath(p, s)

\* What a listing compares, and what it takes for the server.
PrincipalTag(p) == IF backend = "kv" THEN <<Sanitize(p)>> ELSE Home(p)
ServerTag(s) == IF backend = "kv" THEN Sanitize(s) ELSE FileName(s)

\* The vault notes the tags; in the file store the directory and the file's name are.
Entry(p, s, value) ==
    [value |-> value, server |-> ServerTag(s),
     principal |-> IF backend = "kv" THEN PrincipalTag(p) ELSE Directory(p, s)]

Stored == {n \in Names : store[n] # Missing}

Init ==
    /\ \E storeType \in {"auto", "kv", "local", "other"}, hasUrl \in BOOLEAN :
          backend = BackendOf(storeType, hasUrl)
    /\ store = [n \in Names |-> Missing]
    /\ saved = 0
    /\ expired = {}
    /\ writing = [w \in Writers |-> Closed]
    /\ crossed = {} /\ failed = {}
    /\ phase = "idle"
    /\ principal \in Principals
    /\ pending = {} /\ covered = {} /\ tokens = {} /\ authorized = {}
    /\ trouble = FALSE
    /\ seen = [n \in Names |-> {}]

-------------------------------------------------------------------------------
(* Saving and deleting *)

\* A listing that is under way may find what is stored now.
Watched ==
    /\ seen' = IF phase = "listing" THEN [n \in Names |-> seen[n] \union {store'[n]}]
               ELSE seen
    /\ UNCHANGED <<backend, listVars>>

\* set_secret, with the tags.
SaveSecret(p, s) ==
    /\ backend = "kv"
    /\ saved < MaxTokens
    /\ saved' = saved + 1
    /\ store' = [store EXCEPT ![NameOf(p, s)] = Entry(p, s, saved + 1)]
    /\ UNCHANGED <<expired, writing, crossed, failed>>
    /\ Watched

Linked(w, n) == writing[w] # Closed /\ writing[w].name = n /\ writing[w].linked

\* Faulty variant: the file is opened without being truncated.
OpenFileAsItIs(w, p, s) ==
    LET n == NameOf(p, s) IN
    /\ backend = "local"
    /\ writing[w] = Closed
    /\ saved < MaxTokens
    /\ saved' = saved + 1
    /\ writing' = [writing EXCEPT ![w] = [name |-> n, bundle |-> saved + 1, linked |-> TRUE]]
    /\ store' = IF n \in Stored THEN store ELSE [store EXCEPT ![n] = Entry(p, s, Empty)]
    /\ crossed' = IF \E v \in Writers : Linked(v, n) THEN crossed \union {n} ELSE crossed \ {n}
    /\ failed' = failed \ {n}
    /\ UNCHANGED expired
    /\ Watched

\* open(path, "w") makes or truncates the file.  A server name with a slash may lead
\* to another principal's directory; where there is none, open raises and nothing
\* changes.
OpenFile(w, p, s) ==
    LET n == NameOf(p, s) IN
    /\ backend = "local"
    /\ writing[w] = Closed
    /\ saved < MaxTokens
    /\ saved' = saved + 1
    /\ writing' = [writing EXCEPT ![w] = [name |-> n, bundle |-> saved + 1, linked |-> TRUE]]
    /\ store' = [store EXCEPT ![n] = Entry(p, s, Empty)]
    /\ crossed' = IF \E v \in Writers : Linked(v, n) THEN crossed \union {n} ELSE crossed \ {n}
    /\ failed' = failed \ {n}
    /\ UNCHANGED expired
    /\ Watched

\* A writer is done with its file.  One that was deleted meanwhile has no name, and
\* what is written to it is lost.
Write(w, values) ==
    /\ writing[w] # Closed
    /\ LET n == writing[w].name IN
       IF writing[w].linked
       THEN \E value \in values : store' = [store EXCEPT ![n].value = value]
       ELSE UNCHANGED store
    /\ writing' = [writing EXCEPT ![w] = Closed]
    /\ UNCHANGED <<saved, expired, crossed>>
    /\ Watched

\* The file is written when it is closed, from its start: over a longer content it
\* leaves a rest.
CloseFile(w) ==
    /\ Write(w, {writing[w].bundle} \union
                (IF store[writing[w].name].value = Empty THEN {} ELSE {Torn}))
    /\ UNCHANGED failed

\* json.dump or the closing raises, or the process dies: nothing is written, or
\* a part of the bundle.
WriteFails(w) ==
    /\ Write(w, {store[writing[w].name].value, Torn})
    /\ failed' = IF writing[w].linked THEN failed \union {writing[w].name} ELSE failed

\* delete_token: the secret is gone, or the file has no name any more.
Delete(p, s) ==
    LET n == NameOf(p, s) IN
    /\ n \in Stored
    /\ store' = [store EXCEPT ![n] = Missing]
    /\ writing' = [w \in Writers |->
          IF Linked(w, n) THEN [writing[w] EXCEPT !.linked = FALSE] ELSE writing[w]]
    /\ UNCHANGED <<saved, expired, crossed, failed>>
    /\ Watched

Age(b) ==
    /\ b <= saved /\ b \notin expired
    /\ expired' = expired \union {b}
    /\ UNCHANGED <<backend, store, saved, writing, crossed, failed, listVars, seen>>

-------------------------------------------------------------------------------
(* oauth-ls *)

\* Names with the tag of their server, where that of their principal fits.
Mine(names, p) == {[name |-> n, server |-> store[n].server] :
                      n \in {m \in names : store[m].principal = PrincipalTag(p)}}

\* A call begins: the file store lists the principal's directory at once.
Begin ==
    /\ phase \in {"idle", "done"}
    /\ \E p \in Principals :
          /\ principal' = p
          /\ pending' = IF backend = "local" THEN Mine(Stored, p) ELSE {}
    /\ covered' = IF backend = "local" THEN Stored ELSE {}
    /\ phase' = "listing"
    /\ tokens' = {} /\ authorized' = {} /\ trouble' = FALSE
    /\ seen' = [n \in Names |-> {store[n]}]
    /\ UNCHANGED <<backend, storeVars>>

ListUnchanged == UNCHANGED <<backend, storeVars, principal, seen>>

\* Faulty variant: the link to the next page is not followed, the listing starts
\* again.
NextPageAgain ==
    /\ phase = "listing" /\ backend = "kv"
    /\ pending = {}
    /\ \E page \in SUBSET Stored :
          /\ page # {}
          /\ pending' = Mine(page, principal)
          /\ covered' = covered \union page
    /\ ListUnchanged /\ UNCHANGED <<phase, tokens, authorized, trouble>>

\* Faulty variant: the tag of the principal is not compared.
NextPageOfAll ==
    /\ phase = "listing" /\ backend = "kv"
    /\ pending = {}
    /\ \E page \in SUBSET (Stored \ covered) :
          /\ page # {}
          /\ pending' = {[name |-> n, server |-> store[n].server] : n \in page}
          /\ covered' = covered \union page
    /\ ListUnchanged /\ UNCHANGED <<phase, tokens, authorized, trouble>>

\* The vault's next page: some of the secrets that are there now and have not been
\* listed yet.
NextPage ==
    /\ phase = "listing" /\ backend = "kv"
    /\ pending = {}
    /\ \E page \in SUBSET (Stored \ covered) :
          /\ page # {}
          /\ pending' = Mine(page, principal)
          /\ covered' = covered \union page
    /\ ListUnchanged /\ UNCHANGED <<phase, tokens, authorized, trouble>>

Readable(n) == n \in Stored /\ store[n].value \in Bundles

\* Faulty variant: the loop ends with the first token that cannot be read.
ReadOneOrEnd ==
    /\ phase = "listing"
    /\ \E x \in pending :
          IF Readable(x.name)
          THEN /\ pending' = pending \ {x}
               /\ tokens' = tokens \union {[server |-> x.server, bundle |-> store[x.name].value]}
          ELSE pending' = {} /\ UNCHANGED tokens
    /\ ListUnchanged /\ UNCHANGED <<phase, covered, authorized, trouble>>

\* A token is read by its name; one that is gone, or does not parse, is skipped.
ReadOne ==
    /\ phase = "listing"
    /\ \E x \in pending :
          /\ pending' = pending \ {x}
          /\ tokens' = IF Readable(x.name)
                       THEN tokens \union {[server |-> x.server, bundle |-> store[x.name].value]}
                       ELSE tokens
    /\ ListUnchanged /\ UNCHANGED <<phase, covered, authorized, trouble>>

\* The read raises something else, which is logged.
ReadFails ==
    /\ phase = "listing"
    /\ \E x \in pending : pending' = pending \ {x}
    /\ trouble' = TRUE
    /\ ListUnchanged /\ UNCHANGED <<phase, covered, tokens, authorized>>

\* A page cannot be had, or there is no store: nothing counts as authorized.
ListFails ==
    /\ phase = "listing" /\ backend # "local"
    /\ pending = {}
    /\ phase' = "done"
    /\ trouble' = TRUE
    /\ tokens' = {}
    /\ ListUnchanged /\ UNCHANGED <<pending, covered, authorized>>

\* Faulty variant: the answer does not wait for the tokens of the last page.
AnswerEarly ==
    /\ phase = "listing" /\ backend # "none"
    /\ \A n \in Names : Missing \notin seen[n] => n \in covered
    /\ phase' = "done"
    /\ authorized' = {x \in tokens : x.bundle \notin expired}
    /\ ListUnchanged /\ UNCHANGED <<pending, covered, tokens, trouble>>

\* After the last page, which the vault does not send before it has listed all
\* that was there the whole time: what has not expired is authorized.
Answer ==
    /\ phase = "listing" /\ backend # "none"
    /\ pending = {}
    /\ \A n \in Names : Missing \notin seen[n] => n \in covered
    /\ phase' = "done"
    /\ authorized' = {x \in tokens : x.bundle \notin expired}
    /\ ListUnchanged /\ UNCHANGED <<pending, covered, tokens, trouble>>

-------------------------------------------------------------------------------
ListStep == NextPage \/ ReadOne \/ ReadFails \/ ListFails \/ Answer

Next ==
    \/ \E p \in Principals, s \in Servers : SaveSecret(p, s) \/ Delete(p, s)
    \/ \E w \in Writers, p \in Principals, s \in Servers : OpenFile(w, p, s)
    \/ \E w \in Writers : CloseFile(w) \/ WriteFails(w)
    \/ \E b \in Bundles : Age(b)
    \/ Begin \/ ListStep

\* A listing goes on: each vault call answers or raises.
Fairness == WF_vars(ListStep)

Spec == Init /\ [][Next]_vars
FairSpec == Spec /\ Fairness

-------------------------------------------------------------------------------
Found == [server : ServerTags, bundle : Bundles]

\* Every variable has its type; a file that is being written has its entry; what
\* was read of a listing had been listed (kv_stores.py:93-102).
TypeOK ==
    /\ backend \in Backends
    /\ store \in [Names -> Entries \union {Missing}]
    /\ saved \in 0 .. MaxTokens
    /\ expired \subseteq Bundles
    /\ writing \in [Writers -> [name : Names, bundle : Bundles, linked : BOOLEAN] \union {Closed}]
    /\ \A w \in Writers, n \in Names : Linked(w, n) => n \in Stored
    /\ crossed \subseteq Names /\ failed \subseteq Names
    /\ phase \in {"idle", "listing", "done"}
    /\ principal \in Principals
    /\ pending \subseteq [name : Names, server : ServerTags]
    /\ \A x \in pending : x.name \in covered
    /\ phase = "done" => pending = {}
    /\ covered \subseteq Names
    /\ tokens \subseteq Found
    /\ authorized \subseteq tokens
    /\ trouble \in BOOLEAN
    /\ seen \in [Names -> SUBSET (Entries \union {Missing})]

\* oauth-ls shows a server as authorized only with a token that delegation would
\* have found for this principal and server at some moment of the call, whatever
\* names collide and whatever is saved and deleted meanwhile (oauth_server.py:437,
\* server.py:199).
ListedIsStored ==
    \A x \in authorized :
        \E e \in seen[NameOf(principal, x.server)] : e # Missing /\ e.value = x.bundle

\* A token that is there, unexpired and tagged as the principal's during the whole
\* call is not missed by oauth-ls, unless a read failed, or the server's name is not
\* the one that the store notes (kv_stores.py:102, oauth_server.py:448).
StableIsListed ==
    phase = "done" /\ ~trouble =>
        \A s \in Servers :
            /\ ServerTag(s) = s
            /\ \A e \in seen[NameOf(principal, s)] :
                  /\ e # Missing
                  /\ e.principal = PrincipalTag(principal) /\ e.server = s
                  /\ e.value \in Bundles \ expired
            => \E x \in authorized : x.server = s

\* A token that does not parse is being saved, or two saves of it overlapped, or its
\* last write failed: nothing else spoils a stored bundle, whatever names share
\* a file and whatever is deleted under a writer (local_stores.py:35-38).
TornOnlyByFault ==
    \A n \in Stored :
        store[n].value \notin Bundles =>
            n \in crossed \union failed \/ \E w \in Writers : Linked(w, n)

\* Every oauth-ls call ends, however many pages there are and whatever changes
\* between them (kv_stores.py:93-107).
ListEnds == phase = "listing" ~> phase = "done"
=============================================================================
