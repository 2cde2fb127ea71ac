------------------------- MODULE TokenStore_proofs -------------------------
(***************************************************************************)
(* Proofs about TokenStore, for any users, servers, names and saves.       *)
(***************************************************************************)
EXTENDS TokenStore, SecretNames_proofs, TLAPS

\* Before it answers, a call has authorized nothing.
NothingYet == phase # "done" => authorized = {}

\* Only the file store keeps a file open; and with no save across it, a file that
\* is being written is empty and has one writer.
WriterInv ==
    /\ backend # "local" => \A w \in Writers : writing[w] = Closed
    /\ \A n \in Stored \ crossed : \A w \in Writers : Linked(w, n) =>
          store[n].value = Empty /\ \A v \in Writers : Linked(v, n) => v = w

\* The tags of an entry give its name for every principal they fit.
TagInv ==
    \A n \in Stored : \A p \in Principals :
        store[n].principal = PrincipalTag(p) => NameOf(p, store[n].server) = n

\* A listed name is that of its tag; what was collected was stored during the call.
ListInv ==
    /\ phase = "listing" => \A n \in Names : store[n] \in seen[n]
    /\ \A x \in pending : NameOf(principal, x.server) = x.name
    /\ \A x \in tokens :
          /\ NameOf(principal, x.server) \in Names
          /\ \E e \in seen[NameOf(principal, x.server)] : e # Missing /\ e.value = x.bundle

\* Server s has a token of the principal's, with fitting tags, during the call.
Steady(s) ==
    /\ ServerTag(s) = s
    /\ \A e \in seen[NameOf(principal, s)] :
          /\ e # Missing
          /\ e.principal = PrincipalTag(principal) /\ e.server = s
          /\ e.value \in Bundles

\* Of a server that has one, the call will read the token, or has it.
ReachInv ==
    phase = "listing" /\ ~trouble =>
        \A s \in Servers : Steady(s) /\ NameOf(principal, s) \in covered =>
            \/ \E x \in pending : x.name = NameOf(principal, s) /\ x.server = s
            \/ \E x \in tokens : x.server = s
                  /\ \E e \in seen[NameOf(principal, s)] : e.value = x.bundle

-------------------------------------------------------------------------------
(* Names and tags *)

\* Principals and servers have names, and entries to store under them.
LEMMA EntryType ==
    ASSUME NEW p \in Principals, NEW s \in Servers, NEW value \in Bundles \union {Empty, Torn}
    PROVE  /\ NameOf(p, s) \in Names
           /\ Entry(p, s, value) \in Entries /\ Entry(p, s, value) # Missing
  <1>1. /\ <<Sanitize(p)>> \in OwnerTags /\ Directory(p, s) \in OwnerTags
        /\ Sanitize(s) \in ServerTags /\ FileName(s) \in ServerTags
    BY DEF OwnerTags, ServerTags
  <1>2. Entry(p, s, value) \in Entries
    BY <1>1 DEF Entry, Entries, PrincipalTag, ServerTag
  <1>3. NameOf(p, s) \in Names
    <2>1. <<SecretName(p, s)>> \in Names /\ TokenPath(p, s) \in Names
      BY DEF Names
    <2> QED
      BY <2>1 DEF NameOf
  <1> QED
    BY <1>1, <1>2, <1>3, StoreAssumption

\* What is kept under the name of a pair is found by every principal that its tag
\* fits, under the tag of its server as under its name.
LEMMA SameName ==
    ASSUME NEW p \in Principals, NEW q \in Principals, NEW s \in Servers, NEW value,
           Entry(p, s, value).principal = PrincipalTag(q)
    PROVE  NameOf(q, Entry(p, s, value).server) = NameOf(p, s)
  <1>1. CASE backend = "kv"
    <2>1. <<Sanitize(p)>> = <<Sanitize(q)>> /\ Entry(p, s, value).server = Sanitize(s)
      BY <1>1 DEF Entry, PrincipalTag, ServerTag
    <2>2. Sanitize(Sanitize(s)) = Sanitize(s)
      BY StoreAssumption, SanitizeTwice
    <2> QED
      BY <1>1, <2>1, <2>2 DEF NameOf, SecretName
  <1>2. CASE backend # "kv"
    <2>1. Directory(p, s) = Home(q) /\ Entry(p, s, value).server = FileName(s)
      BY <1>2 DEF Entry, PrincipalTag, ServerTag
    <2>2. Slashes(FileName(s)) = {}
      BY StoreAssumption, FileNameStays
    <2>3. Directory(q, FileName(s)) = Home(q) /\ FileName(FileName(s)) = FileName(s)
      BY <2>2 DEF Directory, FileName
    <2> QED
      BY <1>2, <2>1, <2>3 DEF NameOf, TokenPath
  <1> QED
    BY <1>1, <1>2

\* What is listed has a name and a tag.
LEMMA MineType ==
    ASSUME TypeOK, NEW names, names \subseteq Stored, NEW p
    PROVE  Mine(names, p) \subseteq [name : Names, server : ServerTags]
           /\ \A x \in Mine(names, p) :
                 x.name \in names /\ x.server = store[x.name].server
                 /\ store[x.name].principal = PrincipalTag(p)
  <1>1. \A n \in names : n \in Names /\ store[n] \in Entries
    BY DEF Stored, TypeOK
  <1>2. \A n \in names : store[n].server \in ServerTags
    BY <1>1 DEF Entries
  <1> QED
    BY <1>1, <1>2 DEF Mine

-------------------------------------------------------------------------------
(* Type correctness *)

Kinds == Entries \union {Missing}
Open == [name : Names, bundle : Bundles, linked : BOOLEAN]

\* The number of the next bundle.
LEMMA NextBundle == ASSUME TypeOK, saved < MaxTokens
                    PROVE  saved + 1 \in Bundles /\ saved + 1 \in 0 .. MaxTokens
  BY StoreAssumption DEF TypeOK, Bundles

\* What a listing may find is a stored entry or nothing.
LEMMA WatchedType ==
    ASSUME TypeOK, store' \in [Names -> Kinds], Watched
    PROVE  seen' \in [Names -> SUBSET Kinds]
  <1>1. \A n \in Names : store'[n] \in Kinds /\ seen[n] \subseteq Kinds
    BY DEF TypeOK, Kinds
  <1>2. [n \in Names |-> seen[n] \union {store'[n]}] \in [Names -> SUBSET Kinds]
    BY <1>1
  <1> QED
    BY <1>2 DEF Watched, TypeOK, Kinds

\* A save into the vault keeps the types.
LEMMA SaveSecretType ==
    ASSUME TypeOK, NEW p \in Principals, NEW s \in Servers, SaveSecret(p, s) PROVE TypeOK'
  <1>1. /\ NameOf(p, s) \in Names /\ saved + 1 \in Bundles /\ saved + 1 \in 0 .. MaxTokens
        /\ Entry(p, s, saved + 1) \in Entries /\ Entry(p, s, saved + 1) # Missing
    BY NextBundle, EntryType DEF SaveSecret
  <1>2. store' \in [Names -> Kinds] /\ \A n \in Stored : store'[n] # Missing
    BY <1>1 DEF SaveSecret, TypeOK, Kinds, Stored
  <1>3. seen' \in [Names -> SUBSET Kinds]
    BY <1>2, WatchedType DEF SaveSecret
  <1>4. \A w \in Writers, n \in Names : Linked(w, n)' => n \in Stored'
    BY <1>2 DEF SaveSecret, TypeOK, Linked, Stored
  <1> QED
    BY <1>1, <1>2, <1>3, <1>4 DEF SaveSecret, Watched, listVars, TypeOK, Kinds

\* Opening a file keeps the types: the file exists from then on.
LEMMA OpenFileType ==
    ASSUME TypeOK, NEW w \in Writers, NEW p \in Principals, NEW s \in Servers, OpenFile(w, p, s)
    PROVE  TypeOK'
  <1> DEFINE n == NameOf(p, s)
             open == [name |-> n, bundle |-> saved + 1, linked |-> TRUE]
  <1>1. /\ n \in Names /\ saved + 1 \in Bundles /\ saved + 1 \in 0 .. MaxTokens
        /\ Entry(p, s, Empty) \in Entries /\ Entry(p, s, Empty) # Missing
    BY NextBundle, EntryType DEF OpenFile
  <1> HIDE DEF n
  <1>2. /\ store' = [store EXCEPT ![n] = Entry(p, s, Empty)]
        /\ writing' = [writing EXCEPT ![w] = open]
        /\ saved' = saved + 1 /\ expired' = expired /\ Watched
        /\ crossed' \subseteq crossed \union {n} /\ failed' \subseteq failed
    BY DEF OpenFile, n
  <1>3. store' \in [Names -> Kinds] /\ \A m \in Stored \union {n} : store'[m] # Missing
    BY <1>1, <1>2 DEF TypeOK, Kinds, Stored
  <1>4. seen' \in [Names -> SUBSET Kinds]
    BY <1>2, <1>3, WatchedType
  <1>5. writing' \in [Writers -> Open \union {Closed}]
    BY <1>1, <1>2 DEF TypeOK, Open
  <1>6. ASSUME NEW v \in Writers, NEW m \in Names, Linked(v, m)' PROVE m \in Stored'
    <2>1. CASE v = w
      BY <1>1, <1>2, <1>3, <1>6, <2>1 DEF Linked, Stored, TypeOK
    <2>2. CASE v # w
      BY <1>2, <1>3, <1>6, <2>2 DEF Linked, Stored, TypeOK
    <2> QED
      BY <2>1, <2>2
  <1> QED
    BY <1>1, <1>2, <1>3, <1>4, <1>5, <1>6 DEF Watched, listVars, TypeOK, Kinds, Open

\* What a writer may leave in its file: its bundle, what was there, or a part.
Leaves(w, value) ==
    \/ value \in Bundles \union {Torn}
    \/ Linked(w, writing[w].name) /\ value = store[writing[w].name].value

\* What the end of a write does: the file stays, and so do its tags.
LEMMA WriteMeans ==
    ASSUME TypeOK, NEW w \in Writers, NEW values, Write(w, values),
           \A value \in values : Leaves(w, value)
    PROVE  /\ store' \in [Names -> Kinds]
           /\ \A n \in Names : (store'[n] = Missing) <=> (store[n] = Missing)
           /\ \A n \in Stored : /\ store'[n].principal = store[n].principal
                                /\ store'[n].server = store[n].server
           /\ \A n \in Names : store'[n] = store[n] \/ (Linked(w, n) /\ n \in Stored)
  <1> DEFINE n == writing[w].name
  <1>1. writing[w] \in Open /\ n \in Names
    BY DEF Write, TypeOK, Open
  <1>2. CASE writing[w].linked
    <2>1. PICK value \in values : store' = [store EXCEPT ![n].value = value]
      BY <1>2 DEF Write
    <2>2. Linked(w, n) /\ n \in Stored /\ store[n] \in Entries
      BY <1>1, <1>2 DEF Write, Linked, TypeOK, Stored
    <2>3. Leaves(w, value)
      BY <2>1
    <2>4. [store[n] EXCEPT !.value = value] \in Entries
      BY <2>2, <2>3 DEF Entries, Leaves
    <2>5. /\ [store[n] EXCEPT !.value = value].principal = store[n].principal
          /\ [store[n] EXCEPT !.value = value].server = store[n].server
      BY <2>2 DEF Entries
    <2>6. store' = [store EXCEPT ![n] = [store[n] EXCEPT !.value = value]]
      BY <2>1
    <2> HIDE DEF n
    <2> DEFINE new == [store[n] EXCEPT !.value = value]
    <2>7. store'[n] = new /\ \A m \in Names \ {n} : store'[m] = store[m]
      BY <1>1, <2>6 DEF TypeOK
    <2>8. new # Missing /\ store' \in [Names -> Kinds]
      BY <1>1, <2>4, <2>6, StoreAssumption DEF TypeOK, Kinds
    <2> QED
      BY ZenonT(60), <2>2, <2>5, <2>7, <2>8 DEF Stored
  <1>3. CASE ~writing[w].linked
    BY <1>3 DEF Write, TypeOK, Kinds
  <1> QED
    BY <1>2, <1>3

\* The steps that end a write.
WriteStep(w) == CloseFile(w) \/ WriteFails(w)

\* Both leave what a writer may leave.
LEMMA WriteStepMeans ==
    ASSUME TypeOK, NEW w \in Writers, WriteStep(w)
    PROVE  /\ \E values : Write(w, values) /\ \A value \in values : Leaves(w, value)
           /\ writing[w] \in Open
           /\ failed \subseteq failed' /\ failed' \subseteq failed \union {writing[w].name}
  <1>1. writing[w] \in Open
    BY DEF WriteStep, CloseFile, WriteFails, Write, TypeOK, Open
  <1>2. CASE CloseFile(w)
    <2>1. PICK values : /\ Write(w, values)
                        /\ values = {writing[w].bundle} \union
                             (IF store[writing[w].name].value = Empty THEN {} ELSE {Torn})
      BY <1>2 DEF CloseFile
    <2>2. writing[w].bundle \in Bundles
      BY <1>1 DEF Open
    <2>3. \A value \in values : Leaves(w, value)
      BY <2>1, <2>2 DEF Leaves
    <2> QED
      BY <1>1, <1>2, <2>1, <2>3 DEF CloseFile
  <1>3. CASE WriteFails(w) /\ writing[w].linked
    <2>1. PICK values : /\ Write(w, values)
                        /\ values = {store[writing[w].name].value, Torn}
      BY <1>3 DEF WriteFails
    <2>2. Linked(w, writing[w].name)
      BY <1>3, <2>1 DEF Linked, Write
    <2>3. \A value \in values : Leaves(w, value)
      BY <2>1, <2>2 DEF Leaves
    <2> QED
      BY <1>1, <1>3, <2>1, <2>3 DEF WriteFails
  <1>4. CASE WriteFails(w) /\ ~writing[w].linked
    <2>1. Write(w, {})
      BY <1>4 DEF WriteFails, Write
    <2> QED
      BY <1>1, <1>4, <2>1 DEF WriteFails
  <1> QED
    BY <1>2, <1>3, <1>4 DEF WriteStep

\* The end of a write keeps the types.
LEMMA WriteStepType == ASSUME TypeOK, NEW w \in Writers, WriteStep(w) PROVE TypeOK'
  <1>1. PICK values : Write(w, values) /\ \A value \in values : Leaves(w, value)
    BY WriteStepMeans
  <1>2. /\ store' \in [Names -> Kinds]
        /\ \A n \in Names : (store'[n] = Missing) <=> (store[n] = Missing)
    BY <1>1, WriteMeans
  <1>3. seen' \in [Names -> SUBSET Kinds]
    BY <1>1, <1>2, WatchedType DEF Write
  <1>4. /\ writing' = [writing EXCEPT ![w] = Closed]
        /\ writing' \in [Writers -> Open \union {Closed}]
    BY <1>1 DEF Write, TypeOK, Open
  <1>5. \A v \in Writers, n \in Names : Linked(v, n)' => n \in Stored'
    BY <1>2, <1>4 DEF Linked, TypeOK, Stored
  <1>6. failed' \subseteq Names
    BY WriteStepMeans DEF TypeOK, Open
  <1> QED
    BY <1>1, <1>2, <1>3, <1>4, <1>5, <1>6 DEF Write, Watched, listVars, TypeOK, Kinds, Open

\* A deletion keeps the types: no writer's file has the name any more.
LEMMA DeleteType ==
    ASSUME TypeOK, NEW p \in Principals, NEW s \in Servers, Delete(p, s) PROVE TypeOK'
  <1> DEFINE n == NameOf(p, s)
  <1>1. n \in Names /\ store' = [store EXCEPT ![n] = Missing]
    BY DEF Delete, Stored
  <1> HIDE DEF n
  <1>2. store' \in [Names -> Kinds]
    BY <1>1 DEF TypeOK, Kinds
  <1>3. seen' \in [Names -> SUBSET Kinds]
    BY <1>2, WatchedType DEF Delete
  <1>4. writing' = [w \in Writers |->
            IF Linked(w, n) THEN [writing[w] EXCEPT !.linked = FALSE] ELSE writing[w]]
    BY DEF Delete, n
  <1>5. \A w \in Writers : Linked(w, n) => [writing[w] EXCEPT !.linked = FALSE] \in Open
    BY DEF Linked, TypeOK, Open
  <1>6. writing' \in [Writers -> Open \union {Closed}]
    BY <1>4, <1>5 DEF TypeOK, Open
  <1>7. ASSUME NEW w \in Writers, NEW m \in Names, Linked(w, m)' PROVE m \in Stored'
    <2>1. CASE Linked(w, n)
      <3>1. writing[w] \in Open
        BY <2>1 DEF Linked, TypeOK, Open
      <3>2. ~writing'[w].linked
        BY <1>4, <2>1, <3>1 DEF Open
      <3> QED
        BY <1>7, <3>2 DEF Linked
    <2>2. CASE ~Linked(w, n)
      <3>1. Linked(w, m) /\ m # n
        BY <1>4, <1>7, <2>2 DEF Linked
      <3> QED
        BY <1>1, <3>1 DEF TypeOK, Stored
    <2> QED
      BY <2>1, <2>2
  <1> QED
    BY <1>2, <1>3, <1>6, <1>7 DEF Delete, Watched, listVars, TypeOK, Kinds, Open

\* The steps of oauth-ls keep the types.
LEMMA ListType == ASSUME TypeOK, NothingYet, Begin \/ ListStep PROVE TypeOK'
  <1> DEFINE Listed == [name : Names, server : ServerTags]
  <1> USE DEF ListUnchanged, storeVars
  <1>1. /\ \A w \in Writers, n \in Names : Linked(w, n)' <=> Linked(w, n)
        /\ Stored' = Stored /\ Stored \subseteq Names
    BY DEF ListStep, Begin, NextPage, ReadOne, ReadFails, ListFails, Answer, Linked, Stored
  <1>2. ASSUME NEW names, names \subseteq Stored, NEW p PROVE Mine(names, p) \subseteq Listed
    BY <1>2, MineType
  <1>3. ASSUME NEW names, names \subseteq Stored, NEW p, NEW x \in Mine(names, p)
        PROVE  x.name \in names
    BY <1>3, MineType
  <1>4. CASE Begin
    <2>1. pending' \subseteq Listed /\ covered' \subseteq Names
      BY <1>1, <1>2, <1>4 DEF Begin
    <2>2. \A x \in pending' : x.name \in covered'
      BY <1>3, <1>4 DEF Begin
    <2>3. seen' \in [Names -> SUBSET Kinds]
      BY <1>4 DEF Begin, TypeOK, Kinds
    <2> QED
      BY <1>1, <1>4, <2>1, <2>2, <2>3 DEF Begin, TypeOK, Kinds
  <1>5. CASE NextPage
    <2>1. PICK page \in SUBSET (Stored \ covered) :
              pending' = Mine(page, principal) /\ covered' = covered \union page
      BY <1>5 DEF NextPage
    <2>2. pending' \subseteq Listed /\ covered' \subseteq Names
      BY <1>1, <1>2, <2>1 DEF TypeOK
    <2>3. \A x \in pending' : x.name \in covered'
      BY <1>3, <2>1
    <2> QED
      BY <1>1, <1>5, <2>2, <2>3 DEF NextPage, TypeOK
  <1>6. CASE ReadOne
    <2>1. PICK x \in pending :
              /\ pending' = pending \ {x}
              /\ tokens' = IF Readable(x.name)
                  THEN tokens \union {[server |-> x.server, bundle |-> store[x.name].value]}
                  ELSE tokens
      BY <1>6 DEF ReadOne
    <2>2. x.server \in ServerTags /\ (Readable(x.name) => store[x.name].value \in Bundles)
      BY DEF TypeOK, Readable
    <2>3. tokens' \subseteq Found
      BY <2>1, <2>2 DEF TypeOK, Found
    <2> QED
      BY <1>1, <1>6, <2>1, <2>3 DEF ReadOne, TypeOK
  <1>7. CASE ReadFails
    BY <1>1, <1>7 DEF ReadFails, TypeOK
  <1>8. CASE Answer
    BY <1>1, <1>8 DEF Answer, TypeOK
  <1>9. CASE ListFails
    BY <1>1, <1>9 DEF ListFails, TypeOK, NothingYet
  <1> QED
    BY <1>4, <1>5, <1>6, <1>7, <1>8, <1>9 DEF ListStep

\* Every action keeps the types.
LEMMA TypeStep == TypeOK /\ NothingYet /\ [Next]_vars => TypeOK' /\ NothingYet'
  <1> SUFFICES ASSUME TypeOK, NothingYet, [Next]_vars PROVE TypeOK' /\ NothingYet'
    OBVIOUS
  <1>1. ASSUME \E b \in Bundles : Age(b) PROVE TypeOK'
    <2>1. \A w \in Writers, n \in Names : Linked(w, n)' <=> Linked(w, n)
      BY <1>1 DEF Age, Linked
    <2>2. Stored' = Stored
      BY <1>1 DEF Age, Stored
    <2> QED
      BY <1>1, <2>1, <2>2 DEF Age, listVars, TypeOK
  <1>2. ASSUME UNCHANGED vars PROVE TypeOK'
    <2>1. \A w \in Writers, n \in Names : Linked(w, n)' <=> Linked(w, n)
      BY <1>2 DEF vars, storeVars, Linked
    <2>2. Stored' = Stored
      BY <1>2 DEF vars, storeVars, Stored
    <2> QED
      BY <1>2, <2>1, <2>2 DEF vars, storeVars, listVars, TypeOK
  <1>3. NothingYet'
    BY DEF Next, SaveSecret, OpenFile, CloseFile, WriteFails, Write, Delete, Age, Begin,
           ListStep, NextPage, ReadOne, ReadFails, ListFails, Answer, ListUnchanged, Watched,
           listVars, vars, NothingYet
  <1> QED
    BY <1>1, <1>2, <1>3, SaveSecretType, OpenFileType, WriteStepType, DeleteType, ListType
       DEF Next, WriteStep

\* The store, what is being written and what oauth-ls has collected have their types.
THEOREM TypeCorrect == Spec => []TypeOK
  <1>1. ASSUME Init PROVE TypeOK
    <2>1. backend \in Backends
      BY <1>1 DEF Init, BackendOf, Backends
    <2>2. \A w \in Writers, n \in Names : ~Linked(w, n)
      BY <1>1 DEF Init, Linked
    <2>3. seen \in [Names -> SUBSET Kinds] /\ store \in [Names -> Kinds]
      BY <1>1 DEF Init, Kinds
    <2>4. 0 \in 0 .. MaxTokens
      BY StoreAssumption
    <2>5. writing \in [Writers -> Open \union {Closed}]
      BY <1>1 DEF Init
    <2> QED
      BY <1>1, <2>1, <2>2, <2>3, <2>4, <2>5 DEF Init, TypeOK, Kinds, Open
  <1>2. Init => NothingYet
    BY DEF Init, NothingYet
  <1> QED
    BY <1>1, <1>2, TypeStep, PTL DEF Spec

-------------------------------------------------------------------------------
(* The file store *)

\* No token is torn without another save, or being written, at a step.
LEMMA WriterStep ==
    TypeOK /\ WriterInv /\ TornOnlyByFault /\ [Next]_vars
        => WriterInv' /\ TornOnlyByFault'
  <1> SUFFICES ASSUME TypeOK, WriterInv, TornOnlyByFault, [Next]_vars
               PROVE  WriterInv' /\ TornOnlyByFault'
    OBVIOUS
  <1>1. ASSUME NEW p \in Principals, NEW s \in Servers, SaveSecret(p, s)
        PROVE  WriterInv' /\ TornOnlyByFault'
    <2> DEFINE n == NameOf(p, s)
    <2>1. /\ n \in Names /\ saved + 1 \in Bundles
          /\ store' = [store EXCEPT ![n] = Entry(p, s, saved + 1)]
      BY <1>1, NextBundle, EntryType DEF SaveSecret
    <2>2. backend = "kv" /\ UNCHANGED <<backend, writing, crossed, failed>>
      BY <1>1 DEF SaveSecret, Watched
    <2> HIDE DEF n
    <2>3. \A w \in Writers : writing[w] = Closed /\ writing'[w] = Closed
      BY <2>2 DEF WriterInv
    <2>4. \A m \in Stored' : store'[m].value \in Bundles \/ (m \in Stored /\ store'[m] = store[m])
      BY <2>1 DEF TypeOK, Stored, Entry
    <2>5. WriterInv'
      BY <2>3 DEF WriterInv, Linked
    <2>6. TornOnlyByFault'
      BY <2>2, <2>3, <2>4 DEF TornOnlyByFault, Linked
    <2> QED
      BY <2>5, <2>6
  <1>2. ASSUME NEW w \in Writers, NEW p \in Principals, NEW s \in Servers, OpenFile(w, p, s)
        PROVE  WriterInv' /\ TornOnlyByFault'
    <2>1. PICK n \in Names : n = NameOf(p, s)
      BY EntryType
    <2> DEFINE open == [name |-> n, bundle |-> saved + 1, linked |-> TRUE]
    <2>2. /\ store' = [store EXCEPT ![n] = Entry(p, s, Empty)]
          /\ writing' = [writing EXCEPT ![w] = open]
          /\ crossed' = IF \E v \in Writers : Linked(v, n)
                        THEN crossed \union {n} ELSE crossed \ {n}
          /\ backend = "local" /\ backend' = "local" /\ writing[w] = Closed
      BY <1>2, <2>1 DEF OpenFile, Watched
    <2>3. open \in Open /\ open # Closed /\ open.name = n /\ open.linked
      <3>1. open \in Open /\ open.name = n /\ open.linked
        BY <1>2, NextBundle DEF OpenFile, Open
      <3>2. Closed \notin Open
        BY StoreAssumption DEF Open
      <3> QED
        BY <3>1, <3>2
    <2> HIDE DEF open
    <2>4. Linked(w, n)' /\ \A m \in Names \ {n} : ~Linked(w, m)' /\ ~Linked(w, m)
      <3>1. writing'[w] = open
        BY <2>2 DEF TypeOK
      <3> QED
        BY <2>2, <2>3, <3>1 DEF Linked
    <2>5. \A v \in Writers \ {w}, m \in Names : Linked(v, m)' <=> Linked(v, m)
      BY <2>2 DEF TypeOK, Linked
    <2>6. /\ store'[n].value = Empty
          /\ \A m \in Names \ {n} : /\ store'[m] = store[m]
                                    /\ m \in Stored' <=> m \in Stored
                                    /\ m \in crossed' <=> m \in crossed
                                    /\ m \in failed' <=> m \in failed
      BY <1>2, <2>1, <2>2 DEF TypeOK, Stored, Entry, OpenFile
    <2>7. n \notin crossed' => \A v \in Writers : ~Linked(v, n)
      BY <2>2
    <2>8. WriterInv'
      <3>1. ASSUME NEW m \in Stored' \ crossed', NEW v \in Writers, Linked(v, m)'
            PROVE  store'[m].value = Empty /\ \A u \in Writers : Linked(u, m)' => u = v
        <4>1. m \in Names
          BY DEF Stored
        <4>2. CASE m = n
          BY <2>5, <2>6, <2>7, <3>1, <4>1, <4>2
        <4>3. CASE m # n
          BY <2>4, <2>5, <2>6, <3>1, <4>1, <4>3 DEF WriterInv
        <4> QED
          BY <4>2, <4>3
      <3> QED
        BY <2>2, <3>1 DEF WriterInv
    <2>9. TornOnlyByFault'
      <3>1. ASSUME NEW m \in Stored', store'[m].value \notin Bundles
            PROVE  m \in (crossed \union failed)' \/ \E v \in Writers : Linked(v, m)'
        <4>1. m \in Names
          BY DEF Stored
        <4>2. CASE m = n
          BY <2>4, <4>2
        <4>3. CASE m # n
          BY <2>4, <2>5, <2>6, <3>1, <4>1, <4>3 DEF TornOnlyByFault
        <4> QED
          BY <4>2, <4>3
      <3> QED
        BY <3>1 DEF TornOnlyByFault
    <2> QED
      BY <2>8, <2>9
  <1>3. ASSUME NEW w \in Writers, WriteStep(w) PROVE WriterInv' /\ TornOnlyByFault'
    <2>1. PICK values : Write(w, values) /\ \A value \in values : Leaves(w, value)
      BY <1>3, WriteStepMeans
    <2>2. /\ writing' = [writing EXCEPT ![w] = Closed]
          /\ UNCHANGED <<backend, crossed>> /\ writing[w] # Closed
          /\ failed \subseteq failed'
      BY <1>3, <2>1, WriteStepMeans DEF Write, Watched
    <2>3. \A m \in Names : ~Linked(w, m)'
      BY <2>2 DEF TypeOK, Linked
    <2>4. \A v \in Writers \ {w}, m \in Names : Linked(v, m)' <=> Linked(v, m)
      BY <2>2 DEF TypeOK, Linked
    <2>5. /\ \A n \in Names : (store'[n] = Missing) <=> (store[n] = Missing)
          /\ \A n \in Names : store'[n] = store[n] \/ (Linked(w, n) /\ n \in Stored)
      BY <2>1, WriteMeans
    <2>6. Stored' = Stored /\ Stored \subseteq Names
      BY <2>5 DEF Stored
    <2>7. WriterInv'
      <3>1. ASSUME NEW m \in Stored \ crossed, NEW v \in Writers, Linked(v, m)'
            PROVE  store'[m].value = Empty /\ \A u \in Writers : Linked(u, m)' => u = v
        <4>1. m \in Names /\ v # w /\ Linked(v, m)
          BY <2>3, <2>4, <2>6, <3>1
        <4>2. store[m].value = Empty /\ \A u \in Writers : Linked(u, m) => u = v
          BY <4>1 DEF WriterInv
        <4>3. ~Linked(w, m)
          BY <4>1, <4>2
        <4> QED
          BY <2>3, <2>4, <2>5, <4>1, <4>2, <4>3
      <3>2. backend' # "local" => \A v \in Writers : writing'[v] = Closed
        BY <2>2 DEF TypeOK, WriterInv
      <3> QED
        BY <2>2, <2>6, <3>1, <3>2 DEF WriterInv
    <2>8. ASSUME NEW m \in Stored, Linked(w, m), m \notin crossed
          PROVE  m \in failed' \/ store'[m].value \in Bundles
      <3>1. writing[w].name = m /\ writing[w].linked /\ writing[w].bundle \in Bundles
        BY <2>2, <2>8 DEF Linked, TypeOK
      <3>2. CASE WriteFails(w)
        BY <3>1, <3>2 DEF WriteFails
      <3>3. CASE CloseFile(w)
        <4>1. store[m].value = Empty
          BY <2>8 DEF WriterInv
        <4>2. store' = [store EXCEPT ![m].value = writing[w].bundle]
          BY <3>1, <3>3, <4>1 DEF CloseFile, Write
        <4>3. store[m] \in Entries /\ m \in Names
          BY <2>6 DEF Stored, TypeOK
        <4> QED
          BY <3>1, <4>2, <4>3 DEF TypeOK, Entries
      <3> QED
        BY <1>3, <3>2, <3>3 DEF WriteStep
    <2>9. TornOnlyByFault'
      <3>1. ASSUME NEW m \in Stored, store'[m].value \notin Bundles
            PROVE  m \in crossed \union failed' \/ \E v \in Writers : Linked(v, m)'
        <4>1. m \in Names
          BY <2>6
        <4>2. CASE store'[m] = store[m] /\ ~Linked(w, m)
          BY <2>2, <2>4, <3>1, <4>1, <4>2 DEF TornOnlyByFault
        <4>3. CASE Linked(w, m)
          BY <2>8, <3>1, <4>3
        <4> QED
          BY <2>5, <4>1, <4>2, <4>3
      <3> QED
        BY <2>2, <2>6, <3>1 DEF TornOnlyByFault
    <2> QED
      BY <2>7, <2>9
  <1>4. ASSUME NEW p \in Principals, NEW s \in Servers, Delete(p, s)
        PROVE  WriterInv' /\ TornOnlyByFault'
    <2> DEFINE n == NameOf(p, s)
    <2>1. /\ n \in Names /\ store' = [store EXCEPT ![n] = Missing]
          /\ writing' = [w \in Writers |->
                IF Linked(w, n) THEN [writing[w] EXCEPT !.linked = FALSE] ELSE writing[w]]
          /\ UNCHANGED <<backend, crossed, failed>>
      BY <1>4 DEF Delete, Watched, Stored
    <2> HIDE DEF n
    <2>2. /\ \A m \in Stored' : m \in Stored /\ m # n /\ store'[m] = store[m]
          /\ Stored \subseteq Names
      BY <2>1 DEF TypeOK, Stored
    <2>3. ASSUME NEW w \in Writers, NEW m \in Names \ {n} PROVE Linked(w, m)' <=> Linked(w, m)
      <3>1. CASE Linked(w, n)
        <4>1. writing[w] \in Open /\ writing[w].name = n
          BY <3>1 DEF Linked, TypeOK, Open
        <4>2. writing'[w] = [writing[w] EXCEPT !.linked = FALSE]
          BY <2>1, <3>1
        <4>3. ~writing'[w].linked
          BY <4>1, <4>2 DEF Open
        <4> QED
          BY <4>1, <4>3 DEF Linked
      <3>2. CASE ~Linked(w, n)
        BY <2>1, <3>2 DEF Linked
      <3> QED
        BY <3>1, <3>2
    <2>4. WriterInv'
      <3>1. backend' # "local" => \A w \in Writers : writing'[w] = Closed
        BY <2>1 DEF WriterInv, Linked
      <3> QED
        BY <2>1, <2>2, <2>3, <3>1 DEF WriterInv
    <2>5. TornOnlyByFault'
      BY <2>1, <2>2, <2>3 DEF TornOnlyByFault
    <2> QED
      BY <2>4, <2>5
  <1>5. CASE (\E b \in Bundles : Age(b)) \/ Begin \/ ListStep \/ UNCHANGED vars
    <2>1. UNCHANGED <<backend, store, writing, crossed, failed>>
      BY <1>5 DEF Age, Begin, ListStep, NextPage, ReadOne, ReadFails, ListFails, Answer,
                  ListUnchanged, storeVars, vars
    <2>2. \A w \in Writers, n \in Names : Linked(w, n)' <=> Linked(w, n)
      BY <2>1 DEF Linked
    <2>3. Stored' = Stored /\ Stored \subseteq Names
      BY <2>1 DEF Stored
    <2> QED
      BY <2>1, <2>2, <2>3 DEF WriterInv, TornOnlyByFault
  <1> QED
    BY <1>1, <1>2, <1>3, <1>4, <1>5 DEF Next, WriteStep

\* A token that does not parse is being written, or two saves of it overlapped, or
\* its last write failed.
THEOREM TornOnlyByFaultHolds == Spec => []TornOnlyByFault
  <1>1. Init => WriterInv /\ TornOnlyByFault
    BY DEF Init, WriterInv, TornOnlyByFault, Stored, Linked
  <1> QED
    BY <1>1, TypeCorrect, WriterStep, PTL DEF Spec

\* Saves overlap only in the file store, and only with two writers; writes fail there.
NeverCrossed ==
    /\ backend # "local" \/ (\A v, w \in Writers : v = w) => crossed = {}
    /\ backend # "local" => failed = {} /\ \A w \in Writers : writing[w] = Closed

\* A save that opens a file finds nobody in it then.
LEMMA CrossedStep == NeverCrossed /\ [Next]_vars => NeverCrossed'
  <1> SUFFICES ASSUME NeverCrossed, [Next]_vars PROVE NeverCrossed'
    OBVIOUS
  <1>1. ASSUME NEW w \in Writers, NEW p \in Principals, NEW s \in Servers, OpenFile(w, p, s)
        PROVE  NeverCrossed'
    <2>1. backend = "local" /\ backend' = backend /\ writing[w] = Closed
      BY <1>1 DEF OpenFile, Watched
    <2>2. ASSUME \A u, v \in Writers : u = v PROVE crossed' = {}
      <3>1. /\ \A v \in Writers : ~Linked(v, NameOf(p, s))
            /\ crossed = {}
        BY <2>1, <2>2 DEF Linked, NeverCrossed
      <3> QED
        BY <1>1, <3>1 DEF OpenFile
    <2> QED
      BY <2>1, <2>2 DEF NeverCrossed
  <1>2. ASSUME NEW w \in Writers, WriteStep(w) PROVE NeverCrossed'
    BY <1>2 DEF WriteStep, CloseFile, WriteFails, Write, Watched, NeverCrossed
  <1>3. ASSUME NEW p \in Principals, NEW s \in Servers, Delete(p, s) PROVE NeverCrossed'
    BY <1>3 DEF Delete, Watched, Linked, NeverCrossed
  <1>4. ASSUME UNCHANGED <<backend, writing, crossed, failed>> PROVE NeverCrossed'
    BY <1>4 DEF NeverCrossed
  <1>5. CASE (\E p \in Principals, s \in Servers : SaveSecret(p, s)) \/ (\E b \in Bundles : Age(b))
    BY <1>4, <1>5 DEF SaveSecret, Age, Watched
  <1>6. CASE Begin \/ ListStep
    BY <1>4, <1>6 DEF Begin, ListStep, NextPage, ReadOne, ReadFails, ListFails, Answer,
       ListUnchanged, storeVars
  <1>7. CASE UNCHANGED vars
    BY <1>4, <1>7 DEF vars, storeVars
  <1> QED
    BY <1>1, <1>2, <1>3, <1>5, <1>6, <1>7 DEF Next, WriteStep

\* The vault never holds anything but a whole bundle (kv_stores.py:56-63).
WholeInTheVault ==
    backend # "local" => \A n \in Stored : store[n].value \in Bundles

\* A file that nobody is writing, and where the last write succeeded, is a whole
\* bundle (local_stores.py:35-39).
WholeAtRest ==
    \A n \in Stored \ failed :
        (\A w \in Writers : ~Linked(w, n)) => store[n].value \in Bundles

\* That the vault replaces a token in one step is what CredentialDelegation rests
\* on: no request of it meets half a bundle.
THEOREM VaultHoldsWholeBundles == Spec => []WholeInTheVault
  <1>1. Init => NeverCrossed
    BY DEF Init, NeverCrossed
  <1>2. Init => WriterInv /\ TornOnlyByFault
    BY DEF Init, WriterInv, TornOnlyByFault, Stored, Linked
  <1>3. WriterInv /\ NeverCrossed /\ TornOnlyByFault => WholeInTheVault
    BY DEF WriterInv, NeverCrossed, TornOnlyByFault, WholeInTheVault, Linked
  <1> QED
    BY <1>1, <1>2, <1>3, CrossedStep, TypeCorrect, WriterStep, PTL DEF Spec

\* With one writer of files at a time, only a write that fails spoils a file.
THEOREM OneWriterKeepsFilesWhole ==
    ASSUME \A v, w \in Writers : v = w PROVE Spec => []WholeAtRest
  <1>1. Init => NeverCrossed
    BY DEF Init, NeverCrossed
  <1>2. Init => WriterInv /\ TornOnlyByFault
    BY DEF Init, WriterInv, TornOnlyByFault, Stored, Linked
  <1>3. WriterInv /\ NeverCrossed /\ TornOnlyByFault => WholeAtRest
    BY DEF WriterInv, NeverCrossed, TornOnlyByFault, WholeAtRest, Linked
  <1> QED
    BY <1>1, <1>2, <1>3, CrossedStep, TypeCorrect, WriterStep, PTL DEF Spec

-------------------------------------------------------------------------------
(* What oauth-ls finds *)

StoreStep ==
    \/ \E p \in Principals, s \in Servers : SaveSecret(p, s) \/ Delete(p, s)
    \/ \E w \in Writers, p \in Principals, s \in Servers : OpenFile(w, p, s)
    \/ \E w \in Writers : WriteStep(w)

\* What is stored after a step of the store was stored before it, with the same
\* tags, or is what a principal saves.
SameTags(e, f) == e.principal = f.principal /\ e.server = f.server
LEMMA StoreMeans ==
    ASSUME TypeOK, StoreStep
    PROVE  \A n \in Stored' :
              \/ n \in Stored /\ SameTags(store'[n], store[n])
              \/ \E p \in Principals, s \in Servers, value \in Bundles \union {Empty} :
                    n = NameOf(p, s) /\ store'[n] = Entry(p, s, value)
  <1> SUFFICES ASSUME NEW n \in Names, store'[n] # Missing
               PROVE  \/ n \in Stored /\ SameTags(store'[n], store[n])
                      \/ \E p \in Principals, s \in Servers, value \in Bundles \union {Empty} :
                            n = NameOf(p, s) /\ store'[n] = Entry(p, s, value)
    BY DEF Stored
  <1>1. ASSUME NEW p \in Principals, NEW s \in Servers, NEW value,
               store' = [store EXCEPT ![NameOf(p, s)] = Entry(p, s, value)]
        PROVE  \/ n \in Stored /\ store'[n] = store[n]
               \/ n = NameOf(p, s) /\ store'[n] = Entry(p, s, value)
    BY <1>1 DEF TypeOK, Stored
  <1>2. CASE \E p \in Principals, s \in Servers : SaveSecret(p, s)
    <2>1. PICK p \in Principals, s \in Servers :
              store' = [store EXCEPT ![NameOf(p, s)] = Entry(p, s, saved + 1)]
      BY <1>2 DEF SaveSecret
    <2>2. saved + 1 \in Bundles
      BY <1>2, NextBundle DEF SaveSecret
    <2> QED
      BY <1>1, <2>1, <2>2 DEF SameTags
  <1>3. CASE \E w \in Writers, p \in Principals, s \in Servers : OpenFile(w, p, s)
    <2>1. PICK p \in Principals, s \in Servers :
              store' = [store EXCEPT ![NameOf(p, s)] = Entry(p, s, Empty)]
      BY <1>3 DEF OpenFile
    <2> QED
      BY <1>1, <2>1 DEF SameTags
  <1>4. CASE \E w \in Writers : WriteStep(w)
    <2>1. PICK w \in Writers : WriteStep(w)
      BY <1>4
    <2>2. PICK values : Write(w, values) /\ \A value \in values : Leaves(w, value)
      BY <2>1, WriteStepMeans
    <2> QED
      BY <2>2, WriteMeans DEF Stored, SameTags
  <1>5. CASE \E p \in Principals, s \in Servers : Delete(p, s)
    BY <1>5 DEF Delete, TypeOK, Stored, SameTags
  <1> QED
    BY <1>2, <1>3, <1>4, <1>5 DEF StoreStep

\* The store's steps leave the names and the call alone, and are watched.
LEMMA StoreWatched == ASSUME StoreStep PROVE Watched
  BY DEF StoreStep, SaveSecret, OpenFile, WriteStep, CloseFile, WriteFails, Write, Delete

\* Every step of the store keeps the tags right.
LEMMA TagStep == ASSUME TypeOK, TagInv, StoreStep PROVE TagInv'
  <1>1. backend' = backend
    BY StoreWatched DEF Watched
  <1>2. ASSUME NEW n \in Stored', NEW p \in Principals, store'[n].principal = PrincipalTag(p)
        PROVE  NameOf(p, store'[n].server) = n
    <2>1. CASE n \in Stored /\ SameTags(store'[n], store[n])
      BY <1>2, <2>1 DEF TagInv, SameTags
    <2>2. CASE \E q \in Principals, s \in Servers, value \in Bundles \union {Empty} :
                  n = NameOf(q, s) /\ store'[n] = Entry(q, s, value)
      <3>1. PICK q \in Principals, s \in Servers, value \in Bundles \union {Empty} :
                  n = NameOf(q, s) /\ store'[n] = Entry(q, s, value)
        BY <2>2
      <3>2. Entry(q, s, value).principal = PrincipalTag(p)
        BY <1>2, <3>1
      <3>3. NameOf(p, Entry(q, s, value).server) = NameOf(q, s)
        BY <3>2, SameName
      <3> QED
        BY <3>1, <3>3
    <2> QED
      BY <2>1, <2>2, StoreMeans
  <1> QED
    BY <1>1, <1>2 DEF TagInv, NameOf, PrincipalTag

\* What was found in a call stays found while the store changes.
LEMMA WatchedKeepsList ==
    ASSUME TypeOK, TypeOK', ListInv, ReachInv, Watched
    PROVE  ListInv' /\ ReachInv'
  <1>1. UNCHANGED <<backend, phase, principal, pending, covered, tokens, authorized, trouble>>
    BY DEF Watched, listVars
  <1>2. \A n \in Names : seen[n] \subseteq seen'[n] /\ (phase = "listing" => store'[n] \in seen'[n])
    BY DEF Watched, TypeOK
  <1>3. \A s : NameOf(principal, s)' = NameOf(principal, s) /\ ServerTag(s)' = ServerTag(s)
    BY <1>1 DEF NameOf, ServerTag
  <1>4. PrincipalTag(principal)' = PrincipalTag(principal)
    BY <1>1 DEF PrincipalTag
  <1>5. ListInv'
    BY <1>1, <1>2, <1>3 DEF ListInv
  <1>6. ASSUME NEW s \in Servers, Steady(s)' PROVE Steady(s) /\ NameOf(principal, s) \in Names
    <2>1. NameOf(principal, s) \in Names
      BY EntryType DEF TypeOK
    <2> QED
      BY <1>2, <1>3, <1>4, <1>6, <2>1 DEF Steady
  <1>7. ReachInv'
    BY <1>1, <1>2, <1>3, <1>6 DEF ReachInv
  <1> QED
    BY <1>5, <1>7

\* A call begins with nothing read, and lists the principal's files at once.
LEMMA BeginList ==
    ASSUME TypeOK, TypeOK', TagInv, Begin PROVE ListInv' /\ ReachInv'
  <1>1. /\ principal' \in Principals
        /\ pending' = IF backend = "local" THEN Mine(Stored, principal') ELSE {}
        /\ covered' = IF backend = "local" THEN Stored ELSE {}
        /\ tokens' = {} /\ seen' = [n \in Names |-> {store[n]}]
        /\ UNCHANGED <<backend, store>>
    BY DEF Begin, storeVars
  <1>2. \A x \in Mine(Stored, principal') :
            x.name \in Stored /\ x.server = store[x.name].server
            /\ store[x.name].principal = PrincipalTag(principal')
    BY MineType
  <1>4. ListInv'
    <2>1. \A x \in pending' : NameOf(principal', x.server) = x.name
      BY <1>1, <1>2 DEF TagInv
    <2> QED
      BY <1>1, <2>1 DEF ListInv, NameOf
  <1>5. ASSUME NEW s \in Servers, Steady(s)', (NameOf(principal, s) \in covered)'
        PROVE  \E x \in pending' : x.name = NameOf(principal, s)' /\ x.server = s
    <2>1. PICK n \in Names : n = NameOf(principal, s)'
      BY <1>1, <1>5 DEF Stored
    <2>2. n \in Stored /\ backend = "local"
      BY <1>1, <1>5, <2>1
    <2>3. store[n].principal = PrincipalTag(principal') /\ store[n].server = s
      BY <1>1, <1>5, <2>1 DEF Steady, PrincipalTag
    <2>4. [name |-> n, server |-> store[n].server] \in pending'
      BY <1>1, <2>2, <2>3 DEF Mine
    <2> QED
      BY <2>1, <2>3, <2>4
  <1> QED
    BY <1>4, <1>5 DEF ReachInv

\* The steps of a call after its beginning leave the store alone.
LEMMA ListStepMeans ==
    ASSUME ListStep
    PROVE  /\ UNCHANGED <<backend, store, principal, seen>> /\ phase = "listing"
           /\ \A s : NameOf(principal, s)' = NameOf(principal, s)
           /\ \A s : Steady(s)' <=> Steady(s)
  <1>1. UNCHANGED <<backend, store, principal, seen>> /\ phase = "listing"
    BY DEF ListStep, NextPage, ReadOne, ReadFails, ListFails, Answer, ListUnchanged, storeVars
  <1> QED
    BY <1>1 DEF NameOf, Steady, ServerTag, PrincipalTag

\* A page brings names with their tags, and what it has of the principal's is read.
LEMMA PageStep ==
    ASSUME TypeOK, TagInv, ListInv, ReachInv, NextPage PROVE ListInv' /\ ReachInv'
  <1>1. PICK page \in SUBSET (Stored \ covered) :
            pending' = Mine(page, principal) /\ covered' = covered \union page
    BY DEF NextPage
  <1>2. pending = {} /\ principal \in Principals /\ UNCHANGED <<phase, tokens, trouble>>
    BY DEF NextPage, TypeOK
  <1>3. /\ UNCHANGED <<backend, store, principal, seen>> /\ phase = "listing"
        /\ \A s : NameOf(principal, s)' = NameOf(principal, s)
        /\ \A s : Steady(s)' <=> Steady(s)
    BY ListStepMeans DEF ListStep
  <1>4. \A x \in Mine(page, principal) :
            x.name \in page /\ x.server = store[x.name].server
            /\ store[x.name].principal = PrincipalTag(principal)
    BY MineType
  <1>5. \A x \in pending' : NameOf(principal, x.server) = x.name
    BY <1>1, <1>2, <1>4 DEF TagInv
  <1>6. ListInv'
    BY <1>2, <1>3, <1>5 DEF ListInv
  <1>7. ASSUME NEW s \in Servers, Steady(s), NameOf(principal, s) \in page
        PROVE  \E x \in pending' : x.name = NameOf(principal, s) /\ x.server = s
    <2>1. NameOf(principal, s) \in Stored
      BY <1>7
    <2>2. store[NameOf(principal, s)] \in seen[NameOf(principal, s)]
      BY <1>3, <2>1 DEF ListInv, Stored
    <2>3. /\ store[NameOf(principal, s)].principal = PrincipalTag(principal)
          /\ store[NameOf(principal, s)].server = s
      BY <1>7, <2>2 DEF Steady
    <2>4. [name |-> NameOf(principal, s), server |-> s] \in pending'
      BY <1>1, <1>7, <2>3 DEF Mine
    <2> QED
      BY <2>4
  <1>8. ReachInv'
    BY <1>1, <1>2, <1>3, <1>7 DEF ReachInv
  <1> QED
    BY <1>6, <1>8

\* A token that is read was stored at that moment; a steady one can be read.
LEMMA ReadStep ==
    ASSUME TypeOK, ListInv, ReachInv, ReadOne PROVE ListInv' /\ ReachInv'
  <1>1. PICK x \in pending :
            /\ pending' = pending \ {x}
            /\ tokens' = IF Readable(x.name)
                THEN tokens \union {[server |-> x.server, bundle |-> store[x.name].value]}
                ELSE tokens
    BY DEF ReadOne
  <1>2. UNCHANGED <<phase, covered, trouble>>
    BY DEF ReadOne
  <1>3. /\ UNCHANGED <<backend, store, principal, seen>> /\ phase = "listing"
        /\ \A s : NameOf(principal, s)' = NameOf(principal, s)
        /\ \A s : Steady(s)' <=> Steady(s)
    BY ListStepMeans DEF ListStep
  <1>4. x.name \in Names /\ NameOf(principal, x.server) = x.name
        /\ store[x.name] \in seen[x.name]
    BY <1>3 DEF ListInv, TypeOK
  <1> DEFINE token == [server |-> x.server, bundle |-> store[x.name].value]
  <1>5. ASSUME NEW t \in tokens'
        PROVE  /\ NameOf(principal, t.server) \in Names
               /\ \E e \in seen[NameOf(principal, t.server)] : e # Missing /\ e.value = t.bundle
    <2>1. CASE t \in tokens
      BY <2>1 DEF ListInv
    <2>2. CASE Readable(x.name) /\ t = token
      BY <1>4, <2>2 DEF Readable, Stored
    <2> QED
      BY <1>1, <2>1, <2>2
  <1>6. ListInv'
    <2>1. \A y \in pending' : NameOf(principal, y.server) = y.name
      BY <1>1 DEF ListInv
    <2> QED
      BY <1>2, <1>3, <1>5, <2>1 DEF ListInv
  <1>7. ASSUME ~trouble, NEW s \in Servers, Steady(s), NameOf(principal, s) \in covered
        PROVE  \/ \E y \in pending' : y.name = NameOf(principal, s) /\ y.server = s
               \/ \E t \in tokens' : t.server = s
                     /\ \E e \in seen[NameOf(principal, s)] : e.value = t.bundle
    <2>1. \/ \E y \in pending : y.name = NameOf(principal, s) /\ y.server = s
          \/ \E t \in tokens : t.server = s
                /\ \E e \in seen[NameOf(principal, s)] : e.value = t.bundle
      BY <1>3, <1>7 DEF ReachInv
    <2>2. CASE x.name = NameOf(principal, s) /\ x.server = s
      <3>1. store[x.name] # Missing /\ store[x.name].value \in Bundles
        BY <1>4, <1>7, <2>2 DEF Steady
      <3>2. token \in tokens'
        BY <1>1, <1>4, <3>1 DEF Readable, Stored
      <3> QED
        BY <1>4, <2>2, <3>2
    <2> QED
      BY <1>1, <2>1, <2>2
  <1>8. ReachInv'
    BY <1>2, <1>3, <1>7 DEF ReachInv
  <1> QED
    BY <1>6, <1>8

\* Every step keeps what is known of a call that goes on.
LEMMA ListInvStep ==
    TypeOK /\ TypeOK' /\ TagInv /\ ListInv /\ ReachInv /\ [Next]_vars
        => TagInv' /\ ListInv' /\ ReachInv'
  <1> SUFFICES ASSUME TypeOK, TypeOK', TagInv, ListInv, ReachInv, [Next]_vars
               PROVE  TagInv' /\ ListInv' /\ ReachInv'
    OBVIOUS
  <1>1. CASE StoreStep
    BY <1>1, TagStep, StoreWatched, WatchedKeepsList
  <1>2. ASSUME UNCHANGED <<backend, store>> PROVE TagInv'
    BY <1>2 DEF TagInv, Stored, NameOf, PrincipalTag
  <1>3. CASE Begin
    <2>1. UNCHANGED <<backend, store>>
      BY <1>3 DEF Begin, storeVars
    <2> QED
      BY <1>2, <1>3, <2>1, BeginList
  <1>4. CASE ListStep
    <2>1. /\ UNCHANGED <<backend, store, principal, seen>> /\ phase = "listing"
          /\ \A s : NameOf(principal, s)' = NameOf(principal, s)
          /\ \A s : Steady(s)' <=> Steady(s)
      BY <1>4, ListStepMeans
    <2>2. CASE ReadFails
      <3>1. pending' \subseteq pending /\ tokens' = tokens /\ trouble' /\ phase' = phase
        BY <2>2 DEF ReadFails
      <3>2. ListInv' /\ ReachInv'
        BY <2>1, <3>1 DEF ListInv, ReachInv
      <3> QED
        BY <1>2, <2>1, <3>2
    <2>3. CASE ListFails \/ Answer
      <3>1. pending' = pending /\ tokens' \subseteq tokens /\ phase' = "done"
        BY <2>3 DEF ListFails, Answer
      <3>2. ListInv' /\ ReachInv'
        BY <2>1, <3>1 DEF ListInv, ReachInv
      <3> QED
        BY <1>2, <2>1, <3>2
    <2> QED
      BY <1>2, <1>4, <2>1, <2>2, <2>3, PageStep, ReadStep DEF ListStep
  <1>5. CASE (\E b \in Bundles : Age(b)) \/ UNCHANGED vars
    <2>1. UNCHANGED <<backend, store, listVars, seen>>
      BY <1>5 DEF Age, vars, storeVars
    <2>2. \A s : NameOf(principal, s)' = NameOf(principal, s) /\ (Steady(s)' <=> Steady(s))
      BY <2>1 DEF listVars, NameOf, Steady, ServerTag, PrincipalTag
    <2> QED
      BY <1>2, <2>1, <2>2 DEF listVars, ListInv, ReachInv
  <1> QED
    BY <1>1, <1>3, <1>4, <1>5 DEF Next, StoreStep, WriteStep

\* At the beginning nothing is stored and nothing was read.
LEMMA ListInvInit == Init => TagInv /\ ListInv /\ ReachInv
  BY DEF Init, TagInv, ListInv, ReachInv, Stored

\* oauth-ls authorizes with what was stored for this principal and server.
THEOREM ListedIsStoredHolds == Spec => []ListedIsStored
  <1>1. TypeOK /\ ListInv => ListedIsStored
    BY DEF TypeOK, ListInv, ListedIsStored
  <1> QED
    BY <1>1, ListInvInit, TypeCorrect, ListInvStep, PTL DEF Spec

\* Server s has an unexpired token, as Steady has it: what StableIsListed is about.
Stable(s) == Steady(s) /\ \A e \in seen[NameOf(principal, s)] : e.value \notin expired

\* An answer has the servers of all tokens that were there the whole time.
LEMMA AnswerIsComplete ==
    ASSUME TypeOK, ReachInv, Answer, ~trouble, NEW s \in Servers, Stable(s)
    PROVE  \E x \in authorized' : x.server = s
  <1>1. /\ phase = "listing" /\ pending = {}
        /\ \A n \in Names : Missing \notin seen[n] => n \in covered
        /\ authorized' = {x \in tokens : x.bundle \notin expired}
    BY DEF Answer
  <1>2. NameOf(principal, s) \in Names
    BY EntryType DEF TypeOK
  <1>3. NameOf(principal, s) \in covered
    BY <1>1, <1>2 DEF Stable, Steady
  <1>4. PICK x \in tokens : x.server = s
            /\ \E e \in seen[NameOf(principal, s)] : e.value = x.bundle
    BY <1>1, <1>3 DEF Stable, ReachInv
  <1>5. x.bundle \notin expired
    BY <1>4 DEF Stable
  <1> QED
    BY <1>1, <1>4, <1>5

\* Every step keeps the answers complete: a token only grows older.
LEMMA StableStep ==
    TypeOK /\ ReachInv /\ StableIsListed /\ [Next]_vars => StableIsListed'
  <1> SUFFICES ASSUME TypeOK, ReachInv, StableIsListed, [Next]_vars,
                      phase' = "done", ~trouble', NEW s \in Servers, Stable(s)'
               PROVE  \E x \in authorized' : x.server = s
    BY DEF StableIsListed, Stable, Steady
  <1>1. ASSUME phase = "done", ~trouble, Stable(s) PROVE \E x \in authorized : x.server = s
    BY <1>1 DEF StableIsListed, Stable, Steady
  <1>2. CASE StoreStep
    <2>1. UNCHANGED <<backend, phase, principal, authorized, trouble, expired>>
      BY <1>2, StoreWatched 
         DEF StoreStep, SaveSecret, OpenFile, WriteStep, CloseFile, WriteFails, Write, Delete,
             Watched, listVars
    <2>2. seen' = seen
      BY <1>2, <2>1, StoreWatched DEF Watched
    <2>3. Stable(s)
      BY <2>1, <2>2 DEF Stable, Steady, NameOf, ServerTag, PrincipalTag
    <2> QED
      BY <1>1, <2>1, <2>3
  <1>3. CASE (\E b \in Bundles : Age(b)) \/ UNCHANGED vars
    <2>1. UNCHANGED <<backend, phase, principal, authorized, trouble, seen>> /\ expired \subseteq expired'
      BY <1>3 DEF Age, vars, storeVars, listVars
    <2>2. Stable(s)
      BY <2>1 DEF Stable, Steady, NameOf, ServerTag, PrincipalTag
    <2> QED
      BY <1>1, <2>1, <2>2
  <1>4. CASE Begin
    BY <1>4 DEF Begin
  <1>5. CASE ListStep
    <2>1. CASE Answer
      <3>1. UNCHANGED <<backend, principal, seen, trouble, expired>>
        BY <2>1 DEF Answer, ListUnchanged, storeVars
      <3>2. Stable(s)
        BY <3>1 DEF Stable, Steady, NameOf, ServerTag, PrincipalTag
      <3> QED
        BY <2>1, <3>1, <3>2, AnswerIsComplete
    <2>2. CASE NextPage \/ ReadOne \/ ReadFails \/ ListFails
      BY <2>2 DEF NextPage, ReadOne, ReadFails, ListFails
    <2> QED
      BY <1>5, <2>1, <2>2 DEF ListStep
  <1> QED
    BY <1>2, <1>3, <1>4, <1>5 DEF Next, StoreStep, WriteStep

\* oauth-ls misses no token that is there, unexpired, during the whole call.
THEOREM StableIsListedHolds == Spec => []StableIsListed
  <1>1. Init => StableIsListed
    BY DEF Init, StableIsListed
  <1> QED
    BY <1>1, ListInvInit, TypeCorrect, ListInvStep, StableStep, PTL DEF Spec

-------------------------------------------------------------------------------
(* Servers whose names are apart *)

\* No server's sanitized name begins with another's and a dash, or has a slash.
ServersApart ==
    /\ \A s, t \in Servers : ~Begins(Sanitize(s), Dash, Sanitize(t))
    /\ \A s \in Servers : Slashes(s) = {}

\* What is kept under the name of a pair has the tags of the pair.
OwnTags(e, p, s) == e # Missing => e.principal = PrincipalTag(p) /\ e.server = ServerTag(s)
OwnTagsInv ==
    \A p \in Principals, s \in Servers :
        /\ OwnTags(store[NameOf(p, s)], p, s)
        /\ \A e \in seen[NameOf(p, s)] : OwnTags(e, p, s)

\* Pairs with one name have the same tags.
LEMMA NameHasTags ==
    ASSUME ServersApart, TypeOK,
           NEW p \in Principals, NEW q \in Principals, NEW s \in Servers, NEW t \in Servers,
           NameOf(p, s) = NameOf(q, t)
    PROVE  PrincipalTag(p) = PrincipalTag(q) /\ ServerTag(s) = ServerTag(t)
  <1>1. p \in Seq(STRING) /\ q \in Seq(STRING) /\ s \in Seq(STRING) /\ t \in Seq(STRING)
    BY StoreAssumption
  <1>2. CASE backend = "kv"
    <2>1. /\ SecretName(p, s) = SecretName(q, t)
          /\ ~Begins(Sanitize(s), Dash, Sanitize(t)) /\ ~Begins(Sanitize(t), Dash, Sanitize(s))
      BY <1>2 DEF NameOf, ServersApart
    <2>2. Sanitize(p) = Sanitize(q) /\ Sanitize(s) = Sanitize(t)
      BY <1>1, <2>1, SecretNamesApart
    <2> QED
      BY <1>2, <2>2 DEF PrincipalTag, ServerTag
  <1>3. CASE backend # "kv"
    <2>1. TokenPath(p, s) = TokenPath(q, t) /\ Slashes(s) = {} /\ Slashes(t) = {}
      BY <1>3 DEF NameOf, ServersApart
    <2>2. Home(p) = Home(q) /\ s = t
      BY <2>1, PathsOfOneDirectory
    <2> QED
      BY <1>3, <2>2 DEF PrincipalTag, ServerTag
  <1> QED
    BY <1>2, <1>3

\* Every step keeps the tags of a name those of its pairs.
LEMMA OwnTagsStep ==
    ServersApart /\ TypeOK /\ OwnTagsInv /\ [Next]_vars => OwnTagsInv'
  <1> SUFFICES ASSUME ServersApart, TypeOK, OwnTagsInv, [Next]_vars,
                      NEW p \in Principals, NEW s \in Servers
               PROVE  (/\ OwnTags(store[NameOf(p, s)], p, s)
                       /\ \A e \in seen[NameOf(p, s)] : OwnTags(e, p, s))'
    BY DEF OwnTagsInv
  <1>1. PICK n : n = NameOf(p, s)
    OBVIOUS
  <1>2. n \in Names
    BY <1>1, EntryType
  <1>3. OwnTags(store[n], p, s) /\ \A e \in seen[n] : OwnTags(e, p, s)
    BY <1>1 DEF OwnTagsInv
  <1>4. backend' = backend
    BY DEF Next, SaveSecret, OpenFile, CloseFile, WriteFails, Write, Delete, Watched, Age, Begin,
           ListStep, NextPage, ReadOne, ReadFails, ListFails, Answer, ListUnchanged, vars
  <1>5. /\ NameOf(p, s)' = n
        /\ \A e : OwnTags(e, p, s)' <=>
              (e # Missing => e.principal = PrincipalTag(p) /\ e.server = ServerTag(s))
    BY <1>1, <1>4 DEF OwnTags, NameOf, PrincipalTag, ServerTag
  <1>6. CASE StoreStep
    <2>1. ASSUME store'[n] # Missing
          PROVE  store'[n].principal = PrincipalTag(p) /\ store'[n].server = ServerTag(s)
      <3>1. n \in Stored'
        BY <1>2, <2>1 DEF Stored
      <3>2. CASE n \in Stored /\ SameTags(store'[n], store[n])
        BY <1>3, <3>2 DEF OwnTags, Stored, SameTags
      <3>3. CASE \E q \in Principals, t \in Servers, value \in Bundles \union {Empty} :
                    n = NameOf(q, t) /\ store'[n] = Entry(q, t, value)
        <4>1. PICK q \in Principals, t \in Servers, value \in Bundles \union {Empty} :
                    n = NameOf(q, t) /\ store'[n] = Entry(q, t, value)
          BY <3>3
        <4>2. NameOf(p, s) = NameOf(q, t)
          BY <1>1, <4>1
        <4>3. PrincipalTag(p) = PrincipalTag(q) /\ ServerTag(s) = ServerTag(t)
          BY <4>2, NameHasTags
        <4>4. Directory(q, t) = Home(q)
          BY DEF ServersApart, Directory
        <4> QED
          BY <4>1, <4>3, <4>4 DEF Entry, PrincipalTag
      <3> QED
        BY <1>6, <3>1, <3>2, <3>3, StoreMeans
    <2>2. \A e \in seen'[n] : e \in seen[n] \/ e = store'[n]
      BY <1>2, <1>6, StoreWatched DEF Watched, TypeOK
    <2> QED
      BY <1>3, <1>5, <2>1, <2>2 DEF OwnTags
  <1>7. CASE Begin
    <2>1. store' = store /\ seen'[n] = {store[n]}
      BY <1>2, <1>7 DEF Begin, storeVars
    <2> QED
      BY <1>3, <1>5, <2>1 DEF OwnTags
  <1>8. CASE ListStep \/ (\E b \in Bundles : Age(b)) \/ UNCHANGED vars
    <2>1. UNCHANGED <<store, seen>>
      BY <1>8, ListStepMeans DEF Age, vars, storeVars
    <2> QED
      BY <1>3, <1>5, <2>1 DEF OwnTags
  <1> QED
    BY <1>6, <1>7, <1>8 DEF Next, StoreStep, WriteStep

\* With such server names, what delegation finds for a principal and a server was
\* saved with their tags: for a server of that sanitized name and a principal of
\* that sanitized name or directory, never for another pair (kv_stores.py:54).
THEOREM NamesKeepTags == ASSUME ServersApart PROVE Spec => []OwnTagsInv
  <1>1. Init => OwnTagsInv
    <2> SUFFICES ASSUME Init, NEW p \in Principals, NEW s \in Servers
                 PROVE  store[NameOf(p, s)] = Missing /\ seen[NameOf(p, s)] = {}
      BY DEF OwnTagsInv, OwnTags
    <2>1. NameOf(p, s) \in Names
      BY EntryType
    <2> QED
      BY <2>1 DEF Init
  <1>2. TypeOK /\ OwnTagsInv /\ [Next]_vars => OwnTagsInv'
    BY OwnTagsStep
  <1> QED
    BY <1>1, <1>2, TypeCorrect, PTL DEF Spec

\* The answer has every server whose name sanitizing leaves alone and that has an
\* unexpired token all the time.
ApartIsListed ==
    phase = "done" /\ ~trouble =>
        \A s \in Servers :
            /\ ServerTag(s) = s
            /\ \A e \in seen[NameOf(principal, s)] : e # Missing /\ e.value \in Bundles \ expired
            => \E x \in authorized : x.server = s

\* With such server names, the entries of other pairs hide no token: oauth-ls shows
\* every server whose name is its own tag (not "a.b" in the vault) and that has an
\* unexpired token during the whole call (an expired one it does not show, though
\* delegation may refresh it; oauth_server.py:448).
THEOREM ApartIsListedHolds == ASSUME ServersApart PROVE Spec => []ApartIsListed
  <1>1. TypeOK /\ OwnTagsInv /\ StableIsListed => ApartIsListed
    <2> SUFFICES ASSUME TypeOK, OwnTagsInv, StableIsListed, phase = "done", ~trouble,
                        NEW s \in Servers, ServerTag(s) = s,
                        \A e \in seen[NameOf(principal, s)] :
                            e # Missing /\ e.value \in Bundles \ expired
                 PROVE  \E x \in authorized : x.server = s
      BY DEF ApartIsListed
    <2>1. principal \in Principals
      BY DEF TypeOK
    <2>2. \A e \in seen[NameOf(principal, s)] :
              e.principal = PrincipalTag(principal) /\ e.server = s
      BY <2>1 DEF OwnTagsInv, OwnTags
    <2> QED
      BY <2>2 DEF StableIsListed
  <1> QED
    BY <1>1, NamesKeepTags, StableIsListedHolds, TypeCorrect, PTL
=============================================================================
