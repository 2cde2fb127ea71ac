--------------------------- MODULE VaultDelegation ---------------------------
(***************************************************************************)
(* The credential path over the names the vault store really uses: a pair  *)
(* is a principal and a server, both words, and its secret is named by     *)
(* _secret_name (datastores/kv_stores.py), which is not one to one.        *)
(* CredentialDelegation leaves the names open and says that a token goes   *)
(* to a pair of the same name; SecretNames_proofs says when two names      *)
(* differ.  Together they say whose tokens a caller can be handed.         *)
(***************************************************************************)
EXTENDS SecretNames_proofs

CONSTANTS
    Char,               \* characters of a word
    Principals,         \* principal_id values
    Servers,            \* server_name values
    \* those of CredentialDelegation
    Pats, Requests, Callbacks, ReportsExpiry, MaxTokens

VARIABLES store, issued, grant, owner, live, rotates, stale, pc, pair, bundle,
          answer, pending, cbPair, faulted

Callers == Principals \X Servers
CallerName == [c \in Callers |-> SecretName(c[1], c[2])]
CallerNames == {CallerName[c] : c \in Callers}

Delegation == INSTANCE CredentialDelegation_proofs
    WITH Pairs <- Callers, Names <- CallerNames, SecretNameOf <- CallerName

\* What the deployment gives: at least one principal and one server, words
\* both, and a PAT only for one of their pairs.
Deployment ==
    /\ Principals # {} /\ Principals \subseteq Seq(Char)
    /\ Servers # {} /\ Servers \subseteq Seq(Char)
    /\ Pats \subseteq Callers
    /\ ReportsExpiry \in SUBSET BOOLEAN
    /\ MaxTokens \in Nat

\* No server's name begins with another one's and a dash.
ServersApart == \A s, t \in Servers : ~Begins(Sanitize(s), Dash, Sanitize(t))

\* No two words of a set become the same one.
StayApart(words) == \A v, w \in words : Sanitize(v) = Sanitize(w) => v = w

\* These are constants as CredentialDelegation wants them.
LEMMA DeploymentFits == Deployment => Delegation!ConstantsAssumption
  <1> SUFFICES ASSUME Deployment PROVE Delegation!ConstantsAssumption
    OBVIOUS
  <1>1. Callers # {}
    <2>1. PICK p \in Principals, s \in Servers : TRUE
      BY DEF Deployment
    <2>2. <<p, s>> \in Callers
      BY DEF Callers
    <2> QED
      BY <2>2
  <1>2. CallerName \in [Callers -> CallerNames]
    BY DEF CallerName, CallerNames
  <1> QED
    BY <1>1, <1>2 DEF Deployment, Delegation!ConstantsAssumption

\* Two callers with one secret name have principals that become one word, and so
\* have their servers.
LEMMA CallersApart ==
    ASSUME Deployment, ServersApart, NEW c \in Callers, NEW d \in Callers,
           CallerName[c] = CallerName[d]
    PROVE  Sanitize(c[1]) = Sanitize(d[1]) /\ Sanitize(c[2]) = Sanitize(d[2])
  <1>1. PICK p, q, s, t : p = c[1] /\ q = d[1] /\ s = c[2] /\ t = d[2]
    OBVIOUS
  <1>2. p \in Principals /\ q \in Principals /\ s \in Servers /\ t \in Servers
    BY <1>1 DEF Callers
  <1>3. p \in Seq(Char) /\ q \in Seq(Char) /\ s \in Seq(Char) /\ t \in Seq(Char)
    BY <1>2 DEF Deployment
  <1>4. ~Begins(Sanitize(s), Dash, Sanitize(t)) /\ ~Begins(Sanitize(t), Dash, Sanitize(s))
    BY <1>2 DEF ServersApart
  <1>5. SecretName(p, s) = SecretName(q, t)
    BY <1>1 DEF CallerName
  <1>6. Sanitize(p) = Sanitize(q) /\ Sanitize(s) = Sanitize(t)
    BY <1>3, <1>4, <1>5, SecretNamesApart
  <1> QED
    BY <1>1, <1>6

\* A Bearer token that a call returns was issued to a principal and for a server
\* that become the words of the call's own (server.py:207-227, kv_stores.py:39-54).
CredentialOfTheWords ==
    \A r \in Requests : answer[r].kind = "bearer" =>
        LET c == owner[answer[r].token]
        IN  Sanitize(c[1]) = Sanitize(pair[r][1]) /\ Sanitize(c[2]) = Sanitize(pair[r][2])

\* With servers named apart, the only tokens that can be handed to the wrong
\* caller are those of a principal that becomes the same word.
THEOREM CredentialOfTheWordsHolds ==
    ASSUME Deployment, ServersApart
    PROVE  Delegation!Spec => []CredentialOfTheWords
  <1>1. Delegation!ConstantsAssumption
    BY DeploymentFits
  <1>2. Delegation!Spec => []Delegation!CredentialOfTheName
    BY <1>1, Delegation!CredentialOfTheNameHolds
  <1>3. Delegation!Spec => []Delegation!TypeOK
    BY <1>1, Delegation!TypeCorrect
  <1>4. Delegation!CredentialOfTheName /\ Delegation!TypeOK => CredentialOfTheWords
    <2> SUFFICES ASSUME Delegation!CredentialOfTheName, Delegation!TypeOK,
                        NEW r \in Requests, answer[r].kind = "bearer"
                 PROVE  LET c == owner[answer[r].token]
                        IN  Sanitize(c[1]) = Sanitize(pair[r][1]) /\ Sanitize(c[2]) = Sanitize(pair[r][2])
      BY DEF CredentialOfTheWords
    <2>1. CallerName[owner[answer[r].token]] = CallerName[pair[r]] /\ pair[r] \in Callers
      BY DEF Delegation!CredentialOfTheName, Delegation!TypeOK
    <2>2. owner[answer[r].token] \in Callers
      BY DEF Deployment, Delegation!CredentialOfTheName, Delegation!TypeOK,
             Delegation!Ids, Delegation!IdOrNone
    <2> QED
      BY <2>1, <2>2, CallersApart
  <1> QED
    BY <1>2, <1>3, <1>4, PTL

\* When neither two principals nor two servers become the same word, and servers
\* are named apart, every call returns its own caller's credential.
THEOREM VaultOwnCredential ==
    ASSUME Deployment, ServersApart, StayApart(Principals), StayApart(Servers)
    PROVE  Delegation!Spec => []Delegation!OwnCredential
  <1>1. Delegation!ConstantsAssumption
    BY DeploymentFits
  <1>2. Delegation!NamesApart
    <2> SUFFICES ASSUME NEW c \in Callers, NEW d \in Callers, CallerName[c] = CallerName[d]
                 PROVE  c = d
      BY DEF Delegation!NamesApart
    <2>1. c[1] \in Principals /\ d[1] \in Principals /\ c[2] \in Servers /\ d[2] \in Servers
      BY DEF Callers
    <2>2. c[1] = d[1] /\ c[2] = d[2]
      BY <2>1, CallersApart DEF StayApart
    <2> QED
      BY <2>2 DEF Callers
  <1> QED
    BY <1>1, <1>2, Delegation!OwnCredentialHolds
==============================================================================
