------------------------ MODULE CallbackServer_proofs ------------------------
(***************************************************************************)
(* Proofs about CallbackServer, for any number of threads that stop, of    *)
(* starts and of events.                                                   *)
(***************************************************************************)
EXTENDS CallbackServer, SequenceTheorems, TLAPS

-------------------------------------------------------------------------------
(* Type correctness *)

\* No number is the missing server.
LEMMA ServerType ==
    /\ Servers \subseteq Nat /\ 0 \in Servers /\ NoServer \notin Servers
    /\ MaxStarts \in Nat /\ MaxEvents \in Nat
  BY CallbackAssumption DEF Servers

\* A start call keeps the types.
LEMMA StartType == TypeOK /\ (Capture \/ StartStep) => TypeOK'
  <1> SUFFICES ASSUME TypeOK, Capture \/ StartStep PROVE TypeOK'
    OBVIOUS
  <1> USE ServerType DEF TypeOK, envVars, serverVars, callVars, eventVars, historyVars,
                         Lives
  <1>1. CASE Capture
    <2>1. session' \in Servers /\ session' > 0
      BY <1>1 DEF Capture, Servers
    <2> QED
      BY <1>1, <2>1 DEF Capture
  <1>2. CASE MakeQueue
    BY <1>2 DEF MakeQueue
  <1>3. CASE StartCheck
    <2>1. StopRuns \in BOOLEAN
      BY DEF StopRuns
    <2> QED
      BY ZenonT(60), <1>3, <2>1 DEF StartCheck
  <1>4. CASE StartCreate
    <2>1. (\E s \in Servers : Open(s) /\ life[s] # "ended") \in BOOLEAN
      OBVIOUS
    <2>2. raised' \in BOOLEAN
      BY <1>4, <2>1 DEF StartCreate
    <2>3. life' \in [Servers -> Lives] /\ named' \in Servers \union {NoServer}
      BY <1>4 DEF StartCreate
    <2> QED
      BY <1>4, <2>2, <2>3 DEF StartCreate
  <1>5. CASE StartThread
    BY <1>5 DEF StartThread
  <1>6. CASE StartRun
    <2>1. StopRuns \in BOOLEAN
      BY DEF StopRuns
    <2> QED
      BY ZenonT(60), <1>6, <2>1 DEF StartRun
  <1> QED
    BY <1>1, <1>2, <1>3, <1>4, <1>5, <1>6 DEF StartStep

\* A stop call keeps the types.
LEMMA StopType ==
    ASSUME TypeOK, NEW t \in Stops, StopCheck(t) \/ StopStep(t) PROVE TypeOK'
  <1> USE ServerType DEF TypeOK, envVars, serverVars, callVars, eventVars, historyVars,
                         StopAt
  <1>1. CASE StopCheck(t)
    <2>1. StopRuns \in BOOLEAN
      BY DEF StopRuns
    <2> QED
      BY <1>1, <2>1 DEF StopCheck
  <1>2. CASE StopSignal(t)
    <2>1. stopPc' \in [Stops -> {"idle", "signal", "wait", "reset", "forget"}]
      BY <1>2 DEF StopSignal
    <2>2. target' \in [Stops -> Servers \union {NoServer}] /\ ending' \subseteq Servers
      BY <1>2 DEF StopSignal
    <2>3. ASSUME NEW u \in Stops PROVE target'[u] \in Servers <=> stopPc'[u] = "wait"
      <3>1. CASE u = t
        BY <1>2, <3>1 DEF StopSignal
      <3>2. CASE u # t
        BY <1>2, <3>2 DEF StopSignal
      <3> QED
        BY <3>1, <3>2
    <2> HIDE DEF StopAt
    <2> QED
      BY <1>2, <2>1, <2>2, <2>3 DEF StopSignal
  <1>3. CASE StopWait(t)
    BY <1>3 DEF StopWait
  <1>4. CASE StopReset(t)
    BY <1>4 DEF StopReset
  <1>5. CASE StopForget(t)
    BY <1>5 DEF StopForget
  <1> QED
    BY <1>1, <1>2, <1>3, <1>4, <1>5 DEF StopStep

\* A step of a server's thread moves that server on; all it can do besides is to
\* queue an event.
LEMMA ServerShape ==
    ASSUME NEW s \in Servers, Connect(s) \/ Receive(s) \/ LoopStep(s)
    PROVE  /\ \E state \in Lives : Becomes(s, state)
           /\ UNCHANGED eventVars \/ Post(s)
  BY DEF Connect, Receive, LoopStep, Refuse, Post, EndLoop, Leave, Lives

\* The thread of a server keeps the types.
LEMMA ServerTypeStep ==
    ASSUME TypeOK, NEW s \in Servers, Connect(s) \/ Receive(s) \/ LoopStep(s)
    PROVE  TypeOK'
  <1> USE ServerType DEF TypeOK, envVars, serverVars, callVars, eventVars, historyVars
  <1>1. PICK state \in Lives : Becomes(s, state)
    BY ServerShape
  <1>2. life' \in [Servers -> Lives]
    BY <1>1 DEF Becomes
  <1>3. CASE UNCHANGED eventVars
    BY <1>1, <1>2, <1>3 DEF Becomes
  <1>4. CASE Post(s)
    <2>1. [number |-> posted + 1, since |-> session] \in Events
      BY DEF Events
    <2>2. events' \in Seq(Events)
      <3>1. Append(events, [number |-> posted + 1, since |-> session]) \in Seq(Events)
        BY <2>1
      <3> QED
        BY <1>4, <3>1 DEF Post
    <2>3. posted' \in 0 .. MaxEvents
      BY <1>4 DEF Post
    <2> QED
      BY <1>1, <1>2, <1>4, <2>2, <2>3 DEF Becomes, Post
  <1> QED
    BY <1>3, <1>4, ServerShape

\* The drain task keeps the types.
LEMMA DrainType == TypeOK /\ (Take \/ Sent) => TypeOK'
  <1> SUFFICES ASSUME TypeOK, Take \/ Sent PROVE TypeOK'
    OBVIOUS
  <1> USE ServerType DEF TypeOK, envVars, serverVars, callVars, eventVars, historyVars
  <1>1. CASE Take
    <2>1. Head(events) \in Events /\ events' \in Seq(Events)
      BY <1>1 DEF Take
    <2>2. [event |-> Head(events), to |-> session] \in Sendings
      BY <2>1 DEF Sendings
    <2>3. hand' \in Seq(Sendings) /\ Len(hand') <= 1
      BY <1>1, <2>2 DEF Take
    <2> QED
      BY <1>1, <2>1, <2>3 DEF Take
  <1>2. CASE Sent
    <2>1. InHand \in Seq(Nat)
      <3>1. DOMAIN hand = 1 .. Len(hand) /\ Len(hand) \in Nat
        OBVIOUS
      <3>2. \A i \in DOMAIN hand : hand[i] \in Sendings
        OBVIOUS
      <3>3. \A x \in Sendings : x.event.number \in Nat
        BY DEF Sendings, Events
      <3> QED
        BY <3>1, <3>2, <3>3 DEF InHand
    <2>2. handled' \in Seq(Nat)
      BY <1>2, <2>1 DEF Sent
    <2>3. hand' \in Seq(Sendings) /\ Len(hand') <= 1
      BY <1>2 DEF Sent
    <2> QED
      BY <1>2, <2>2, <2>3 DEF Sent
  <1> QED
    BY <1>1, <1>2

\* Every action keeps the types.
LEMMA TypeStep == TypeOK /\ [Next]_vars => TypeOK'
  <1>1. TypeOK /\ UNCHANGED vars => TypeOK'
    BY DEF TypeOK, vars, envVars, serverVars, callVars, eventVars, historyVars
  <1> QED
    BY <1>1, StartType, StopType, ServerTypeStep, DrainType DEF Next

\* Every variable of the callback server has its type; a queue comes with a
\* session.
THEOREM TypeCorrect == Spec => []TypeOK
  <1>1. Init => TypeOK
    BY ServerType DEF Init, TypeOK, Lives
  <1> QED
    BY <1>1, TypeStep, PTL DEF Spec

-------------------------------------------------------------------------------
(* Calls that do not contend *)

\* What the one stop that is there may rely on.
StopInv ==
    /\ \A t, u \in Stops : stopPc[t] # "idle" /\ stopPc[u] # "idle" => t = u
    /\ \A t \in Stops :
          /\ stopPc[t] = "signal" => named # NoServer
          /\ stopPc[t] = "wait" => named = target[t]
          /\ stopPc[t] = "reset" => named # NoServer /\ life[named] \in {"ended", "gone"}
          /\ stopPc[t] = "forget" => named = NoServer

\* What the start may rely on; servers to come do not exist yet.
StartInv ==
    /\ startPc = "create" => named = NoServer /\ ~StopRuns
    /\ startPc \in {"thread", "run"} => named = session /\ life[session] = "bound"
    /\ startPc = "run" => thread = session
    /\ startPc \in {"queue", "check", "create"} => life[session] = "unborn"
    /\ \A s \in Servers :
          /\ s > session => life[s] = "unborn"
          /\ life[s] = "bound" => s = session /\ startPc \in {"thread", "run"}

\* The named server is the only one that serves, and it serves unless a call is
\* about to change that.
NamedInv ==
    /\ \A s \in Servers : Serves(s) => named = s
    /\ named # NoServer /\ ~StopRuns /\ startPc \notin {"thread", "run"} => Serves(named)
    /\ \A s \in ending : life[s] \in {"ended", "gone"} \/ \E t \in Stops : target[t] = s
    /\ relied => named # NoServer /\ ~StopRuns /\ startPc \notin {"thread", "run"}

QuietInv == ~contended => StopInv /\ StartInv /\ NamedInv /\ ~raised

\* A start call keeps the account.
LEMMA QuietStart ==
    ASSUME TypeOK, QuietInv, ~contended', Capture \/ StartStep PROVE QuietInv'
  <1> USE ServerType DEF TypeOK, envVars, serverVars, callVars, eventVars, historyVars
  <1>1. ~contended
    BY DEF Capture, StartStep, MakeQueue, StartCheck, StartCreate, StartThread, StartRun
  <1>2. StopInv /\ StartInv /\ NamedInv /\ ~raised
    BY <1>1 DEF QuietInv
  <1> HIDE DEF QuietInv
  <1> SUFFICES StopInv' /\ StartInv' /\ NamedInv' /\ ~raised'
    BY DEF QuietInv
  <1> USE DEF StopInv, StartInv, NamedInv, StopRuns, Serves
  <1>3. CASE Capture
    <2>1. session' \in Servers /\ session' > session
      BY <1>3 DEF Capture, Servers
    <2> QED
      BY <1>2, <1>3, <2>1 DEF Capture
  <1>4. CASE MakeQueue
    BY <1>2, <1>4 DEF MakeQueue
  <1>5. CASE StartCheck
    BY ZenonT(60), <1>1, <1>2, <1>5 DEF StartCheck
  <1>6. CASE StartCreate
    <2>1. named = NoServer /\ ~StopRuns /\ life[session] = "unborn"
      BY <1>2, <1>6 DEF StartCreate
    <2>2. \A t \in Stops : stopPc[t] = "idle" /\ target[t] \notin Servers
      BY <2>1
    <2>3. ASSUME NEW s \in Servers, Open(s) PROVE life[s] = "ended"
      BY <1>2, <1>6, <2>1, <2>2, <2>3 DEF Open, Referenced, StartCreate
    <2>4. ~raised'
      BY <1>2, <1>6, <2>3 DEF StartCreate
    <2>5. CASE life' = [life EXCEPT ![session] = "bound"] /\ named' = session
               /\ startPc' = "thread"
      BY <1>2, <1>6, <2>1, <2>2, <2>4, <2>5 DEF StartCreate
    <2>6. CASE UNCHANGED <<named, life>> /\ startPc' = "idle"
      BY <1>2, <1>6, <2>1, <2>2, <2>4, <2>6 DEF StartCreate
    <2> QED
      BY <1>6, <2>5, <2>6 DEF StartCreate
  <1>7. CASE StartThread
    BY <1>2, <1>7 DEF StartThread
  <1>8. CASE StartRun
    BY <1>2, <1>8 DEF StartRun
  <1> QED
    BY <1>3, <1>4, <1>5, <1>6, <1>7, <1>8 DEF StartStep

\* A stop call keeps the account.
LEMMA QuietStop ==
    ASSUME TypeOK, QuietInv, ~contended', NEW t \in Stops, StopCheck(t) \/ StopStep(t)
    PROVE  QuietInv'
  <1> USE ServerType DEF TypeOK, envVars, serverVars, callVars, eventVars, historyVars
  <1>1. ~contended
    BY DEF StopCheck, StopStep, StopSignal, StopWait, StopReset, StopForget
  <1>2. StopInv /\ StartInv /\ NamedInv /\ ~raised
    BY <1>1 DEF QuietInv
  <1> HIDE DEF QuietInv
  <1> SUFFICES StopInv' /\ StartInv' /\ NamedInv' /\ ~raised'
    BY DEF QuietInv
  <1> USE DEF StopInv, StartInv, NamedInv, StopRuns, Serves, StopAt
  <1>3. CASE StopCheck(t)
    <2>1. ~StopRuns /\ named # NoServer
      BY <1>1, <1>2, <1>3 DEF StopCheck
    <2>2. \A u \in Stops : stopPc'[u] = IF u = t THEN "signal" ELSE "idle"
      BY <1>3, <2>1 DEF StopCheck
    <2>3. StopInv' /\ StartInv'
      BY <1>2, <1>3, <2>1, <2>2 DEF StopCheck
    <2>4. NamedInv' /\ ~raised'
      BY <1>2, <1>3, <2>2 DEF StopCheck
    <2> QED
      BY <2>3, <2>4
  <1>4. CASE StopSignal(t)
    <2>1. named \in Servers
      BY <1>2, <1>4 DEF StopSignal
    <2>2. /\ target' = [target EXCEPT ![t] = named]
          /\ ending' = ending \union {named}
          /\ stopPc' = [stopPc EXCEPT ![t] = "wait"]
      BY <1>4, <2>1 DEF StopSignal
    <2>3. UNCHANGED <<named, thread, life, startPc, session, relied, raised>>
      BY <1>4, <2>1 DEF StopSignal
    <2>4. \A u \in Stops \ {t} : stopPc[u] = "idle"
      BY <1>2, <1>4 DEF StopSignal
    <2>5. StopInv' /\ StartInv'
      BY <1>2, <1>4, <2>1, <2>2, <2>3, <2>4
    <2>6. ~relied /\ StopRuns'
      BY <1>2, <1>4, <2>2 DEF StopSignal
    <2>7. \A u \in Stops : target[u] \in Servers => target'[u] = target[u]
      BY <1>4, <2>2 DEF StopSignal
    <2>8. \A r \in ending' : life'[r] \in {"ended", "gone"} \/ \E u \in Stops : target'[u] = r
      BY <1>2, <2>2, <2>3, <2>7
    <2>9. NamedInv' /\ ~raised'
      BY <1>2, <2>3, <2>6, <2>8
    <2> QED
      BY <2>5, <2>9
  <1>5. CASE StopWait(t)
    BY <1>2, <1>5 DEF StopWait
  <1>6. CASE StopReset(t)
    BY <1>2, <1>6 DEF StopReset
  <1>7. CASE StopForget(t)
    BY <1>2, <1>7 DEF StopForget
  <1> QED
    BY <1>3, <1>4, <1>5, <1>6, <1>7 DEF StopStep

\* The thread of a server keeps the account.
LEMMA QuietServer ==
    ASSUME TypeOK, QuietInv, ~contended', NEW s \in Servers,
           Connect(s) \/ Receive(s) \/ LoopStep(s)
    PROVE  QuietInv'
  <1> USE ServerType DEF TypeOK, envVars, callVars, historyVars
  <1>1. PICK state \in Lives : Becomes(s, state)
    BY ServerShape
  <1>2. StopInv /\ StartInv /\ NamedInv /\ ~raised
    BY <1>1 DEF QuietInv, Becomes
  <1>3. session' = session
    BY ServerShape DEF eventVars, Post
  <1> HIDE DEF QuietInv
  <1> SUFFICES StopInv' /\ StartInv' /\ NamedInv' /\ ~raised'
    BY DEF QuietInv
  <1> USE DEF StopInv, StartInv, NamedInv, StopRuns, Serves, Becomes
  <1>4. CASE Serves(s) /\ Serves(s)'
    BY <1>1, <1>2, <1>3, <1>4
  <1>5. CASE EndLoop(s)
    <2>1. named = s /\ StopRuns
      BY <1>2, <1>5 DEF EndLoop
    <2> QED
      BY <1>2, <1>3, <1>5, <2>1 DEF EndLoop
  <1>6. CASE Leave(s)
    BY <1>2, <1>3, <1>6 DEF Leave
  <1> QED
    BY <1>4, <1>5, <1>6 DEF Connect, Receive, LoopStep, Refuse, Post

\* Every action keeps the account.
LEMMA QuietStep == TypeOK /\ QuietInv /\ [Next]_vars => QuietInv'
  <1> SUFFICES ASSUME TypeOK, QuietInv, [Next]_vars, ~contended' PROVE QuietInv'
    BY DEF QuietInv
  <1>1. CASE Take \/ Sent \/ UNCHANGED vars
    <2>1. UNCHANGED <<serverVars, callVars, session, historyVars>>
      BY <1>1 DEF Take, Sent, vars, eventVars
    <2> QED
      BY <2>1 DEF QuietInv, StopInv, StartInv, NamedInv, StopRuns, Serves, serverVars,
                  callVars, historyVars
  <1> QED
    BY <1>1, QuietStart, QuietStop, QuietServer DEF Next

\* As long as calls do not contend, each of them finds what it relies on.
THEOREM QuietInvHolds == Spec => []QuietInv
  <1>1. Init => QuietInv
    BY ServerType DEF Init, QuietInv, StopInv, StartInv, NamedInv, StopRuns, Serves, Servers
  <1> QED
    BY <1>1, TypeCorrect, QuietStep, PTL DEF Spec

\* A start that answers leaves a server that takes callbacks.
THEOREM StartLeavesListenerHolds == Spec => []StartLeavesListener
  <1>1. QuietInv => StartLeavesListener
    BY DEF QuietInv, NamedInv, StartLeavesListener
  <1> QED
    BY <1>1, QuietInvHolds, PTL

\* No server runs on unnamed.
THEOREM NoServerForgottenHolds == Spec => []NoServerForgotten
  <1>1. QuietInv => NoServerForgotten
    BY DEF QuietInv, NamedInv, NoServerForgotten
  <1> QED
    BY <1>1, QuietInvHolds, PTL

\* Only calls that contend raise.
THEOREM OnlyContentionRaisesHolds == Spec => []OnlyContentionRaises
  <1>1. TypeOK /\ QuietInv => OnlyContentionRaises
    BY DEF QuietInv, OnlyContentionRaises, TypeOK
  <1> QED
    BY <1>1, TypeCorrect, QuietInvHolds, PTL

-------------------------------------------------------------------------------
(* Events *)

\* Events are numbered in their order: those handled, the one in hand, and those
\* in the queue.
OrderInv ==
    /\ \A i \in 1 .. Len(handled) : handled[i] = i
    /\ \A i \in 1 .. Len(hand) : hand[i].event.number = Len(handled) + i
    /\ \A i \in 1 .. Len(events) :
          events[i].number = Len(handled) + Len(hand) + i
    /\ posted = Len(handled) + Len(hand) + Len(events)

\* No event is older than its session.
SinceInv ==
    /\ \A i \in 1 .. Len(events) : events[i].since <= session
    /\ \A i \in 1 .. Len(hand) : hand[i].to >= hand[i].event.since

\* Counting on: a sequence that counts, continued by one that counts on, counts.
LEMMA CountOn ==
    ASSUME NEW s \in Seq(Nat), NEW t \in Seq(Nat),
           \A i \in 1 .. Len(s) : s[i] = i,
           \A i \in 1 .. Len(t) : t[i] = Len(s) + i
    PROVE  /\ s \o t \in Seq(Nat) /\ Len(s \o t) = Len(s) + Len(t)
           /\ \A i \in 1 .. Len(s \o t) : (s \o t)[i] = i
  <1>1. /\ s \o t \in Seq(Nat) /\ Len(s \o t) = Len(s) + Len(t)
        /\ \A i \in 1 .. Len(s) + Len(t) :
              (s \o t)[i] = IF i <= Len(s) THEN s[i] ELSE t[i - Len(s)]
    BY ConcatProperties
  <1>2. Len(s) \in Nat /\ Len(t) \in Nat
    BY LenProperties
  <1>3. ASSUME NEW i \in 1 .. Len(s \o t) PROVE (s \o t)[i] = i
    <2>1. CASE i <= Len(s)
      BY <1>1, <1>2, <2>1
    <2>2. CASE ~(i <= Len(s))
      <3>1. i - Len(s) \in 1 .. Len(t)
        BY <1>1, <1>2, <2>2
      <3>2. t[i - Len(s)] = Len(s) + (i - Len(s))
        BY <3>1
      <3> QED
        BY <1>1, <1>2, <2>2, <3>2
    <2> QED
      BY <2>1, <2>2
  <1> QED
    BY <1>1, <1>3

\* What is in hand is one event at most.
LEMMA HandType ==
    ASSUME TypeOK
    PROVE  /\ Len(hand) \in {0, 1} /\ (hand = <<>> <=> Len(hand) = 0)
           /\ InHand \in Seq(Nat) /\ Len(InHand) = Len(hand)
           /\ \A i \in 1 .. Len(hand) : InHand[i] = hand[i].event.number
  <1>1. hand \in Seq(Sendings) /\ Len(hand) <= 1
    BY DEF TypeOK
  <1>2. DOMAIN hand = 1 .. Len(hand) /\ Len(hand) \in Nat
    BY <1>1
  <1>3. \A i \in 1 .. Len(hand) : hand[i] \in Sendings
    BY <1>1
  <1>4. \A x \in Sendings : x.event.number \in Nat
    BY ServerType DEF Sendings, Events
  <1> QED
    BY <1>1, <1>2, <1>3, <1>4 DEF InHand

\* A handler adds the next number and the current session at the end.
LEMMA PostKeepsEvents ==
    ASSUME TypeOK, OrderInv, SinceInv, NEW s \in Servers, Post(s) PROVE OrderInv' /\ SinceInv'
  <1>1. UNCHANGED <<session, hand, handled>>
    BY DEF Post
  <1>2. CASE hasQueue
    <2> DEFINE e == [number |-> posted + 1, since |-> session]
    <2>1. events' = Append(events, e) /\ posted' = posted + 1
      BY <1>2 DEF Post
    <2>2. events \in Seq(Events) /\ Len(events) \in Nat
      BY DEF TypeOK
    <2>3. Len(events') = Len(events) + 1
      BY <2>1, <2>2
    <2>4. \A i \in 1 .. Len(events) : events'[i] = events[i]
      BY <2>1, <2>2
    <2>5. events'[Len(events) + 1] = e
      BY <2>1, <2>2
    <2>6. e.number = posted + 1 /\ e.since = session
      OBVIOUS
    <2> HIDE DEF e
    <2>7. Len(handled) \in Nat /\ Len(hand) \in Nat /\ session \in Nat
      BY ServerType DEF TypeOK
    <2>8. posted = Len(handled) + Len(hand) + Len(events)
      BY DEF OrderInv
    <2>9. ASSUME NEW i \in 1 .. Len(events')
          PROVE  /\ events'[i].number = Len(handled) + Len(hand) + i
                 /\ events'[i].since <= session
      <3>1. CASE i \in 1 .. Len(events)
        BY <2>4, <3>1 DEF OrderInv, SinceInv
      <3>2. CASE i = Len(events) + 1
        BY <2>2, <2>5, <2>6, <2>7, <2>8, <3>2
      <3> QED
        BY <2>2, <2>3, <3>1, <3>2
    <2>10. OrderInv'
      BY <1>1, <2>1, <2>2, <2>3, <2>7, <2>8, <2>9 DEF OrderInv
    <2>11. SinceInv'
      BY <1>1, <2>9 DEF SinceInv
    <2> QED
      BY <2>10, <2>11
  <1>3. CASE ~hasQueue
    BY <1>1, <1>3 DEF Post, OrderInv, SinceInv
  <1> QED
    BY <1>2, <1>3 DEF TypeOK

\* The drain task takes the first event for the session there is.
LEMMA TakeKeepsEvents ==
    ASSUME TypeOK, OrderInv, SinceInv, Take PROVE OrderInv' /\ SinceInv'
  <1>1. events \in Seq(Events) /\ events # <<>> /\ Len(events) \in Nat /\ Len(events) > 0
    BY DEF Take, TypeOK
  <1>2. Head(events) = events[1]
    BY <1>1
  <1>3. /\ Len(events') = Len(events) - 1
        /\ \A i \in 1 .. Len(events') : events'[i] = events[i + 1]
    BY <1>1 DEF Take
  <1>4. /\ Len(hand) = 0 /\ Len(hand') = 1
        /\ hand'[1].event = events[1] /\ hand'[1].to = session
    BY <1>2, HandType DEF Take
  <1>5. UNCHANGED <<session, handled, posted>>
    BY DEF Take
  <1>6. Len(handled) \in Nat
    BY DEF TypeOK
  <1>7. posted = Len(handled) + Len(events)
    BY <1>1, <1>4, <1>6 DEF OrderInv
  <1>8. ASSUME NEW i \in 1 .. Len(events')
        PROVE  /\ events'[i].number = Len(handled) + 1 + i
               /\ events'[i].since <= session
    <2>1. i + 1 \in 1 .. Len(events) /\ events'[i] = events[i + 1]
      BY <1>1, <1>3
    <2> QED
      BY <1>4, <1>6, <2>1 DEF OrderInv, SinceInv
  <1>9. events[1].number = Len(handled) + 1 /\ events[1].since <= session
    BY <1>1, <1>4, <1>6 DEF OrderInv, SinceInv
  <1>10. session \in Nat /\ events[1].since \in Nat
    <2>1. events[1] \in Events
      BY <1>1
    <2> QED
      BY <2>1, ServerType DEF Events, TypeOK
  <1>11. OrderInv'
    BY <1>1, <1>3, <1>4, <1>5, <1>6, <1>7, <1>8, <1>9 DEF OrderInv
  <1>12. SinceInv'
    BY <1>4, <1>5, <1>8, <1>9, <1>10 DEF SinceInv
  <1> QED
    BY <1>11, <1>12

\* What was in hand is handled.
LEMMA SentKeepsEvents ==
    ASSUME TypeOK, OrderInv, SinceInv, Sent PROVE OrderInv' /\ SinceInv'
  <1>1. Len(hand) = 1
    BY HandType DEF Sent
  <1>2. InHand \in Seq(Nat) /\ Len(InHand) = 1 /\ InHand[1] = Len(handled) + 1
    BY <1>1, HandType DEF OrderInv
  <1>3. handled \in Seq(Nat) /\ Len(handled) \in Nat
    BY DEF TypeOK
  <1>4. handled' = handled \o InHand
    BY DEF Sent
  <1>5. \A i \in 1 .. Len(InHand) : InHand[i] = Len(handled) + i
    BY <1>2
  <1>6. /\ Len(handled') = Len(handled) + 1
        /\ \A i \in 1 .. Len(handled') : handled'[i] = i
    <2>1. \A i \in 1 .. Len(handled) : handled[i] = i
      BY DEF OrderInv
    <2>2. /\ Len(handled \o InHand) = Len(handled) + 1
          /\ \A i \in 1 .. Len(handled \o InHand) : (handled \o InHand)[i] = i
      BY ZenonT(60), <1>2, <1>3, <1>5, <2>1, CountOn
    <2> QED
      BY <1>4, <2>2
  <1>7. hand' = <<>> /\ Len(hand') = 0
    BY DEF Sent
  <1>8. UNCHANGED <<session, events, posted>>
    BY DEF Sent
  <1>9. OrderInv'
    <2>1. Len(events) \in Nat
      BY DEF TypeOK
    <2>2. \A i \in 1 .. Len(events) : events[i].number = Len(handled) + 1 + i
      BY <1>1 DEF OrderInv
    <2>3. posted = Len(handled) + 1 + Len(events)
      BY <1>1 DEF OrderInv
    <2>4. \A i \in 1 .. Len(events') : events'[i].number = Len(handled') + Len(hand') + i
      BY <1>3, <1>6, <1>7, <1>8, <2>1, <2>2
    <2>5. posted' = Len(handled') + Len(hand') + Len(events')
      BY <1>3, <1>6, <1>7, <1>8, <2>1, <2>3
    <2>6. \A i \in 1 .. Len(hand') : hand'[i].event.number = Len(handled') + i
      BY <1>7
    <2> QED
      BY <1>6, <2>4, <2>5, <2>6 DEF OrderInv
  <1>10. SinceInv'
    BY <1>7, <1>8 DEF SinceInv
  <1> QED
    BY <1>9, <1>10

\* Every action keeps the order of events and the age of their sessions.
LEMMA EventStep ==
    TypeOK /\ OrderInv /\ SinceInv /\ [Next]_vars => OrderInv' /\ SinceInv'
  <1> SUFFICES ASSUME TypeOK, OrderInv, SinceInv, [Next]_vars PROVE OrderInv' /\ SinceInv'
    OBVIOUS
  <1>1. CASE UNCHANGED <<events, hand, handled, posted>> /\ session' >= session /\ session' \in Nat
    <2>1. events \in Seq(Events) /\ \A i \in 1 .. Len(events) : events[i] \in Events
      BY DEF TypeOK
    <2>2. \A x \in Events : x.since \in Nat
      BY ServerType DEF Events
    <2>3. session \in Nat
      BY ServerType DEF TypeOK
    <2>4. \A i \in 1 .. Len(events) : events[i].since <= session'
      BY <1>1, <2>1, <2>2, <2>3 DEF SinceInv
    <2> QED
      BY <1>1, <2>4 DEF OrderInv, SinceInv
  <1>2. session \in Nat
    BY ServerType DEF TypeOK
  <1>3. CASE Capture
    BY <1>1, <1>2, <1>3 DEF Capture
  <1>4. CASE StartStep
    BY <1>1, <1>2, <1>4 DEF StartStep, MakeQueue, StartCheck, StartCreate, StartThread,
                            StartRun, eventVars
  <1>5. ASSUME NEW t \in Stops, StopCheck(t) \/ StopStep(t) PROVE OrderInv' /\ SinceInv'
    BY <1>1, <1>2, <1>5 DEF StopCheck, StopStep, StopSignal, StopWait, StopReset, StopForget,
                            eventVars
  <1>6. ASSUME NEW s \in Servers, Connect(s) \/ Receive(s) \/ LoopStep(s)
        PROVE  OrderInv' /\ SinceInv'
    BY <1>1, <1>2, <1>6, ServerShape, PostKeepsEvents DEF eventVars
  <1>7. CASE UNCHANGED vars
    BY <1>1, <1>2, <1>7 DEF vars, eventVars
  <1> QED
    BY <1>3, <1>4, <1>5, <1>6, <1>7, TakeKeepsEvents, SentKeepsEvents DEF Next

\* The numbers and the ages hold at all times.
LEMMA EventInvHolds == Spec => [](OrderInv /\ SinceInv)
  <1>1. Init => OrderInv /\ SinceInv
    BY DEF Init, OrderInv, SinceInv
  <1> QED
    BY <1>1, TypeCorrect, EventStep, PTL DEF Spec

\* Events leave the queue in order, once each, and none gets lost.
THEOREM EventsInOrderHolds == Spec => []EventsInOrder
  <1>1. ASSUME TypeOK, OrderInv PROVE EventsInOrder
    <2>1. InHand \in Seq(Nat) /\ Len(InHand) = Len(hand) /\ Len(hand) \in Nat
      BY <1>1, HandType
    <2>2. handled \in Seq(Nat) /\ Len(handled) \in Nat
      BY <1>1 DEF TypeOK
    <2>3. events \in Seq(Events) /\ DOMAIN events = 1 .. Len(events) /\ Len(events) \in Nat
      BY <1>1 DEF TypeOK
    <2>4. \A i \in 1 .. Len(events) : Queued[i] = Len(handled) + Len(hand) + i
      BY <1>1, <2>3 DEF OrderInv, Queued
    <2>5. Queued \in Seq(Nat) /\ Len(Queued) = Len(events)
      <3>1. Queued = [i \in 1 .. Len(events) |-> Queued[i]]
        BY <2>3 DEF Queued
      <3>2. \A i \in 1 .. Len(events) : Queued[i] \in Nat
        BY <2>1, <2>2, <2>3, <2>4
      <3> QED
        BY <2>3, <3>1, <3>2
    <2>6. \A i \in 1 .. Len(hand) : InHand[i] = Len(handled) + i
      BY <1>1, HandType DEF OrderInv
    <2> DEFINE first == handled \o InHand
    <2>7. /\ first \in Seq(Nat) /\ Len(first) = Len(handled) + Len(hand)
          /\ \A i \in 1 .. Len(first) : first[i] = i
      <3>1. \A i \in 1 .. Len(handled) : handled[i] = i
        BY <1>1 DEF OrderInv
      <3>2. \A i \in 1 .. Len(InHand) : InHand[i] = Len(handled) + i
        BY <2>1, <2>6
      <3> QED
        BY <2>1, <2>2, <3>1, <3>2, CountOn
    <2> HIDE DEF first
    <2>8. /\ first \o Queued \in Seq(Nat) /\ Len(first \o Queued) = Len(first) + Len(events)
          /\ \A i \in 1 .. Len(first \o Queued) : (first \o Queued)[i] = i
      BY ZenonT(60), <2>4, <2>5, <2>7, CountOn
    <2>9. Len(first \o Queued) = posted
      BY <1>1, <2>7, <2>8 DEF OrderInv
    <2>10. first \o Queued = [i \in 1 .. posted |-> i]
      BY <2>8, <2>9, LenProperties
    <2> QED
      BY <2>10 DEF EventsInOrder, first
  <1> QED
    BY <1>1, TypeCorrect, EventInvHolds, PTL

\* No event goes to a session that had been replaced when it was queued.
THEOREM NeverToAnEarlierSessionHolds == Spec => []NeverToAnEarlierSession
  <1>1. TypeOK /\ SinceInv => NeverToAnEarlierSession
    BY DEF TypeOK, SinceInv, NeverToAnEarlierSession
  <1> QED
    BY <1>1, TypeCorrect, EventInvHolds, PTL
=============================================================================
