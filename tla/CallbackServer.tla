--------------------------- MODULE CallbackServer ---------------------------
(***************************************************************************)
(* The callback server of the sidecar and its notifications: starting and  *)
(* stopping it, and the way of an auth_success event from the handler to a *)
(* session (oauth/oauth_server.py).                                        *)
(*                                                                         *)
(* oauth-start-callback-server is a coroutine without an await: it runs on *)
(* the event loop, one call at a time, and the loop does nothing else      *)
(* meanwhile.  oauth-stop-callback-server is a plain function, which       *)
(* FastMCP calls in a worker thread; each server runs in a thread of its   *)
(* own.  They share two globals without a lock, so every access to one of  *)
(* them is a step.                                                         *)
(*                                                                         *)
(* The k-th start call captures session k, and server k is the one that it *)
(* may create; server 0 is that of init.  What a handler does before line  *)
(* 387 is in OAuthFlow.  relied, contended, raised, and the numbers in     *)
(* events do not exist in the code.                                        *)
(***************************************************************************)
EXTENDS Naturals, Sequences

CONSTANTS
    Stops,      \* worker threads that call oauth-stop-callback-server
    NoServer,   \* None
    MaxStarts,  \* bound: calls of oauth-start-callback-server
    MaxEvents   \* bound: callbacks that end with a token

Servers == 0 .. MaxStarts

ASSUME CallbackAssumption ==
    /\ MaxStarts \in Nat /\ MaxEvents \in Nat
    /\ NoServer \notin Servers

VARIABLES
    configured, \* MCP_GATEWAY_OAUTH_PORT is set
    sharedPort, \* HTTPServer lets two sockets listen on one port (SO_REUSEPORT)
    named,      \* _oauth_callback_server
    thread,     \* _oauth_callback_thread: the server it was made for
    life,       \* server -> where it is
    ending,     \* servers that were asked to shut down
    startPc,    \* where the start call is
    stopPc,     \* thread -> where its stop call is
    target,     \* thread -> the server that its call waits for
    session,    \* _oauth_session, by the start call that captured it
    hasQueue,   \* _oauth_events and its drain task exist
    events,     \* what is in _oauth_events
    hand,       \* the event that is being sent, in a sequence of at most one
    handled,    \* the events that were sent, or whose sending failed
    posted,     \* number of events that a handler has put into the queue
    relied,     \* the last start has answered and no stop was there since
    contended,  \* a stop began, or a start had to create, during another stop
    raised      \* a call raised, but for a socket that a last thread still held

envVars == <<configured, sharedPort>>
serverVars == <<named, thread, life, ending>>
callVars == <<startPc, stopPc, target>>
eventVars == <<session, hasQueue, events, hand, handled, posted>>
historyVars == <<relied, contended, raised>>
vars == <<envVars, serverVars, callVars, eventVars, historyVars>>

StopRuns == \E t \in Stops : stopPc[t] # "idle"

\* serve_forever is in its loop: polling, reading a request, or in do_GET.
Serves(s) == life[s] \in {"polling", "reading", "handling"}

\* The object is still reachable: from the global, from the frame of a stop that
\* waits for it, or from a thread that has not been started.
Referenced(s) ==
    \/ named = s
    \/ life[s] = "bound" /\ thread = s
    \/ \E t \in Stops : target[t] = s

\* Nothing calls server_close: a socket is open until its server is collected.
Open(s) ==
    \/ Serves(s) \/ life[s] = "ended"
    \/ life[s] \in {"bound", "gone"} /\ Referenced(s)

\* init() creates the first server when the module is imported.
Init ==
    /\ configured \in BOOLEAN /\ sharedPort \in BOOLEAN
    /\ named = IF configured THEN 0 ELSE NoServer
    /\ thread = named
    /\ life = [s \in Servers |-> IF s = 0 /\ configured THEN "polling" ELSE "unborn"]
    /\ ending = {}
    /\ startPc = "idle"
    /\ stopPc = [t \in Stops |-> "idle"]
    /\ target = [t \in Stops |-> NoServer]
    /\ session = 0
    /\ hasQueue = FALSE
    /\ events = <<>> /\ hand = <<>> /\ handled = <<>>
    /\ posted = 0
    /\ relied = FALSE /\ contended = FALSE /\ raised = FALSE

-------------------------------------------------------------------------------
(* oauth_start_callback_server *)

\* Faulty variant: without a port there is nothing to capture a session for.
CaptureForPort ==
    /\ startPc = "idle"
    /\ session < MaxStarts
    /\ session' = IF configured THEN session + 1 ELSE session
    /\ startPc' = "queue"
    /\ UNCHANGED <<envVars, serverVars, stopPc, target, hasQueue, events, hand,
                   handled, posted, historyVars>>

\* The session and the loop are captured.
Capture ==
    /\ startPc = "idle"
    /\ session < MaxStarts
    /\ session' = session + 1
    /\ startPc' = "queue"
    /\ UNCHANGED <<envVars, serverVars, stopPc, target, hasQueue, events, hand,
                   handled, posted, historyVars>>

\* Faulty variant: each start makes a queue of its own.
MakeQueueAgain ==
    /\ startPc = "queue"
    /\ hasQueue' = TRUE
    /\ events' = <<>>
    /\ startPc' = IF configured THEN "check" ELSE "idle"
    /\ UNCHANGED <<envVars, serverVars, stopPc, target, session, hand, handled,
                   posted, historyVars>>

\* The queue and its drain task are made once.  Without a port that is all.
MakeQueue ==
    /\ startPc = "queue"
    /\ hasQueue' = TRUE
    /\ startPc' = IF configured THEN "check" ELSE "idle"
    /\ UNCHANGED <<envVars, serverVars, stopPc, target, session, events, hand,
                   handled, posted, historyVars>>

\* A server that is named passes for one that listens, and the port is the answer.
StartCheck ==
    /\ startPc = "check"
    /\ IF named # NoServer
       THEN /\ startPc' = "idle"
            /\ relied' = ~StopRuns
            /\ UNCHANGED contended
       ELSE /\ startPc' = "create"
            /\ contended' = (contended \/ StopRuns)
            /\ UNCHANGED relied
    /\ UNCHANGED <<envVars, serverVars, stopPc, target, eventVars, raised>>

\* HTTPServer(...) binds and listens, and becomes the named one; or the port is
\* taken, and the call raises.
StartCreate ==
    /\ startPc = "create"
    /\ IF sharedPort \/ \A s \in Servers : ~Open(s)
       THEN /\ named' = session
            /\ life' = [life EXCEPT ![session] = "bound"]
            /\ startPc' = "thread"
            /\ UNCHANGED raised
       ELSE /\ startPc' = "idle"
            /\ raised' = (raised \/ \E s \in Servers : Open(s) /\ life[s] # "ended")
            /\ UNCHANGED <<named, life>>
    /\ UNCHANGED <<envVars, thread, ending, stopPc, target, eventVars, relied, contended>>

\* The thread is made for the server that is named now; None has no serve_forever.
StartThread ==
    /\ startPc = "thread"
    /\ IF named # NoServer
       THEN thread' = named /\ startPc' = "run" /\ UNCHANGED raised
       ELSE startPc' = "idle" /\ raised' = TRUE /\ UNCHANGED thread
    /\ UNCHANGED <<envVars, named, life, ending, stopPc, target, eventVars, relied,
                   contended>>

\* It is started through the global, and the port is the answer.
StartRun ==
    /\ startPc = "run"
    /\ startPc' = "idle"
    /\ IF thread # NoServer
       THEN /\ life' = [life EXCEPT ![thread] = "polling"]
            /\ relied' = ~StopRuns
            /\ UNCHANGED raised
       ELSE /\ raised' = TRUE
            /\ UNCHANGED <<life, relied>>
    /\ UNCHANGED <<envVars, named, thread, ending, stopPc, target, eventVars, contended>>

-------------------------------------------------------------------------------
(* oauth_stop_callback_server *)

StopAt(t, pc) == stopPc' = [stopPc EXCEPT ![t] = pc]

\* Faulty variant: nobody looks whether there is a server.
StopAnyway(t) ==
    /\ stopPc[t] = "idle"
    /\ StopAt(t, "signal")
    /\ relied' = FALSE
    /\ contended' = (contended \/ StopRuns)
    /\ UNCHANGED <<envVars, serverVars, startPc, target, eventVars, raised>>

\* Without a server there is nothing to do.
StopCheck(t) ==
    /\ stopPc[t] = "idle"
    /\ named # NoServer
    /\ StopAt(t, "signal")
    /\ relied' = FALSE
    /\ contended' = (contended \/ StopRuns)
    /\ UNCHANGED <<envVars, serverVars, startPc, target, eventVars, raised>>

\* shutdown() of the server that is named now; None has none.
StopSignal(t) ==
    /\ stopPc[t] = "signal"
    /\ IF named # NoServer
       THEN /\ target' = [target EXCEPT ![t] = named]
            /\ ending' = ending \union {named}
            /\ StopAt(t, "wait")
            /\ UNCHANGED raised
       ELSE /\ raised' = TRUE
            /\ StopAt(t, "idle")
            /\ UNCHANGED <<target, ending>>
    /\ UNCHANGED <<envVars, named, thread, life, startPc, eventVars, relied, contended>>

\* Faulty variant: the server is asked to end, and not waited for.
StopAtOnce(t) ==
    /\ stopPc[t] = "wait"
    /\ target' = [target EXCEPT ![t] = NoServer]
    /\ StopAt(t, "reset")
    /\ UNCHANGED <<envVars, serverVars, startPc, eventVars, historyVars>>

\* shutdown() blocks until serve_forever is over, and with it the last request.
StopWait(t) ==
    /\ stopPc[t] = "wait"
    /\ life[target[t]] \in {"ended", "gone"}
    /\ target' = [target EXCEPT ![t] = NoServer]
    /\ StopAt(t, "reset")
    /\ UNCHANGED <<envVars, serverVars, startPc, eventVars, historyVars>>

\* Faulty variant: the global keeps the server that was shut down.
StopKeeps(t) ==
    /\ stopPc[t] = "reset"
    /\ StopAt(t, "forget")
    /\ UNCHANGED <<envVars, serverVars, startPc, target, eventVars, historyVars>>

\* The global is reset, whichever server it names by now.
StopReset(t) ==
    /\ stopPc[t] = "reset"
    /\ named' = NoServer
    /\ StopAt(t, "forget")
    /\ UNCHANGED <<envVars, thread, life, ending, startPc, target, eventVars, historyVars>>

StopForget(t) ==
    /\ stopPc[t] = "forget"
    /\ thread' = NoServer
    /\ StopAt(t, "idle")
    /\ UNCHANGED <<envVars, named, life, ending, startPc, target, eventVars, historyVars>>

-------------------------------------------------------------------------------
(* The thread of a server *)

Becomes(s, state) ==
    /\ life' = [life EXCEPT ![s] = state]
    /\ UNCHANGED <<envVars, named, thread, ending, callVars, historyVars>>

\* A browser connects.  It need not send a request, and no timeout is set.
Connect(s) ==
    /\ life[s] = "polling" /\ s \notin ending
    /\ Becomes(s, "reading")
    /\ UNCHANGED eventVars

\* It sends its request, or hangs up.
Receive(s) ==
    /\ life[s] = "reading"
    /\ Becomes(s, "handling")
    /\ UNCHANGED eventVars

\* Faulty variant: the connection is kept alive for the next request.
RefuseKeptAlive(s) ==
    /\ life[s] = "handling"
    /\ Becomes(s, "reading")
    /\ UNCHANGED eventVars

\* No request, or one that do_GET answers without a token: health, an error page.
Refuse(s) ==
    /\ life[s] = "handling"
    /\ Becomes(s, "polling")
    /\ UNCHANGED eventVars

\* do_GET has stored a token: the loop is asked to queue the event if there is a
\* queue, and the success page is sent.  The loop queues events in order.
Post(s) ==
    /\ life[s] = "handling"
    /\ posted < MaxEvents
    /\ IF hasQueue
       THEN /\ posted' = posted + 1
            /\ events' = Append(events, [number |-> posted + 1, since |-> session])
       ELSE UNCHANGED <<posted, events>>
    /\ Becomes(s, "polling")
    /\ UNCHANGED <<session, hasQueue, hand, handled>>

\* serve_forever looks at the request to shut down after each turn.
EndLoop(s) ==
    /\ life[s] = "polling" /\ s \in ending
    /\ Becomes(s, "ended")
    /\ UNCHANGED eventVars

\* The thread leaves the frames that hold the server.
Leave(s) ==
    /\ life[s] = "ended"
    /\ Becomes(s, "gone")
    /\ UNCHANGED eventVars

-------------------------------------------------------------------------------
(* _send_oauth_notifications, on the event loop when no start call has it *)

\* Faulty variant: the task was given the session for which it was made.
TakeForFirst ==
    /\ startPc = "idle"
    /\ hand = <<>> /\ events # <<>>
    /\ hand' = <<[event |-> Head(events), to |-> 1]>>
    /\ events' = Tail(events)
    /\ UNCHANGED <<envVars, serverVars, callVars, session, hasQueue, handled, posted,
                   historyVars>>

\* An event is taken, and the session read, without an await in between.
Take ==
    /\ startPc = "idle"
    /\ hand = <<>> /\ events # <<>>
    /\ hand' = <<[event |-> Head(events), to |-> session]>>
    /\ events' = Tail(events)
    /\ UNCHANGED <<envVars, serverVars, callVars, session, hasQueue, handled, posted,
                   historyVars>>

InHand == [i \in DOMAIN hand |-> hand[i].event.number]

\* The session has taken it, or raised, which is only logged.
Sent ==
    /\ startPc = "idle"
    /\ hand # <<>>
    /\ handled' = handled \o InHand
    /\ hand' = <<>>
    /\ UNCHANGED <<envVars, serverVars, callVars, session, hasQueue, events, posted,
                   historyVars>>

-------------------------------------------------------------------------------
StartStep == MakeQueue \/ StartCheck \/ StartCreate \/ StartThread \/ StartRun
StopStep(t) == StopSignal(t) \/ StopWait(t) \/ StopReset(t) \/ StopForget(t)
LoopStep(s) == Refuse(s) \/ Post(s) \/ EndLoop(s) \/ Leave(s)

Next ==
    \/ Capture \/ StartStep
    \/ \E t \in Stops : StopCheck(t) \/ StopStep(t)
    \/ \E s \in Servers : Connect(s) \/ Receive(s) \/ LoopStep(s)
    \/ Take \/ Sent

\* Threads run, and a request that was received is answered (OAuthFlow).  Nobody
\* has to call, and a browser that has connected need not go on.
Fairness ==
    /\ WF_vars(StartStep)
    /\ \A t \in Stops : WF_vars(StopStep(t))
    /\ \A s \in Servers : WF_vars(LoopStep(s))

Spec == Init /\ [][Next]_vars
FairSpec == Spec /\ Fairness

-------------------------------------------------------------------------------
Lives == {"unborn", "bound", "polling", "reading", "handling", "ended", "gone"}
Events == [number : Nat, since : Servers]
Sendings == [event : Events, to : Servers]

\* Every variable has its type; a queue comes with a session, so the drain task
\* never finds None there (oauth_server.py:190); a stop that waits has a server
\* to wait for.
TypeOK ==
    /\ configured \in BOOLEAN /\ sharedPort \in BOOLEAN
    /\ named \in Servers \union {NoServer}
    /\ thread \in Servers \union {NoServer}
    /\ life \in [Servers -> Lives]
    /\ ending \subseteq Servers
    /\ startPc \in {"idle", "queue", "check", "create", "thread", "run"}
    /\ stopPc \in [Stops -> {"idle", "signal", "wait", "reset", "forget"}]
    /\ target \in [Stops -> Servers \union {NoServer}]
    /\ \A t \in Stops : target[t] \in Servers <=> stopPc[t] = "wait"
    /\ session \in Servers
    /\ hasQueue \in BOOLEAN
    /\ hasQueue \/ startPc = "queue" => session > 0
    /\ events \in Seq(Events) /\ handled \in Seq(Nat)
    /\ hand \in Seq(Sendings) /\ Len(hand) <= 1
    /\ posted \in 0 .. MaxEvents
    /\ relied \in BOOLEAN /\ contended \in BOOLEAN /\ raised \in BOOLEAN

\* "Start the OAuth callback server" (oauth_server.py:581): after an answer with
\* the port that no stop overlapped, a server takes callbacks until the next stop;
\* provided that no calls contended for the globals before.
StartLeavesListener ==
    relied /\ ~contended => named # NoServer /\ Serves(named)

\* "Stop the OAuth callback server" (oauth_server.py:597): as long as stops do not
\* overlap, and no start creates a server before a stop has returned, no server
\* runs on that the globals have forgotten.
NoServerForgotten ==
    ~contended => \A s \in Servers : Serves(s) => named = s

\* Without such contention no call raises, but for the start that comes before
\* the last thread has let go of its socket (oauth_server.py:406, 418).
OnlyContentionRaises ==
    raised => contended

Queued == [i \in DOMAIN events |-> events[i].number]

\* Events that were queued leave the queue in their order, none of them twice, and
\* none gets lost on the way to a session, however often sessions change and the
\* server is started and stopped (oauth_server.py:188, 586-588).
EventsInOrder == handled \o InHand \o Queued = [i \in 1 .. posted |-> i]

\* An event is sent to the session that was captured when it was queued or to one
\* captured after that, never to one that had been replaced (oauth_server.py:190,
\* 584).
NeverToAnEarlierSession ==
    \A i \in DOMAIN hand : hand[i].to >= hand[i].event.since

\* A stop call returns, when browsers that have connected go on or hang up and
\* calls do not contend: shutdown() waits for the only thread of the server
\* (oauth_server.py:418).
StopReturns ==
    [](~contended) /\ (\A s \in Servers : []<>(life[s] # "reading")) =>
        \A t \in Stops : stopPc[t] # "idle" ~> stopPc[t] = "idle"
=============================================================================
