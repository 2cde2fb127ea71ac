----------------------------- MODULE LogShipper -----------------------------
(***************************************************************************)
(* gateway-log-shipper.py: one thread per target (control plane, data      *)
(* plane, sidecar) follows the log of a running pod and pushes it to Loki  *)
(* in batches.  The main thread only joins the three; its container is     *)
(* restarted when the process ends.                                        *)
(*                                                                         *)
(* The pods of a target are numbered in the order they start, the lines of *)
(* a pod in the order it writes them.  The buffer of a thread holds the    *)
(* lines from .. next - 1 of its pod.  first, opens and dropped do not     *)
(* exist in the script: they record where its stream began, how many there *)
(* were, and what a failure may have taken.                                *)
(***************************************************************************)
EXTENDS Naturals

CONSTANTS
    Targets,    \* TARGETS
    Batch,      \* lines in a full buffer (20 in the script)
    Window,     \* tailLines, the old lines a new stream begins with (20)
    Deployed,   \* bound: targets whose pods are started
    MaxPods,    \* bound: pods started per target
    MaxLines,   \* bound: lines written per pod
    MaxFaults   \* bound: failures and early ends of API calls and streams

ASSUME ShipperAssumption ==
    /\ Batch \in Nat \ {0} /\ Window \in Nat
    /\ Deployed \subseteq Targets
    /\ MaxPods \in Nat /\ MaxLines \in Nat /\ MaxFaults \in Nat

VARIABLES
    alive,      \* target -> its running pods
    born,       \* target -> how many pods were started
    written,    \* target -> pod -> lines written
    pc,         \* target -> where its thread is
    pod,        \* target -> the pod its thread has resolved (0: none yet)
    first,      \* target -> first line of the thread's stream
    from,       \* target -> first line of the buffer
    next,       \* target -> next line of the stream
    copies,     \* target -> pod -> line -> copies in Loki
    opens,      \* target -> pod -> streams opened
    dropped,    \* target -> <<pod, line>> that a failure may have taken
    faults      \* number of API failures

podVars == <<alive, born, written>>
vars == <<podVars, pc, pod, first, from, next, copies, opens, dropped, faults>>

PodIds == 1 .. MaxPods
Lines == 1 .. MaxLines

Init ==
    /\ alive = [t \in Targets |-> {}]
    /\ born = [t \in Targets |-> 0]
    /\ written = [t \in Targets |-> [i \in PodIds |-> 0]]
    /\ pc = [t \in Targets |-> "resolve"]
    /\ pod = [t \in Targets |-> 0]
    /\ first = [t \in Targets |-> 1]
    /\ from = [t \in Targets |-> 1]
    /\ next = [t \in Targets |-> 1]
    /\ copies = [t \in Targets |-> [i \in PodIds |-> [n \in Lines |-> 0]]]
    /\ opens = [t \in Targets |-> [i \in PodIds |-> 0]]
    /\ dropped = [t \in Targets |-> {}]
    /\ faults = 0

-------------------------------------------------------------------------------
(* The pods that are tailed *)

StartPod(t) ==
    LET i == born[t] + 1 IN
    /\ t \in Deployed /\ born[t] < MaxPods
    /\ born' = [born EXCEPT ![t] = i]
    /\ alive' = [alive EXCEPT ![t] = @ \union {i}]
    /\ UNCHANGED <<written, pc, pod, first, from, next, copies, opens, dropped, faults>>

Write(t, i) ==
    /\ i \in alive[t]
    /\ written[t][i] < MaxLines
    /\ written' = [written EXCEPT ![t][i] = @ + 1]
    /\ UNCHANGED <<alive, born, pc, pod, first, from, next, copies, opens, dropped, faults>>

StopPod(t, i) ==
    /\ i \in alive[t]
    /\ alive' = [alive EXCEPT ![t] = @ \ {i}]
    /\ UNCHANGED <<born, written, pc, pod, first, from, next, copies, opens, dropped, faults>>

-------------------------------------------------------------------------------
(* tail *)

Goto(t, label) == pc' = [pc EXCEPT ![t] = label]

\* One more failure of the API, unless the pod it is about is gone.
Fault == faults < MaxFaults /\ faults' = faults + 1

\* A new stream of the thread, or none yet: its buffer is empty.
BeginAt(t, line) ==
    /\ first' = [first EXCEPT ![t] = line]
    /\ from' = [from EXCEPT ![t] = line]
    /\ next' = [next EXCEPT ![t] = line]

\* resolve_pod: some running pod.  Without one, the thread sleeps and asks again.
Resolve(t) ==
    /\ pc[t] = "resolve"
    /\ \E i \in alive[t] : pod' = [pod EXCEPT ![t] = i]
    /\ BeginAt(t, 1)
    /\ Goto(t, "open")
    /\ UNCHANGED <<podVars, copies, opens, dropped, faults>>

\* resolve_pod raises outside of the try: the thread ends.
ResolveFails(t) ==
    /\ pc[t] = "resolve"
    /\ Fault
    /\ Goto(t, "dead")
    /\ UNCHANGED <<podVars, pod, first, from, next, copies, opens, dropped>>

\* The stream begins with the last lines written so far, an empty buffer.
Open(t) ==
    LET n == written[t][pod[t]] IN
    /\ pc[t] = "open"
    /\ pod[t] \in alive[t]
    /\ BeginAt(t, IF n > Window THEN n - Window + 1 ELSE 1)
    /\ opens' = [opens EXCEPT ![t][pod[t]] = @ + 1]
    /\ Goto(t, "read")
    /\ UNCHANGED <<podVars, pod, copies, dropped, faults>>

\* Faulty variant: the pod is resolved once, not again after each error.
OpenAgain(t) ==
    /\ pc[t] = "open"
    /\ \/ pod[t] \notin alive[t] /\ UNCHANGED faults
       \/ Fault
    /\ UNCHANGED <<podVars, pc, pod, first, from, next, copies, opens, dropped>>

\* urlopen raises: the pod is gone, or the API fails.
OpenFails(t) ==
    /\ pc[t] = "open"
    /\ \/ pod[t] \notin alive[t] /\ UNCHANGED faults
       \/ Fault
    /\ Goto(t, "resolve")
    /\ UNCHANGED <<podVars, pod, first, from, next, copies, opens, dropped>>

\* Faulty variant: the buffer is pushed only when the clock says so.
ReadUnbounded(t) ==
    /\ pc[t] = "read"
    /\ next[t] <= written[t][pod[t]]
    /\ next' = [next EXCEPT ![t] = @ + 1]
    /\ Goto(t, "read") \/ Goto(t, "push")
    /\ UNCHANGED <<podVars, pod, first, from, copies, opens, dropped, faults>>

\* The next line goes into the buffer, which is pushed when it is full or two
\* seconds are over.
Read(t) ==
    LET size == next[t] + 1 - from[t] IN
    /\ pc[t] = "read"
    /\ next[t] <= written[t][pod[t]]
    /\ next' = [next EXCEPT ![t] = @ + 1]
    /\ \/ size < Batch /\ Goto(t, "read")
       \/ Goto(t, "push")
    /\ UNCHANGED <<podVars, pod, first, from, copies, opens, dropped, faults>>

\* Faulty variant: the rest of the buffer goes with the stream.
EndWithoutPush(t) ==
    /\ pc[t] = "read"
    /\ \/ /\ pod[t] \notin alive[t] /\ next[t] > written[t][pod[t]]
          /\ UNCHANGED faults
       \/ Fault
    /\ Goto(t, "resolve")
    /\ UNCHANGED <<podVars, pod, first, from, next, copies, opens, dropped>>

\* The pod has ended and all its lines were read, or the API server closes the
\* stream before that: the rest of the buffer is pushed.
StreamEnds(t) ==
    /\ pc[t] = "read"
    /\ \/ /\ pod[t] \notin alive[t] /\ next[t] > written[t][pod[t]]
          /\ UNCHANGED faults
       \/ Fault
    /\ Goto(t, "last")
    /\ UNCHANGED <<podVars, pod, first, from, next, copies, opens, dropped>>

Buffer(t) == from[t] .. next[t] - 1
AfterPush(t) == IF pc[t] = "last" THEN "resolve" ELSE "read"

\* Loki takes some lines of the thread's pod.
Taken(t, lines) ==
    copies' = [copies EXCEPT ![t][pod[t]] =
                  [n \in Lines |-> IF n \in lines THEN @[n] + 1 ELSE @[n]]]

\* Faulty variant: the buffer is not emptied.
PushAgain(t) ==
    /\ pc[t] \in {"push", "last"}
    /\ Taken(t, Buffer(t))
    /\ Goto(t, AfterPush(t))
    /\ UNCHANGED <<podVars, pod, first, from, next, opens, dropped, faults>>

\* push_batch: Loki has the lines, and the buffer is empty.
Push(t) ==
    /\ pc[t] \in {"push", "last"}
    /\ Taken(t, Buffer(t))
    /\ from' = [from EXCEPT ![t] = next[t]]
    /\ Goto(t, AfterPush(t))
    /\ UNCHANGED <<podVars, pod, first, next, opens, dropped, faults>>

\* push_batch prints the error; the buffer is emptied all the same.  Loki may have
\* taken lines before its answer was lost.
PushFails(t) ==
    /\ pc[t] \in {"push", "last"}
    /\ \E lines \in SUBSET Buffer(t) : Taken(t, lines)
    /\ dropped' = [dropped EXCEPT ![t] = @ \union ({pod[t]} \X Buffer(t))]
    /\ from' = [from EXCEPT ![t] = next[t]]
    /\ Goto(t, AfterPush(t))
    /\ UNCHANGED <<podVars, pod, first, next, opens, faults>>

\* The stream raises: its buffer is gone, and the pod is resolved again.
StreamFails(t) ==
    /\ pc[t] = "read"
    /\ Fault
    /\ dropped' = [dropped EXCEPT ![t] = @ \union ({pod[t]} \X Buffer(t))]
    /\ from' = [from EXCEPT ![t] = next[t]]
    /\ Goto(t, "resolve")
    /\ UNCHANGED <<podVars, pod, first, next, copies, opens>>

-------------------------------------------------------------------------------
\* All threads have ended, so join returns: the container is restarted.
Restart ==
    /\ \A t \in Targets : pc[t] = "dead"
    /\ pc' = [t \in Targets |-> "resolve"]
    /\ UNCHANGED <<podVars, pod, first, from, next, copies, opens, dropped, faults>>

TailStep(t) ==
    \/ Resolve(t) \/ ResolveFails(t)
    \/ Open(t) \/ OpenFails(t)
    \/ Read(t) \/ StreamEnds(t) \/ StreamFails(t)
    \/ Push(t) \/ PushFails(t)

Next ==
    \/ \E t \in Targets : StartPod(t) \/ TailStep(t)
    \/ \E t \in Targets, i \in PodIds : Write(t, i) \/ StopPod(t, i)
    \/ Restart

\* The API server ends the stream of a pod that is gone.
StreamOver(t) == pod[t] \notin alive[t] /\ StreamEnds(t)

\* A thread that can move moves: its calls have timeouts.  The stream has none, so
\* that of a dead pod ends only because the API server ends it; and the kubelet
\* restarts the container.
Fairness ==
    /\ \A t \in Targets :
          /\ WF_vars(Resolve(t) \/ Open(t) \/ OpenFails(t) \/ Read(t) \/ Push(t) \/ PushFails(t))
          /\ WF_vars(StreamOver(t))
    /\ WF_vars(Restart)

Spec == Init /\ [][Next]_vars
FairSpec == Spec /\ Fairness

-------------------------------------------------------------------------------
\* Every variable has its type, the buffer holds at most Batch lines, and fewer
\* while the thread waits for a line (gateway-log-shipper.py:80-83).
TypeOK ==
    /\ alive \in [Targets -> SUBSET PodIds]
    /\ born \in [Targets -> 0 .. MaxPods]
    /\ written \in [Targets -> [PodIds -> 0 .. MaxLines]]
    /\ pc \in [Targets -> {"resolve", "open", "read", "push", "last", "dead"}]
    /\ pod \in [Targets -> 0 .. MaxPods]
    /\ \A t \in Targets : pc[t] \notin {"resolve", "dead"} => pod[t] \in PodIds
    /\ first \in [Targets -> 1 .. MaxLines + 1]
    /\ from \in [Targets -> 1 .. MaxLines + 1]
    /\ next \in [Targets -> 1 .. MaxLines + 1]
    /\ \A t \in Targets :
          /\ first[t] <= from[t] /\ from[t] <= next[t]
          /\ next[t] - from[t] <= Batch
          /\ pc[t] = "read" => next[t] - from[t] < Batch
    /\ copies \in [Targets -> [PodIds -> [Lines -> Nat]]]
    /\ opens \in [Targets -> [PodIds -> Nat]]
    /\ dropped \in [Targets -> SUBSET (PodIds \X Lines)]
    /\ faults \in 0 .. MaxFaults

\* Within one stream no line reaches Loki twice: copies of a line come only from
\* reopening the stream with old lines (gateway-log-shipper.py:70, 81-84).
OncePerStream ==
    \A t \in Targets, i \in PodIds, n \in Lines : copies[t][i][n] <= opens[t][i]

\* Every line a stream has delivered is in Loki, in the buffer of the stream, or
\* was taken by a failed push or a broken stream (gateway-log-shipper.py:76-87).
NothingLostSilently ==
    \A t \in Targets :
        \A n \in first[t] .. next[t] - 1 :
            \/ copies[t][pod[t]][n] > 0
            \/ <<pod[t], n>> \in dropped[t]
            \/ pc[t] \in {"read", "push", "last"} /\ n \in Buffer(t)

\* The thread follows the log of a pod that runs.
Tailing(t) == pc[t] = "read" /\ pod[t] \in alive[t]

\* "no running pod ..., retrying..." and "re-resolving pod..."
\* (gateway-log-shipper.py:66, 86): a target with a running pod is tailed in the
\* end, whatever failed before.
TailResumes ==
    \A t \in Targets : alive[t] # {} ~> Tailing(t) \/ alive[t] = {}

\* The thread has ended and is not started again, because another one goes on.
Abandoned(t) == pc[t] = "dead" /\ \E s \in Targets : pc[s] # "dead"

\* A target with a running pod is tailed in the end through failures, changes of
\* pods and restarts of the container, unless its thread has ended while another
\* keeps the process alive (gateway-log-shipper.py:62-87, 92-93).
LiveThreadTails ==
    \A t \in Targets : alive[t] # {} ~> Tailing(t) \/ alive[t] = {} \/ Abandoned(t)
=============================================================================
