-------------------------- MODULE LogShipper_proofs --------------------------
(***************************************************************************)
(* Proofs about LogShipper, for any targets, batch and window sizes.       *)
(***************************************************************************)
EXTENDS LogShipper, TLAPS

Streaming(t) == pc[t] \in {"read", "push", "last"}

\* Lines that the current stream has still to push have not used it up.
StreamInv ==
    \A t \in Targets, i \in PodIds, n \in Lines :
        /\ copies[t][i][n] <= opens[t][i]
        /\ Streaming(t) /\ pod[t] = i /\ n >= from[t] => copies[t][i][n] < opens[t][i]

-------------------------------------------------------------------------------
(* Type correctness *)

\* The initial state has its types.
LEMMA TypeInit == Init => TypeOK
  BY ShipperAssumption DEF Init, TypeOK, PodIds, Lines

\* Loki keeps counting the copies of each line.
LEMMA TakenType ==
    ASSUME TypeOK, NEW t \in Targets, pod[t] \in PodIds, NEW lines, Taken(t, lines)
    PROVE  copies' \in [Targets -> [PodIds -> [Lines -> Nat]]]
  BY DEF Taken, TypeOK

\* A push empties the buffer and goes on.
LEMMA AfterPushType ==
    ASSUME TypeOK, NEW t \in Targets, pod[t] \in PodIds, Goto(t, AfterPush(t)),
           from' = [from EXCEPT ![t] = next[t]],
           UNCHANGED <<podVars, pod, first, next, opens, faults>>,
           copies' \in [Targets -> [PodIds -> [Lines -> Nat]]],
           dropped' \in [Targets -> SUBSET (PodIds \X Lines)]
    PROVE  TypeOK'
  <1>1. PICK label \in {"resolve", "read"} : pc' = [pc EXCEPT ![t] = label]
    BY DEF Goto, AfterPush
  <1>2. /\ pc' \in [Targets -> {"resolve", "open", "read", "push", "last", "dead"}]
        /\ \A s \in Targets : pc'[s] \notin {"resolve", "dead"} => pod'[s] \in PodIds
    BY <1>1 DEF TypeOK
  <1>3. from' \in [Targets -> 1 .. MaxLines + 1]
    BY DEF TypeOK
  <1>4. ASSUME NEW s \in Targets
        PROVE  /\ first[s] <= from'[s] /\ from'[s] <= next[s]
               /\ next[s] - from'[s] <= Batch
               /\ pc'[s] = "read" => next[s] - from'[s] < Batch
    <2>1. CASE s = t
      <3>1. from'[s] = next[s] /\ next[s] \in Nat /\ first[s] \in Nat /\ from[s] \in Nat
        BY <2>1, ShipperAssumption DEF TypeOK
      <3>2. first[s] <= from[s] /\ from[s] <= next[s]
        BY DEF TypeOK
      <3> QED
        BY <3>1, <3>2, ShipperAssumption
    <2>2. CASE s # t
      BY <1>1, <2>2 DEF TypeOK
    <2> QED
      BY <2>1, <2>2
  <1> QED
    BY <1>2, <1>3, <1>4 DEF podVars, TypeOK

\* Every action keeps the types and the bound on the buffer.
LEMMA TypeStep == TypeOK /\ [Next]_vars => TypeOK'
  <1> SUFFICES ASSUME TypeOK, [Next]_vars PROVE TypeOK'
    OBVIOUS
  <1> USE ShipperAssumption DEF podVars, Goto, Fault
  <1>1. ASSUME NEW t \in Targets, StartPod(t) PROVE TypeOK'
    <2>1. born[t] + 1 \in PodIds /\ born[t] + 1 \in 0 .. MaxPods
      BY SMTT(30), <1>1 DEF StartPod, TypeOK, PodIds
    <2> QED
      BY <1>1, <2>1 DEF StartPod, TypeOK
  <1>2. ASSUME NEW t \in Targets, NEW i \in PodIds, Write(t, i) PROVE TypeOK'
    <2>1. written' \in [Targets -> [PodIds -> 0 .. MaxLines]]
      BY <1>2 DEF Write, TypeOK
    <2> QED
      BY <1>2, <2>1 DEF Write, TypeOK
  <1>3. ASSUME NEW t \in Targets, NEW i \in PodIds, StopPod(t, i) PROVE TypeOK'
    BY <1>3 DEF StopPod, TypeOK
  <1>4. ASSUME NEW t \in Targets, Resolve(t) PROVE TypeOK'
    <2>1. PICK i \in PodIds : pod' = [pod EXCEPT ![t] = i]
      BY <1>4 DEF Resolve, TypeOK
    <2>2. i \in 0 .. MaxPods
      BY DEF PodIds
    <2> QED
      BY <1>4, <2>1, <2>2 DEF Resolve, BeginAt, TypeOK
  <1>5. ASSUME NEW t \in Targets, ResolveFails(t) \/ OpenFails(t) PROVE TypeOK'
    <2>1. faults' \in 0 .. MaxFaults
      BY <1>5 DEF ResolveFails, OpenFails, TypeOK
    <2>2. /\ pc' \in [Targets -> {"resolve", "open", "read", "push", "last", "dead"}]
          /\ \A s \in Targets : pc'[s] \in {pc[s], "resolve", "dead"}
      BY <1>5 DEF ResolveFails, OpenFails, TypeOK
    <2>3. UNCHANGED <<podVars, pod, first, from, next, copies, opens, dropped>>
      BY <1>5 DEF ResolveFails, OpenFails
    <2> QED
      BY <2>1, <2>2, <2>3 DEF TypeOK
  <1>6. ASSUME NEW t \in Targets, Open(t) PROVE TypeOK'
    <2>1. pod[t] \in PodIds /\ written[t][pod[t]] \in 0 .. MaxLines
      BY <1>6 DEF Open, TypeOK
    <2>2. PICK start \in 1 .. MaxLines + 1 : BeginAt(t, start)
      BY <1>6, <2>1 DEF Open
    <2>3. opens' \in [Targets -> [PodIds -> Nat]]
      BY <1>6, <2>1 DEF Open, TypeOK
    <2> QED
      BY <1>6, <2>1, <2>2, <2>3 DEF Open, BeginAt, TypeOK
  <1>7. ASSUME NEW t \in Targets, Read(t) PROVE TypeOK'
    <2>0. pod[t] \in PodIds
      BY <1>7 DEF Read, TypeOK
    <2>1. next[t] + 1 \in 1 .. MaxLines + 1
      <3>1. written[t][pod[t]] \in 0 .. MaxLines
        BY <2>0 DEF TypeOK
      <3>2. next[t] \in 1 .. MaxLines + 1 /\ next[t] <= written[t][pod[t]]
        BY <1>7 DEF Read, TypeOK
      <3> QED
        BY <3>1, <3>2
    <2>2. pc' \in [Targets -> {"resolve", "open", "read", "push", "last", "dead"}]
      BY <1>7 DEF Read, TypeOK
    <2>3. \A s \in Targets : pc'[s] \notin {"resolve", "dead"} => pod'[s] \in PodIds
      BY <1>7 DEF Read, TypeOK
    <2>4. \A s \in Targets :
             /\ first'[s] <= from'[s] /\ from'[s] <= next'[s]
             /\ next'[s] - from'[s] <= Batch
             /\ pc'[s] = "read" => next'[s] - from'[s] < Batch
      BY <1>7 DEF Read, TypeOK
    <2> QED
      BY <1>7, <2>1, <2>2, <2>3, <2>4 DEF Read, TypeOK
  <1>8. ASSUME NEW t \in Targets, StreamEnds(t) PROVE TypeOK'
    <2>1. pod[t] \in PodIds
      BY <1>8 DEF StreamEnds, TypeOK
    <2>2. faults' \in 0 .. MaxFaults
      BY <1>8 DEF StreamEnds, TypeOK
    <2>3. pc' = [pc EXCEPT ![t] = "last"]
      BY <1>8 DEF StreamEnds
    <2> QED
      BY <1>8, <2>1, <2>2, <2>3 DEF StreamEnds, TypeOK
  <1>9. ASSUME NEW t \in Targets, StreamFails(t) \/ PushFails(t) PROVE TypeOK'
    <2>1. pod[t] \in PodIds
      BY <1>9 DEF StreamFails, PushFails, TypeOK
    <2>2. Buffer(t) \subseteq Lines
      <3>1. from[t] >= 1 /\ next[t] <= MaxLines + 1 /\ from[t] \in Nat /\ next[t] \in Nat
        BY DEF TypeOK
      <3> QED
        BY <3>1 DEF Buffer, Lines
    <2>3. {pod[t]} \X Buffer(t) \subseteq PodIds \X Lines
      BY <2>1, <2>2
    <2>4. dropped' = [dropped EXCEPT ![t] = @ \union ({pod[t]} \X Buffer(t))]
      BY <1>9 DEF StreamFails, PushFails
    <2>5. dropped' \in [Targets -> SUBSET (PodIds \X Lines)]
      BY <2>3, <2>4 DEF TypeOK
    <2>6. CASE StreamFails(t)
      BY <2>1, <2>5, <2>6 DEF StreamFails, TypeOK
    <2>7. CASE PushFails(t)
      <3>1. copies' \in [Targets -> [PodIds -> [Lines -> Nat]]]
        BY <2>1, <2>7, TakenType DEF PushFails
      <3> QED
        BY <2>1, <2>5, <2>7, <3>1, AfterPushType DEF PushFails
    <2> QED
      BY <1>9, <2>6, <2>7
  <1>10. ASSUME NEW t \in Targets, Push(t) PROVE TypeOK'
    <2>1. pod[t] \in PodIds
      BY <1>10 DEF Push, TypeOK
    <2>2. copies' \in [Targets -> [PodIds -> [Lines -> Nat]]]
      BY <1>10, <2>1, TakenType DEF Push
    <2>3. dropped' \in [Targets -> SUBSET (PodIds \X Lines)]
      BY <1>10 DEF Push, TypeOK
    <2> QED
      BY <1>10, <2>1, <2>2, <2>3, AfterPushType DEF Push
  <1>11. CASE Restart
    BY <1>11 DEF Restart, TypeOK
  <1>12. CASE UNCHANGED vars
    BY <1>12 DEF vars, TypeOK
  <1> QED
    BY <1>1, <1>2, <1>3, <1>4, <1>5, <1>6, <1>7, <1>8, <1>9, <1>10, <1>11, <1>12
       DEF Next, TailStep

\* Every variable of the shipper has its type, and no buffer outgrows a batch.
THEOREM TypeCorrect == Spec => []TypeOK
  BY TypeInit, TypeStep, PTL DEF Spec

-------------------------------------------------------------------------------
(* One stream pushes a line once *)

\* What Loki's taking of some lines does to the copies of one.
LEMMA TakenOnce ==
    ASSUME TypeOK, NEW t \in Targets, pod[t] \in PodIds, NEW lines, Taken(t, lines),
           NEW s \in Targets, NEW i \in PodIds, NEW n \in Lines
    PROVE  copies'[s][i][n] = IF s = t /\ i = pod[t] /\ n \in lines
                              THEN copies[s][i][n] + 1 ELSE copies[s][i][n]
  <1>1. \A j \in PodIds : copies'[t][j] =
           IF j = pod[t]
           THEN [m \in Lines |-> IF m \in lines THEN copies[t][j][m] + 1 ELSE copies[t][j][m]]
           ELSE copies[t][j]
    BY DEF Taken, TypeOK
  <1>2. s # t => copies'[s] = copies[s]
    BY DEF Taken, TypeOK
  <1>3. CASE s = t /\ i = pod[t]
    BY <1>1, <1>3
  <1>4. CASE s = t /\ i # pod[t]
    BY <1>1, <1>4
  <1>5. CASE s # t
    BY <1>2, <1>5
  <1> QED
    BY <1>3, <1>4, <1>5

\* Every action keeps the unread and unpushed lines of a stream unused.
LEMMA StreamStep == TypeOK /\ StreamInv /\ [Next]_vars => StreamInv'
  <1> SUFFICES ASSUME TypeOK, StreamInv, [Next]_vars,
                      NEW s \in Targets, NEW i \in PodIds, NEW n \in Lines
               PROVE  /\ copies'[s][i][n] <= opens'[s][i]
                      /\ Streaming(s)' /\ pod'[s] = i /\ n >= from'[s]
                            => copies'[s][i][n] < opens'[s][i]
    BY DEF StreamInv
  <1> DEFINE Goal == /\ copies'[s][i][n] <= opens'[s][i]
                     /\ Streaming(s)' /\ pod'[s] = i /\ n >= from'[s]
                           => copies'[s][i][n] < opens'[s][i]
  <1> USE DEF podVars, Goto
  <1>a. /\ copies[s][i][n] \in Nat /\ opens[s][i] \in Nat /\ from[s] \in Nat /\ next[s] \in Nat
        /\ n \in Nat /\ from[s] <= next[s]
    BY ShipperAssumption DEF TypeOK, Lines
  <1>b. /\ copies[s][i][n] <= opens[s][i]
        /\ Streaming(s) /\ pod[s] = i /\ n >= from[s] => copies[s][i][n] < opens[s][i]
    BY DEF StreamInv
  <1>1. ASSUME NEW t \in Targets, Open(t) PROVE Goal
    <2>1. pod[t] \in PodIds
      BY <1>1 DEF Open, TypeOK
    <2>2. opens'[s][i] = IF s = t /\ i = pod[t] THEN opens[s][i] + 1 ELSE opens[s][i]
      BY <1>1, <2>1 DEF Open, TypeOK
    <2>3. CASE s = t /\ i = pod[t]
      BY <1>1, <1>a, <1>b, <2>2, <2>3 DEF Open
    <2>4. CASE s # t
      BY <1>1, <1>b, <2>2, <2>4 DEF Open, BeginAt, TypeOK, Streaming
    <2>5. CASE s = t /\ i # pod[t]
      BY <1>1, <1>b, <2>2, <2>5 DEF Open
    <2> QED
      BY <2>3, <2>4, <2>5
  <1>2. ASSUME NEW t \in Targets, Push(t) \/ PushFails(t) PROVE Goal
    <2>1. opens'[s][i] = opens[s][i] /\ pod'[s] = pod[s] /\ pod[t] \in PodIds
      BY <1>2 DEF Push, PushFails, TypeOK
    <2>2. PICK lines \in SUBSET Buffer(t) : Taken(t, lines)
      BY <1>2 DEF Push, PushFails
    <2>3. copies'[s][i][n] = IF s = t /\ i = pod[t] /\ n \in lines
                             THEN copies[s][i][n] + 1 ELSE copies[s][i][n]
      BY <2>1, <2>2, TakenOnce
    <2>4. CASE s = t
      <3>1. from'[s] = next[s] /\ Streaming(s)
        BY <1>2, <2>4 DEF Push, PushFails, TypeOK, Streaming
      <3>2. n \in lines => from[s] <= n /\ n < next[s]
        BY <1>a, <2>2, <2>4 DEF Buffer
      <3> QED
        BY <1>a, <1>b, <2>1, <2>3, <2>4, <3>1, <3>2
    <2>5. CASE s # t
      <3>1. from'[s] = from[s] /\ (Streaming(s)' <=> Streaming(s))
        BY <1>2, <2>5 DEF Push, PushFails, TypeOK, Streaming
      <3> QED
        BY <1>b, <2>1, <2>3, <2>5, <3>1
    <2> QED
      BY <2>4, <2>5
  <1>3. ASSUME UNCHANGED <<copies, opens, pod, from>>, Streaming(s)' => Streaming(s)
        PROVE  Goal
    BY <1>3, <1>b
  <1>4. ASSUME NEW t \in Targets,
               \/ StartPod(t) \/ ResolveFails(t) \/ OpenFails(t) \/ Read(t) \/ StreamEnds(t)
               \/ \E j \in PodIds : Write(t, j) \/ StopPod(t, j)
        PROVE  Goal
    <2>1. Streaming(s)' => Streaming(s)
      BY <1>4 DEF StartPod, ResolveFails, OpenFails, Read, StreamEnds, Write, StopPod,
         Streaming, TypeOK
    <2> QED
      BY <1>3, <1>4, <2>1 DEF StartPod, ResolveFails, OpenFails, Read, StreamEnds, Write, StopPod
  <1>5. ASSUME NEW t \in Targets, Resolve(t) \/ StreamFails(t) PROVE Goal
    <2>1. UNCHANGED <<copies, opens>>
      BY <1>5 DEF Resolve, StreamFails
    <2>2. CASE s # t
      <3>1. from'[s] = from[s] /\ pod'[s] = pod[s] /\ (Streaming(s)' <=> Streaming(s))
        BY <1>5, <2>2 DEF Resolve, BeginAt, StreamFails, TypeOK, Streaming
      <3> QED
        BY <1>b, <2>1, <3>1
    <2>3. CASE s = t
      <3>1. \/ ~Streaming(s)'
            \/ Streaming(s) /\ from'[s] = next[s] /\ pod'[s] = pod[s]
        BY <1>5, <2>3 DEF Resolve, StreamFails, TypeOK, Streaming
      <3> QED
        BY <1>a, <1>b, <2>1, <3>1
    <2> QED
      BY <2>2, <2>3
  <1>6. CASE Restart
    BY <1>3, <1>6 DEF Restart, Streaming
  <1>7. CASE UNCHANGED vars
    BY <1>3, <1>7 DEF vars, Streaming
  <1> QED
    BY <1>1, <1>2, <1>4, <1>5, <1>6, <1>7 DEF Next, TailStep

\* Loki has at most as many copies of a line as streams of its pod were opened.
THEOREM OncePerStreamHolds == Spec => []OncePerStream
  <1>1. Init => StreamInv
    BY DEF Init, StreamInv, Streaming
  <1>2. StreamInv => OncePerStream
    BY DEF StreamInv, OncePerStream
  <1> QED
    BY TypeCorrect, <1>1, <1>2, StreamStep, PTL DEF Spec

-------------------------------------------------------------------------------
(* No line is lost without a failure *)

\* Every action accounts for each line the stream has delivered.
LEMMA LostStep == TypeOK /\ NothingLostSilently /\ [Next]_vars => NothingLostSilently'
  <1> SUFFICES ASSUME TypeOK, NothingLostSilently, [Next]_vars,
                      NEW s \in Targets, NEW n \in first'[s] .. next'[s] - 1
               PROVE  \/ copies'[s][pod'[s]][n] > 0
                      \/ <<pod'[s], n>> \in dropped'[s]
                      \/ pc'[s] \in {"read", "push", "last"} /\ n \in Buffer(s)'
    BY DEF NothingLostSilently
  <1> DEFINE Goal == \/ copies'[s][pod'[s]][n] > 0
                     \/ <<pod'[s], n>> \in dropped'[s]
                     \/ pc'[s] \in {"read", "push", "last"} /\ n \in Buffer(s)'
  <1> USE DEF podVars, Goto
  <1>a. /\ first[s] \in Nat /\ from[s] \in Nat /\ next[s] \in Nat
        /\ first[s] <= from[s] /\ from[s] <= next[s] /\ next[s] <= MaxLines + 1 /\ first[s] >= 1
    BY ShipperAssumption DEF TypeOK
  <1>b. \A m \in first[s] .. next[s] - 1 :
           \/ copies[s][pod[s]][m] > 0
           \/ <<pod[s], m>> \in dropped[s]
           \/ pc[s] \in {"read", "push", "last"} /\ m \in Buffer(s)
    BY DEF NothingLostSilently
  <1>1. ASSUME UNCHANGED <<copies, dropped>>, pod'[s] = pod[s], first'[s] = first[s],
               from'[s] = from[s], next'[s] = next[s],
               pc[s] \in {"read", "push", "last"} => pc'[s] \in {"read", "push", "last"}
        PROVE  Goal
    BY <1>1, <1>b DEF Buffer
  <1>2. ASSUME NEW t \in Targets, Resolve(t) \/ Open(t), s = t PROVE Goal
    <2>1. first'[s] = next'[s]
      BY <1>2 DEF Resolve, Open, BeginAt, TypeOK
    <2>2. next'[s] \in Nat
      BY ShipperAssumption, TypeStep DEF TypeOK
    <2> QED
      BY <2>1, <2>2
  <1>3. ASSUME NEW t \in Targets, Read(t), s = t PROVE Goal
    <2>1. /\ first'[s] = first[s] /\ from'[s] = from[s] /\ next'[s] = next[s] + 1
          /\ pc'[s] \in {"read", "push"} /\ pod'[s] = pod[s]
          /\ UNCHANGED <<copies, dropped>>
      BY <1>3 DEF Read, TypeOK
    <2>2. n \in Buffer(s)' <=> from[s] <= n /\ n <= next[s]
      BY <1>a, <2>1 DEF Buffer
    <2>3. CASE n = next[s]
      BY <1>a, <2>1, <2>2, <2>3
    <2>4. CASE n \in first[s] .. next[s] - 1
      BY <1>a, <1>b, <2>1, <2>2, <2>4 DEF Buffer
    <2> QED
      BY <1>a, <2>1, <2>3, <2>4
  <1>4. ASSUME NEW t \in Targets, Push(t) \/ PushFails(t), s = t PROVE Goal
    <2>1. /\ first'[s] = first[s] /\ next'[s] = next[s] /\ pod'[s] = pod[s]
          /\ pod[s] \in PodIds
      BY <1>4 DEF Push, PushFails, TypeOK
    <2>2. PICK lines : Taken(t, lines) /\ (Push(t) => lines = Buffer(t))
      BY <1>4 DEF Push, PushFails
    <2>3. n \in Lines /\ n \in first[s] .. next[s] - 1
      BY <1>a, <2>1, ShipperAssumption DEF Lines
    <2>4. copies[s][pod[s]][n] \in Nat
      BY <2>1, <2>3 DEF TypeOK
    <2>5. copies'[s][pod[s]][n] = IF n \in lines THEN copies[s][pod[s]][n] + 1
                                               ELSE copies[s][pod[s]][n]
      BY <1>4, <2>1, <2>2, <2>3, TakenOnce
    <2>6. CASE Push(t)
      <3>1. UNCHANGED dropped
        BY <2>6 DEF Push
      <3> QED
        BY <1>4, <1>b, <2>1, <2>2, <2>3, <2>4, <2>5, <2>6, <3>1
    <2>7. CASE PushFails(t)
      <3>1. dropped'[s] = dropped[s] \union ({pod[s]} \X Buffer(s))
        BY <1>4, <2>7 DEF PushFails, TypeOK
      <3> QED
        BY <1>b, <2>1, <2>3, <2>4, <2>5, <3>1
    <2> QED
      BY <1>4, <2>6, <2>7
  <1>5. ASSUME NEW t \in Targets, StreamFails(t), s = t PROVE Goal
    <2>1. /\ first'[s] = first[s] /\ next'[s] = next[s] /\ pod'[s] = pod[s]
          /\ UNCHANGED copies
          /\ dropped'[s] = dropped[s] \union ({pod[s]} \X Buffer(s))
      BY <1>5 DEF StreamFails, TypeOK
    <2> QED
      BY <1>b, <2>1
  <1>6. ASSUME NEW t \in Targets, TailStep(t), s # t PROVE Goal
    <2>1. /\ pod'[s] = pod[s] /\ first'[s] = first[s] /\ from'[s] = from[s]
          /\ next'[s] = next[s] /\ dropped'[s] = dropped[s] /\ pc'[s] = pc[s]
          /\ copies'[s] = copies[s]
      BY <1>6 DEF TailStep, Resolve, ResolveFails, Open, OpenFails, BeginAt, Read, StreamEnds,
         StreamFails, Push, PushFails, Taken, TypeOK
    <2> QED
      BY <1>b, <2>1 DEF Buffer
  <1>7. ASSUME NEW t \in Targets, ResolveFails(t) \/ OpenFails(t) \/ StreamEnds(t) PROVE Goal
    <2>1. pc[s] \in {"read", "push", "last"} => pc'[s] \in {"read", "push", "last"}
      BY <1>7 DEF ResolveFails, OpenFails, StreamEnds, TypeOK
    <2> QED
      BY <1>1, <1>7, <2>1 DEF ResolveFails, OpenFails, StreamEnds
  <1>8. ASSUME NEW t \in Targets, NEW i \in PodIds,
               Write(t, i) \/ StopPod(t, i)
        PROVE  Goal
    BY <1>1, <1>8 DEF Write, StopPod
  <1>9. ASSUME Restart PROVE Goal
    BY <1>1, <1>9 DEF Restart
  <1>10. ASSUME UNCHANGED vars PROVE Goal
    BY <1>1, <1>10 DEF vars
  <1>13. ASSUME NEW t \in Targets, StartPod(t) PROVE Goal
    BY <1>1, <1>13 DEF StartPod
  <1>11. ASSUME NEW t \in Targets, TailStep(t) PROVE Goal
    BY <1>2, <1>3, <1>4, <1>5, <1>6, <1>7, <1>11 DEF TailStep
  <1> HIDE DEF Goal
  <1>12. Goal
    BY <1>8, <1>9, <1>10, <1>11, <1>13 DEF Next
  <1> QED
    BY <1>12 DEF Goal

\* What a stream delivered is in Loki, in its buffer, or taken by a failure.
THEOREM NothingLostSilentlyHolds == Spec => []NothingLostSilently
  <1>1. Init => NothingLostSilently
    BY DEF Init, NothingLostSilently
  <1> QED
    BY TypeCorrect, <1>1, LostStep, PTL DEF Spec
=============================================================================
