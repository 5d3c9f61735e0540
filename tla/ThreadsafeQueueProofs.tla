----------------------- MODULE ThreadsafeQueueProofs -----------------------
(***************************************************************************)
(* threadsafe_queue keeps its two ends apart and is a linearizable FIFO    *)
(* queue, for any number of threads and of values.                         *)
(***************************************************************************)
EXTENDS ThreadsafeQueue, SequenceTheorems, TLAPS

\* Which steps hold which mutex.
HoldsTail == {"data", "link", "advance"}
HoldsHead == {"check", "sleep", "take", "pop"}

MutexInv ==
  \A t \in Threads : /\ pc[t] \in HoldsTail <=> tailMutex = t
                     /\ pc[t] \in HoldsHead <=> headMutex = t

\* How far the list has been built, by the step of the thread that builds it.
ListInv ==
  /\ head <= tail
  /\ tailMutex = NoThread => Len(data) = tail /\ links = tail
  /\ \A t \in Threads :
       /\ pc[t] = "data"    => Len(data) = tail /\ links = tail
       /\ pc[t] = "link"    => Len(data) = tail + 1 /\ links = tail
       /\ pc[t] = "advance" => Len(data) = tail + 1 /\ links = tail + 1
       /\ pc[t] \in {"link", "advance"} => data[tail + 1] = value[t]

PopInv ==
  \A t \in Threads : /\ pc[t] \in {"take", "pop"} => head < tail
                     /\ pc[t] = "pop" => value[t] = data[head + 1]

\* What a thread is doing and carrying at each step.
OpInv ==
  \A t \in Threads :
    /\ pc[t] = "idle" <=> op[t] = "none"
    /\ pc[t] \in {"push", "data", "link", "advance", "notify"} =>
         op[t] = "push" /\ value[t] \in Values
    /\ pc[t] \in {"lock", "check", "sleep", "asleep", "take", "pop", "return"} =>
         op[t] \in {"try_pop", "wait_and_pop"}
    /\ pc[t] \in {"idle", "lock", "check", "sleep", "asleep", "take"} =>
         value[t] = NoValue

IInv == TypeOK /\ MutexInv /\ ListInv /\ PopInv /\ OpInv

LEMMA InitIInv == Init => IInv
<1>. SUFFICES ASSUME Init PROVE IInv
  OBVIOUS
<1>1. TypeOK
  BY EmptySeq DEF Init, TypeOK, Steps, Ops
<1>2. MutexInv /\ PopInv /\ OpInv
  BY NoThreadAssumption DEF Init, MutexInv, PopInv, OpInv, HoldsTail, HoldsHead
<1>3. ListInv
  BY EmptySeq DEF Init, ListInv
<1>. QED BY <1>1, <1>2, <1>3 DEF IInv

\* Every step keeps the types.
LEMMA StepKeepsType ==
  ASSUME IInv, [Next]_vars
  PROVE  TypeOK'
<1>. USE DEF Goto, Steps, Ops, list, locks
<1>0. TypeOK
  BY DEF IInv
<1>1. CASE UNCHANGED vars
  BY <1>0, <1>1 DEF TypeOK, vars
<1>2. ASSUME NEW t \in Threads, NEW v \in Values, PushCall(t, v) PROVE TypeOK'
  BY <1>0, <1>2 DEF TypeOK, PushCall
<1>3. ASSUME NEW t \in Threads, NEW o \in {"try_pop", "wait_and_pop"}, PopCall(t, o) PROVE TypeOK'
  BY <1>0, <1>3 DEF TypeOK, PopCall
<1>4. ASSUME NEW t \in Threads, PushLock(t) PROVE TypeOK'
  BY <1>0, <1>4 DEF TypeOK, PushLock
<1>5. ASSUME NEW t \in Threads, PushData(t) PROVE TypeOK'
  <2>1. value[t] \in Values /\ data \in Seq(Values)
    BY <1>0, <1>5 DEF PushData, IInv, OpInv, TypeOK
  <2>2. data' \in Seq(Values)
    BY <1>5, <2>1 DEF PushData
  <2>. QED BY <1>0, <1>5, <2>2 DEF TypeOK, PushData
<1>6. ASSUME NEW t \in Threads, PushLink(t) PROVE TypeOK'
  BY <1>0, <1>6 DEF TypeOK, PushLink
<1>7. ASSUME NEW t \in Threads, PushAdvance(t) PROVE TypeOK'
  BY <1>0, <1>7 DEF TypeOK, PushAdvance
<1>8. ASSUME NEW t \in Threads, PushNotify(t) PROVE TypeOK'
  <2>1. pc' \in [Threads -> Steps]
    BY <1>0, <1>8 DEF TypeOK, PushNotify, Asleep
  <2>. QED BY <1>0, <1>8, <2>1 DEF TypeOK, PushNotify
<1>9. ASSUME NEW t \in Threads, PopLock(t) \/ PopHead(t) \/ PopReturn(t) PROVE TypeOK'
  BY <1>0, <1>9 DEF TypeOK, PopLock, PopHead, PopReturn
<1>10. ASSUME NEW t \in Threads,
              PopFindsData(t) \/ TryPopFindsNone(t) \/ WaitFindsNone(t) \/ WaitSleeps(t)
              \/ SpuriousWakeup(t)
       PROVE  TypeOK'
  BY <1>0, <1>10 DEF TypeOK, PopFindsData, TryPopFindsNone, WaitFindsNone, WaitSleeps,
                     SpuriousWakeup
<1>11. ASSUME NEW t \in Threads, PopTake(t) PROVE TypeOK'
  <2>1. data[head + 1] \in Values
    <3>1. head < tail /\ tail <= Len(data) /\ data \in Seq(Values) /\ head \in Nat /\ tail \in Nat
      BY <1>0, <1>11, NoThreadAssumption
         DEF IInv, PopInv, ListInv, MutexInv, HoldsTail, PopTake, TypeOK
    <3>2. head + 1 \in 1 .. Len(data)
      BY <3>1
    <3>. QED BY <3>1, <3>2
  <2>. QED BY <1>0, <1>11, <2>1 DEF TypeOK, PopTake
<1>. QED BY <1>1, <1>2, <1>3, <1>4, <1>5, <1>6, <1>7, <1>8, <1>9, <1>10, <1>11
         DEF Next, Continue

\* A thread holds a mutex exactly in its critical section.
LEMMA StepKeepsMutex ==
  ASSUME IInv, TypeOK', [Next]_vars
  PROVE  MutexInv'
<1>. USE DEF IInv, TypeOK, MutexInv, HoldsTail, HoldsHead, Goto, list, locks
<1>1. CASE UNCHANGED vars
  BY <1>1 DEF vars
<1>2. ASSUME NEW t \in Threads, NEW v \in Values, PushCall(t, v) PROVE MutexInv'
  BY <1>2 DEF PushCall
<1>3. ASSUME NEW t \in Threads, NEW o \in {"try_pop", "wait_and_pop"}, PopCall(t, o) PROVE MutexInv'
  BY <1>3 DEF PopCall
<1>4. ASSUME NEW t \in Threads, PushLock(t) PROVE MutexInv'
  BY <1>4, NoThreadAssumption DEF PushLock
<1>5. ASSUME NEW t \in Threads, PushData(t) PROVE MutexInv'
  BY <1>5, NoThreadAssumption DEF PushData
<1>6. ASSUME NEW t \in Threads, PushLink(t) PROVE MutexInv'
  BY <1>6, NoThreadAssumption DEF PushLink
<1>7. ASSUME NEW t \in Threads, PushAdvance(t) PROVE MutexInv'
  BY <1>7, NoThreadAssumption DEF PushAdvance
<1>8. ASSUME NEW t \in Threads, PushNotify(t) PROVE MutexInv'
  BY <1>8, NoThreadAssumption DEF PushNotify, Asleep
<1>9. ASSUME NEW t \in Threads, PopLock(t) PROVE MutexInv'
  BY <1>9, NoThreadAssumption DEF PopLock
<1>10. ASSUME NEW t \in Threads, PopFindsData(t) PROVE MutexInv'
  BY <1>10, NoThreadAssumption DEF PopFindsData
<1>11. ASSUME NEW t \in Threads, TryPopFindsNone(t) PROVE MutexInv'
  BY <1>11, NoThreadAssumption DEF TryPopFindsNone
<1>12. ASSUME NEW t \in Threads, WaitFindsNone(t) PROVE MutexInv'
  BY <1>12, NoThreadAssumption DEF WaitFindsNone
<1>13. ASSUME NEW t \in Threads, WaitSleeps(t) PROVE MutexInv'
  BY <1>13, NoThreadAssumption DEF WaitSleeps
<1>14. ASSUME NEW t \in Threads, PopTake(t) PROVE MutexInv'
  BY <1>14, NoThreadAssumption DEF PopTake
<1>15. ASSUME NEW t \in Threads, PopHead(t) PROVE MutexInv'
  BY <1>15, NoThreadAssumption DEF PopHead
<1>16. ASSUME NEW t \in Threads, PopReturn(t) PROVE MutexInv'
  BY <1>16, NoThreadAssumption DEF PopReturn
<1>17. ASSUME NEW t \in Threads, SpuriousWakeup(t) PROVE MutexInv'
  BY <1>17, NoThreadAssumption DEF SpuriousWakeup
<1>. QED BY <1>1, <1>2, <1>3, <1>4, <1>5, <1>6, <1>7, <1>8, <1>9, <1>10, <1>11, <1>12, <1>13, <1>14, <1>15, <1>16, <1>17
         DEF Next, Continue


\* The list is complete up to the tail whenever nobody holds tail_mutex.
LEMMA StepKeepsList ==
  ASSUME IInv, TypeOK', [Next]_vars
  PROVE  ListInv'
<1>. USE DEF IInv, TypeOK, MutexInv, HoldsTail, HoldsHead, ListInv, PopInv, OpInv, Goto, list, locks
<1>1. CASE UNCHANGED vars
  BY <1>1 DEF vars
<1>2. ASSUME NEW t \in Threads, NEW v \in Values, PushCall(t, v) PROVE ListInv'
  BY <1>2 DEF PushCall
<1>3. ASSUME NEW t \in Threads, NEW o \in {"try_pop", "wait_and_pop"}, PopCall(t, o) PROVE ListInv'
  BY <1>3 DEF PopCall
<1>4. ASSUME NEW t \in Threads, PushLock(t) PROVE ListInv'
  BY <1>4, NoThreadAssumption DEF PushLock
<1>5. ASSUME NEW t \in Threads, PushData(t) PROVE ListInv'
  BY <1>5, NoThreadAssumption DEF PushData
<1>6. ASSUME NEW t \in Threads, PushLink(t) PROVE ListInv'
  BY <1>6, NoThreadAssumption DEF PushLink
<1>7. ASSUME NEW t \in Threads, PushAdvance(t) PROVE ListInv'
  BY <1>7, NoThreadAssumption DEF PushAdvance
<1>8. ASSUME NEW t \in Threads, PushNotify(t) PROVE ListInv'
  BY <1>8, NoThreadAssumption DEF PushNotify, Asleep
<1>9. ASSUME NEW t \in Threads, PopLock(t) PROVE ListInv'
  BY <1>9, NoThreadAssumption DEF PopLock
<1>10. ASSUME NEW t \in Threads, PopFindsData(t) PROVE ListInv'
  BY <1>10, NoThreadAssumption DEF PopFindsData
<1>11. ASSUME NEW t \in Threads, TryPopFindsNone(t) PROVE ListInv'
  BY <1>11, NoThreadAssumption DEF TryPopFindsNone
<1>12. ASSUME NEW t \in Threads, WaitFindsNone(t) PROVE ListInv'
  BY <1>12, NoThreadAssumption DEF WaitFindsNone
<1>13. ASSUME NEW t \in Threads, WaitSleeps(t) PROVE ListInv'
  BY <1>13, NoThreadAssumption DEF WaitSleeps
<1>14. ASSUME NEW t \in Threads, PopTake(t) PROVE ListInv'
  BY <1>14, NoThreadAssumption DEF PopTake
<1>15. ASSUME NEW t \in Threads, PopHead(t) PROVE ListInv'
  BY <1>15, NoThreadAssumption DEF PopHead
<1>16. ASSUME NEW t \in Threads, PopReturn(t) PROVE ListInv'
  BY <1>16, NoThreadAssumption DEF PopReturn
<1>17. ASSUME NEW t \in Threads, SpuriousWakeup(t) PROVE ListInv'
  BY <1>17, NoThreadAssumption DEF SpuriousWakeup
<1>. QED BY <1>1, <1>2, <1>3, <1>4, <1>5, <1>6, <1>7, <1>8, <1>9, <1>10, <1>11, <1>12, <1>13, <1>14, <1>15, <1>16, <1>17
         DEF Next, Continue


\* A pop that has found data still finds it when it takes it.
LEMMA StepKeepsPop ==
  ASSUME IInv, TypeOK', [Next]_vars
  PROVE  PopInv'
<1>. USE DEF IInv, TypeOK, MutexInv, HoldsTail, HoldsHead, ListInv, PopInv, OpInv, Goto, list, locks
<1>1. CASE UNCHANGED vars
  BY <1>1 DEF vars
<1>2. ASSUME NEW t \in Threads, NEW v \in Values, PushCall(t, v) PROVE PopInv'
  BY <1>2 DEF PushCall
<1>3. ASSUME NEW t \in Threads, NEW o \in {"try_pop", "wait_and_pop"}, PopCall(t, o) PROVE PopInv'
  BY <1>3 DEF PopCall
<1>4. ASSUME NEW t \in Threads, PushLock(t) PROVE PopInv'
  BY <1>4, NoThreadAssumption DEF PushLock
<1>5. ASSUME NEW t \in Threads, PushData(t) PROVE PopInv'
  BY <1>5, NoThreadAssumption DEF PushData
<1>6. ASSUME NEW t \in Threads, PushLink(t) PROVE PopInv'
  BY <1>6, NoThreadAssumption DEF PushLink
<1>7. ASSUME NEW t \in Threads, PushAdvance(t) PROVE PopInv'
  BY <1>7, NoThreadAssumption DEF PushAdvance
<1>8. ASSUME NEW t \in Threads, PushNotify(t) PROVE PopInv'
  BY <1>8, NoThreadAssumption DEF PushNotify, Asleep
<1>9. ASSUME NEW t \in Threads, PopLock(t) PROVE PopInv'
  BY <1>9, NoThreadAssumption DEF PopLock
<1>10. ASSUME NEW t \in Threads, PopFindsData(t) PROVE PopInv'
  BY <1>10, NoThreadAssumption DEF PopFindsData
<1>11. ASSUME NEW t \in Threads, TryPopFindsNone(t) PROVE PopInv'
  BY <1>11, NoThreadAssumption DEF TryPopFindsNone
<1>12. ASSUME NEW t \in Threads, WaitFindsNone(t) PROVE PopInv'
  BY <1>12, NoThreadAssumption DEF WaitFindsNone
<1>13. ASSUME NEW t \in Threads, WaitSleeps(t) PROVE PopInv'
  BY <1>13, NoThreadAssumption DEF WaitSleeps
<1>14. ASSUME NEW t \in Threads, PopTake(t) PROVE PopInv'
  BY <1>14, NoThreadAssumption DEF PopTake
<1>15. ASSUME NEW t \in Threads, PopHead(t) PROVE PopInv'
  BY <1>15, NoThreadAssumption DEF PopHead
<1>16. ASSUME NEW t \in Threads, PopReturn(t) PROVE PopInv'
  BY <1>16, NoThreadAssumption DEF PopReturn
<1>17. ASSUME NEW t \in Threads, SpuriousWakeup(t) PROVE PopInv'
  BY <1>17, NoThreadAssumption DEF SpuriousWakeup
<1>. QED BY <1>1, <1>2, <1>3, <1>4, <1>5, <1>6, <1>7, <1>8, <1>9, <1>10, <1>11, <1>12, <1>13, <1>14, <1>15, <1>16, <1>17
         DEF Next, Continue


\* A thread's value and operation agree with its step.
LEMMA StepKeepsOp ==
  ASSUME IInv, TypeOK', [Next]_vars
  PROVE  OpInv'
<1>. USE DEF IInv, TypeOK, OpInv, Goto, list, locks
<1>1. CASE UNCHANGED vars
  BY <1>1 DEF vars
<1>2. ASSUME NEW t \in Threads, NEW v \in Values, PushCall(t, v) PROVE OpInv'
  BY <1>2 DEF PushCall
<1>3. ASSUME NEW t \in Threads, NEW o \in {"try_pop", "wait_and_pop"}, PopCall(t, o) PROVE OpInv'
  BY <1>3 DEF PopCall
<1>4. ASSUME NEW t \in Threads, PushLock(t) PROVE OpInv'
  BY <1>4, NoValueAssumption DEF PushLock
<1>5. ASSUME NEW t \in Threads, PushData(t) PROVE OpInv'
  BY <1>5, NoValueAssumption DEF PushData
<1>6. ASSUME NEW t \in Threads, PushLink(t) PROVE OpInv'
  BY <1>6, NoValueAssumption DEF PushLink
<1>7. ASSUME NEW t \in Threads, PushAdvance(t) PROVE OpInv'
  BY <1>7, NoValueAssumption DEF PushAdvance
<1>8. ASSUME NEW t \in Threads, PushNotify(t) PROVE OpInv'
  BY <1>8, NoValueAssumption DEF PushNotify, Asleep
<1>9. ASSUME NEW t \in Threads, PopLock(t) PROVE OpInv'
  BY <1>9, NoValueAssumption DEF PopLock
<1>10. ASSUME NEW t \in Threads, PopFindsData(t) PROVE OpInv'
  BY <1>10, NoValueAssumption DEF PopFindsData
<1>11. ASSUME NEW t \in Threads, TryPopFindsNone(t) PROVE OpInv'
  BY <1>11, NoValueAssumption DEF TryPopFindsNone
<1>12. ASSUME NEW t \in Threads, WaitFindsNone(t) PROVE OpInv'
  BY <1>12, NoValueAssumption DEF WaitFindsNone
<1>13. ASSUME NEW t \in Threads, WaitSleeps(t) PROVE OpInv'
  BY <1>13, NoValueAssumption DEF WaitSleeps
<1>14. ASSUME NEW t \in Threads, PopTake(t) PROVE OpInv'
  BY <1>14, NoValueAssumption DEF PopTake
<1>15. ASSUME NEW t \in Threads, PopHead(t) PROVE OpInv'
  BY <1>15, NoValueAssumption DEF PopHead
<1>16. ASSUME NEW t \in Threads, PopReturn(t) PROVE OpInv'
  BY <1>16, NoValueAssumption DEF PopReturn
<1>17. ASSUME NEW t \in Threads, SpuriousWakeup(t) PROVE OpInv'
  BY <1>17, NoValueAssumption DEF SpuriousWakeup
<1>. QED BY <1>1, <1>2, <1>3, <1>4, <1>5, <1>6, <1>7, <1>8, <1>9, <1>10, <1>11, <1>12, <1>13, <1>14, <1>15, <1>16, <1>17
         DEF Next, Continue

LEMMA StepKeepsIInv == IInv /\ [Next]_vars => IInv'
<1>. SUFFICES ASSUME IInv, [Next]_vars PROVE IInv'
  OBVIOUS
<1>1. TypeOK'
  BY StepKeepsType
<1>. QED BY <1>1, StepKeepsMutex, StepKeepsList, StepKeepsPop, StepKeepsOp DEF IInv

LEMMA Invariance == Spec => []IInv
BY InitIInv, StepKeepsIInv, PTL DEF Spec

(***************************************************************************)
(* push, try_pop and wait_and_pop keep the queue well typed.               *)
(***************************************************************************)
THEOREM QueueTypeCorrect == Spec => []TypeOK
<1>1. IInv => TypeOK
  BY DEF IInv
<1>. QED BY <1>1, Invariance, PTL

(***************************************************************************)
(* Two mutexes are enough: whatever the threads do, the node a pop reads   *)
(* is complete and is not the one a push writes.                           *)
(***************************************************************************)
THEOREM EndsStayApart == Spec => []EndsApart
<1>1. IInv => EndsApart
  <2>. SUFFICES ASSUME IInv, NEW t \in Threads, pc[t] \in {"take", "pop"}
                PROVE  head < tail /\ head < Len(data) /\ head < links
    BY DEF EndsApart
  <2>1. head < tail /\ head \in Nat /\ tail \in Nat /\ links \in Nat /\ Len(data) \in Nat
    BY DEF IInv, PopInv, TypeOK
  <2>2. tailMutex = NoThread \/ \E u \in Threads : pc[u] \in HoldsTail
    BY DEF IInv, TypeOK, MutexInv
  <2>3. Len(data) >= tail /\ links >= tail
    BY <2>1, <2>2 DEF IInv, ListInv, HoldsTail
  <2>. QED BY <2>1, <2>3
<1>. QED BY <1>1, Invariance, PTL

\* The first k members of a sequence.
LEMMA Prefix ==
  ASSUME NEW V, NEW s \in Seq(V), NEW k \in 0 .. Len(s)
  PROVE  LET p == [n \in 1 .. k |-> s[n]]
         IN  p \in Seq(V) /\ Len(p) = k /\ \A n \in 1 .. k : p[n] = s[n]
<1>. DEFINE p == [n \in 1 .. k |-> s[n]]
<1>1. p \in [1 .. k -> V] /\ k \in Nat
  OBVIOUS
<1>2. p \in Seq(V)
  BY <1>1, SeqDef
<1>3. Len(p) = k
  BY <1>1, <1>2, LenProperties
<1>. QED BY <1>2, <1>3

\* The values pushed so far, when tail moves over the node just completed.
LEMMA PrefixGrows ==
  ASSUME NEW V, NEW s \in Seq(V), NEW k \in Nat, Len(s) = k + 1
  PROVE  [n \in 1 .. k + 1 |-> s[n]] = Append([n \in 1 .. k |-> s[n]], s[k + 1])
<1>. DEFINE p == [n \in 1 .. k |-> s[n]]
            q == [n \in 1 .. k + 1 |-> s[n]]
<1>1. p \in Seq(V) /\ Len(p) = k /\ q \in Seq(V) /\ Len(q) = k + 1
  BY Prefix
<1>2. s[k + 1] \in V
  OBVIOUS
<1>. HIDE DEF p, q
<1>3. /\ Append(p, s[k + 1]) \in Seq(V) /\ Len(Append(p, s[k + 1])) = k + 1
      /\ \A n \in 1 .. k : Append(p, s[k + 1])[n] = p[n]
      /\ Append(p, s[k + 1])[k + 1] = s[k + 1]
  BY <1>1, <1>2, AppendProperties
<1>4. \A n \in 1 .. k + 1 : q[n] = Append(p, s[k + 1])[n]
  BY <1>3 DEF p, q
<1>5. q = Append(p, s[k + 1])
  BY <1>1, <1>3, <1>4, SeqEqual
<1>. QED BY <1>5 DEF p, q

\* Only the step that moves tail changes what has been pushed: the data that
\* a push writes lies beyond the tail.
LEMMA PutStable ==
  ASSUME IInv, tail' = tail,
         data' = data \/ \E t \in Threads : PushData(t)
  PROVE  Put' = Put
<1>1. CASE data' = data
  BY <1>1 DEF Put
<1>2. ASSUME NEW t \in Threads, PushData(t) PROVE Put' = Put
  <2>1. data \in Seq(Values) /\ value[t] \in Values /\ Len(data) = tail /\ data' = Append(data, value[t])
    BY <1>2 DEF IInv, TypeOK, OpInv, ListInv, PushData, Goto
  <2>2. \A n \in 1 .. tail : data'[n] = data[n]
    BY <2>1, AppendProperties
  <2>. QED BY <2>2 DEF Put
<1>. QED BY <1>1, <1>2

\* Each step of the queue is a step of the FIFO queue or leaves it alone.
LEMMA StepImplementsFifo ==
  ASSUME IInv, IInv', [Next]_vars
  PROVE  [Fifo!Next]_(Fifo!vars)
<1>. USE DEF IInv, TypeOK, Goto, list, locks, Done, Carried
<1>. DEFINE Same == UNCHANGED Fifo!vars
<1>1. CASE UNCHANGED vars
  BY <1>1, PutStable DEF vars, Fifo!vars
<1>2. ASSUME NEW t \in Threads, NEW v \in Values, PushCall(t, v) PROVE Fifo!Call(t, "push", v)
  <2>1. Put' = Put /\ head' = head
    BY <1>2, PutStable DEF PushCall
  <2>2. op[t] = "none" /\ op' = [op EXCEPT ![t] = "push"]
    BY <1>2 DEF PushCall, OpInv
  <2>3. Done' = Done
    BY <1>2 DEF PushCall
  <2>4. Carried' = [Carried EXCEPT ![t] = v]
    BY <1>2 DEF PushCall
  <2>. QED BY <2>1, <2>2, <2>3, <2>4 DEF Fifo!Call
<1>3. ASSUME NEW t \in Threads, NEW o \in {"try_pop", "wait_and_pop"}, PopCall(t, o)
      PROVE  Fifo!Call(t, o, NoValue)
  <2>1. Put' = Put /\ head' = head
    BY <1>3, PutStable DEF PopCall
  <2>2. op[t] = "none" /\ op' = [op EXCEPT ![t] = o]
    BY <1>3 DEF PopCall, OpInv
  <2>3. Done' = Done /\ Carried' = [Carried EXCEPT ![t] = NoValue]
    BY <1>3 DEF PopCall, OpInv
  <2>. QED BY <2>1, <2>2, <2>3 DEF Fifo!Call
<1>4. ASSUME NEW t \in Threads,
             PushLock(t) \/ PushData(t) \/ PushLink(t) \/ PopLock(t) \/ PopFindsData(t)
             \/ WaitFindsNone(t) \/ WaitSleeps(t) \/ SpuriousWakeup(t)
      PROVE  Same
  <2>. USE DEF PushLock, PushData, PushLink, PopLock, PopFindsData, WaitFindsNone, WaitSleeps,
               SpuriousWakeup
  <2>1. tail' = tail /\ head' = head /\ op' = op /\ value' = value
    BY <1>4
  <2>2. Put' = Put
    BY <1>4, <2>1, PutStable
  <2>3. Done' = Done /\ Carried' = Carried
    BY <1>4, <2>1
  <2>. QED BY <2>1, <2>2, <2>3 DEF Fifo!vars
<1>5. ASSUME NEW t \in Threads, PushAdvance(t) PROVE Fifo!Enqueue(t)
  <2>1. data \in Seq(Values) /\ Len(data) = tail + 1 /\ data[tail + 1] = value[t] /\ op[t] = "push"
    BY <1>5 DEF PushAdvance, ListInv, OpInv
  <2>2. Put' = Append(Put, value[t])
    BY <1>5, <2>1, PrefixGrows DEF PushAdvance, Put
  <2>3. Done' = Done \cup {t} /\ t \notin Done /\ Carried' = Carried /\ Carried[t] = value[t]
    BY <1>5 DEF PushAdvance
  <2>. QED BY <1>5, <2>1, <2>2, <2>3 DEF PushAdvance, Fifo!Enqueue, Fifo!TakesEffect
<1>6. ASSUME NEW t \in Threads, PushNotify(t) \/ PopReturn(t) PROVE Fifo!Return(t)
  <2>. USE DEF PushNotify, PopReturn, Asleep
  <2>1. Put' = Put /\ head' = head
    BY <1>6, PutStable
  <2>2. t \in Done /\ Done' = Done \ {t}
    BY <1>6
  <2>3. Carried' = [Carried EXCEPT ![t] = NoValue]
    BY <1>6
  <2>4. op' = [op EXCEPT ![t] = "none"]
    BY <1>6
  <2>. QED BY <2>1, <2>2, <2>3, <2>4 DEF Fifo!Return
<1>7. ASSUME NEW t \in Threads, TryPopFindsNone(t) PROVE Fifo!FindEmpty(t)
  <2>. USE DEF TryPopFindsNone
  <2>1. Put' = Put /\ head' = head /\ op' = op /\ op[t] = "try_pop"
    BY <1>7, PutStable
  <2>2. t \notin Done /\ Done' = Done \cup {t} /\ Carried' = Carried
    BY <1>7
  <2>3. Len(Put) = tail
    BY <1>7, Prefix DEF ListInv, Put
  <2>. QED BY <1>7, <2>1, <2>2, <2>3 DEF Fifo!FindEmpty, Fifo!TakesEffect
<1>8. ASSUME NEW t \in Threads, PopTake(t) PROVE Same
  <2>1. Put' = Put /\ head' = head /\ op' = op
    BY <1>8, PutStable DEF PopTake
  <2>2. Done' = Done /\ Carried' = Carried
    BY <1>8 DEF PopTake, OpInv
  <2>. QED BY <2>1, <2>2 DEF Fifo!vars
<1>9. ASSUME NEW t \in Threads, PopHead(t) PROVE Fifo!Dequeue(t)
  <2>. USE DEF PopHead
  <2>1. Put' = Put /\ head' = head + 1 /\ op' = op /\ op[t] \in {"try_pop", "wait_and_pop"}
    BY <1>9, PutStable DEF OpInv
  <2>2. t \notin Done /\ Done' = Done \cup {t}
    BY <1>9
  <2>3. head < tail /\ value[t] = data[head + 1]
    BY <1>9 DEF PopInv
  <2>4. tailMutex = NoThread \/ \E u \in Threads : pc[u] \in HoldsTail
    BY DEF MutexInv
  <2>5. tail \in 0 .. Len(data)
    BY <2>4 DEF ListInv, HoldsTail
  <2>6. Len(Put) = tail /\ Put[head + 1] = data[head + 1]
    BY <2>3, <2>5, Prefix DEF Put
  <2>7. Carried' = [Carried EXCEPT ![t] = Put[head + 1]]
    BY <1>9, <2>3, <2>6
  <2>. QED BY <2>1, <2>2, <2>3, <2>6, <2>7 DEF Fifo!Dequeue, Fifo!TakesEffect
<1>. QED BY <1>1, <1>2, <1>3, <1>4, <1>5, <1>6, <1>7, <1>8, <1>9
         DEF Next, Continue, Fifo!Next

(***************************************************************************)
(* threadsafe_queue is a linearizable first-in first-out queue: no value   *)
(* is lost, duplicated or reordered by threads that push and pop at once,  *)
(* and try_pop comes back empty only from an empty queue.                  *)
(***************************************************************************)
THEOREM QueueImplementsFifo == Spec => ImplementsFifo
<1>1. Init => Fifo!Init
  <2>. SUFFICES ASSUME Init PROVE Fifo!Init
    OBVIOUS
  <2>1. Put = << >>
    <3>1. Put \in Seq(Values) /\ Len(Put) = 0
      BY EmptySeq, Prefix DEF Init, Put
    <3>. QED BY <3>1, EmptySeq
  <2>2. Carried = [t \in Threads |-> NoValue]
    BY DEF Init, Carried
  <2>3. Done = {}
    BY DEF Init, Done
  <2>. QED BY <2>1, <2>2, <2>3 DEF Init, Fifo!Init
<1>2. IInv /\ IInv' /\ [Next]_vars => [Fifo!Next]_(Fifo!vars)
  BY StepImplementsFifo
<1>. QED BY <1>1, <1>2, Invariance, PTL DEF Spec, ImplementsFifo, Fifo!Spec

=============================================================================
