-------------------------- MODULE ThreadsafeQueue --------------------------
(***************************************************************************)
(* threadsafe_queue of Dependencies/threadsafe_queue.hpp: a linked list of *)
(* nodes whose last node is a dummy, one mutex for each end, and a         *)
(* condition variable on which wait_and_pop waits for data.  One action    *)
(* per access to shared memory; an action that acquires a mutex is enabled *)
(* when the mutex is free.                                                 *)
(*                                                                         *)
(* A node is named by its place in the list, the first dummy being 0, and  *)
(* every value is pushed at most once, which bounds the runs.              *)
(***************************************************************************)
EXTENDS Naturals, Sequences

CONSTANTS
  Threads,   \* the threads that share the queue
  Values,    \* the values pushed, each one at most once
  NoValue,   \* a null shared_ptr, or no value popped
  NoThread   \* the owner of a free mutex

ASSUME NoValueAssumption  == NoValue \notin Values
ASSUME NoThreadAssumption == NoThread \notin Threads

VARIABLES
  head,       \* place of the head node
  tail,       \* place of the tail node, the dummy
  data,       \* data pointers of the nodes: data[n + 1] belongs to node n
  links,      \* next pointers set: those of nodes 0 .. links - 1
  headMutex,  \* owner of head_mutex
  tailMutex,  \* owner of tail_mutex
  op,         \* the operation each thread is in
  pc,         \* where it is in that operation
  value,      \* new_value of a push, value of a pop
  unpushed    \* values no thread has pushed yet

list  == <<head, tail, data, links>>
locks == <<headMutex, tailMutex>>
vars  == <<head, tail, data, links, headMutex, tailMutex, op, pc, value, unpushed>>

Ops   == {"push", "try_pop", "wait_and_pop"}
Steps == {"idle", "push", "data", "link", "advance", "notify",
          "lock", "check", "sleep", "asleep", "take", "pop", "return"}

Asleep == {t \in Threads : pc[t] = "asleep"}

Init ==
  /\ head = 0
  /\ tail = 0
  /\ data = << >>
  /\ links = 0
  /\ headMutex = NoThread
  /\ tailMutex = NoThread
  /\ op = [t \in Threads |-> "none"]
  /\ pc = [t \in Threads |-> "idle"]
  /\ value = [t \in Threads |-> NoValue]
  /\ unpushed = Values

Goto(t, from, to) ==
  /\ pc[t] = from
  /\ pc' = [pc EXCEPT ![t] = to]

(***************************************************************************)
(* push                                                                    *)
(***************************************************************************)

\* new_data and the new dummy node are made before the lock is taken.
PushCall(t, v) ==
  /\ Goto(t, "idle", "push")
  /\ v \in unpushed
  /\ unpushed' = unpushed \ {v}
  /\ op' = [op EXCEPT ![t] = "push"]
  /\ value' = [value EXCEPT ![t] = v]
  /\ UNCHANGED <<list, locks>>

\* Mistaken forms: new_value is moved from before it is stored; no lock is taken.
PushMovesTwice(t) ==
  /\ Goto(t, "push", "data")
  /\ tailMutex = NoThread
  /\ tailMutex' = t
  /\ value' = [value EXCEPT ![t] = NoValue]
  /\ UNCHANGED <<list, headMutex, op, unpushed>>

PushUnlocked(t) ==
  /\ Goto(t, "push", "data")
  /\ UNCHANGED <<list, locks, op, value, unpushed>>

PushLock(t) ==
  /\ Goto(t, "push", "data")
  /\ tailMutex = NoThread
  /\ tailMutex' = t
  /\ UNCHANGED <<list, headMutex, op, value, unpushed>>

\* tail->data = new_data: node tail is the one place after the data set so far.
PushData(t) ==
  /\ Goto(t, "data", "link")
  /\ data' = Append(data, value[t])
  /\ UNCHANGED <<head, tail, links, locks, op, value, unpushed>>

\* tail->next = std::move(p)
PushLink(t) ==
  /\ Goto(t, "link", "advance")
  /\ links' = tail + 1
  /\ UNCHANGED <<head, tail, data, locks, op, value, unpushed>>

\* tail = new_tail, and tail_mutex is released at the end of the block.
PushAdvance(t) ==
  /\ Goto(t, "advance", "notify")
  /\ tail' = tail + 1
  /\ tailMutex' = NoThread
  /\ UNCHANGED <<head, data, links, headMutex, op, value, unpushed>>

\* notify_one, outside of both locks: wakes one thread that sleeps now, if
\* any.  The woken thread has to get head_mutex back before it checks again.
PushNotify(t) ==
  /\ pc[t] = "notify"
  /\ \/ Asleep = {} /\ pc' = [pc EXCEPT ![t] = "idle"]
     \/ \E u \in Asleep : pc' = [pc EXCEPT ![t] = "idle", ![u] = "lock"]
  /\ op' = [op EXCEPT ![t] = "none"]
  /\ value' = [value EXCEPT ![t] = NoValue]
  /\ UNCHANGED <<list, locks, unpushed>>

(***************************************************************************)
(* try_pop and wait_and_pop                                                *)
(***************************************************************************)
PopCall(t, o) ==
  /\ Goto(t, "idle", "lock")
  /\ op' = [op EXCEPT ![t] = o]
  /\ UNCHANGED <<list, locks, value, unpushed>>

\* Mistaken form: head_mutex is not taken.
PopUnlocked(t) ==
  /\ Goto(t, "lock", "check")
  /\ UNCHANGED <<list, locks, op, value, unpushed>>

PopLock(t) ==
  /\ Goto(t, "lock", "check")
  /\ headMutex = NoThread
  /\ headMutex' = t
  /\ UNCHANGED <<list, tailMutex, op, value, unpushed>>

\* head.get() != get_tail(), which takes and releases tail_mutex.
PopFindsData(t) ==
  /\ Goto(t, "check", "take")
  /\ tailMutex = NoThread
  /\ head # tail
  /\ UNCHANGED <<list, locks, op, value, unpushed>>

TryPopFindsNone(t) ==
  /\ op[t] = "try_pop"
  /\ Goto(t, "check", "return")
  /\ tailMutex = NoThread
  /\ head = tail
  /\ headMutex' = NoThread
  /\ UNCHANGED <<list, tailMutex, op, value, unpushed>>

\* The predicate of data_cond.wait is false, head_mutex is still held ...
WaitFindsNone(t) ==
  /\ op[t] = "wait_and_pop"
  /\ Goto(t, "check", "sleep")
  /\ tailMutex = NoThread
  /\ head = tail
  /\ UNCHANGED <<list, locks, op, value, unpushed>>

\* ... until the thread blocks, which releases it.
WaitSleeps(t) ==
  /\ Goto(t, "sleep", "asleep")
  /\ headMutex' = NoThread
  /\ UNCHANGED <<list, tailMutex, op, value, unpushed>>

SpuriousWakeup(t) ==
  /\ Goto(t, "asleep", "lock")
  /\ UNCHANGED <<list, locks, op, value, unpushed>>

\* value = std::move(*head->data)
PopTake(t) ==
  /\ Goto(t, "take", "pop")
  /\ value' = [value EXCEPT ![t] = data[head + 1]]
  /\ UNCHANGED <<list, locks, op, unpushed>>

\* head = old_head->next; the lock is released on return.
PopHead(t) ==
  /\ Goto(t, "pop", "return")
  /\ head' = head + 1
  /\ headMutex' = NoThread
  /\ UNCHANGED <<tail, data, links, tailMutex, op, value, unpushed>>

PopReturn(t) ==
  /\ Goto(t, "return", "idle")
  /\ op' = [op EXCEPT ![t] = "none"]
  /\ value' = [value EXCEPT ![t] = NoValue]
  /\ UNCHANGED <<list, locks, unpushed>>

\* The steps a thread takes by itself once it is in an operation.
Continue(t) ==
  \/ PushLock(t) \/ PushData(t) \/ PushLink(t) \/ PushAdvance(t) \/ PushNotify(t)
  \/ PopLock(t) \/ PopFindsData(t) \/ TryPopFindsNone(t) \/ WaitFindsNone(t)
  \/ WaitSleeps(t) \/ PopTake(t) \/ PopHead(t) \/ PopReturn(t)

Next ==
  \E t \in Threads :
    \/ \E v \in Values : PushCall(t, v)
    \/ \E o \in {"try_pop", "wait_and_pop"} : PopCall(t, o)
    \/ Continue(t)
    \/ SpuriousWakeup(t)

Spec == Init /\ [][Next]_vars

\* A thread that can go on does; nothing makes a thread call an operation,
\* and no sleeper may count on a spurious wakeup.
FairSpec == Spec /\ \A t \in Threads : WF_vars(Continue(t))

-----------------------------------------------------------------------------
TypeOK ==
  /\ head \in Nat /\ tail \in Nat /\ links \in Nat
  /\ data \in Seq(Values)
  /\ headMutex \in Threads \cup {NoThread}
  /\ tailMutex \in Threads \cup {NoThread}
  /\ op \in [Threads -> Ops \cup {"none"}]
  /\ pc \in [Threads -> Steps]
  /\ value \in [Threads -> Values \cup {NoValue}]
  /\ unpushed \subseteq Values

(***************************************************************************)
(* The two ends never touch the same node at once, although push holds     *)
(* only tail_mutex and a pop only head_mutex: the node whose data and next *)
(* a pop is about to read is never the dummy whose data and next a push is *)
(* about to write, and both have been set.                                 *)
(***************************************************************************)
EndsApart ==
  \A t \in Threads : pc[t] \in {"take", "pop"} =>
    head < tail /\ head < Len(data) /\ head < links

(***************************************************************************)
(* The queue is linearizable: push takes effect when it moves tail, a pop  *)
(* when it moves head, and a try_pop that finds nothing when it compares   *)
(* the two.                                                                *)
(***************************************************************************)
Put     == [n \in 1 .. tail |-> data[n]]
Done    == {t \in Threads : pc[t] \in {"notify", "return"}}
Carried == [t \in Threads |-> IF pc[t] = "pop" THEN NoValue ELSE value[t]]

Fifo == INSTANCE FifoQueue WITH put <- Put, taken <- head, done <- Done, value <- Carried

ImplementsFifo == Fifo!Spec

(***************************************************************************)
(* wait_and_pop waits only while there is no data: a thread does not sleep *)
(* for ever on data_cond with a value in the queue.                        *)
(***************************************************************************)
SleeperIsWoken ==
  \A t \in Threads : pc[t] = "asleep" /\ head # tail ~> pc[t] # "asleep" \/ head = tail

=============================================================================
