----------------------------- MODULE FifoQueue -----------------------------
(***************************************************************************)
(* What threadsafe_queue promises: push, try_pop and wait_and_pop of many  *)
(* threads behave as if each took effect at once, at some moment between   *)
(* its call and its return, on a first-in first-out queue.  Only try_pop   *)
(* may come back empty-handed, and only when the queue is empty.           *)
(***************************************************************************)
EXTENDS Naturals, Sequences

CONSTANTS
  Threads,   \* the threads that share the queue
  Values,    \* the values pushed, each one at most once
  NoValue    \* no value yet, or none popped

VARIABLES
  put,     \* the values pushed so far, in the order they took effect
  taken,   \* how many of them have been popped
  op,      \* the operation each thread is in
  done,    \* the threads whose operation has taken effect
  value    \* the value it pushes, or has popped

vars == <<put, taken, op, done, value>>

Init ==
  /\ put = << >>
  /\ taken = 0
  /\ op = [t \in Threads |-> "none"]
  /\ done = {}
  /\ value = [t \in Threads |-> NoValue]

Call(t, o, v) ==
  /\ op[t] = "none"
  /\ op' = [op EXCEPT ![t] = o]
  /\ value' = [value EXCEPT ![t] = v]
  /\ UNCHANGED <<put, taken, done>>

TakesEffect(t) ==
  /\ op[t] # "none"
  /\ t \notin done
  /\ done' = done \cup {t}
  /\ UNCHANGED op

Enqueue(t) ==
  /\ op[t] = "push"
  /\ TakesEffect(t)
  /\ put' = Append(put, value[t])
  /\ UNCHANGED <<taken, value>>

Dequeue(t) ==
  /\ op[t] \in {"try_pop", "wait_and_pop"}
  /\ TakesEffect(t)
  /\ taken < Len(put)
  /\ taken' = taken + 1
  /\ value' = [value EXCEPT ![t] = put[taken + 1]]
  /\ UNCHANGED put

FindEmpty(t) ==
  /\ op[t] = "try_pop"
  /\ TakesEffect(t)
  /\ taken = Len(put)
  /\ UNCHANGED <<put, taken, value>>

Return(t) ==
  /\ t \in done
  /\ done' = done \ {t}
  /\ op' = [op EXCEPT ![t] = "none"]
  /\ value' = [value EXCEPT ![t] = NoValue]
  /\ UNCHANGED <<put, taken>>

Next ==
  \E t \in Threads :
    \/ \E v \in Values : Call(t, "push", v)
    \/ \E o \in {"try_pop", "wait_and_pop"} : Call(t, o, NoValue)
    \/ Enqueue(t) \/ Dequeue(t) \/ FindEmpty(t)
    \/ Return(t)

Spec == Init /\ [][Next]_vars

=============================================================================
