--------------------------- MODULE GraphPipeline ---------------------------
(***************************************************************************)
(* The threads of GraphGen_notSorted::GenerateGraph_in_vector.  Workers    *)
(* take squares of the adjacency matrix from rec_queue, pass the capacity  *)
(* gate, generate the edges of the square and push them to EV_queue; the   *)
(* calling thread pops as many edge vectors as there are squares, appends  *)
(* them to the result and gives their capacity back.                       *)
(*                                                                         *)
(* Both queues are threadsafe_queue: its push, its try_pop and the test of *)
(* its wait_and_pop are one action each, as ThreadsafeQueue justifies; the *)
(* wait on its condition variable keeps the gap between the test and the   *)
(* sleep.  A square is its place in rec_queue.                             *)
(***************************************************************************)
EXTENDS Naturals, Sequences, FiniteSets, FiniteSetsExt, Functions

CONSTANTS
  Workers,          \* nCPUWorkerThreads threads
  nEdges,           \* getnEdges of each square, in the order of rec_queue
  standardCapacity

ASSUME nEdgesAssumption   == nEdges \in Seq(Nat)
ASSUME CapacityAssumption == standardCapacity \in Nat

Squares == 1 .. Len(nEdges)

VARIABLES
  allowDuplicateEdges,   \* a parameter of the call
  nextRec,      \* first square still in rec_queue
  rec,          \* the square each worker is at, 0 before the first
  worker,       \* where each worker is
  accumulated,  \* of capacityGate
  EV_queue,     \* squares whose edge vector is in EV_queue
  main,         \* where the calling thread is
  poppedEV,     \* square whose edge vector it popped last, 0 before the first
  edges,        \* squares whose edges are in the result, in order
  aborted       \* a worker let an exception escape: std::terminate

vars ==
  <<allowDuplicateEdges, nextRec, rec, worker, accumulated, EV_queue, main, poppedEV, edges, aborted>>

Init ==
  /\ allowDuplicateEdges \in BOOLEAN
  /\ nextRec = 1
  /\ rec = [w \in Workers |-> 0]
  /\ worker = [w \in Workers |-> "next"]
  /\ accumulated = 0
  /\ EV_queue = << >>
  /\ main = IF Squares = {} THEN "join" ELSE "check"
  /\ poppedEV = 0
  /\ edges = << >>
  /\ aborted = FALSE

Step(w, from, to) ==
  /\ ~aborted
  /\ worker[w] = from
  /\ worker' = [worker EXCEPT ![w] = to]
  /\ UNCHANGED allowDuplicateEdges

MainStep(from, to) ==
  /\ ~aborted
  /\ main = from
  /\ main' = to
  /\ UNCHANGED allowDuplicateEdges

(***************************************************************************)
(* The workers                                                             *)
(***************************************************************************)
TryPop(w) ==
  /\ nextRec \in Squares
  /\ Step(w, "next", "accumulate")
  /\ rec' = [rec EXCEPT ![w] = nextRec]
  /\ nextRec' = nextRec + 1
  /\ UNCHANGED <<accumulated, EV_queue, main, poppedEV, edges, aborted>>

NothingToPop(w) ==
  /\ nextRec \notin Squares
  /\ Step(w, "next", "exit")
  /\ UNCHANGED <<nextRec, rec, accumulated, EV_queue, main, poppedEV, edges, aborted>>

\* Mistaken test: the capacity may be filled to the last edge.
MayFillUp(w) == accumulated + nEdges[rec[w]] <= standardCapacity

\* Test and addition are one critical section of capacity_mutex.
HasCapacity(w) == accumulated + nEdges[rec[w]] < standardCapacity

\* Mistaken form: the sum is tested but not stored.
AccumulateForgets(w) ==
  /\ Step(w, "accumulate", "fill")
  /\ HasCapacity(w)
  /\ UNCHANGED <<nextRec, rec, accumulated, EV_queue, main, poppedEV, edges, aborted>>

Accumulate(w) ==
  /\ Step(w, "accumulate", "fill")
  /\ HasCapacity(w)
  /\ accumulated' = accumulated + nEdges[rec[w]]
  /\ UNCHANGED <<nextRec, rec, EV_queue, main, poppedEV, edges, aborted>>

\* dissipate changes accumulated under the mutex the test holds: no gap here.
AccumulateWaits(w) ==
  /\ Step(w, "accumulate", "waiting")
  /\ ~HasCapacity(w)
  /\ UNCHANGED <<nextRec, rec, accumulated, EV_queue, main, poppedEV, edges, aborted>>

GateSpuriousWakeup(w) ==
  /\ Step(w, "waiting", "accumulate")
  /\ UNCHANGED <<nextRec, rec, accumulated, EV_queue, main, poppedEV, edges, aborted>>

\* Mistaken bound: a single edge is searched for duplicates, none is not.
ThrowsOnSingleEdge(w) == nEdges[rec[w]] = 1 /\ ~allowDuplicateEdges

\* The search for duplicates runs to edgeVector.size()-1: with no edge in the
\* vector that is the largest unsigned number, and at() throws.
FillThrows(w) == nEdges[rec[w]] = 0 /\ ~allowDuplicateEdges

fill_up_edge_vector(w) ==
  /\ Step(w, "fill", "push")
  /\ ~FillThrows(w)
  /\ UNCHANGED <<nextRec, rec, accumulated, EV_queue, main, poppedEV, edges, aborted>>

Terminate(w) ==
  /\ Step(w, "fill", "exit")
  /\ FillThrows(w)
  /\ aborted' = TRUE
  /\ UNCHANGED <<nextRec, rec, accumulated, EV_queue, main, poppedEV, edges>>

Push(w) ==
  /\ Step(w, "push", "notify")
  /\ EV_queue' = Append(EV_queue, rec[w])
  /\ UNCHANGED <<nextRec, rec, accumulated, main, poppedEV, edges, aborted>>

\* notify_one of the push: lost unless the calling thread sleeps already.
Notify(w) ==
  /\ Step(w, "notify", "next")
  /\ main' = IF main = "asleep" THEN "check" ELSE main
  /\ UNCHANGED <<nextRec, rec, accumulated, EV_queue, poppedEV, edges, aborted>>

(***************************************************************************)
(* The calling thread                                                      *)
(***************************************************************************)
WaitAndPop ==
  /\ MainStep("check", "write")
  /\ EV_queue # << >>
  /\ poppedEV' = Head(EV_queue)
  /\ EV_queue' = Tail(EV_queue)
  /\ UNCHANGED <<nextRec, rec, worker, accumulated, edges, aborted>>

WaitFindsNone ==
  /\ MainStep("check", "sleep")
  /\ EV_queue = << >>
  /\ UNCHANGED <<nextRec, rec, worker, accumulated, EV_queue, poppedEV, edges, aborted>>

WaitSleeps ==
  /\ MainStep("sleep", "asleep")
  /\ UNCHANGED <<nextRec, rec, worker, accumulated, EV_queue, poppedEV, edges, aborted>>

QueueSpuriousWakeup ==
  /\ MainStep("asleep", "check")
  /\ UNCHANGED <<nextRec, rec, worker, accumulated, EV_queue, poppedEV, edges, aborted>>

WriteEdges ==
  /\ MainStep("write", "dissipate")
  /\ edges' = Append(edges, poppedEV)
  /\ UNCHANGED <<nextRec, rec, worker, accumulated, EV_queue, poppedEV, aborted>>

Dissipate ==
  /\ MainStep("dissipate", "notifyAll")
  /\ accumulated' = accumulated - nEdges[poppedEV]
  /\ UNCHANGED <<nextRec, rec, worker, EV_queue, poppedEV, edges, aborted>>

\* Mistaken forms: the loop ends one vector early; nobody is notified.
LoopEndsEarly ==
  /\ MainStep("notifyAll", IF Len(edges) + 1 < Len(nEdges) THEN "check" ELSE "join")
  /\ worker' = [w \in Workers |-> IF worker[w] = "waiting" THEN "accumulate" ELSE worker[w]]
  /\ UNCHANGED <<nextRec, rec, accumulated, EV_queue, poppedEV, edges, aborted>>

NotifiesNobody ==
  /\ MainStep("notifyAll", IF Len(edges) < Len(nEdges) THEN "check" ELSE "join")
  /\ UNCHANGED <<nextRec, rec, worker, accumulated, EV_queue, poppedEV, edges, aborted>>

\* notify_all, outside of the lock, and the test of the loop over the squares.
NotifyAll ==
  /\ MainStep("notifyAll", IF Len(edges) < Len(nEdges) THEN "check" ELSE "join")
  /\ worker' = [w \in Workers |-> IF worker[w] = "waiting" THEN "accumulate" ELSE worker[w]]
  /\ UNCHANGED <<nextRec, rec, accumulated, EV_queue, poppedEV, edges, aborted>>

Join ==
  /\ MainStep("join", "returned")
  /\ \A w \in Workers : worker[w] = "exit"
  /\ UNCHANGED <<nextRec, rec, worker, accumulated, EV_queue, poppedEV, edges, aborted>>

\* The program has ended: nothing happens any more.
Ended == (aborted \/ main = "returned") /\ UNCHANGED vars

WorkerStep(w) ==
  \/ TryPop(w) \/ NothingToPop(w) \/ Accumulate(w) \/ AccumulateWaits(w)
  \/ fill_up_edge_vector(w) \/ Terminate(w) \/ Push(w) \/ Notify(w)

CallerStep ==
  \/ WaitAndPop \/ WaitFindsNone \/ WaitSleeps
  \/ WriteEdges \/ Dissipate \/ NotifyAll \/ Join

Next ==
  \/ \E w \in Workers : WorkerStep(w) \/ GateSpuriousWakeup(w)
  \/ CallerStep \/ QueueSpuriousWakeup
  \/ Ended

Spec == Init /\ [][Next]_vars

\* Threads run; no wait may count on a spurious wakeup.
FairSpec == Spec /\ WF_vars(CallerStep) /\ \A w \in Workers : WF_vars(WorkerStep(w))

-----------------------------------------------------------------------------
TypeOK ==
  /\ allowDuplicateEdges \in BOOLEAN
  /\ nextRec \in 1 .. Len(nEdges) + 1
  /\ rec \in [Workers -> Squares \cup {0}]
  /\ worker \in [Workers ->
       {"next", "accumulate", "waiting", "fill", "push", "notify", "exit"}]
  /\ accumulated \in Nat
  /\ EV_queue \in Seq(Squares)
  /\ main \in {"check", "sleep", "asleep", "write", "dissipate", "notifyAll", "join", "returned"}
  /\ poppedEV \in Squares \cup {0}
  /\ edges \in Seq(Squares)
  /\ aborted \in BOOLEAN

\* Squares whose capacity has been taken and not given back.
InFlight ==
  {rec[w] : w \in {u \in Workers : worker[u] \in {"fill", "push"}}}
    \cup Range(EV_queue)
    \cup (IF main \in {"write", "dissipate"} THEN {poppedEV} ELSE {})

(***************************************************************************)
(* capacityGate bounds memory: what it has let through is exactly the      *)
(* edges generated, being generated or queued that the caller has not      *)
(* disposed of yet, and they are fewer than standardCapacity.              *)
(***************************************************************************)
GateBoundsMemory ==
  ~aborted => /\ accumulated = MapThenSumSet(LAMBDA s : nEdges[s], InFlight)
              /\ InFlight # {} => accumulated < standardCapacity

(***************************************************************************)
(* However the threads interleave, the result receives the edges of every  *)
(* square once, and the caller returns only with all of them.              *)
(***************************************************************************)
Source == INSTANCE GraphSource WITH written <- edges, returned <- main = "returned"

ImplementsSource == Source!Spec

(***************************************************************************)
(* A square without edges ends the program when duplicates are not         *)
(* allowed: the caller never gets a graph.                                 *)
(***************************************************************************)
EmptySquareAborts ==
  (\E s \in Squares : nEdges[s] = 0) /\ ~allowDuplicateEdges => main # "returned"

\* The caller sleeps although there is a vector for it, and every worker has
\* left or needs the capacity the caller would give back.
Stranded ==
  /\ main = "asleep"
  /\ EV_queue # << >>
  /\ \A w \in Workers :
       \/ worker[w] = "exit"
       \/ worker[w] \in {"accumulate", "waiting"} /\ ~HasCapacity(w)

(***************************************************************************)
(* Neither the gate nor the queues stop the generator, but for one case,   *)
(* if every square is smaller than the capacity: the notification of the   *)
(* last push before all workers have left or wait for capacity fell        *)
(* between the caller's test and its sleep.  A square as large as the      *)
(* capacity stops it at the gate as well (AccumulateAdds).                 *)
(***************************************************************************)
EndsUnlessStranded == <>(main = "returned" \/ aborted) \/ <>[]Stranded

(***************************************************************************)
(* accumulate adds to the capacity: no worker waits at the gate for ever.  *)
(***************************************************************************)
AccumulateAdds == \A w \in Workers : worker[w] = "accumulate" ~> worker[w] = "fill"

=============================================================================
