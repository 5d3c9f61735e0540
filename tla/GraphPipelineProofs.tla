------------------------ MODULE GraphPipelineProofs ------------------------
(***************************************************************************)
(* GenerateGraph_in_vector neither loses nor repeats a square, and its     *)
(* capacity gate accounts for every edge in memory, for any number of      *)
(* worker threads, any squares and any capacity.                           *)
(***************************************************************************)
EXTENDS GraphPipeline, DataProofs

\* Squares a worker has taken from rec_queue, and workers that have taken one
\* and not handed its edges over yet.
Taken == 1 .. nextRec - 1
Busy(w) == worker[w] \in {"accumulate", "waiting", "fill", "push"}
Popped  == main \in {"write", "dissipate"}

\* Every square is in one place only: not taken yet, with one worker, in
\* EV_queue, in the hands of the caller, or in the result.
PlaceInv ==
  /\ IsInjective(EV_queue) /\ IsInjective(edges)
  /\ Range(EV_queue) \cap Range(edges) = {}
  /\ Range(EV_queue) \cup Range(edges) \subseteq Taken
  /\ \A w \in Workers : Busy(w) =>
       rec[w] \in Taken \ (Range(EV_queue) \cup Range(edges))
  /\ \A u, w \in Workers : Busy(u) /\ Busy(w) /\ rec[u] = rec[w] => u = w
  /\ Popped => /\ poppedEV \in Taken \ Range(EV_queue)
               /\ \A w \in Workers : Busy(w) => rec[w] # poppedEV
  /\ main = "write" => poppedEV \notin Range(edges)

\* The loop over the squares ends after as many edge vectors.
LoopInv == main \in {"join", "returned"} => Len(edges) >= Len(nEdges)

\* A square without edges does not get past the search for duplicates.
EmptySquareInv ==
  \A s \in Squares : nEdges[s] = 0 /\ ~allowDuplicateEdges =>
    /\ s \notin Range(EV_queue) \cup Range(edges)
    /\ Popped => poppedEV # s
    /\ \A w \in Workers : worker[w] = "push" => rec[w] # s

IInv == TypeOK /\ PlaceInv /\ LoopInv /\ EmptySquareInv /\ GateBoundsMemory

-----------------------------------------------------------------------------
\* What the constants are.
LEMMA SquaresFacts ==
  /\ Len(nEdges) \in Nat /\ IsFiniteSet(Squares)
  /\ \A s \in Squares : s \in Nat \ {0} /\ nEdges[s] \in Nat
<1>1. Len(nEdges) \in Nat /\ nEdges \in [1 .. Len(nEdges) -> Nat]
  BY nEdgesAssumption, LenProperties
<1>2. 1 \in Int /\ Len(nEdges) \in Int
  BY <1>1
<1>3. IsFiniteSet(Squares)
  BY <1>2, FS_Interval DEF Squares
<1>. QED BY <1>1, <1>3 DEF Squares

\* The capacity that has been taken, as a sum with laws.
LEMMA GateIsSum ==
  GateBoundsMemory <=>
    (~aborted => /\ accumulated = Sum(nEdges, InFlight)
                 /\ InFlight # {} => accumulated < standardCapacity)
BY DEF GateBoundsMemory, Sum

\* The same after a step.
LEMMA GateIsSumAfter ==
  GateBoundsMemory' <=>
    (~aborted' => /\ accumulated' = Sum(nEdges, InFlight')
                  /\ InFlight' # {} => accumulated' < standardCapacity)
BY DEF GateBoundsMemory, Sum, MapThenSumSet, MapThenFoldSet

\* What holds capacity is a finite set of squares.
LEMMA InFlightFinite ==
  ASSUME TypeOK, PlaceInv
  PROVE  /\ InFlight \in SUBSET Squares /\ IsFiniteSet(InFlight)
         /\ \A s \in InFlight : nEdges[s] \in Nat
<1>1. Range(EV_queue) \in SUBSET Squares
  BY SquaresFacts, RangeFinite DEF TypeOK, Squares
<1>2. \A w \in Workers : Busy(w) => rec[w] \in Squares
  BY SquaresFacts DEF TypeOK, PlaceInv, Taken, Squares
<1>3. Popped => poppedEV \in Squares
  BY SquaresFacts DEF TypeOK, PlaceInv, Taken, Squares
<1>4. InFlight \in SUBSET Squares
  BY <1>1, <1>2, <1>3 DEF InFlight, Busy, Popped
<1>. QED BY <1>4, SquaresFacts, FS_Subset

LEMMA InitIInv == Init => IInv
<1>. SUFFICES ASSUME Init PROVE IInv
  OBVIOUS
<1>1. TypeOK
  <2>1. EV_queue \in Seq(Squares) /\ edges \in Seq(Squares)
    BY EmptySeq DEF Init
  <2>2. nextRec \in 1 .. Len(nEdges) + 1
    BY SquaresFacts DEF Init
  <2>. QED BY <2>1, <2>2 DEF Init, TypeOK
<1>2. PlaceInv
  BY EmptyFacts DEF Init, PlaceInv, Busy, Popped
<1>3. LoopInv
  BY SquaresFacts, EmptySeq DEF Init, LoopInv, Squares
<1>4. EmptySquareInv
  BY EmptyFacts DEF Init, EmptySquareInv, Popped
<1>5. InFlight = {}
  BY EmptyFacts DEF Init, InFlight
<1>6. GateBoundsMemory
  BY <1>5, GateIsSum, SumLaws, FS_EmptySet DEF Init
<1>. QED BY <1>1, <1>2, <1>3, <1>4, <1>6 DEF IInv

\* Every step keeps the types.
LEMMA StepKeepsType ==
  ASSUME IInv, [Next]_vars
  PROVE  TypeOK'
<1>. USE DEF IInv, TypeOK, Step, MainStep
<1>1. CASE UNCHANGED vars
  BY <1>1 DEF vars
<1>2. ASSUME NEW w \in Workers, TryPop(w) PROVE TypeOK'
  BY <1>2, SquaresFacts DEF TryPop, Squares
<1>3. ASSUME NEW w \in Workers, NothingToPop(w) PROVE TypeOK'
  BY <1>3 DEF NothingToPop
<1>4. ASSUME NEW w \in Workers, Accumulate(w) PROVE TypeOK'
  <2>1. rec[w] \in Squares
    BY <1>4, SquaresFacts DEF Accumulate, PlaceInv, Busy, Taken, Squares
  <2>2. accumulated' \in Nat
    BY <1>4, <2>1, SquaresFacts DEF Accumulate
  <2>. QED BY <1>4, <2>2 DEF Accumulate
<1>5. ASSUME NEW w \in Workers, AccumulateWaits(w) PROVE TypeOK'
  BY <1>5 DEF AccumulateWaits
<1>6. ASSUME NEW w \in Workers, fill_up_edge_vector(w) PROVE TypeOK'
  BY <1>6 DEF fill_up_edge_vector
<1>7. ASSUME NEW w \in Workers, Terminate(w) PROVE TypeOK'
  BY <1>7 DEF Terminate
<1>8. ASSUME NEW w \in Workers, Push(w) PROVE TypeOK'
  <2>1. rec[w] \in Squares
    BY <1>8, SquaresFacts DEF Push, PlaceInv, Busy, Taken, Squares
  <2>2. EV_queue' \in Seq(Squares)
    BY <1>8, <2>1, AppendFacts DEF Push
  <2>. QED BY <1>8, <2>2 DEF Push
<1>9. ASSUME NEW w \in Workers, Notify(w) PROVE TypeOK'
  BY <1>9 DEF Notify
<1>10. ASSUME NEW w \in Workers, GateSpuriousWakeup(w) PROVE TypeOK'
  BY <1>10 DEF GateSpuriousWakeup
<1>11. CASE WaitAndPop
  <2>1. EV_queue' \in Seq(Squares) /\ poppedEV' \in Squares
    BY <1>11, TailFacts DEF WaitAndPop
  <2>. QED BY <1>11, <2>1 DEF WaitAndPop
<1>12. CASE WaitFindsNone
  BY <1>12 DEF WaitFindsNone
<1>13. CASE WaitSleeps
  BY <1>13 DEF WaitSleeps
<1>14. CASE WriteEdges
  <2>1. poppedEV \in Squares
    BY <1>14, SquaresFacts DEF WriteEdges, PlaceInv, Popped, Taken, Squares
  <2>2. edges' \in Seq(Squares)
    BY <1>14, <2>1, AppendFacts DEF WriteEdges
  <2>. QED BY <1>14, <2>2 DEF WriteEdges
<1>15. CASE Dissipate
  <2>1. ~aborted /\ poppedEV \in InFlight
    BY <1>15 DEF Dissipate, InFlight
  <2>2. accumulated = Sum(nEdges, InFlight \ {poppedEV}) + nEdges[poppedEV]
    BY <2>1, InFlightFinite, GateIsSum, SumLaws
  <2>3. Sum(nEdges, InFlight \ {poppedEV}) \in Nat
    BY InFlightFinite, FS_RemoveElement, SumLaws
  <2>4. accumulated' \in Nat
    BY <1>15, <2>1, <2>2, <2>3, InFlightFinite DEF Dissipate
  <2>. QED BY <1>15, <2>4 DEF Dissipate
<1>16. CASE NotifyAll
  BY <1>16 DEF NotifyAll
<1>17. CASE Join
  BY <1>17 DEF Join
<1>18. CASE QueueSpuriousWakeup
  BY <1>18 DEF QueueSpuriousWakeup
<1>. QED BY <1>1, <1>2, <1>3, <1>4, <1>5, <1>6, <1>7, <1>8, <1>9, <1>10, <1>11, <1>12, <1>13, <1>14, <1>15, <1>16, <1>17, <1>18
         DEF Next, WorkerStep, CallerStep, Ended

\* A square that moves leaves the place it was in.
LEMMA StepKeepsPlace ==
  ASSUME IInv, TypeOK', [Next]_vars
  PROVE  PlaceInv'
<1>. USE DEF IInv, TypeOK, PlaceInv, Step, MainStep, Busy, Popped, Taken
<1>1. CASE UNCHANGED vars
  BY <1>1 DEF vars
<1>2. ASSUME NEW w \in Workers, TryPop(w) PROVE PlaceInv'
  BY <1>2 DEF TryPop
<1>3. ASSUME NEW w \in Workers, NothingToPop(w) PROVE PlaceInv'
  BY <1>3 DEF NothingToPop
<1>4. ASSUME NEW w \in Workers, Accumulate(w) PROVE PlaceInv'
  BY <1>4 DEF Accumulate
<1>5. ASSUME NEW w \in Workers, AccumulateWaits(w) PROVE PlaceInv'
  BY <1>5 DEF AccumulateWaits
<1>6. ASSUME NEW w \in Workers, fill_up_edge_vector(w) PROVE PlaceInv'
  BY <1>6 DEF fill_up_edge_vector
<1>7. ASSUME NEW w \in Workers, Terminate(w) PROVE PlaceInv'
  BY <1>7 DEF Terminate
<1>8. ASSUME NEW w \in Workers, Push(w) PROVE PlaceInv'
  <2>1. rec[w] \in Squares
    BY <1>8, SquaresFacts DEF Push, Squares
  <2>2. Range(EV_queue') = Range(EV_queue) \cup {rec[w]} /\ IsInjective(EV_queue')
    BY <1>8, <2>1, AppendFacts DEF Push
  <2>. QED BY <1>8, <2>2 DEF Push
<1>9. ASSUME NEW w \in Workers, Notify(w) PROVE PlaceInv'
  BY <1>9 DEF Notify
<1>10. ASSUME NEW w \in Workers, GateSpuriousWakeup(w) PROVE PlaceInv'
  BY <1>10 DEF GateSpuriousWakeup
<1>11. CASE WaitAndPop
  <2>1. /\ Range(EV_queue) = Range(EV_queue') \cup {poppedEV'}
        /\ poppedEV' \notin Range(EV_queue') /\ IsInjective(EV_queue')
    BY <1>11, TailFacts DEF WaitAndPop
  <2>. QED BY <1>11, <2>1 DEF WaitAndPop
<1>12. CASE WaitFindsNone
  BY <1>12 DEF WaitFindsNone
<1>13. CASE WaitSleeps
  BY <1>13 DEF WaitSleeps
<1>14. CASE WriteEdges
  <2>1. poppedEV \in Squares
    BY <1>14, SquaresFacts DEF WriteEdges, Squares
  <2>2. Range(edges') = Range(edges) \cup {poppedEV} /\ IsInjective(edges')
    BY <1>14, <2>1, AppendFacts DEF WriteEdges
  <2>. QED BY <1>14, <2>2 DEF WriteEdges
<1>15. CASE Dissipate
  BY <1>15 DEF Dissipate
<1>16. CASE NotifyAll
  BY <1>16 DEF NotifyAll
<1>17. CASE Join
  BY <1>17 DEF Join
<1>18. CASE QueueSpuriousWakeup
  BY <1>18 DEF QueueSpuriousWakeup
<1>. QED BY <1>1, <1>2, <1>3, <1>4, <1>5, <1>6, <1>7, <1>8, <1>9, <1>10, <1>11, <1>12, <1>13, <1>14, <1>15, <1>16, <1>17, <1>18
         DEF Next, WorkerStep, CallerStep, Ended

\* The loop over the squares counts the edge vectors it has written.
LEMMA StepKeepsLoop ==
  ASSUME IInv, TypeOK', [Next]_vars
  PROVE  LoopInv'
<1>. USE DEF IInv, TypeOK, LoopInv, Step, MainStep
<1>1. CASE UNCHANGED vars
  BY <1>1 DEF vars
<1>2. ASSUME NEW w \in Workers, TryPop(w) PROVE LoopInv'
  BY <1>2 DEF TryPop
<1>3. ASSUME NEW w \in Workers, NothingToPop(w) PROVE LoopInv'
  BY <1>3 DEF NothingToPop
<1>4. ASSUME NEW w \in Workers, Accumulate(w) PROVE LoopInv'
  BY <1>4 DEF Accumulate
<1>5. ASSUME NEW w \in Workers, AccumulateWaits(w) PROVE LoopInv'
  BY <1>5 DEF AccumulateWaits
<1>6. ASSUME NEW w \in Workers, fill_up_edge_vector(w) PROVE LoopInv'
  BY <1>6 DEF fill_up_edge_vector
<1>7. ASSUME NEW w \in Workers, Terminate(w) PROVE LoopInv'
  BY <1>7 DEF Terminate
<1>8. ASSUME NEW w \in Workers, Push(w) PROVE LoopInv'
  BY <1>8 DEF Push
<1>9. ASSUME NEW w \in Workers, Notify(w) PROVE LoopInv'
  BY <1>9 DEF Notify
<1>10. ASSUME NEW w \in Workers, GateSpuriousWakeup(w) PROVE LoopInv'
  BY <1>10 DEF GateSpuriousWakeup
<1>11. CASE WaitAndPop
  BY <1>11 DEF WaitAndPop
<1>12. CASE WaitFindsNone
  BY <1>12 DEF WaitFindsNone
<1>13. CASE WaitSleeps
  BY <1>13 DEF WaitSleeps
<1>14. CASE WriteEdges
  BY <1>14 DEF WriteEdges
<1>15. CASE Dissipate
  BY <1>15 DEF Dissipate
<1>16. CASE NotifyAll
  BY <1>16 DEF NotifyAll
<1>17. CASE Join
  BY <1>17 DEF Join
<1>18. CASE QueueSpuriousWakeup
  BY <1>18 DEF QueueSpuriousWakeup
<1>. QED BY <1>1, <1>2, <1>3, <1>4, <1>5, <1>6, <1>7, <1>8, <1>9, <1>10, <1>11, <1>12, <1>13, <1>14, <1>15, <1>16, <1>17, <1>18
         DEF Next, WorkerStep, CallerStep, Ended

\* The search for duplicates stops a square without edges before the push.
LEMMA StepKeepsEmptySquare ==
  ASSUME IInv, TypeOK', [Next]_vars
  PROVE  EmptySquareInv'
<1>. USE DEF IInv, TypeOK, EmptySquareInv, Step, MainStep, Popped
<1>1. CASE UNCHANGED vars
  BY <1>1 DEF vars
<1>2. ASSUME NEW w \in Workers, TryPop(w) PROVE EmptySquareInv'
  BY <1>2 DEF TryPop
<1>3. ASSUME NEW w \in Workers, NothingToPop(w) PROVE EmptySquareInv'
  BY <1>3 DEF NothingToPop
<1>4. ASSUME NEW w \in Workers, Accumulate(w) PROVE EmptySquareInv'
  BY <1>4 DEF Accumulate
<1>5. ASSUME NEW w \in Workers, AccumulateWaits(w) PROVE EmptySquareInv'
  BY <1>5 DEF AccumulateWaits
<1>6. ASSUME NEW w \in Workers, fill_up_edge_vector(w) PROVE EmptySquareInv'
  BY <1>6 DEF fill_up_edge_vector, FillThrows
<1>7. ASSUME NEW w \in Workers, Terminate(w) PROVE EmptySquareInv'
  BY <1>7 DEF Terminate
<1>8. ASSUME NEW w \in Workers, Push(w) PROVE EmptySquareInv'
  <2>1. rec[w] \in Squares
    BY <1>8, SquaresFacts DEF Push, PlaceInv, Busy, Taken, Squares
  <2>2. Range(EV_queue') = Range(EV_queue) \cup {rec[w]}
    BY <1>8, <2>1, AppendFacts DEF Push
  <2>. QED BY <1>8, <2>2 DEF Push
<1>9. ASSUME NEW w \in Workers, Notify(w) PROVE EmptySquareInv'
  BY <1>9 DEF Notify
<1>10. ASSUME NEW w \in Workers, GateSpuriousWakeup(w) PROVE EmptySquareInv'
  BY <1>10 DEF GateSpuriousWakeup
<1>11. CASE WaitAndPop
  <2>1. Range(EV_queue) = Range(EV_queue') \cup {poppedEV'}
    BY <1>11, TailFacts DEF WaitAndPop
  <2>. QED BY <1>11, <2>1 DEF WaitAndPop
<1>12. CASE WaitFindsNone
  BY <1>12 DEF WaitFindsNone
<1>13. CASE WaitSleeps
  BY <1>13 DEF WaitSleeps
<1>14. CASE WriteEdges
  <2>1. poppedEV \in Squares
    BY <1>14, SquaresFacts DEF WriteEdges, PlaceInv, Popped, Taken, Squares
  <2>2. Range(edges') = Range(edges) \cup {poppedEV}
    BY <1>14, <2>1, AppendFacts DEF WriteEdges
  <2>. QED BY <1>14, <2>2 DEF WriteEdges
<1>15. CASE Dissipate
  BY <1>15 DEF Dissipate
<1>16. CASE NotifyAll
  BY <1>16 DEF NotifyAll
<1>17. CASE Join
  BY <1>17 DEF Join
<1>18. CASE QueueSpuriousWakeup
  BY <1>18 DEF QueueSpuriousWakeup
<1>. QED BY <1>1, <1>2, <1>3, <1>4, <1>5, <1>6, <1>7, <1>8, <1>9, <1>10, <1>11, <1>12, <1>13, <1>14, <1>15, <1>16, <1>17, <1>18
         DEF Next, WorkerStep, CallerStep, Ended

\* A step after which the same squares hold the same capacity.
LEMMA SameGate ==
  ASSUME GateBoundsMemory, InFlight' = InFlight, accumulated' = accumulated,
         aborted' = aborted
  PROVE  GateBoundsMemory'
BY GateIsSum, GateIsSumAfter

\* Capacity is taken for a square that had none, and given back once.
LEMMA StepKeepsGate ==
  ASSUME IInv, [Next]_vars
  PROVE  GateBoundsMemory'
<1>. USE DEF IInv, TypeOK, PlaceInv, Step, MainStep, Busy, Popped
<1>1. CASE UNCHANGED vars
  BY <1>1, SameGate DEF vars, InFlight
<1>2. ASSUME NEW w \in Workers, TryPop(w) PROVE GateBoundsMemory'
  <2>1. InFlight' = InFlight
    BY <1>2 DEF TryPop, InFlight
  <2>. QED BY <1>2, <2>1, SameGate DEF TryPop
<1>3. ASSUME NEW w \in Workers, NothingToPop(w) PROVE GateBoundsMemory'
  <2>1. InFlight' = InFlight
    BY <1>3 DEF NothingToPop, InFlight
  <2>. QED BY <1>3, <2>1, SameGate DEF NothingToPop
<1>4. ASSUME NEW w \in Workers, Accumulate(w) PROVE GateBoundsMemory'
  <2>1. InFlight' = InFlight \cup {rec[w]}
    BY <1>4 DEF Accumulate, InFlight
  <2>2. rec[w] \notin InFlight
    BY <1>4 DEF Accumulate, InFlight
  <2>3. rec[w] \in Squares
    BY <1>4, SquaresFacts DEF Accumulate, Taken, Squares
  <2>4. Sum(nEdges, InFlight \cup {rec[w]}) = Sum(nEdges, InFlight) + nEdges[rec[w]]
    BY <2>2, <2>3, InFlightFinite, SquaresFacts, SumAddElement
  <2>5. accumulated' = Sum(nEdges, InFlight')
    BY <1>4, <2>1, <2>4, GateIsSum DEF Accumulate
  <2>6. accumulated' < standardCapacity
    BY <1>4 DEF Accumulate, HasCapacity
  <2>. QED BY <2>5, <2>6, GateIsSumAfter
<1>5. ASSUME NEW w \in Workers, AccumulateWaits(w) PROVE GateBoundsMemory'
  <2>1. InFlight' = InFlight
    BY <1>5 DEF AccumulateWaits, InFlight
  <2>. QED BY <1>5, <2>1, SameGate DEF AccumulateWaits
<1>6. ASSUME NEW w \in Workers, fill_up_edge_vector(w) PROVE GateBoundsMemory'
  <2>1. InFlight' = InFlight
    BY <1>6 DEF fill_up_edge_vector, InFlight
  <2>. QED BY <1>6, <2>1, SameGate DEF fill_up_edge_vector
<1>7. ASSUME NEW w \in Workers, Terminate(w) PROVE GateBoundsMemory'
  BY <1>7, GateIsSumAfter DEF Terminate
<1>8. ASSUME NEW w \in Workers, Push(w) PROVE GateBoundsMemory'
  <2>1. rec[w] \in Squares
    BY <1>8, SquaresFacts DEF Push, Taken, Squares
  <2>2. Range(EV_queue') = Range(EV_queue) \cup {rec[w]}
    BY <1>8, <2>1, AppendFacts DEF Push
  <2>3. InFlight' = InFlight
    BY <1>8, <2>2 DEF Push, InFlight
  <2>. QED BY <1>8, <2>3, SameGate DEF Push
<1>9. ASSUME NEW w \in Workers, Notify(w) PROVE GateBoundsMemory'
  <2>1. InFlight' = InFlight
    BY <1>9 DEF Notify, InFlight
  <2>. QED BY <1>9, <2>1, SameGate DEF Notify
<1>10. ASSUME NEW w \in Workers, GateSpuriousWakeup(w) PROVE GateBoundsMemory'
  <2>1. InFlight' = InFlight
    BY <1>10 DEF GateSpuriousWakeup, InFlight
  <2>. QED BY <1>10, <2>1, SameGate DEF GateSpuriousWakeup
<1>11. CASE WaitAndPop
  <2>1. Range(EV_queue) = Range(EV_queue') \cup {poppedEV'}
    BY <1>11, TailFacts DEF WaitAndPop
  <2>2. InFlight' = InFlight
    BY <1>11, <2>1 DEF WaitAndPop, InFlight
  <2>. QED BY <1>11, <2>2, SameGate DEF WaitAndPop
<1>12. CASE WaitFindsNone
  <2>1. InFlight' = InFlight
    BY <1>12 DEF WaitFindsNone, InFlight
  <2>. QED BY <1>12, <2>1, SameGate DEF WaitFindsNone
<1>13. CASE WaitSleeps
  <2>1. InFlight' = InFlight
    BY <1>13 DEF WaitSleeps, InFlight
  <2>. QED BY <1>13, <2>1, SameGate DEF WaitSleeps
<1>14. CASE WriteEdges
  <2>1. InFlight' = InFlight
    BY <1>14 DEF WriteEdges, InFlight
  <2>. QED BY <1>14, <2>1, SameGate DEF WriteEdges
<1>15. CASE Dissipate
  <2>1. ~aborted /\ poppedEV \in InFlight
    BY <1>15 DEF Dissipate, InFlight
  <2>2. accumulated = Sum(nEdges, InFlight \ {poppedEV}) + nEdges[poppedEV]
    BY <2>1, InFlightFinite, GateIsSum, SumLaws
  <2>3. Sum(nEdges, InFlight \ {poppedEV}) \in Nat /\ nEdges[poppedEV] \in Nat
    BY <2>1, InFlightFinite, FS_RemoveElement, SumLaws
  <2>4. InFlight' = InFlight \ {poppedEV}
    BY <1>15 DEF Dissipate, InFlight
  <2>5. accumulated' = Sum(nEdges, InFlight')
    BY <1>15, <2>2, <2>3, <2>4 DEF Dissipate
  <2>6. accumulated' <= accumulated /\ accumulated < standardCapacity
    BY <1>15, <2>1, <2>3, GateIsSum DEF Dissipate
  <2>7. accumulated' < standardCapacity
    BY <2>2, <2>3, <2>4, <2>5, <2>6, CapacityAssumption
  <2>. QED BY <2>5, <2>7, GateIsSumAfter
<1>16. CASE NotifyAll
  <2>1. InFlight' = InFlight
    BY <1>16 DEF NotifyAll, InFlight
  <2>. QED BY <1>16, <2>1, SameGate DEF NotifyAll
<1>17. CASE Join
  <2>1. InFlight' = InFlight
    BY <1>17 DEF Join, InFlight
  <2>. QED BY <1>17, <2>1, SameGate DEF Join
<1>18. CASE QueueSpuriousWakeup
  <2>1. InFlight' = InFlight
    BY <1>18 DEF QueueSpuriousWakeup, InFlight
  <2>. QED BY <1>18, <2>1, SameGate DEF QueueSpuriousWakeup
<1>. QED BY <1>1, <1>2, <1>3, <1>4, <1>5, <1>6, <1>7, <1>8, <1>9, <1>10, <1>11, <1>12, <1>13, <1>14, <1>15, <1>16, <1>17, <1>18
         DEF Next, WorkerStep, CallerStep, Ended

LEMMA StepKeepsIInv == IInv /\ [Next]_vars => IInv'
<1>. SUFFICES ASSUME IInv, [Next]_vars PROVE IInv'
  OBVIOUS
<1>1. TypeOK'
  BY StepKeepsType
<1>. QED BY <1>1, StepKeepsPlace, StepKeepsLoop, StepKeepsEmptySquare, StepKeepsGate
         DEF IInv

LEMMA Invariance == Spec => []IInv
BY InitIInv, StepKeepsIInv, PTL DEF Spec

\* The caller leaves the loop with every square written.
LEMMA ReturnsWithAll ==
  ASSUME IInv, main \in {"join", "returned"}
  PROVE  Range(edges) = Squares
<1>1. edges \in Seq(Squares) /\ IsInjective(edges) /\ Len(edges) >= Len(nEdges)
  BY DEF IInv, TypeOK, PlaceInv, LoopInv
<1>. QED BY <1>1, SquaresFacts, LongSequenceHasAll DEF Squares

-----------------------------------------------------------------------------
(***************************************************************************)
(* The variables of the generator keep their types; in particular the      *)
(* capacity gate never gives back more than it has taken, so that its      *)
(* unsigned accumulator does not wrap around.                              *)
(***************************************************************************)
THEOREM TypeCorrect == Spec => []TypeOK
<1>1. IInv => TypeOK
  BY DEF IInv
<1>. QED BY <1>1, Invariance, PTL

(***************************************************************************)
(* capacityGate::accumulate and dissipate together bound memory: what has  *)
(* passed the gate is exactly the edges in workers' hands, in EV_queue and *)
(* with the caller, and they are fewer than standardCapacity.              *)
(***************************************************************************)
THEOREM MemoryBounded == Spec => []GateBoundsMemory
<1>1. IInv => GateBoundsMemory
  BY DEF IInv
<1>. QED BY <1>1, Invariance, PTL

(***************************************************************************)
(* Without duplicate edges, a square that has no edge at all makes the     *)
(* search for duplicates throw: GenerateGraph_in_vector never returns.     *)
(***************************************************************************)
THEOREM EmptySquareNeverReturns == Spec => []EmptySquareAborts
<1>1. ASSUME IInv PROVE EmptySquareAborts
  <2>. SUFFICES ASSUME NEW s \in Squares, nEdges[s] = 0, ~allowDuplicateEdges,
                       main = "returned"
                PROVE  FALSE
    BY DEF EmptySquareAborts
  <2>1. s \in Range(edges)
    BY <1>1, ReturnsWithAll
  <2>. QED BY <1>1, <2>1 DEF IInv, EmptySquareInv
<1>. QED BY <1>1, Invariance, PTL

LEMMA InitRefines == Init => Source!Init
BY DEF Init, Source!Init

\* Writing an edge vector writes a square the result does not have yet, the
\* end of the join returns with all of them, and nothing else is seen.
LEMMA StepRefines ==
  ASSUME IInv, [Next]_vars
  PROVE  [Source!Next]_(Source!vars)
<1>. USE DEF Step, MainStep, Source!vars
<1>1. CASE UNCHANGED vars
  BY <1>1 DEF vars
<1>2. ASSUME NEW w \in Workers, TryPop(w) PROVE UNCHANGED Source!vars
  BY <1>2 DEF TryPop
<1>3. ASSUME NEW w \in Workers, NothingToPop(w) PROVE UNCHANGED Source!vars
  BY <1>3 DEF NothingToPop
<1>4. ASSUME NEW w \in Workers, Accumulate(w) PROVE UNCHANGED Source!vars
  BY <1>4 DEF Accumulate
<1>5. ASSUME NEW w \in Workers, AccumulateWaits(w) PROVE UNCHANGED Source!vars
  BY <1>5 DEF AccumulateWaits
<1>6. ASSUME NEW w \in Workers, fill_up_edge_vector(w) PROVE UNCHANGED Source!vars
  BY <1>6 DEF fill_up_edge_vector
<1>7. ASSUME NEW w \in Workers, Terminate(w) PROVE UNCHANGED Source!vars
  BY <1>7 DEF Terminate
<1>8. ASSUME NEW w \in Workers, Push(w) PROVE UNCHANGED Source!vars
  BY <1>8 DEF Push
<1>9. ASSUME NEW w \in Workers, Notify(w) PROVE UNCHANGED Source!vars
  BY <1>9 DEF Notify
<1>10. ASSUME NEW w \in Workers, GateSpuriousWakeup(w) PROVE UNCHANGED Source!vars
  BY <1>10 DEF GateSpuriousWakeup
<1>11. ASSUME WaitAndPop PROVE UNCHANGED Source!vars
  BY <1>11 DEF WaitAndPop
<1>12. ASSUME WaitFindsNone PROVE UNCHANGED Source!vars
  BY <1>12 DEF WaitFindsNone
<1>13. ASSUME WaitSleeps PROVE UNCHANGED Source!vars
  BY <1>13 DEF WaitSleeps
<1>14. CASE WriteEdges
  <2>1. poppedEV \in Squares /\ poppedEV \notin Range(edges)
    BY <1>14, SquaresFacts DEF WriteEdges, IInv, PlaceInv, TypeOK, Popped, Taken, Squares
  <2>2. (main = "returned") = FALSE /\ (main' = "returned") = FALSE
    BY <1>14 DEF WriteEdges
  <2>3. edges' = Append(edges, poppedEV)
    BY <1>14 DEF WriteEdges
  <2>4. Source!Write(poppedEV)
    BY <2>1, <2>2, <2>3 DEF Source!Write, Source!Range, Range
  <2>. QED BY <2>1, <2>4 DEF Source!Next
<1>15. ASSUME Dissipate PROVE UNCHANGED Source!vars
  BY <1>15 DEF Dissipate
<1>16. ASSUME NotifyAll PROVE UNCHANGED Source!vars
  BY <1>16 DEF NotifyAll
<1>17. CASE Join
  <2>1. Range(edges) = Squares
    BY <1>17, ReturnsWithAll DEF Join
  <2>2. (main = "returned") = FALSE /\ (main' = "returned") = TRUE /\ edges' = edges
    BY <1>17 DEF Join
  <2>3. Source!Return
    BY <2>1, <2>2 DEF Source!Return, Source!Range, Range
  <2>. QED BY <2>3 DEF Source!Next
<1>18. ASSUME QueueSpuriousWakeup PROVE UNCHANGED Source!vars
  BY <1>18 DEF QueueSpuriousWakeup
<1>. QED BY <1>1, <1>2, <1>3, <1>4, <1>5, <1>6, <1>7, <1>8, <1>9, <1>10, <1>11, <1>12, <1>13, <1>14, <1>15, <1>16, <1>17, <1>18
         DEF Next, WorkerStep, CallerStep, Ended

(***************************************************************************)
(* The generator keeps what it promises whoever asks for a graph: the      *)
(* edges of every square reach the result once, however the threads        *)
(* interleave, and it does not return before the last one.                 *)
(***************************************************************************)
THEOREM RefinesSource == Spec => ImplementsSource
BY InitRefines, StepRefines, Invariance, PTL DEF Spec, Source!Spec, ImplementsSource

=============================================================================
