-------------------------- MODULE GeneratorProofs --------------------------
(***************************************************************************)
(* Both users of the partition, for every call.                            *)
(*                                                                         *)
(* First the caller of the sorted generator, that finds the vector it      *)
(* writes by counting columns.  What it writes is right because of where   *)
(* the columns are: those joined, then those of the threads in their       *)
(* order, then those not started; column c in slot c - 1 modulo the number *)
(* of slots, so that the columns under way, no more than there are slots,  *)
(* are in different ones.  The invariant says this, what each slot holds   *)
(* and which have memory.                                                  *)
(*                                                                         *)
(* Then the edges.  A vector Fits some squares when each of its edges can  *)
(* be said to be from one of them, as many as they are asked for, and no   *)
(* square has one twice.  Drawing, replacing, sorting and joining vectors  *)
(* preserve this, whatever the order the vector is in.                     *)
(***************************************************************************)
EXTENDS SortedGenerator, EdgeGeneration, SquarePartitionProofs

\* The columns that have been given to a thread, and those whose thread has
\* been joined; and the slot of a column.
Given  == IF recIdx <= nColumns THEN recIdx ELSE nColumns
Joined == Given - Len(threads)
Place(c) == (c - 1) % nSlots

Finished(c) == c <= Joined \/ threads[c - Joined].at = "done"
Fewer == IF nSlots <= nColumns THEN nSlots ELSE nColumns

CallerInv ==
  /\ main \in {"partition", "launch", "reuse", "returned"}
  /\ recIdx \in Nat /\ aborted \in BOOLEAN
  /\ main = "partition" => recIdx = 0 /\ threads = << >> /\ ~aborted
  /\ main # "partition" => call.sorted /\ stage = "partitioned"
  /\ main = "launch" => recIdx = Len(threads) /\ recIdx <= nSlots /\ recIdx <= nColumns
  /\ main \in {"reuse", "returned"} =>
       Fewer <= recIdx /\ Len(threads) = Fewer - Max0(recIdx - nColumns)
  /\ main = "returned" => threads = << >>

States == {"start", "generate", "done", "crashed"}

ThreadsInv ==
  /\ threads \in Seq([column : Nat, slot : Nat, at : States])
  /\ \A i \in 1 .. Len(threads) :
       threads[i].column = Joined + i /\ threads[i].slot = Place(Joined + i)

SlotsInv ==
  /\ slots \in [Slots -> Seq(1 .. nColumns)]
  /\ \A k \in Slots : k >= Given => slots[k] = << >>
  /\ \A c \in 1 .. Joined : c + nSlots > Given => slots[Place(c)] = <<c>>
  /\ \A i \in 1 .. Len(threads) :
       /\ threads[i].at \in {"generate", "crashed"} => slots[Place(Joined + i)] = << >>
       /\ threads[i].at = "done" => slots[Place(Joined + i)] = <<Joined + i>>

FileInv == outFile = [c \in 1 .. Max0(recIdx - nSlots) |-> c]

\* Only a column that is finished has left memory in its slot, and of the first
\* ones, for which there was none, each one finished has edges if it needs any.
MemoryInv ==
  /\ allocated \in [Slots -> BOOLEAN]
  /\ \A k \in Slots : allocated[k] => k < Given /\ Finished(k + 1)
  /\ \A c \in 1 .. Given :
       c <= nSlots /\ Finished(c) => call.allowDuplicateEdges \/ SumAt(squares, rectagnleVecs(squares, c)) # 0

CrashInv ==
  aborted => /\ ~call.allowDuplicateEdges
             /\ \E c \in 1 .. nColumns : SumAt(squares, rectagnleVecs(squares, c)) = 0

IInv ==
  /\ PartitionInv
  /\ CallerInv
  /\ ThreadsInv
  /\ SlotsInv
  /\ FileInv
  /\ MemoryInv
  /\ CrashInv

-----------------------------------------------------------------------------
\* The parameters of a call.
LEMMA CallFacts ==
  ASSUME PartitionInv
  PROVE  /\ nSlots \in Nat \ {0} /\ nColumns \in Nat /\ Fewer \in Nat
         /\ Fewer <= nSlots /\ Fewer <= nColumns
<1>1. nSlots \in Nat \ {0}
  BY CallsAssumption DEF PartitionInv, PartitionTypeOK, nSlots
<1>2. nColumns \in Nat
  BY ColumnsFinite DEF PartitionInv, PartitionTypeOK, nColumns
<1>. QED BY <1>1, <1>2 DEF Fewer

\* How many columns are joined, under way and not started.
LEMMA CountFacts ==
  ASSUME PartitionInv, CallerInv, Len(threads) \in Nat
  PROVE  /\ Given \in Nat /\ Given <= nColumns /\ Given <= recIdx
         /\ Joined \in Nat /\ Joined + Len(threads) = Given /\ Len(threads) <= nSlots
         /\ main = "launch" => Joined = 0 /\ Given = recIdx
         /\ main \in {"reuse", "returned"} => Joined = recIdx - Fewer
<1>1. /\ nSlots \in Nat \ {0} /\ nColumns \in Nat /\ Fewer \in Nat
      /\ Fewer <= nSlots /\ Fewer <= nColumns
  BY CallFacts
<1>2. CASE main = "partition"
  <2>1. recIdx = 0 /\ Len(threads) = 0
    BY <1>2 DEF CallerInv
  <2>. QED BY <1>1, <1>2, <2>1 DEF Given, Joined
<1>3. CASE main = "launch"
  BY <1>1, <1>3 DEF CallerInv, Given, Joined
<1>4. CASE main \in {"reuse", "returned"}
  <2>1. recIdx \in Nat /\ Fewer <= recIdx /\ Len(threads) = Fewer - Max0(recIdx - nColumns)
    BY <1>4 DEF CallerInv
  <2>. QED BY <1>1, <1>4, <2>1 DEF Given, Joined, Max0
<1>. QED BY <1>2, <1>3, <1>4 DEF CallerInv

\* Columns under way are in different slots.
LEMMA PlaceFacts ==
  ASSUME nSlots \in Nat \ {0}
  PROVE  /\ \A c \in Nat \ {0} : Place(c) \in Slots /\ Place(c) \in Nat /\ Place(c) < c
         /\ \A c \in Nat \ {0} : c <= nSlots => Place(c) = c - 1
         /\ \A c \in Nat \ {0} : c > nSlots => Place(c) < c - nSlots
         /\ \A c, d \in Nat \ {0} : c < d /\ d < c + nSlots => Place(c) # Place(d)
         /\ \A r \in Nat : r % nSlots = Place(r + 1)
<1>. DEFINE w == nSlots
<1>1. /\ \A a \in Nat : a % w \in 0 .. w - 1
      /\ \A a \in Nat : a < w => a % w = a
      /\ \A a \in Nat : (a + w) % w = a % w
      /\ \A a, b \in Nat : a < b /\ b < a + w => a % w # b % w
  BY ModFacts
<1>2. \A a \in Nat : a % w <= a
  <2>. SUFFICES ASSUME NEW a \in Nat PROVE a % w <= a
    OBVIOUS
  <2>1. CASE a < w
    BY <1>1, <2>1
  <2>2. CASE ~(a < w)
    <3>1. a % w \in 0 .. w - 1
      BY <1>1
    <3>. QED BY <2>2, <3>1
  <2>. QED BY <2>1, <2>2
<1>. HIDE DEF w
<1>3. w \in Nat \ {0} /\ Slots = 0 .. w - 1
  BY DEF w, Slots
<1>4. \A c \in Nat \ {0} : c - 1 \in Nat /\ Place(c) = (c - 1) % w
  BY DEF Place, w
<1>5. ASSUME NEW c \in Nat \ {0} PROVE Place(c) \in Slots /\ Place(c) \in Nat /\ Place(c) < c
  <2>1. (c - 1) % w \in 0 .. w - 1 /\ (c - 1) % w <= c - 1
    BY <1>1, <1>2, <1>4
  <2>2. Place(c) \in 0 .. w - 1 /\ Place(c) <= c - 1
    BY <1>4, <2>1
  <2>. QED BY <1>3, <2>2
<1>6. ASSUME NEW c \in Nat \ {0}, c <= w PROVE Place(c) = c - 1
  <2>1. c - 1 \in Nat /\ c - 1 < w
    BY <1>3, <1>6
  <2>2. (c - 1) % w = c - 1
    BY <1>1, <2>1
  <2>. QED BY <1>4, <2>2
<1>7. ASSUME NEW c \in Nat \ {0}, c > w PROVE Place(c) < c - w
  <2>1. c - 1 - w \in Nat /\ (c - 1 - w) + w = c - 1
    BY <1>3, <1>7
  <2>2. (c - 1) % w = (c - 1 - w) % w /\ (c - 1 - w) % w <= c - 1 - w
    BY <1>1, <1>2, <2>1
  <2>3. (c - 1 - w) % w \in 0 .. w - 1
    BY <1>1, <2>1
  <2>4. Place(c) \in 0 .. w - 1 /\ Place(c) <= c - 1 - w
    BY <1>4, <2>2, <2>3
  <2>. QED BY <1>3, <2>4
<1>8. ASSUME NEW c \in Nat \ {0}, NEW d \in Nat \ {0}, c < d, d < c + w
      PROVE  Place(c) # Place(d)
  <2>1. c - 1 \in Nat /\ d - 1 \in Nat /\ c - 1 < d - 1 /\ d - 1 < (c - 1) + w
    BY <1>3, <1>8
  <2>. QED BY <1>1, <1>4, <2>1
<1>9. \A r \in Nat : r % w = Place(r + 1)
  <2>. SUFFICES ASSUME NEW r \in Nat PROVE r % w = Place(r + 1)
    OBVIOUS
  <2>1. (r + 1) - 1 = r /\ r + 1 \in Nat \ {0}
    OBVIOUS
  <2>. QED BY <1>4, <2>1
<1>. QED BY <1>5, <1>6, <1>7, <1>8, <1>9 DEF w

\* What is known of the columns and slots is the same while the partition is.
LEMMA PartitionFrame ==
  ASSUME UNCHANGED partitionVars
  PROVE  /\ call' = call /\ stage' = stage /\ squares' = squares
         /\ nSlots' = nSlots /\ Slots' = Slots /\ nColumns' = nColumns /\ Fewer' = Fewer
         /\ \A c : Place(c)' = Place(c)
BY DEF partitionVars, nSlots, Slots, nColumns, Fewer, Place

\* When the matrix is partitioned, it stays as it is.
LEMMA PartitionOver ==
  ASSUME PartitionInv, stage = "partitioned"
  PROVE  ~PartitionStep
BY DEF PartitionInv, PartitionTypeOK, PartitionStep, ShatterFirst, ShatterBiggest, BeginPass,
       ShatterNext, LeaveLoop, GoesOn

-----------------------------------------------------------------------------
ThreadShape == [column : Nat, slot : Nat, at : States]
NewThread(c) == [column |-> c, slot |-> Place(c), at |-> "start"]

\* What holds of the columns, in the terms of the lemmas below.
LEMMA StateFacts ==
  ASSUME IInv
  PROVE  /\ nSlots \in Nat \ {0} /\ nColumns \in Nat /\ Fewer \in Nat
         /\ Fewer <= nSlots /\ Fewer <= nColumns
         /\ Len(threads) \in Nat /\ recIdx \in Nat
         /\ Given \in Nat /\ Given <= nColumns /\ Given <= recIdx
         /\ Joined \in Nat /\ Joined + Len(threads) = Given /\ Len(threads) <= nSlots
         /\ main = "launch" => Joined = 0 /\ Given = recIdx
         /\ main \in {"reuse", "returned"} => Joined = recIdx - Fewer
         /\ \A j \in 1 .. Len(threads) :
              /\ threads[j] \in ThreadShape
              /\ threads[j].column = Joined + j /\ threads[j].slot = Place(Joined + j)
<1>1. threads \in Seq(ThreadShape) /\ Len(threads) \in Nat
  BY LenProperties DEF IInv, ThreadsInv, ThreadShape
<1>2. \A j \in 1 .. Len(threads) :
        /\ threads[j] \in ThreadShape
        /\ threads[j].column = Joined + j /\ threads[j].slot = Place(Joined + j)
  BY <1>1 DEF IInv, ThreadsInv
<1>. QED BY <1>1, <1>2, CallFacts, CountFacts DEF IInv, CallerInv

\* The caller starts a thread for the next column.
LEMMA LaunchFacts ==
  ASSUME IInv, Launch
  PROVE  /\ UNCHANGED partitionVars /\ main = "launch" /\ main' = "launch" /\ aborted' = aborted
         /\ UNCHANGED <<slots, allocated, outFile>>
         /\ recIdx < nSlots /\ recIdx < nColumns /\ recIdx' = recIdx + 1
         /\ Given' = Given + 1 /\ Joined' = Joined
         /\ threads' \in Seq(ThreadShape) /\ Len(threads') = Len(threads) + 1
         /\ \A j \in 1 .. Len(threads) : threads'[j] = threads[j]
         /\ threads'[Len(threads) + 1] = NewThread(Given + 1)
<1>. DEFINE t == Thread(recIdx)
<1>1. /\ UNCHANGED partitionVars /\ main = "launch" /\ main' = "launch" /\ aborted' = aborted
      /\ UNCHANGED <<slots, allocated, outFile>>
      /\ recIdx < nSlots /\ recIdx < nColumns /\ recIdx' = recIdx + 1
      /\ threads' = Append(threads, t)
  BY DEF Launch, MainStep
<1>2. nColumns' = nColumns
  BY <1>1, PartitionFrame
<1>3. /\ nSlots \in Nat \ {0} /\ nColumns \in Nat /\ Len(threads) \in Nat /\ recIdx \in Nat
      /\ Joined = 0 /\ Given = recIdx
  BY <1>1, StateFacts
<1>4. threads \in Seq(ThreadShape)
  BY DEF IInv, ThreadsInv, ThreadShape
<1>5. Place(recIdx + 1) = recIdx
  BY <1>1, <1>3, PlaceFacts
<1>6. t = NewThread(Given + 1) /\ t \in ThreadShape
  BY <1>3, <1>5 DEF Thread, NewThread, ThreadShape, States
<1>. HIDE DEF t
<1>7. /\ threads' \in Seq(ThreadShape) /\ Len(threads') = Len(threads) + 1
      /\ \A j \in 1 .. Len(threads) : threads'[j] = threads[j]
      /\ threads'[Len(threads) + 1] = t
  BY <1>1, <1>4, <1>6
<1>8. Given' = Given + 1
  BY <1>1, <1>2, <1>3 DEF Given
<1>9. Joined' = Joined
  <2>1. Joined' = Given' - Len(threads') /\ Joined = Given - Len(threads)
    BY DEF Joined
  <2>. QED BY <1>3, <1>7, <1>8, <2>1
<1>. QED BY <1>1, <1>6, <1>7, <1>8, <1>9

\* The caller joins a thread and starts another one.
LEMMA ReuseFacts ==
  ASSUME IInv, Reuse
  PROVE  /\ UNCHANGED partitionVars /\ main = "reuse" /\ main' = "reuse" /\ aborted' = aborted
         /\ UNCHANGED <<slots, allocated>> /\ outFile' = outFile \o slots[recIdx % nSlots]
         /\ recIdx < nColumns /\ recIdx' = recIdx + 1
         /\ Given' = Given + 1 /\ Joined' = Joined + 1
         /\ Len(threads) > 0 /\ threads[1].at = "done"
         /\ threads' \in Seq(ThreadShape) /\ Len(threads') = Len(threads)
         /\ \A j \in 1 .. Len(threads) - 1 : threads'[j] = threads[j + 1]
         /\ threads'[Len(threads)] = NewThread(Given + 1)
<1>. DEFINE t == Thread(recIdx % nSlots)
<1>1. /\ UNCHANGED partitionVars /\ main = "reuse" /\ main' = "reuse" /\ aborted' = aborted
      /\ UNCHANGED <<slots, allocated>> /\ outFile' = outFile \o slots[recIdx % nSlots]
      /\ recIdx < nColumns /\ recIdx' = recIdx + 1
      /\ threads # << >> /\ Head(threads).at = "done"
      /\ threads' = Append(Tail(threads), t)
  BY DEF Reuse, MainStep, JoinAndPrint
<1>2. nColumns' = nColumns
  BY <1>1, PartitionFrame
<1>3. /\ nSlots \in Nat \ {0} /\ nColumns \in Nat /\ Len(threads) \in Nat /\ recIdx \in Nat
  BY StateFacts
<1>4. threads \in Seq(ThreadShape)
  BY DEF IInv, ThreadsInv, ThreadShape
<1>5. Given = recIdx
  BY <1>1, <1>3 DEF Given
<1>6. t = NewThread(Given + 1) /\ t \in ThreadShape
  <2>1. recIdx % nSlots = Place(recIdx + 1) /\ Place(recIdx + 1) \in Nat
    <3>1. recIdx + 1 \in Nat \ {0}
      BY <1>3
    <3>2. \A r \in Nat : r % nSlots = Place(r + 1)
      BY <1>3, PlaceFacts
    <3>3. \A c \in Nat \ {0} : Place(c) \in Nat
      BY <1>3, PlaceFacts
    <3>. QED BY <1>3, <3>1, <3>2, <3>3
  <2>. QED BY <1>3, <1>5, <2>1 DEF Thread, NewThread, ThreadShape, States
<1>. HIDE DEF t
<1>7. /\ threads' \in Seq(ThreadShape) /\ Len(threads') = Len(threads)
      /\ \A j \in 1 .. Len(threads) - 1 : threads'[j] = threads[j + 1]
      /\ threads'[Len(threads)] = t /\ Len(threads) > 0 /\ threads[1].at = "done"
  <2>1. /\ Tail(threads) \in Seq(ThreadShape) /\ Len(Tail(threads)) = Len(threads) - 1
        /\ \A j \in 1 .. Len(threads) - 1 : Tail(threads)[j] = threads[j + 1]
        /\ Head(threads) = threads[1] /\ Len(threads) > 0
    BY <1>1, <1>3, <1>4, HeadTailProperties, EmptySeq
  <2>. DEFINE r == Tail(threads)
  <2>2. threads' = Append(r, t) /\ r \in Seq(ThreadShape) /\ Len(r) = Len(threads) - 1
    BY <1>1, <2>1
  <2>. HIDE DEF r
  <2>3. /\ threads' \in Seq(ThreadShape) /\ Len(threads') = Len(r) + 1
        /\ \A j \in 1 .. Len(r) : threads'[j] = r[j]
        /\ threads'[Len(r) + 1] = t
    BY <1>6, <2>2
  <2>. QED BY <1>1, <1>3, <2>1, <2>2, <2>3 DEF r
<1>8. Given' = Given + 1
  BY <1>1, <1>2, <1>3 DEF Given
<1>9. Joined' = Joined + 1
  <2>1. Joined' = Given' - Len(threads') /\ Joined = Given - Len(threads)
    BY DEF Joined
  <2>. QED BY <1>3, <1>5, <1>7, <1>8, <2>1
<1>. QED BY <1>1, <1>6, <1>7, <1>8, <1>9

\* The caller joins a thread and there is no column left.
LEMMA JoinFacts ==
  ASSUME IInv, JoinLast
  PROVE  /\ UNCHANGED partitionVars /\ main = "reuse" /\ main' = "reuse" /\ aborted' = aborted
         /\ UNCHANGED <<slots, allocated>> /\ outFile' = outFile \o slots[recIdx % nSlots]
         /\ recIdx >= nColumns /\ recIdx' = recIdx + 1
         /\ Given' = Given /\ Joined' = Joined + 1
         /\ Len(threads) > 0 /\ threads[1].at = "done"
         /\ threads' \in Seq(ThreadShape) /\ Len(threads') = Len(threads) - 1
         /\ \A j \in 1 .. Len(threads) - 1 : threads'[j] = threads[j + 1]
<1>1. /\ UNCHANGED partitionVars /\ main = "reuse" /\ main' = "reuse" /\ aborted' = aborted
      /\ UNCHANGED <<slots, allocated>> /\ outFile' = outFile \o slots[recIdx % nSlots]
      /\ recIdx >= nColumns /\ recIdx' = recIdx + 1
      /\ threads # << >> /\ Head(threads).at = "done"
      /\ threads' = Tail(threads)
  BY DEF JoinLast, MainStep, JoinAndPrint
<1>2. nColumns' = nColumns
  BY <1>1, PartitionFrame
<1>3. nColumns \in Nat /\ Len(threads) \in Nat /\ recIdx \in Nat
  BY StateFacts
<1>4. threads \in Seq(ThreadShape)
  BY DEF IInv, ThreadsInv, ThreadShape
<1>5. /\ threads' \in Seq(ThreadShape) /\ Len(threads') = Len(threads) - 1
      /\ \A j \in 1 .. Len(threads) - 1 : threads'[j] = threads[j + 1]
      /\ Len(threads) > 0 /\ threads[1].at = "done"
  BY <1>1, <1>3, <1>4, HeadTailProperties, EmptySeq
<1>6. Given' = Given /\ Given \in Nat
  BY <1>1, <1>2, <1>3 DEF Given
<1>7. Joined' = Joined + 1
  <2>1. Joined' = Given' - Len(threads') /\ Joined = Given - Len(threads)
    BY DEF Joined
  <2>. QED BY <1>3, <1>5, <1>6, <2>1
<1>. QED BY <1>1, <1>5, <1>6, <1>7

\* A thread gets on; nothing changes for the others or the caller.
LEMMA ThreadFacts ==
  ASSUME IInv, NEW i, NEW from, NEW to \in States, ThreadStep(i, from, to)
  PROVE  /\ UNCHANGED partitionVars /\ main' = main /\ recIdx' = recIdx /\ outFile' = outFile
         /\ ~aborted
         /\ i \in 1 .. Len(threads) /\ threads[i].at = from
         /\ Given' = Given /\ Joined' = Joined
         /\ threads' \in Seq(ThreadShape) /\ Len(threads') = Len(threads)
         /\ \A j \in 1 .. Len(threads) :
              /\ threads'[j].column = threads[j].column /\ threads'[j].slot = threads[j].slot
              /\ threads'[j].at = IF j = i THEN to ELSE threads[j].at
<1>1. /\ UNCHANGED partitionVars /\ main' = main /\ recIdx' = recIdx /\ outFile' = outFile
      /\ ~aborted
      /\ i \in DOMAIN threads /\ threads[i].at = from
      /\ threads' = [threads EXCEPT ![i].at = to]
  BY DEF ThreadStep, partitionVars
<1>2. threads \in Seq(ThreadShape) /\ DOMAIN threads = 1 .. Len(threads) /\ Len(threads) \in Nat
  BY LenProperties DEF IInv, ThreadsInv, ThreadShape
<1>3. /\ threads' \in Seq(ThreadShape) /\ Len(threads') = Len(threads)
      /\ \A j \in 1 .. Len(threads) :
           threads'[j] = IF j = i THEN [threads[i] EXCEPT !.at = to] ELSE threads[j]
  <2>1. \A j \in 1 .. Len(threads) : threads[j] \in ThreadShape
    BY <1>2
  <2>2. [threads[i] EXCEPT !.at = to] \in ThreadShape
    BY <1>1, <1>2, <2>1 DEF ThreadShape
  <2>3. threads' = [j \in 1 .. Len(threads) |->
                      IF j = i THEN [threads[i] EXCEPT !.at = to] ELSE threads[j]]
    BY <1>1, <1>2
  <2>. DEFINE e == [threads[i] EXCEPT !.at = to]
  <2>. HIDE DEF e
  <2>4. threads' = [j \in 1 .. Len(threads) |-> IF j = i THEN e ELSE threads[j]]
    BY <2>3 DEF e
  <2>5. e \in ThreadShape
    BY <2>2 DEF e
  <2>. QED BY <1>2, <2>1, <2>4, <2>5 DEF e
<1>4. \A j \in 1 .. Len(threads) :
        /\ threads'[j].column = threads[j].column /\ threads'[j].slot = threads[j].slot
        /\ threads'[j].at = IF j = i THEN to ELSE threads[j].at
  <2>1. \A j \in 1 .. Len(threads) : threads[j] \in ThreadShape
    BY <1>2
  <2>. QED BY <1>3, <2>1 DEF ThreadShape
<1>5. Given' = Given
  BY <1>1, PartitionFrame DEF Given
<1>6. Joined' = Joined
  BY <1>3, <1>5 DEF Joined
<1>. QED BY <1>1, <1>2, <1>3, <1>4, <1>5, <1>6

\* Nothing is given to a thread and none is joined while the matrix is divided.
LEMMA PartitionFacts ==
  ASSUME IInv, Partition
  PROVE  /\ PartitionInv' /\ UNCHANGED <<main, threadVars>> /\ main = "partition"
         /\ recIdx = 0 /\ threads = << >> /\ Len(threads) = 0 /\ ~aborted
         /\ call' = call /\ nSlots' = nSlots /\ Slots' = Slots
         /\ Given = 0 /\ Given' = 0 /\ Joined = 0 /\ Joined' = 0
<1>1. PartitionStep /\ UNCHANGED <<main, threadVars>>
  BY DEF Partition
<1>2. PartitionInv' /\ call' = call
  BY <1>1, PartitionStepInv, PartitionKeepsCall DEF IInv
<1>3. main = "partition" /\ recIdx = 0 /\ threads = << >> /\ ~aborted
  BY <1>1, PartitionOver DEF IInv, CallerInv
<1>4. nColumns \in Nat /\ nColumns' \in Nat
  <2>1. squares \in Seq(SquareType) /\ squares' \in Seq(SquareType)
    BY <1>2 DEF IInv, PartitionInv, PartitionTypeOK
  <2>. QED BY <2>1, ColumnsFinite DEF nColumns
<1>5. Len(threads) = 0 /\ recIdx' = 0 /\ threads' = << >>
  BY <1>1, <1>3 DEF threadVars
<1>6. Given = 0 /\ Given' = 0
  BY <1>3, <1>4, <1>5 DEF Given
<1>7. Joined = 0 /\ Joined' = 0
  <2>1. Len(threads') = 0
    BY <1>5
  <2>2. Joined' = Given' - Len(threads') /\ Joined = Given - Len(threads)
    BY DEF Joined
  <2>. QED BY <1>5, <1>6, <2>1, <2>2
<1>8. nSlots' = nSlots /\ Slots' = Slots
  BY <1>2 DEF nSlots, Slots
<1>. QED BY <1>1, <1>2, <1>3, <1>5, <1>6, <1>7, <1>8

\* Steps of the caller at which no thread comes or goes.
LEMMA QuietFacts ==
  ASSUME IInv, Assign \/ AllLaunched \/ Return \/ UNCHANGED vars
  PROVE  /\ UNCHANGED partitionVars /\ UNCHANGED threadVars
         /\ Given' = Given /\ Joined' = Joined
<1>1. UNCHANGED partitionVars /\ UNCHANGED threadVars
  BY DEF Assign, AllLaunched, Return, MainStep, vars, threadVars, partitionVars
<1>2. Given' = Given
  BY <1>1, PartitionFrame DEF Given, threadVars
<1>. QED BY <1>1, <1>2 DEF Joined, threadVars

\* A step of a thread.
LEMMA WorkerFacts ==
  ASSUME IInv, NEW i, WorkerStep(i)
  PROVE  \E from, to \in States : ThreadStep(i, from, to)
BY DEF WorkerStep, Start, Generate, Crash, States

\* The initial state.
LEMMA InitIInv ==
  Init => IInv
<1>. SUFFICES ASSUME Init PROVE IInv
  OBVIOUS
<1>1. PartitionInv
  BY PartitionInitInv DEF Init
<1>2. /\ main = "partition" /\ recIdx = 0 /\ threads = << >> /\ aborted = FALSE /\ outFile = << >>
      /\ slots = [k \in Slots |-> << >>] /\ allocated = [k \in Slots |-> FALSE]
  BY DEF Init
<1>3. nSlots \in Nat \ {0} /\ nColumns \in Nat
  BY <1>1, CallFacts
<1>4. Len(threads) = 0 /\ Given = 0 /\ Joined = 0
  BY <1>2, <1>3 DEF Given, Joined
<1>5. CallerInv
  BY <1>2 DEF CallerInv
<1>6. ThreadsInv
  BY <1>2, <1>4 DEF ThreadsInv
<1>7. SlotsInv
  BY <1>2, <1>4 DEF SlotsInv
<1>8. FileInv
  <2>1. Max0(recIdx - nSlots) = 0
    BY <1>2, <1>3 DEF Max0
  <2>. QED BY <1>2, <2>1 DEF FileInv
<1>9. MemoryInv
  BY <1>2, <1>4 DEF MemoryInv
<1>10. CrashInv
  BY <1>2 DEF CrashInv
<1>. QED BY <1>1, <1>5, <1>6, <1>7, <1>8, <1>9, <1>10 DEF IInv

\* Seen from the partition, the caller and the threads only stutter.
LEMMA StepOfPartition ==
  ASSUME IInv, [Next]_vars
  PROVE  [PartitionStep]_partitionVars
<1>1. CASE Partition
  BY <1>1 DEF Partition
<1>2. CASE Assign \/ AllLaunched \/ Return \/ UNCHANGED vars
  BY <1>2, QuietFacts
<1>3. CASE Launch \/ Reuse \/ JoinLast
  BY <1>3, LaunchFacts, ReuseFacts, JoinFacts
<1>4. ASSUME NEW i, WorkerStep(i) PROVE UNCHANGED partitionVars
  BY <1>4, WorkerFacts, ThreadFacts
<1>. QED BY <1>1, <1>2, <1>3, <1>4 DEF Next, CallerStep, Ended

\* What the partition guarantees, it guarantees while threads run.
LEMMA StepKeepsPartition ==
  ASSUME IInv, [Next]_vars
  PROVE  PartitionInv'
BY StepOfPartition, PartitionStepInv, PartitionStutterInv DEF IInv

\* Where the caller is and how many threads there are.
LEMMA StepKeepsCaller ==
  ASSUME IInv, [Next]_vars
  PROVE  CallerInv'
<1>1. /\ nSlots \in Nat \ {0} /\ nColumns \in Nat /\ Fewer \in Nat
      /\ Len(threads) \in Nat /\ recIdx \in Nat /\ CallerInv
  BY StateFacts DEF IInv
<1>2. CASE Partition
  BY <1>1, <1>2, PartitionFacts DEF CallerInv, threadVars
<1>3. CASE Assign
  <2>1. main = "partition" /\ main' = "launch" /\ call.sorted /\ stage = "partitioned"
    BY <1>3 DEF Assign, MainStep
  <2>2. UNCHANGED partitionVars /\ UNCHANGED threadVars
    BY <1>3, QuietFacts
  <2>3. Len(threads) = 0
    BY <1>1, <2>1 DEF CallerInv
  <2>. QED BY <1>1, <2>1, <2>2, <2>3, PartitionFrame DEF CallerInv, threadVars
<1>4. CASE AllLaunched
  <2>1. main = "launch" /\ main' = "reuse" /\ ~(recIdx < nSlots /\ recIdx < nColumns)
    BY <1>4 DEF AllLaunched, MainStep
  <2>2. UNCHANGED partitionVars /\ UNCHANGED threadVars
    BY <1>4, QuietFacts
  <2>3. /\ recIdx = Len(threads) /\ recIdx <= nSlots /\ recIdx <= nColumns
    BY <1>1, <2>1 DEF CallerInv
  <2>4. recIdx = Fewer /\ Max0(recIdx - nColumns) = 0
    BY <1>1, <2>1, <2>3 DEF Fewer, Max0
  <2>. QED BY <1>1, <2>1, <2>2, <2>3, <2>4, PartitionFrame DEF CallerInv, threadVars, Max0
<1>5. CASE Return
  <2>1. main = "reuse" /\ main' = "returned" /\ threads = << >>
    BY <1>5 DEF Return, MainStep
  <2>2. UNCHANGED partitionVars /\ UNCHANGED threadVars
    BY <1>5, QuietFacts
  <2>. QED BY <1>1, <2>1, <2>2, PartitionFrame DEF CallerInv, threadVars, Max0
<1>6. CASE Launch
  <2>1. /\ UNCHANGED partitionVars /\ main = "launch" /\ main' = "launch" /\ aborted' = aborted
        /\ recIdx < nSlots /\ recIdx < nColumns /\ recIdx' = recIdx + 1
        /\ Len(threads') = Len(threads) + 1
    BY <1>6, LaunchFacts
  <2>. QED BY <1>1, <2>1, PartitionFrame DEF CallerInv
<1>7. CASE Reuse
  <2>1. /\ UNCHANGED partitionVars /\ main = "reuse" /\ main' = "reuse" /\ aborted' = aborted
        /\ recIdx < nColumns /\ recIdx' = recIdx + 1
        /\ Len(threads') = Len(threads)
    BY <1>7, ReuseFacts
  <2>2. Max0(recIdx' - nColumns) = 0 /\ Max0(recIdx - nColumns) = 0
    BY <1>1, <2>1 DEF Max0
  <2>3. Fewer <= recIdx /\ Len(threads) = Fewer
    BY <1>1, <2>1, <2>2 DEF CallerInv
  <2>. QED BY <1>1, <2>1, <2>2, <2>3, PartitionFrame DEF CallerInv, Max0
<1>8. CASE JoinLast
  <2>1. /\ UNCHANGED partitionVars /\ main = "reuse" /\ main' = "reuse" /\ aborted' = aborted
        /\ recIdx >= nColumns /\ recIdx' = recIdx + 1
        /\ Len(threads') = Len(threads) - 1
    BY <1>8, JoinFacts
  <2>2. Max0(recIdx' - nColumns) = Max0(recIdx - nColumns) + 1 /\ Max0(recIdx - nColumns) \in Nat
    BY <1>1, <2>1 DEF Max0
  <2>3. Fewer <= recIdx /\ Len(threads) = Fewer - Max0(recIdx - nColumns)
    BY <1>1, <2>1 DEF CallerInv
  <2>. QED BY <1>1, <2>1, <2>2, <2>3, PartitionFrame DEF CallerInv, Max0
<1>9. ASSUME NEW i, WorkerStep(i) PROVE CallerInv'
  <2>1. PICK from \in States, to \in States : ThreadStep(i, from, to)
    BY <1>9, WorkerFacts
  <2>2. /\ UNCHANGED partitionVars /\ main' = main /\ recIdx' = recIdx
        /\ i \in 1 .. Len(threads) /\ Len(threads') = Len(threads)
    BY <2>1, ThreadFacts
  <2>3. aborted' \in BOOLEAN
    BY <1>1, <1>9 DEF WorkerStep, Start, Generate, Crash, CallerInv
  <2>4. threads # << >>
    BY <1>1, <2>2
  <2>. QED BY <1>1, <2>2, <2>3, <2>4, PartitionFrame DEF CallerInv, Max0
<1>10. CASE UNCHANGED vars
  <2>1. UNCHANGED partitionVars /\ UNCHANGED threadVars /\ main' = main
    BY <1>10 DEF vars
  <2>. QED BY <1>1, <2>1, PartitionFrame DEF CallerInv, threadVars, Max0
<1>. QED BY <1>2, <1>3, <1>4, <1>5, <1>6, <1>7, <1>8, <1>9, <1>10 DEF Next, CallerStep, Ended

\* The columns of the threads follow those joined, each in its slot.
LEMMA StepKeepsThreads ==
  ASSUME IInv, [Next]_vars
  PROVE  ThreadsInv'
<1>. DEFINE L == Len(threads)
            M == Len(threads')
<1>1. /\ nSlots \in Nat \ {0} /\ L \in Nat /\ Given \in Nat /\ Joined \in Nat /\ Joined + L = Given
      /\ \A j \in 1 .. L : /\ threads[j] \in ThreadShape
                           /\ threads[j].column = Joined + j /\ threads[j].slot = Place(Joined + j)
  BY StateFacts
<1>. HIDE DEF L, M
<1>2. ASSUME threads' \in Seq(ThreadShape), UNCHANGED partitionVars,
             \A j \in 1 .. M : threads'[j].column = Joined' + j /\ threads'[j].slot = Place(Joined' + j)
      PROVE  ThreadsInv'
  <2>1. \A c : Place(c)' = Place(c)
    BY <1>2, PartitionFrame
  <2>. QED BY <1>2, <2>1 DEF ThreadsInv, ThreadShape, M
<1>3. CASE Partition
  <2>1. threads' = << >>
    BY <1>3, PartitionFacts DEF threadVars
  <2>. QED BY <2>1 DEF ThreadsInv
<1>4. CASE Assign \/ AllLaunched \/ Return \/ UNCHANGED vars
  <2>1. UNCHANGED partitionVars /\ threads' = threads /\ Joined' = Joined /\ M = L
    BY <1>4, QuietFacts DEF threadVars, L, M
  <2>. QED BY <1>1, <1>2, <2>1 DEF IInv, ThreadsInv, ThreadShape
<1>5. CASE Launch
  <2>1. /\ UNCHANGED partitionVars /\ Joined' = Joined
        /\ threads' \in Seq(ThreadShape) /\ M = L + 1
        /\ \A j \in 1 .. L : threads'[j] = threads[j]
        /\ threads'[L + 1] = NewThread(Given + 1)
    BY <1>5, LaunchFacts DEF L, M
  <2>2. ASSUME NEW j \in 1 .. M
        PROVE  threads'[j].column = Joined' + j /\ threads'[j].slot = Place(Joined' + j)
    <3>1. CASE j \in 1 .. L
      BY <1>1, <2>1, <3>1
    <3>2. CASE j = L + 1
      <4>1. Joined + j = Given + 1
        BY <1>1, <3>2
      <4>. QED BY <2>1, <3>2, <4>1 DEF NewThread
    <3>. QED BY <1>1, <2>1, <3>1, <3>2
  <2>. QED BY <1>2, <2>1, <2>2
<1>6. CASE Reuse
  <2>1. /\ UNCHANGED partitionVars /\ Joined' = Joined + 1
        /\ threads' \in Seq(ThreadShape) /\ M = L
        /\ \A j \in 1 .. L - 1 : threads'[j] = threads[j + 1]
        /\ threads'[L] = NewThread(Given + 1)
    BY <1>6, ReuseFacts DEF L, M
  <2>2. ASSUME NEW j \in 1 .. M
        PROVE  threads'[j].column = Joined' + j /\ threads'[j].slot = Place(Joined' + j)
    <3>1. CASE j \in 1 .. L - 1
      <4>1. j + 1 \in 1 .. L /\ Joined + (j + 1) = Joined' + j /\ threads'[j] = threads[j + 1]
        BY <1>1, <2>1, <3>1
      <4>2. threads[j + 1].column = Joined + (j + 1) /\ threads[j + 1].slot = Place(Joined + (j + 1))
        BY <1>1, <4>1
      <4>. QED BY <4>1, <4>2
    <3>2. CASE j = L
      <4>1. Joined' + j = Given + 1
        BY <1>1, <2>1, <3>2
      <4>. QED BY <2>1, <3>2, <4>1 DEF NewThread
    <3>. QED BY <1>1, <2>1, <3>1, <3>2
  <2>. QED BY <1>2, <2>1, <2>2
<1>7. CASE JoinLast
  <2>1. /\ UNCHANGED partitionVars /\ Joined' = Joined + 1
        /\ threads' \in Seq(ThreadShape) /\ M = L - 1
        /\ \A j \in 1 .. L - 1 : threads'[j] = threads[j + 1]
    BY <1>7, JoinFacts DEF L, M
  <2>2. ASSUME NEW j \in 1 .. M
        PROVE  threads'[j].column = Joined' + j /\ threads'[j].slot = Place(Joined' + j)
    <3>1. j + 1 \in 1 .. L /\ Joined + (j + 1) = Joined' + j /\ threads'[j] = threads[j + 1]
      BY <1>1, <2>1
    <3>2. threads[j + 1].column = Joined + (j + 1) /\ threads[j + 1].slot = Place(Joined + (j + 1))
      BY <1>1, <3>1
    <3>. QED BY <3>1, <3>2
  <2>. QED BY <1>2, <2>1, <2>2
<1>8. ASSUME NEW i, WorkerStep(i) PROVE ThreadsInv'
  <2>1. PICK from \in States, to \in States : ThreadStep(i, from, to)
    BY <1>8, WorkerFacts
  <2>2. /\ UNCHANGED partitionVars /\ Joined' = Joined /\ threads' \in Seq(ThreadShape) /\ M = L
        /\ \A j \in 1 .. L :
             threads'[j].column = threads[j].column /\ threads'[j].slot = threads[j].slot
    BY <2>1, ThreadFacts DEF L, M
  <2>. QED BY <1>1, <1>2, <2>2
<1>. QED BY <1>3, <1>4, <1>5, <1>6, <1>7, <1>8 DEF Next, CallerStep, Ended

\* The slot of a thread is neither that of another one nor that of a column
\* joined and still in its slot.
LEMMA OwnSlot ==
  ASSUME IInv, NEW i \in 1 .. Len(threads)
  PROVE  /\ Joined + i \in Nat \ {0} /\ Joined + i <= Given
         /\ Place(Joined + i) \in Slots /\ Place(Joined + i) \in Nat /\ Place(Joined + i) < Given
         /\ \A j \in 1 .. Len(threads) : j # i => Place(Joined + j) # Place(Joined + i)
         /\ \A c \in 1 .. Joined : c + nSlots > Given => Place(c) # Place(Joined + i)
<1>1. /\ nSlots \in Nat \ {0} /\ Len(threads) \in Nat /\ Given \in Nat /\ Joined \in Nat
      /\ Joined + Len(threads) = Given /\ Len(threads) <= nSlots
  BY StateFacts
<1>2. Joined + i \in Nat \ {0} /\ Joined + i <= Given
  BY <1>1
<1>3. /\ \A c \in Nat \ {0} : Place(c) \in Slots /\ Place(c) \in Nat /\ Place(c) < c
      /\ \A c, d \in Nat \ {0} : c < d /\ d < c + nSlots => Place(c) # Place(d)
  BY <1>1, PlaceFacts
<1>4. Place(Joined + i) \in Slots /\ Place(Joined + i) \in Nat /\ Place(Joined + i) < Joined + i
  BY <1>2, <1>3
<1>5. Place(Joined + i) < Given
  BY <1>1, <1>2, <1>4
<1>6. ASSUME NEW j \in 1 .. Len(threads), j # i PROVE Place(Joined + j) # Place(Joined + i)
  <2>1. Joined + j \in Nat \ {0}
    BY <1>1
  <2>2. CASE j < i
    <3>1. Joined + j < Joined + i /\ Joined + i < (Joined + j) + nSlots
      BY <1>1, <2>2
    <3>. QED BY <1>2, <1>3, <2>1, <3>1
  <2>3. CASE i < j
    <3>1. Joined + i < Joined + j /\ Joined + j < (Joined + i) + nSlots
      BY <1>1, <2>3
    <3>. QED BY <1>2, <1>3, <2>1, <3>1
  <2>. QED BY <1>6, <2>2, <2>3
<1>7. ASSUME NEW c \in 1 .. Joined, c + nSlots > Given PROVE Place(c) # Place(Joined + i)
  <2>1. c \in Nat \ {0} /\ c < Joined + i /\ Joined + i < c + nSlots
    BY <1>1, <1>2, <1>7
  <2>. QED BY <1>2, <1>3, <2>1
<1>. QED BY <1>2, <1>4, <1>5, <1>6, <1>7

\* A slot that was never used holds nothing, the others what their columns say.
LEMMA StepKeepsSlots ==
  ASSUME IInv, [Next]_vars
  PROVE  SlotsInv'
<1>. DEFINE L == Len(threads)
            M == Len(threads')
<1>1. /\ nSlots \in Nat \ {0} /\ L \in Nat /\ Given \in Nat /\ Joined \in Nat
      /\ Joined + L = Given /\ L <= nSlots
      /\ \A j \in 1 .. L : /\ threads[j] \in ThreadShape
                           /\ threads[j].column = Joined + j /\ threads[j].slot = Place(Joined + j)
  BY StateFacts
<1>2. /\ slots \in [Slots -> Seq(1 .. nColumns)]
      /\ \A k \in Slots : k \in Nat
      /\ \A k \in Slots : k >= Given => slots[k] = << >>
      /\ \A c \in 1 .. Joined : c + nSlots > Given => slots[Place(c)] = <<c>>
      /\ \A i \in 1 .. L :
           /\ threads[i].at \in {"generate", "crashed"} => slots[Place(Joined + i)] = << >>
           /\ threads[i].at = "done" => slots[Place(Joined + i)] = <<Joined + i>>
  BY <1>1 DEF IInv, SlotsInv, Slots
<1>. HIDE DEF L, M
<1>3. ASSUME UNCHANGED partitionVars,
             slots' \in [Slots -> Seq(1 .. nColumns)],
             \A k \in Slots : k >= Given' => slots'[k] = << >>,
             \A c \in 1 .. Joined' : c + nSlots > Given' => slots'[Place(c)] = <<c>>,
             \A i \in 1 .. M :
               /\ threads'[i].at \in {"generate", "crashed"} => slots'[Place(Joined' + i)] = << >>
               /\ threads'[i].at = "done" => slots'[Place(Joined' + i)] = <<Joined' + i>>
      PROVE  SlotsInv'
  <2>1. nSlots' = nSlots /\ Slots' = Slots /\ nColumns' = nColumns /\ \A c : Place(c)' = Place(c)
    BY <1>3, PartitionFrame
  <2>. QED BY <1>3, <2>1 DEF SlotsInv, M
<1>4. CASE Partition
  <2>1. /\ slots' = slots /\ Slots' = Slots /\ Given = 0 /\ Given' = 0 /\ Joined' = 0 /\ threads' = << >>
    BY <1>4, PartitionFacts DEF threadVars
  <2>2. slots' \in [Slots -> Seq((1 .. nColumns)')]
    <3>1. \A k \in Slots : slots[k] = << >>
      BY <1>2, <2>1
    <3>2. slots' = [k \in Slots |-> << >>]
      BY <1>2, <2>1, <3>1
    <3>. QED BY <3>2
  <2>. QED BY <1>2, <2>1, <2>2 DEF SlotsInv
<1>5. CASE Assign \/ AllLaunched \/ Return \/ UNCHANGED vars
  <2>1. /\ UNCHANGED partitionVars /\ threads' = threads /\ slots' = slots
        /\ Given' = Given /\ Joined' = Joined /\ M = L
    BY <1>5, QuietFacts DEF threadVars, L, M
  <2>. QED BY <1>2, <1>3, <2>1
<1>6. CASE Launch
  <2>1. /\ UNCHANGED partitionVars /\ slots' = slots /\ Given' = Given + 1 /\ Joined' = Joined
        /\ Joined = 0 /\ M = L + 1
        /\ \A j \in 1 .. L : threads'[j] = threads[j]
        /\ threads'[L + 1].at = "start"
    BY <1>6, LaunchFacts, StateFacts DEF L, M, NewThread
  <2>2. \A k \in Slots : k >= Given' => slots'[k] = << >>
    BY <1>1, <1>2, <2>1
  <2>3. \A c \in 1 .. Joined' : c + nSlots > Given' => slots'[Place(c)] = <<c>>
    BY <1>1, <2>1
  <2>4. ASSUME NEW i \in 1 .. M
        PROVE  /\ threads'[i].at \in {"generate", "crashed"} => slots'[Place(Joined' + i)] = << >>
               /\ threads'[i].at = "done" => slots'[Place(Joined' + i)] = <<Joined' + i>>
    <3>1. i \in 1 .. L \/ i = L + 1
      BY <1>1, <2>1
    <3>. QED BY <1>2, <2>1, <3>1
  <2>. QED BY <1>2, <1>3, <2>1, <2>2, <2>3, <2>4
<1>7. ASSUME Reuse \/ JoinLast PROVE SlotsInv'
  <2>1. /\ UNCHANGED partitionVars /\ slots' = slots /\ Given' \in {Given, Given + 1}
        /\ Joined' = Joined + 1 /\ L > 0 /\ threads[1].at = "done"
        /\ \A j \in 1 .. L - 1 : threads'[j] = threads[j + 1]
        /\ M \in {L - 1, L} /\ (M = L => threads'[L].at = "start")
    <3>1. CASE Reuse
      BY <3>1, ReuseFacts DEF L, M, NewThread
    <3>2. CASE JoinLast
      <4>1. L - 1 # L
        BY <1>1
      <4>. QED BY <3>2, <4>1, JoinFacts DEF L, M
    <3>. QED BY <1>7, <3>1, <3>2
  <2>2. \A k \in Slots : k >= Given' => slots'[k] = << >>
    BY <1>1, <1>2, <2>1
  <2>3. ASSUME NEW c \in 1 .. Joined', c + nSlots > Given' PROVE slots'[Place(c)] = <<c>>
    <3>1. CASE c \in 1 .. Joined
      <4>1. c + nSlots > Given
        BY <1>1, <2>1, <2>3
      <4>. QED BY <1>2, <2>1, <3>1, <4>1
    <3>2. CASE c = Joined + 1
      <4>1. 1 \in 1 .. L
        BY <1>1, <2>1
      <4>. QED BY <1>2, <2>1, <3>2, <4>1
    <3>. QED BY <1>1, <2>1, <3>1, <3>2
  <2>4. ASSUME NEW i \in 1 .. M
        PROVE  /\ threads'[i].at \in {"generate", "crashed"} => slots'[Place(Joined' + i)] = << >>
               /\ threads'[i].at = "done" => slots'[Place(Joined' + i)] = <<Joined' + i>>
    <3>1. CASE i \in 1 .. L - 1
      <4>1. i + 1 \in 1 .. L /\ Joined' + i = Joined + (i + 1) /\ threads'[i] = threads[i + 1]
        BY <1>1, <2>1, <3>1
      <4>. QED BY <1>2, <2>1, <4>1
    <3>2. CASE i = L /\ M = L
      BY <2>1, <3>2
    <3>. QED BY <1>1, <2>1, <3>1, <3>2
  <2>. QED BY <1>2, <1>3, <2>1, <2>2, <2>3, <2>4
<1>8. ASSUME NEW i, WorkerStep(i) PROVE SlotsInv'
  <2>. DEFINE P == Place(Joined + i)
  <2>1. PICK from \in States, to \in States : ThreadStep(i, from, to)
    BY <1>8, WorkerFacts
  <2>2. /\ UNCHANGED partitionVars /\ Given' = Given /\ Joined' = Joined /\ M = L
        /\ i \in 1 .. L /\ threads[i].at = from
        /\ \A j \in 1 .. L : threads'[j].at = IF j = i THEN to ELSE threads[j].at
    BY <2>1, ThreadFacts DEF L, M
  <2>3. /\ Joined + i \in Nat \ {0} /\ P \in Slots /\ P < Given /\ threads[i].slot = P
        /\ threads[i].column = Joined + i
        /\ \A j \in 1 .. L : j # i => Place(Joined + j) # P
        /\ \A c \in 1 .. Joined : c + nSlots > Given => Place(c) # P
    BY <1>1, <2>2, OwnSlot DEF L
  <2>. HIDE DEF P
  <2>4. ASSUME NEW e \in Seq(1 .. nColumns), slots' = [slots EXCEPT ![P] = e],
               to \in {"generate", "crashed"} => e = << >>,
               to = "done" => e = <<Joined + i>>
        PROVE  SlotsInv'
    <3>1. slots' \in [Slots -> Seq(1 .. nColumns)] /\ \A k \in Slots : slots'[k] = IF k = P THEN e ELSE slots[k]
      BY <1>2, <2>4
    <3>2. \A c \in Nat \ {0} : Place(c) \in Slots
      BY <1>1, PlaceFacts
    <3>3. ASSUME NEW k \in Slots, k >= Given PROVE slots'[k] = << >>
      <4>1. k # P
        BY <1>1, <1>2, <2>3, <3>3
      <4>. QED BY <1>2, <3>1, <3>3, <4>1
    <3>4. ASSUME NEW c \in 1 .. Joined, c + nSlots > Given PROVE slots'[Place(c)] = <<c>>
      <4>1. c \in Nat \ {0} /\ Place(c) # P
        BY <1>1, <2>3, <3>4
      <4>2. slots'[Place(c)] = slots[Place(c)]
        BY <3>1, <3>2, <4>1
      <4>. QED BY <1>2, <3>4, <4>2
    <3>5. ASSUME NEW j \in 1 .. L
          PROVE  /\ threads'[j].at \in {"generate", "crashed"} => slots'[Place(Joined + j)] = << >>
                 /\ threads'[j].at = "done" => slots'[Place(Joined + j)] = <<Joined + j>>
      <4>1. CASE j = i
        BY <2>2, <2>3, <2>4, <3>1, <4>1 DEF P
      <4>2. CASE j # i
        <5>1. Joined + j \in Nat \ {0}
          BY <1>1
        <5>2. slots'[Place(Joined + j)] = slots[Place(Joined + j)]
          BY <2>3, <3>1, <3>2, <4>2, <5>1
        <5>. QED BY <1>2, <2>2, <4>2, <5>2
      <4>. QED BY <4>1, <4>2
    <3>. QED BY <1>3, <2>2, <3>1, <3>3, <3>4, <3>5
  <2>5. slots[P] \in Seq(1 .. nColumns) /\ slots = [slots EXCEPT ![P] = slots[P]]
    BY <1>2, <2>3
  <2>6. CASE Start(i)
    <3>1. slots' = [slots EXCEPT ![P] = << >>] /\ threads[i].at = "start"
          /\ threads' = [threads EXCEPT ![i].at = "generate"]
      BY <2>3, <2>6 DEF Start, ThreadStep
    <3>2. to = "generate"
      <4>1. ThreadStep(i, "start", "generate")
        BY <2>6 DEF Start
      <4>2. threads'[i].at = "generate"
        BY <2>2, <4>1, ThreadFacts DEF States, L
      <4>. QED BY <2>2, <4>2
    <3>3. << >> \in Seq(1 .. nColumns) /\ to \in {"generate", "crashed"} /\ to # "done"
      BY <3>2
    <3>. QED BY <2>4, <3>1, <3>3
  <2>7. CASE Generate(i)
    <3>1. ThreadStep(i, "generate", "done") /\ slots' = [slots EXCEPT ![P] = Append(@, Joined + i)]
      BY <2>3, <2>7 DEF Generate
    <3>2. threads[i].at = "generate" /\ threads'[i].at = "done"
      BY <2>2, <3>1, ThreadFacts DEF States, L
    <3>3. to = "done" /\ slots[P] = << >>
      BY <1>2, <2>2, <3>2 DEF P
    <3>4. slots' = [slots EXCEPT ![P] = <<Joined + i>>]
      BY <3>1, <3>3
    <3>5. Joined + i \in 1 .. nColumns
      BY <1>1, <2>2, <2>3, StateFacts DEF L
    <3>6. <<Joined + i>> \in Seq(1 .. nColumns) /\ to = "done" /\ to \notin {"generate", "crashed"}
      BY <2>2, <2>3, <3>3, <3>5
    <3>. QED BY <2>4, <3>4, <3>6
  <2>8. CASE Crash(i)
    <3>1. ThreadStep(i, "generate", "crashed") /\ slots' = slots
      BY <2>8 DEF Crash
    <3>2. threads[i].at = "generate" /\ threads'[i].at = "crashed"
      BY <2>2, <3>1, ThreadFacts DEF States, L
    <3>3. to = "crashed" /\ slots[P] = << >>
      BY <1>2, <2>2, <3>2 DEF P
    <3>. QED BY <2>4, <2>5, <3>1, <3>3
  <2>. QED BY <1>8, <2>6, <2>7, <2>8 DEF WorkerStep
<1>. QED BY <1>4, <1>5, <1>6, <1>7, <1>8 DEF Next, CallerStep, Ended

\* The slots come round again.
LEMMA PlaceAgain ==
  ASSUME nSlots \in Nat \ {0}, NEW r \in Nat, NEW m \in Nat, m = r - nSlots
  PROVE  r % nSlots = Place(m + 1)
<1>1. m + nSlots = r
  OBVIOUS
<1>2. r % nSlots = m % nSlots
  BY <1>1, ModFacts
<1>. QED BY <1>2, PlaceFacts

\* The caller has not joined more threads than there are columns.
LEMMA FileBound ==
  ASSUME IInv
  PROVE  recIdx <= nColumns + nSlots
<1>1. /\ nSlots \in Nat \ {0} /\ nColumns \in Nat /\ Fewer \in Nat /\ Fewer <= nSlots
      /\ recIdx \in Nat /\ Len(threads) \in Nat
  BY StateFacts
<1>2. CASE main \in {"reuse", "returned"}
  <2>1. Len(threads) = Fewer - Max0(recIdx - nColumns)
    BY <1>2 DEF IInv, CallerInv
  <2>. QED BY <1>1, <2>1 DEF Max0
<1>. QED BY <1>1, <1>2 DEF IInv, CallerInv

\* What the caller writes when it has joined the oldest thread: the next column
\* of the file, or nothing as long as there are slots that no column had.
LEMMA PrintedFacts ==
  ASSUME IInv, main = "reuse", Len(threads) > 0, threads[1].at = "done"
  PROVE  slots[recIdx % nSlots] = IF recIdx < nSlots THEN << >> ELSE <<recIdx - nSlots + 1>>
<1>1. /\ nSlots \in Nat \ {0} /\ nColumns \in Nat /\ Fewer \in Nat
      /\ Fewer <= nSlots /\ Fewer <= nColumns
      /\ Len(threads) \in Nat /\ recIdx \in Nat
      /\ Given \in Nat /\ Given <= nColumns /\ Given <= recIdx
      /\ Joined \in Nat /\ Joined + Len(threads) = Given
      /\ Joined = recIdx - Fewer
  BY StateFacts
<1>2. /\ \A c \in Nat \ {0} : Place(c) \in Slots
      /\ \A c \in Nat \ {0} : c <= nSlots => Place(c) = c - 1
      /\ \A r \in Nat : r % nSlots = Place(r + 1)
  BY <1>1, PlaceFacts
<1>3. recIdx + 1 \in Nat \ {0} /\ recIdx % nSlots = Place(recIdx + 1)
  <2>1. recIdx + 1 \in Nat \ {0}
    BY <1>1
  <2>2. recIdx % nSlots = Place(recIdx + 1)
    BY <1>1, <1>2, Zenon
  <2>. QED BY <2>1, <2>2
<1>4. /\ \A k \in Slots : k >= Given => slots[k] = << >>
      /\ \A c \in 1 .. Joined : c + nSlots > Given => slots[Place(c)] = <<c>>
      /\ threads[1].at = "done" => slots[Place(Joined + 1)] = <<Joined + 1>>
  BY <1>1 DEF IInv, SlotsInv
<1>5. CASE recIdx < nSlots
  <2>1. Place(recIdx + 1) = recIdx /\ recIdx \in Slots
    BY <1>1, <1>2, <1>3, <1>5 DEF Slots
  <2>. QED BY <1>1, <1>3, <1>4, <1>5, <2>1
<1>6. CASE recIdx >= nSlots
  <2>. DEFINE m == recIdx - nSlots
  <2>1. m \in Nat /\ m <= Joined /\ m + 1 + nSlots > Given /\ m + 1 \in Nat \ {0}
    BY <1>1, <1>6
  <2>2. Place(recIdx + 1) = Place(m + 1)
    <3>. HIDE DEF m
    <3>1. m = recIdx - nSlots
      BY DEF m
    <3>. QED BY <1>1, <1>3, <2>1, <3>1, PlaceAgain
  <2>3. slots[Place(m + 1)] = <<m + 1>>
    <3>. HIDE DEF m
    <3>1. m = Joined \/ m + 1 \in 1 .. Joined
      BY <1>1, <2>1
    <3>. QED BY <1>4, <2>1, <3>1
  <2>4. ~(recIdx < nSlots)
    BY <1>1, <1>6
  <2>. QED BY <1>3, <2>2, <2>3, <2>4
<1>. QED BY <1>1, <1>5, <1>6

\* The numbers up to m, and the next one.
LEMMA NextNumber ==
  ASSUME NEW m \in Nat
  PROVE  /\ [c \in 1 .. m |-> c] \o <<m + 1>> = [c \in 1 .. m + 1 |-> c]
         /\ [c \in 1 .. m |-> c] \o << >> = [c \in 1 .. m |-> c]
         /\ [c \in 1 .. m |-> c] \in Seq(Nat) /\ Len([c \in 1 .. m |-> c]) = m
<1>. DEFINE s == [c \in 1 .. m |-> c]
<1>1. s \in Seq(Nat) /\ Len(s) = m /\ \A c \in 1 .. m : s[c] = c
  OBVIOUS
<1>. HIDE DEF s
<1>2. s \o <<m + 1>> = [c \in 1 .. m + 1 |-> c]
  <2>. DEFINE t == s \o <<m + 1>>
  <2>1. t \in Seq(Nat) /\ Len(t) = m + 1 /\ \A c \in 1 .. m : t[c] = s[c]
    BY <1>1
  <2>2. t[m + 1] = m + 1
    BY <1>1
  <2>. HIDE DEF t
  <2>3. \A c \in 1 .. m + 1 : c \in 1 .. m \/ c = m + 1
    OBVIOUS
  <2>4. t = [c \in 1 .. m + 1 |-> t[c]]
    BY <2>1
  <2>. QED BY <1>1, <2>1, <2>2, <2>3, <2>4 DEF t
<1>3. s \o << >> = s
  BY <1>1
<1>. QED BY <1>1, <1>2, <1>3 DEF s

\* The file has the columns up to the one last written.
LEMMA StepKeepsFile ==
  ASSUME IInv, [Next]_vars
  PROVE  FileInv'
<1>1. nSlots \in Nat \ {0} /\ recIdx \in Nat /\ FileInv
  BY StateFacts DEF IInv
<1>2. ASSUME nSlots' = nSlots, recIdx' = recIdx, outFile' = outFile PROVE FileInv'
  BY <1>1, <1>2 DEF FileInv
<1>3. CASE Partition
  BY <1>2, <1>3, PartitionFacts DEF threadVars
<1>4. CASE Assign \/ AllLaunched \/ Return \/ UNCHANGED vars
  BY <1>2, <1>4, QuietFacts, PartitionFrame DEF threadVars
<1>5. CASE Launch
  <2>1. /\ recIdx < nSlots /\ recIdx' = recIdx + 1 /\ outFile' = outFile /\ nSlots' = nSlots
    BY <1>5, LaunchFacts, PartitionFrame
  <2>2. Max0(recIdx - nSlots) = 0 /\ Max0(recIdx' - nSlots) = 0
    BY <1>1, <2>1 DEF Max0
  <2>. QED BY <1>1, <2>1, <2>2 DEF FileInv, Max0
<1>6. ASSUME Reuse \/ JoinLast PROVE FileInv'
  <2>1. /\ main = "reuse" /\ Len(threads) > 0 /\ threads[1].at = "done" /\ nSlots' = nSlots
        /\ recIdx' = recIdx + 1 /\ outFile' = outFile \o slots[recIdx % nSlots]
    BY <1>6, ReuseFacts, JoinFacts, PartitionFrame
  <2>2. slots[recIdx % nSlots] = IF recIdx < nSlots THEN << >> ELSE <<recIdx - nSlots + 1>>
    BY <2>1, PrintedFacts
  <2>. DEFINE m == Max0(recIdx - nSlots)
              n == Max0((recIdx + 1) - nSlots)
  <2>3. m \in Nat /\ (recIdx < nSlots => n = m /\ m = 0)
        /\ (~(recIdx < nSlots) => n = m + 1 /\ recIdx - nSlots + 1 = m + 1)
    BY <1>1 DEF Max0
  <2>4. outFile = [c \in 1 .. m |-> c]
    BY <1>1 DEF FileInv
  <2>. HIDE DEF m, n
  <2>5. outFile' = [c \in 1 .. n |-> c]
    <3>1. CASE recIdx < nSlots
      BY <2>1, <2>2, <2>3, <2>4, <3>1, NextNumber
    <3>2. CASE ~(recIdx < nSlots)
      BY <2>1, <2>2, <2>3, <2>4, <3>2, NextNumber
    <3>. QED BY <3>1, <3>2
  <2>6. Max0(recIdx - nSlots)' = n
    BY <2>1 DEF n, Max0
  <2>. QED BY <2>5, <2>6 DEF FileInv
<1>7. ASSUME NEW i, WorkerStep(i) PROVE FileInv'
  <2>1. PICK from \in States, to \in States : ThreadStep(i, from, to)
    BY <1>7, WorkerFacts
  <2>. QED BY <1>2, <2>1, ThreadFacts, PartitionFrame
<1>. QED BY <1>3, <1>4, <1>5, <1>6, <1>7 DEF Next, CallerStep, Ended

\* Which columns are finished after a step of the caller: the same ones.
LEMMA FinishedAfterCaller ==
  ASSUME IInv, Launch \/ Reuse \/ JoinLast
  PROVE  /\ Given' \in {Given, Given + 1}
         /\ \A c \in 1 .. Given : Finished(c)' <=> Finished(c)
         /\ \A c \in Nat : c = Given + 1 /\ Given' = c => ~Finished(c)'
<1>. DEFINE L == Len(threads)
<1>1. L \in Nat /\ Given \in Nat /\ Joined \in Nat /\ Joined + L = Given
  BY StateFacts
<1>. HIDE DEF L
<1>2. CASE Launch
  <2>1. /\ Given' = Given + 1 /\ Joined' = Joined
        /\ \A j \in 1 .. L : threads'[j] = threads[j]
        /\ threads'[L + 1].at = "start"
    BY <1>2, LaunchFacts DEF L, NewThread
  <2>2. ASSUME NEW c \in 1 .. Given PROVE Finished(c)' <=> Finished(c)
    <3>1. CASE c <= Joined
      BY <2>1, <3>1 DEF Finished
    <3>2. CASE ~(c <= Joined)
      <4>1. c - Joined \in 1 .. L
        BY <1>1, <3>2
      <4>. QED BY <2>1, <3>2, <4>1 DEF Finished
    <3>. QED BY <3>1, <3>2
  <2>3. ASSUME NEW c \in Nat, c = Given + 1 PROVE ~Finished(c)'
    <3>1. c - Joined = L + 1 /\ ~(c <= Joined)
      BY <1>1, <2>3
    <3>. QED BY <2>1, <3>1 DEF Finished
  <2>. QED BY <2>1, <2>2, <2>3
<1>3. CASE Reuse \/ JoinLast
  <2>1. /\ Joined' = Joined + 1 /\ L > 0 /\ threads[1].at = "done"
        /\ \A j \in 1 .. L - 1 : threads'[j] = threads[j + 1]
        /\ Given' = Given \/ (Given' = Given + 1 /\ threads'[L].at = "start")
    BY <1>3, ReuseFacts, JoinFacts DEF L, NewThread
  <2>2. ASSUME NEW c \in 1 .. Given PROVE Finished(c)' <=> Finished(c)
    <3>1. CASE c <= Joined
      <4>1. c <= Joined'
        BY <1>1, <2>1, <3>1
      <4>. QED BY <3>1, <4>1 DEF Finished
    <3>2. CASE c = Joined + 1
      <4>1. c - Joined = 1 /\ c <= Joined'
        BY <1>1, <2>1, <3>2
      <4>. QED BY <2>1, <4>1 DEF Finished
    <3>3. CASE c > Joined + 1
      <4>1. /\ c - Joined' \in 1 .. L - 1 /\ (c - Joined') + 1 = c - Joined
            /\ ~(c <= Joined) /\ ~(c <= Joined')
        BY <1>1, <2>1, <3>3
      <4>2. threads'[c - Joined'] = threads[c - Joined]
        BY <2>1, <4>1
      <4>. QED BY <4>1, <4>2 DEF Finished
    <3>. QED BY <1>1, <3>1, <3>2, <3>3
  <2>3. ASSUME NEW c \in Nat, c = Given + 1, Given' = c PROVE ~Finished(c)'
    <3>1. c - Joined' = L /\ ~(c <= Joined') /\ threads'[L].at = "start"
      BY <1>1, <2>1, <2>3
    <3>. QED BY <3>1 DEF Finished
  <2>. QED BY <2>1, <2>2, <2>3
<1>. QED BY <1>2, <1>3

\* A column joined or under way is finished after a step of a thread if it was
\* before or is the one generated.
LEMMA FinishedAfterWorker ==
  ASSUME IInv, NEW i, NEW from, NEW to \in States, ThreadStep(i, from, to), from # "done"
  PROVE  /\ Given' = Given
         /\ \A c \in 1 .. Given : Finished(c)' <=> Finished(c) \/ (c = Joined + i /\ to = "done")
<1>. DEFINE L == Len(threads)
<1>1. L \in Nat /\ Given \in Nat /\ Joined \in Nat /\ Joined + L = Given
  BY StateFacts
<1>2. /\ Given' = Given /\ Joined' = Joined /\ i \in 1 .. L /\ threads[i].at = from
      /\ \A j \in 1 .. L : threads'[j].at = IF j = i THEN to ELSE threads[j].at
  BY ThreadFacts
<1>. HIDE DEF L
<1>3. ASSUME NEW c \in 1 .. Given
      PROVE  Finished(c)' <=> Finished(c) \/ (c = Joined + i /\ to = "done")
  <2>1. CASE c <= Joined
    BY <1>1, <1>2, <2>1 DEF Finished
  <2>2. CASE ~(c <= Joined)
    <3>1. c - Joined \in 1 .. L /\ (c = Joined + i <=> c - Joined = i)
      BY <1>1, <1>2, <2>2
    <3>2. threads'[c - Joined].at = IF c - Joined = i THEN to ELSE threads[c - Joined].at
      BY <1>2, <3>1
    <3>3. Finished(c)' <=> threads'[c - Joined].at = "done"
      BY <1>2, <2>2 DEF Finished
    <3>4. Finished(c) <=> threads[c - Joined].at = "done"
      BY <2>2 DEF Finished
    <3>5. c - Joined = i => threads[c - Joined].at # "done"
      BY <1>2
    <3>. QED BY <3>1, <3>2, <3>3, <3>4, <3>5
  <2>. QED BY <2>1, <2>2
<1>. QED BY <1>2, <1>3

\* Memory in a slot comes from a column that is finished, and a first column
\* is only finished if it needs no edges or has some.
LEMMA StepKeepsMemory ==
  ASSUME IInv, [Next]_vars
  PROVE  MemoryInv'
<1>. DEFINE Edges(c) == SumAt(squares, rectagnleVecs(squares, c))
<1>1. /\ nSlots \in Nat \ {0} /\ Given \in Nat /\ Joined \in Nat /\ Len(threads) \in Nat
      /\ Joined + Len(threads) = Given /\ Len(threads) <= nSlots
  BY StateFacts
<1>2. /\ allocated \in [Slots -> BOOLEAN]
      /\ \A k \in Slots : k \in Nat
      /\ \A k \in Slots : allocated[k] => k < Given /\ Finished(k + 1)
      /\ \A c \in 1 .. Given :
           c <= nSlots /\ Finished(c) => call.allowDuplicateEdges \/ Edges(c) # 0
  BY <1>1 DEF IInv, MemoryInv, Slots
<1>3. ASSUME UNCHANGED partitionVars, allocated' \in [Slots -> BOOLEAN],
             \A k \in Slots : allocated'[k] => k < Given' /\ Finished(k + 1)',
             \A c \in 1 .. Given' :
               c <= nSlots /\ Finished(c)' => call.allowDuplicateEdges \/ Edges(c) # 0
      PROVE  MemoryInv'
  <2>1. nSlots' = nSlots /\ Slots' = Slots /\ call' = call /\ squares' = squares
    BY <1>3, PartitionFrame
  <2>. QED BY <1>3, <2>1 DEF MemoryInv
<1>. HIDE DEF Edges
<1>4. CASE Partition
  <2>1. /\ allocated' = allocated /\ Slots' = Slots /\ Given = 0 /\ Given' = 0
    BY <1>4, PartitionFacts DEF threadVars
  <2>2. \A k \in Slots : ~allocated[k]
    BY <1>2, <2>1
  <2>. QED BY <1>2, <2>1, <2>2 DEF MemoryInv
<1>5. CASE Assign \/ AllLaunched \/ Return \/ UNCHANGED vars
  <2>1. /\ UNCHANGED partitionVars /\ threads' = threads /\ allocated' = allocated
        /\ Given' = Given /\ Joined' = Joined
    BY <1>5, QuietFacts DEF threadVars
  <2>2. \A c \in Nat : Finished(c)' <=> Finished(c)
    BY <2>1 DEF Finished
  <2>3. ASSUME NEW k \in Slots, allocated'[k] PROVE k < Given' /\ Finished(k + 1)'
    BY <1>2, <2>1, <2>2, <2>3
  <2>4. ASSUME NEW c \in 1 .. Given', c <= nSlots, Finished(c)'
        PROVE  call.allowDuplicateEdges \/ Edges(c) # 0
    BY <1>1, <1>2, <2>1, <2>2, <2>4
  <2>. QED BY <1>2, <1>3, <2>1, <2>3, <2>4
<1>6. ASSUME Launch \/ Reuse \/ JoinLast PROVE MemoryInv'
  <2>1. UNCHANGED partitionVars /\ allocated' = allocated
    BY <1>6, LaunchFacts, ReuseFacts, JoinFacts
  <2>2. /\ Given' \in {Given, Given + 1}
        /\ \A c \in 1 .. Given : Finished(c)' <=> Finished(c)
        /\ \A c \in Nat : c = Given + 1 /\ Given' = c => ~Finished(c)'
    BY <1>6, FinishedAfterCaller
  <2>3. ASSUME NEW k \in Slots, allocated'[k] PROVE k < Given' /\ Finished(k + 1)'
    <3>1. k < Given /\ Finished(k + 1) /\ k + 1 \in 1 .. Given
      BY <1>1, <1>2, <2>1, <2>3
    <3>. QED BY <1>1, <1>2, <2>2, <3>1
  <2>4. ASSUME NEW c \in 1 .. Given', c <= nSlots, Finished(c)'
        PROVE  call.allowDuplicateEdges \/ Edges(c) # 0
    <3>1. c \in 1 .. Given \/ (c = Given + 1 /\ Given' = c)
      BY <1>1, <2>2
    <3>. QED BY <1>2, <2>2, <2>4, <3>1
  <2>. QED BY <1>2, <1>3, <2>1, <2>3, <2>4
<1>7. ASSUME NEW i, WorkerStep(i) PROVE MemoryInv'
  <2>. DEFINE P == Place(Joined + i)
  <2>1. PICK from \in {"start", "generate"}, to \in {"generate", "done", "crashed"} :
          /\ ThreadStep(i, from, to)
          /\ to = "done" => Generate(i)
          /\ to # "done" => allocated' = allocated
    BY <1>7 DEF WorkerStep, Start, Generate, Crash
  <2>2. to \in States /\ from # "done"
    BY DEF States
  <2>3. UNCHANGED partitionVars /\ i \in 1 .. Len(threads)
    BY <2>1, <2>2, ThreadFacts
  <2>4. /\ Given' = Given
        /\ \A c \in 1 .. Given : Finished(c)' <=> Finished(c) \/ (c = Joined + i /\ to = "done")
    BY <2>1, <2>2, FinishedAfterWorker
  <2>5. /\ Joined + i \in 1 .. Given /\ P \in Slots /\ P \in Nat /\ P < Given
        /\ threads[i].slot = P /\ threads[i].column = Joined + i
    <3>1. /\ threads[i].slot = Place(Joined + i) /\ threads[i].column = Joined + i
      BY <2>3, StateFacts
    <3>2. /\ Joined + i \in Nat \ {0} /\ Joined + i <= Given
          /\ Place(Joined + i) \in Slots /\ Place(Joined + i) \in Nat /\ Place(Joined + i) < Given
      BY <2>3, OwnSlot
    <3>. QED BY <1>1, <3>1, <3>2
  <2>. HIDE DEF P
  <2>6. ASSUME NEW k \in Slots, allocated[k] PROVE k < Given' /\ Finished(k + 1)'
    <3>1. k < Given /\ Finished(k + 1) /\ k + 1 \in 1 .. Given
      BY <1>1, <1>2, <2>6
    <3>. QED BY <2>4, <3>1
  <2>7. CASE to = "done"
    <3>1. /\ ~ReadsAtNull(i)
          /\ \E b \in BOOLEAN : allocated' = [allocated EXCEPT ![P] = b]
      BY <1>2, <2>1, <2>5, <2>7 DEF Generate, EdgesOf
    <3>2. allocated' \in [Slots -> BOOLEAN] /\ \A k \in Slots : k # P => allocated'[k] = allocated[k]
      BY <1>2, <3>1
    <3>3. ASSUME NEW c \in Nat, c = P + 1 PROVE Finished(c)'
      <4>1. c \in 1 .. Given
        BY <1>1, <2>5, <3>3
      <4>2. CASE Joined + i <= nSlots
        <5>1. Joined + i \in Nat \ {0}
          BY <1>1, <2>5
        <5>2. P = (Joined + i) - 1
          BY <1>1, <4>2, <5>1, PlaceFacts DEF P
        <5>3. c = Joined + i
          BY <3>3, <5>1, <5>2
        <5>. QED BY <2>4, <2>7, <4>1, <5>3
      <4>3. CASE Joined + i > nSlots
        <5>1. Joined + i \in Nat \ {0}
          BY <1>1, <2>5
        <5>2. P < (Joined + i) - nSlots
          BY <1>1, <4>3, <5>1, PlaceFacts DEF P
        <5>3. c <= Joined
          BY <1>1, <2>5, <3>3, <5>1, <5>2
        <5>4. Finished(c)
          BY <5>3 DEF Finished
        <5>. QED BY <2>4, <4>1, <5>4
      <4>. QED BY <1>1, <2>5, <4>2, <4>3
    <3>4. ASSUME NEW k \in Slots, allocated'[k] PROVE k < Given' /\ Finished(k + 1)'
      <4>1. CASE k = P
        <5>1. k + 1 \in Nat /\ k + 1 = P + 1
          BY <2>5, <4>1
        <5>. QED BY <2>4, <2>5, <3>3, <4>1, <5>1
      <4>2. CASE k # P
        BY <2>6, <3>2, <3>4, <4>2
      <4>. QED BY <4>1, <4>2
    <3>5. ASSUME NEW c \in 1 .. Given', c <= nSlots, Finished(c)'
          PROVE  call.allowDuplicateEdges \/ Edges(c) # 0
      <4>1. CASE Finished(c)
        BY <1>2, <2>4, <3>5, <4>1
      <4>2. CASE ~Finished(c)
        <5>1. c = Joined + i /\ c \in Nat \ {0}
          BY <2>4, <3>5, <4>2
        <5>2. P = c - 1 /\ P + 1 = c
          <6>1. \A d \in Nat \ {0} : d <= nSlots => Place(d) = d - 1
            BY <1>1, PlaceFacts
          <6>2. Place(c) = c - 1
            BY <3>5, <5>1, <6>1
          <6>. QED BY <5>1, <6>2 DEF P
        <5>3. ~allocated[P]
          BY <1>2, <2>5, <4>2, <5>2
        <5>. QED BY <2>5, <3>1, <5>1, <5>3 DEF ReadsAtNull, EdgesOf, Edges
      <4>. QED BY <4>1, <4>2
    <3>. QED BY <1>3, <2>3, <3>2, <3>4, <3>5
  <2>8. CASE to # "done"
    <3>1. allocated' = allocated
      BY <2>1, <2>8
    <3>2. ASSUME NEW c \in 1 .. Given', c <= nSlots, Finished(c)'
          PROVE  call.allowDuplicateEdges \/ Edges(c) # 0
      BY <1>2, <2>4, <2>8, <3>2
    <3>. QED BY <1>2, <1>3, <2>3, <2>6, <3>1, <3>2
  <2>. QED BY <2>7, <2>8
<1>. QED BY <1>4, <1>5, <1>6, <1>7 DEF Next, CallerStep, Ended

\* A thread that crashes has a column without edges, which is still there after.
LEMMA StepKeepsCrash ==
  ASSUME IInv, [Next]_vars
  PROVE  CrashInv'
<1>. DEFINE Edges(c) == SumAt(squares, rectagnleVecs(squares, c))
<1>1. ASSUME UNCHANGED partitionVars,
             aborted' => /\ ~call.allowDuplicateEdges
                         /\ \E c \in 1 .. nColumns : Edges(c) = 0
      PROVE  CrashInv'
  <2>1. nColumns' = nColumns /\ call' = call /\ squares' = squares
    BY <1>1, PartitionFrame
  <2>. QED BY <1>1, <2>1 DEF CrashInv
<1>2. aborted => /\ ~call.allowDuplicateEdges
                 /\ \E c \in 1 .. nColumns : Edges(c) = 0
  BY DEF IInv, CrashInv
<1>3. CASE Partition
  BY <1>3, PartitionFacts DEF CrashInv, threadVars
<1>4. CASE Assign \/ AllLaunched \/ Return \/ UNCHANGED vars
  <2>. HIDE DEF Edges
  <2>. QED BY <1>1, <1>2, <1>4, QuietFacts DEF threadVars
<1>5. CASE Launch \/ Reuse \/ JoinLast
  <2>. HIDE DEF Edges
  <2>. QED BY <1>1, <1>2, <1>5, LaunchFacts, ReuseFacts, JoinFacts
<1>6. ASSUME NEW i, WorkerStep(i) PROVE CrashInv'
  <2>1. PICK from \in States, to \in States : ThreadStep(i, from, to)
    BY <1>6, WorkerFacts
  <2>2. UNCHANGED partitionVars /\ i \in 1 .. Len(threads) /\ ~aborted
    BY <2>1, ThreadFacts
  <2>3. CASE Start(i) \/ Generate(i)
    BY <1>1, <2>2, <2>3 DEF Start, Generate
  <2>4. CASE Crash(i)
    <3>1. ~call.allowDuplicateEdges /\ EdgesOf(i) = 0
      BY <2>4 DEF Crash, ReadsAtNull
    <3>2. threads[i].column = Joined + i
      BY <2>2, StateFacts
    <3>3. Joined + i \in 1 .. nColumns
      BY <2>2, StateFacts
    <3>. QED BY <1>1, <2>2, <3>1, <3>2, <3>3 DEF EdgesOf
  <2>. QED BY <1>6, <2>3, <2>4 DEF WorkerStep
<1>. QED BY <1>3, <1>4, <1>5, <1>6 DEF Next, CallerStep, Ended

LEMMA StepKeepsIInv ==
  IInv /\ [Next]_vars => IInv'
BY StepKeepsPartition, StepKeepsCaller, StepKeepsThreads, StepKeepsSlots, StepKeepsFile,
   StepKeepsMemory, StepKeepsCrash DEF IInv

\* The invariant holds in every state of every behaviour.
LEMMA Invariance ==
  Spec => []IInv
BY InitIInv, StepKeepsIInv, PTL DEF Spec

-----------------------------------------------------------------------------
(***************************************************************************)
(* The partition and the threads keep to the shapes the code declares: a   *)
(* thread has a column there is and a slot there is.                       *)
(***************************************************************************)
THEOREM TypeCorrect ==
  Spec => []TypeOK
<1>1. IInv => TypeOK
  <2>. SUFFICES ASSUME IInv PROVE TypeOK
    OBVIOUS
  <2>1. /\ nSlots \in Nat \ {0} /\ nColumns \in Nat /\ recIdx \in Nat /\ Len(threads) \in Nat
        /\ Given \in Nat /\ Given <= nColumns /\ Given <= recIdx
        /\ Joined \in Nat /\ Joined + Len(threads) = Given
        /\ \A j \in 1 .. Len(threads) :
             /\ threads[j] \in ThreadShape
             /\ threads[j].column = Joined + j /\ threads[j].slot = Place(Joined + j)
    BY StateFacts
  <2>2. main \in {"partition", "launch", "reuse", "returned"} /\ aborted \in BOOLEAN
    BY DEF IInv, CallerInv
  <2>3. threads \in Seq(ThreadType)
    <3>1. threads \in Seq(ThreadShape)
      BY DEF IInv, ThreadsInv, ThreadShape
    <3>2. ASSUME NEW j \in 1 .. Len(threads) PROVE threads[j] \in ThreadType
      <4>1. threads[j].column \in 1 .. nColumns
        BY <2>1
      <4>2. threads[j].slot \in Slots
        BY <2>1, OwnSlot
      <4>3. threads[j] \in ThreadShape
        BY <2>1
      <4>. QED BY <4>1, <4>2, <4>3 DEF ThreadShape, ThreadType, States
    <3>. QED BY <3>1, <3>2
  <2>4. slots \in [Slots -> Seq(1 .. nColumns)] /\ allocated \in [Slots -> BOOLEAN]
    BY DEF IInv, SlotsInv, MemoryInv
  <2>5. outFile \in Seq(1 .. nColumns)
    <3>. DEFINE m == Max0(recIdx - nSlots)
    <3>1. m \in Nat /\ m <= nColumns
      BY <2>1, FileBound DEF Max0
    <3>2. outFile = [c \in 1 .. m |-> c]
      BY DEF IInv, FileInv
    <3>. HIDE DEF m
    <3>3. \A c \in 1 .. m : c \in 1 .. nColumns
      BY <2>1, <3>1
    <3>. QED BY <3>1, <3>2, <3>3
  <2>. QED BY <2>1, <2>2, <2>3, <2>4, <2>5 DEF TypeOK, IInv, PartitionInv
<1>. QED BY <1>1, Invariance, PTL

(***************************************************************************)
(* Whatever the shares, the noise and the number of threads, dividing the  *)
(* matrix neither loses nor adds an edge, and the threads do not change    *)
(* what the partition left them.                                           *)
(***************************************************************************)
THEOREM EdgesAreConserved ==
  Spec => []EdgesConserved
<1>1. IInv => EdgesConserved
  BY DEF IInv, PartitionInv
<1>. QED BY <1>1, Invariance, PTL

(***************************************************************************)
(* In both generators the squares cover what is to be generated, and no    *)
(* place twice, however often and in whatever order they are shattered.    *)
(***************************************************************************)
THEOREM SquaresTileMatrix ==
  Spec => []TilesMatrix
<1>1. IInv => TilesMatrix
  BY PartitionTiles DEF IInv
<1>. QED BY <1>1, Invariance, PTL

(***************************************************************************)
(* For every call, all shares and every noise, no square has more edges    *)
(* than the capacity once the first loop is left, nor has a column, when   *)
(* columns are what a thread generates, all of whose squares have a width; *)
(* any other column has at most twice the capacity.  The second loop,      *)
(* which does not ask for the capacity again, keeps to it.                 *)
(***************************************************************************)
THEOREM PiecesStayBounded ==
  Spec => []PiecesBounded
<1>1. Init => CapacityInv
  BY CapacityInitInv DEF Init
<1>2. IInv /\ CapacityInv /\ [Next]_vars => CapacityInv'
  <2>. SUFFICES ASSUME IInv, CapacityInv, [Next]_vars PROVE CapacityInv'
    OBVIOUS
  <2>1. PartitionInv
    BY DEF IInv
  <2>. QED BY <2>1, StepOfPartition, CapacityStepInv, CapacityStutterInv
<1>3. IInv /\ CapacityInv => PiecesBounded
  BY PiecesFit DEF IInv
<1>. QED BY <1>1, <1>2, <1>3, Invariance, PTL DEF Spec

(***************************************************************************)
(* For every call on a directed graph that edgeOverflow finds feasible and *)
(* whose edges fit the capacity, no square ever has more edges than cells, *)
(* at no turn of either loop, nor in the middle of a pass: duplicates can  *)
(* always be replaced.                                                     *)
(***************************************************************************)
THEOREM SquaresKeepRoom ==
  Spec => []NoneOverfull
<1>1. Init => RoomInv
  BY RoomInitInv DEF Init
<1>2. IInv /\ RoomInv /\ [Next]_vars => RoomInv'
  <2>. SUFFICES ASSUME IInv, RoomInv, [Next]_vars PROVE RoomInv'
    OBVIOUS
  <2>1. PartitionInv
    BY DEF IInv
  <2>. QED BY <2>1, StepOfPartition, RoomStepInv, RoomStutterInv
<1>3. IInv /\ RoomInv => NoneOverfull
  BY RoomIsEnough DEF IInv
<1>. QED BY <1>1, <1>2, <1>3, Invariance, PTL DEF Spec

(***************************************************************************)
(* For any number of columns and of threads, no two threads share a        *)
(* vector, and the one the caller writes is not being filled: counting     *)
(* columns modulo the number of threads finds it, though there may be      *)
(* fewer columns than threads.                                             *)
(***************************************************************************)
THEOREM SlotsAreNotShared ==
  Spec => []NoSharedSlot
<1>1. IInv => NoSharedSlot
  <2>. SUFFICES ASSUME IInv PROVE NoSharedSlot
    OBVIOUS
  <2>1. /\ nSlots \in Nat \ {0} /\ nColumns \in Nat /\ recIdx \in Nat /\ Len(threads) \in Nat
        /\ Fewer \in Nat /\ Fewer <= nSlots
        /\ Given \in Nat /\ Given <= nColumns /\ Given <= recIdx
        /\ Joined \in Nat /\ Joined + Len(threads) = Given
        /\ main = "reuse" => Joined = recIdx - Fewer
        /\ \A j \in 1 .. Len(threads) : threads[j].slot = Place(Joined + j)
    BY StateFacts
  <2>2. threads \in Seq(ThreadShape) /\ DOMAIN threads = 1 .. Len(threads)
    BY LenProperties DEF IInv, ThreadsInv, ThreadShape
  <2>3. ASSUME NEW i \in 1 .. Len(threads), NEW j \in 1 .. Len(threads), i # j
        PROVE  threads[i].slot # threads[j].slot
    BY <2>1, <2>3, OwnSlot
  <2>4. ASSUME main = "reuse", threads # << >>, Head(threads).at = "done",
               NEW i \in 1 .. Len(threads), threads[i].slot = recIdx % nSlots
        PROVE  threads[i].at = "done"
    <3>1. 1 \in 1 .. Len(threads) /\ threads[1].at = "done"
      BY <2>1, <2>2, <2>4, EmptySeq
    <3>2. recIdx % nSlots = Place(Joined + i)
      BY <2>1, <2>4
    <3>3. recIdx >= nSlots
      <4>. SUFFICES ASSUME recIdx < nSlots PROVE FALSE
        BY <2>1
      <4>1. recIdx % nSlots = recIdx
        BY <2>1, ModFacts
      <4>2. Place(Joined + i) < Given /\ Place(Joined + i) \in Nat
        BY OwnSlot
      <4>. QED BY <2>1, <3>2, <4>1, <4>2
    <3>4. PICK m \in Nat : m = recIdx - nSlots
      BY <2>1, <3>3
    <3>5. Place(m + 1) = Place(Joined + i)
      BY <2>1, <3>2, <3>4, PlaceAgain
    <3>6. CASE m = Joined
      <4>1. Place(Joined + 1) = Place(Joined + i)
        BY <3>5, <3>6
      <4>2. i = 1
        BY <3>1, <4>1, OwnSlot
      <4>. QED BY <3>1, <4>2
    <3>7. CASE m # Joined
      <4>1. m + 1 \in 1 .. Joined /\ (m + 1) + nSlots > Given
        BY <2>1, <2>4, <3>4, <3>7
      <4>. QED BY <3>5, <4>1, OwnSlot
    <3>. QED BY <3>6, <3>7
  <2>. QED BY <2>2, <2>3, <2>4 DEF NoSharedSlot
<1>. QED BY <1>1, Invariance, PTL

(***************************************************************************)
(* For any number of columns and of threads, the file receives the columns *)
(* in order, and all of them just when there are as many as threads.       *)
(***************************************************************************)
THEOREM ColumnsAreWrittenInOrder ==
  Spec => []WritesColumnsInOrder
<1>1. IInv => WritesColumnsInOrder
  <2>. SUFFICES ASSUME IInv PROVE WritesColumnsInOrder
    OBVIOUS
  <2>. DEFINE m == Max0(recIdx - nSlots)
  <2>1. /\ nSlots \in Nat \ {0} /\ nColumns \in Nat /\ recIdx \in Nat
    BY StateFacts
  <2>2. m \in Nat /\ outFile = [c \in 1 .. m |-> c]
    BY <2>1 DEF IInv, FileInv, Max0
  <2>3. ASSUME main = "returned"
        PROVE  m = nWritten
    <3>1. Fewer <= recIdx /\ Len(threads) = 0 /\ Len(threads) = Fewer - Max0(recIdx - nColumns)
      BY <2>3 DEF IInv, CallerInv
    <3>2. Fewer = Max0(recIdx - nColumns)
      BY <2>1, <3>1 DEF Max0, Fewer
    <3>3. recIdx = nColumns + Fewer
      BY <2>1, <3>1, <3>2 DEF Max0, Fewer
    <3>. QED BY <2>1, <3>3 DEF Max0, Fewer, nWritten, nSlots
  <2>. HIDE DEF m
  <2>4. Len(outFile) = m
    BY <2>2, NextNumber
  <2>. QED BY <2>2, <2>3, <2>4 DEF WritesColumnsInOrder
<1>. QED BY <1>1, Invariance, PTL

(***************************************************************************)
(* The generator ends the program only for a column without edges in a     *)
(* graph that may have no duplicates, and does not survive one among the   *)
(* first columns.                                                          *)
(***************************************************************************)
THEOREM EmptyColumnsCrash ==
  Spec => []OnlyEmptyColumnsCrash
<1>1. IInv => OnlyEmptyColumnsCrash
  <2>. SUFFICES ASSUME IInv PROVE OnlyEmptyColumnsCrash
    OBVIOUS
  <2>. DEFINE Edges(c) == SumAt(squares, rectagnleVecs(squares, c))
  <2>1. aborted => ~call.allowDuplicateEdges /\ \E c \in 1 .. nColumns : Edges(c) = 0
    BY DEF IInv, CrashInv
  <2>2. ASSUME main = "returned", ~call.allowDuplicateEdges, NEW c \in 1 .. nColumns, c <= nSlots
        PROVE  Edges(c) # 0
    <3>1. /\ nSlots \in Nat \ {0} /\ nColumns \in Nat /\ recIdx \in Nat
      BY StateFacts
    <3>2. /\ Fewer <= recIdx /\ Len(threads) = 0 /\ Len(threads) = Fewer - Max0(recIdx - nColumns)
      BY <2>2 DEF IInv, CallerInv
    <3>3. recIdx >= nColumns
      BY <3>1, <3>2 DEF Max0, Fewer
    <3>4. Given = nColumns /\ Joined = nColumns
      BY <3>1, <3>2, <3>3 DEF Given, Joined
    <3>5. Finished(c) /\ c \in 1 .. Given
      BY <3>4 DEF Finished
    <3>. QED BY <2>2, <3>5 DEF IInv, MemoryInv
  <2>. QED BY <2>1, <2>2 DEF OnlyEmptyColumnsCrash
<1>. QED BY <1>1, Invariance, PTL

-----------------------------------------------------------------------------
(***************************************************************************)
(* The edges of the pieces                                                 *)
(***************************************************************************)
\* What is said of squares and vectors here is said of given ones, so that it
\* may be said of those before and after a step alike.
Lefts(sqs) == {s.xs : s \in Range(sqs)}

\* The number of the piece a square is in, and the squares of pieces.
PieceOf(sqs, sorted, i) ==
  IF sorted THEN Cardinality({x \in Lefts(sqs) : x < sqs[i].xs}) + 1 ELSE i
OfPiece(sqs, sorted, p) == {i \in 1 .. Len(sqs) : PieceOf(sqs, sorted, i) = p}
Earlier(sqs, sorted, p) == {i \in 1 .. Len(sqs) : PieceOf(sqs, sorted, i) < p}

PieceCount(sqs, sorted) == IF sorted THEN Cardinality(Lefts(sqs)) ELSE Len(sqs)

\* The squares of a piece before the r-th one.
RankAmong(P, i) == Cardinality({j \in P : j < i})
FirstOf(P, r) == {i \in P : RankAmong(P, i) < r - 1}

\* Numbers are ranked by how many are less.
LEMMA NumbersRanked ==
  ASSUME NEW S, S \subseteq Nat, IsFiniteSet(S)
  PROVE  /\ \A x \in S : Cardinality({y \in S : y < x}) \in 0 .. Cardinality(S) - 1
         /\ \A x \in S, y \in S :
              x < y => Cardinality({z \in S : z < x}) < Cardinality({z \in S : z < y})
         /\ \A x \in S, y \in S :
              Cardinality({z \in S : z < x}) = Cardinality({z \in S : z < y}) => x = y
         /\ \A i \in 0 .. Cardinality(S) - 1 : \E x \in S : Cardinality({y \in S : y < x}) = i
<1>. DEFINE R == {q \in S \X S : q[1] < q[2]}
            r(x) == Cardinality({y \in S : y < x})
<1>1. \A x \in S, y \in S : <<x, y>> \in R <=> x < y
  OBVIOUS
<1>2. StrictOrder(R, S)
  <2>. HIDE DEF R
  <2>. QED BY <1>1 DEF StrictOrder
<1>3. \A x \in S : RankIn(S, R, x) = r(x)
  <2>1. \A x \in S : {y \in S : <<y, x>> \in R} = {y \in S : y < x}
    BY <1>1
  <2>. HIDE DEF R
  <2>. QED BY <2>1 DEF RankIn
<1>. HIDE DEF R
<1>. HIDE DEF r
<1>4. \A x \in S : RankIn(S, R, x) \in 0 .. Cardinality(S) - 1
  BY <1>2, RanksCount, ZenonT(30)
<1>5. ASSUME NEW x \in S, NEW y \in S, <<x, y>> \in R
      PROVE  RankIn(S, R, x) < RankIn(S, R, y)
  BY <1>2, <1>5, RanksCount
<1>6. \A x \in S, y \in S : RankIn(S, R, x) = RankIn(S, R, y) => x = y
  BY <1>2, RanksCount, ZenonT(30)
<1>7. ASSUME NEW i \in 0 .. Cardinality(S) - 1
      PROVE  \E x \in S : RankIn(S, R, x) = i
  <2>1. IsFiniteSet(S)
    OBVIOUS
  <2>2. i \in 0 .. Cardinality(S) - 1
    OBVIOUS
  <2>. QED BY ONLY <1>2, <2>1, <2>2, RanksCount
<1>9. \A x \in S : r(x) \in 0 .. Cardinality(S) - 1
  BY <1>3, <1>4
<1>10. \A x \in S, y \in S : x < y => r(x) < r(y)
  <2>. SUFFICES ASSUME NEW x \in S, NEW y \in S, x < y PROVE r(x) < r(y)
    OBVIOUS
  <2>1. RankIn(S, R, x) < RankIn(S, R, y)
    BY <1>1, <1>5
  <2>. QED BY <1>3, <2>1
<1>11. \A x \in S, y \in S : r(x) = r(y) => x = y
  BY <1>3, <1>6
<1>12. \A i \in 0 .. Cardinality(S) - 1 : \E x \in S : r(x) = i
  BY <1>3, <1>7
<1>. QED BY <1>9, <1>10, <1>11, <1>12 DEF r

\* The squares of a piece are taken in their order, one after the other.
LEMMA TurnFacts ==
  ASSUME NEW n \in Nat, NEW P \in SUBSET (1 .. n), NEW r \in 1 .. Cardinality(P)
  PROVE  LET h == CHOOSE i \in P : RankAmong(P, i) = r - 1
         IN  /\ Cardinality(P) \in Nat
             /\ h \in P /\ h \notin FirstOf(P, r)
             /\ FirstOf(P, r + 1) = FirstOf(P, r) \cup {h}
             /\ FirstOf(P, 1) = {}
             /\ FirstOf(P, Cardinality(P) + 1) = P
             /\ FirstOf(P, r) \in SUBSET P
<1>. DEFINE c == Cardinality(P)
            h == CHOOSE i \in P : RankAmong(P, i) = r - 1
            k(i) == RankAmong(P, i)
<1>1. IsFiniteSet(P) /\ c \in Nat /\ P \in SUBSET Nat
  <2>1. 1 \in Int /\ n \in Int
    OBVIOUS
  <2>2. IsFiniteSet(1 .. n)
    BY <2>1, FS_Interval
  <2>3. IsFiniteSet(P)
    BY <2>2, FS_Subset
  <2>4. P \in SUBSET Nat
    OBVIOUS
  <2>. QED BY <2>3, <2>4, FS_CardinalityType
<1>2. /\ \A x \in P : k(x) \in 0 .. c - 1
      /\ \A x \in P, y \in P : k(x) = k(y) => x = y
      /\ \A i \in 0 .. c - 1 : \E x \in P : k(x) = i
  BY <1>1, NumbersRanked DEF RankAmong
<1>3. r \in Int /\ r - 1 \in 0 .. c - 1
  BY <1>1
<1>. HIDE DEF c
<1>. HIDE DEF k
<1>4. h \in P /\ k(h) = r - 1
  <2>1. \E x \in P : k(x) = r - 1
    BY <1>2, <1>3
  <2>. QED BY <2>1 DEF k
<1>. HIDE DEF h
<1>5. \A x \in P : k(x) < (r + 1) - 1 <=> k(x) < r - 1 \/ x = h
  BY <1>1, <1>2, <1>3, <1>4
<1>6. /\ \A q : FirstOf(P, q) = {x \in P : k(x) < q - 1}
  BY DEF FirstOf, k
<1>7. FirstOf(P, r + 1) = FirstOf(P, r) \cup {h}
  BY <1>4, <1>5, <1>6
<1>8. FirstOf(P, 1) = {}
  <2>1. \A x \in P : ~(k(x) < 1 - 1)
    BY <1>2
  <2>. QED BY <1>6, <2>1
<1>9. FirstOf(P, c + 1) = P
  <2>1. \A x \in P : k(x) < (c + 1) - 1
    BY <1>1, <1>2
  <2>. QED BY <1>6, <2>1
<1>10. h \notin FirstOf(P, r)
  BY <1>3, <1>4, <1>6
<1>. QED BY <1>1, <1>4, <1>6, <1>7, <1>8, <1>9, <1>10 DEF c, h

\* Every piece has a square, and every square is in a piece.
LEMMA PieceFacts ==
  ASSUME NEW sqs \in Seq(SquareType), NEW sorted \in BOOLEAN
  PROVE  /\ PieceCount(sqs, sorted) \in Nat
         /\ \A i \in 1 .. Len(sqs) : PieceOf(sqs, sorted, i) \in 1 .. PieceCount(sqs, sorted)
         /\ \A p \in 1 .. PieceCount(sqs, sorted) :
              \E i \in 1 .. Len(sqs) : PieceOf(sqs, sorted, i) = p
         /\ sorted => \A i, j \in 1 .. Len(sqs) :
              PieceOf(sqs, sorted, i) < PieceOf(sqs, sorted, j) => sqs[i].xs < sqs[j].xs
         /\ sorted => \A i \in 1 .. Len(sqs) :
              Cardinality({x \in Lefts(sqs) : x < sqs[i].xs}) \in Nat
<1>1. /\ Len(sqs) \in Nat /\ DOMAIN sqs = 1 .. Len(sqs)
      /\ \A i \in 1 .. Len(sqs) : sqs[i].xs \in Nat
  <2>1. \A i \in 1 .. Len(sqs) : sqs[i] \in SquareType
    OBVIOUS
  <2>. QED BY <2>1, LenProperties DEF SquareType
<1>2. CASE ~sorted
  BY <1>1, <1>2 DEF PieceOf, PieceCount
<1>3. CASE sorted
  <2>. DEFINE S == Lefts(sqs)
              c == Cardinality(S)
              k(x) == Cardinality({y \in S : y < x})
  <2>1. S \in SUBSET Nat /\ \A i \in 1 .. Len(sqs) : sqs[i].xs \in S
    BY <1>1 DEF Lefts, Range
  <2>2. \A x \in S : \E i \in 1 .. Len(sqs) : sqs[i].xs = x
    BY <1>1 DEF Lefts, Range
  <2>3. IsFiniteSet(S) /\ c \in Nat
    <3>. DEFINE f == [i \in 1 .. Len(sqs) |-> sqs[i].xs]
    <3>1. f \in Surjection(1 .. Len(sqs), S)
      BY <2>1, <2>2 DEF Surjection
    <3>2. IsFiniteSet(1 .. Len(sqs))
      BY <1>1, FS_Interval
    <3>. HIDE DEF f, S
    <3>. QED BY <3>1, <3>2, FS_Surjection, FS_CardinalityType
  <2>4. \A i \in 1 .. Len(sqs) : PieceOf(sqs, sorted, i) = k(sqs[i].xs) + 1
    BY <1>3 DEF PieceOf
  <2>. HIDE DEF S
  <2>5. /\ \A x \in S : k(x) \in 0 .. c - 1
        /\ \A x \in S, y \in S : x < y => k(x) < k(y)
        /\ \A x \in S, y \in S : k(x) = k(y) => x = y
        /\ \A i \in 0 .. c - 1 : \E x \in S : k(x) = i
    BY <2>1, <2>3, NumbersRanked
  <2>. HIDE DEF k, c
  <2>6. \A i \in 1 .. Len(sqs) : PieceOf(sqs, sorted, i) \in 1 .. c
    <3>. SUFFICES ASSUME NEW i \in 1 .. Len(sqs) PROVE PieceOf(sqs, sorted, i) \in 1 .. c
      OBVIOUS
    <3>1. k(sqs[i].xs) \in 0 .. c - 1
      BY <2>1, <2>5
    <3>2. PieceOf(sqs, sorted, i) = k(sqs[i].xs) + 1
      BY <2>4
    <3>. HIDE DEF k
    <3>. QED BY <2>3, <3>1, <3>2
  <2>7. ASSUME NEW p \in 1 .. c PROVE \E i \in 1 .. Len(sqs) : PieceOf(sqs, sorted, i) = p
    <3>1. p - 1 \in 0 .. c - 1 /\ (p - 1) + 1 = p
      BY <2>3
    <3>2. PICK x \in S : k(x) = p - 1
      BY <2>5, <3>1
    <3>. QED BY <2>2, <2>4, <3>1, <3>2
  <2>8. ASSUME NEW i \in 1 .. Len(sqs), NEW j \in 1 .. Len(sqs),
               PieceOf(sqs, sorted, i) < PieceOf(sqs, sorted, j)
        PROVE  sqs[i].xs < sqs[j].xs
    <3>1. /\ sqs[i].xs \in S /\ sqs[j].xs \in S /\ sqs[i].xs \in Nat /\ sqs[j].xs \in Nat
      BY <1>1, <2>1
    <3>2. k(sqs[i].xs) < k(sqs[j].xs) /\ k(sqs[i].xs) \in Int /\ k(sqs[j].xs) \in Int
      BY <2>4, <2>5, <2>8, <3>1
    <3>3. sqs[j].xs < sqs[i].xs => k(sqs[j].xs) < k(sqs[i].xs)
      BY <2>5, <3>1
    <3>. QED BY <3>1, <3>2, <3>3
  <2>9. PieceCount(sqs, sorted) = c
    BY <1>3 DEF PieceCount, c, S
  <2>10. \A i \in 1 .. Len(sqs) : Cardinality({x \in Lefts(sqs) : x < sqs[i].xs}) \in Nat
    <3>1. ASSUME NEW i \in 1 .. Len(sqs) PROVE k(sqs[i].xs) \in Nat
      <4>1. k(sqs[i].xs) \in 0 .. c - 1
        BY <2>1, <2>5
      <4>. HIDE DEF k
      <4>. QED BY <2>3, <4>1
    <3>. QED BY <3>1 DEF k, S
  <2>. QED BY <1>3, <2>3, <2>6, <2>7, <2>8, <2>9, <2>10
<1>. QED BY <1>2, <1>3

\* The pieces up to one more are those before it and itself; those before the
\* first one are none, and all of them are all squares.
LEMMA EarlierFacts ==
  ASSUME NEW sqs \in Seq(SquareType), NEW sorted \in BOOLEAN
  PROVE  LET N == PieceCount(sqs, sorted)
         IN  /\ \A p \in Nat : Earlier(sqs, sorted, p + 1) = Earlier(sqs, sorted, p) \cup OfPiece(sqs, sorted, p)
             /\ \A p \in Nat : Earlier(sqs, sorted, p) \cap OfPiece(sqs, sorted, p) = {}
             /\ \A p \in Nat : /\ Earlier(sqs, sorted, p) \in SUBSET (1 .. Len(sqs))
                               /\ OfPiece(sqs, sorted, p) \in SUBSET (1 .. Len(sqs))
             /\ Earlier(sqs, sorted, 1) = {}
             /\ Earlier(sqs, sorted, N + 1) = 1 .. Len(sqs)
             /\ \A p \in 1 .. N : OfPiece(sqs, sorted, p) # {}
<1>. DEFINE N == PieceCount(sqs, sorted)
            k(i) == PieceOf(sqs, sorted, i)
<1>1. /\ N \in Nat
      /\ \A i \in 1 .. Len(sqs) : k(i) \in 1 .. N
      /\ \A p \in 1 .. N : \E i \in 1 .. Len(sqs) : k(i) = p
  BY PieceFacts
<1>. HIDE DEF N
<1>2. /\ \A p : Earlier(sqs, sorted, p) = {i \in 1 .. Len(sqs) : k(i) < p}
      /\ \A p : OfPiece(sqs, sorted, p) = {i \in 1 .. Len(sqs) : k(i) = p}
  BY DEF Earlier, OfPiece
<1>. HIDE DEF k
<1>3. ASSUME NEW p \in Nat
      PROVE  /\ Earlier(sqs, sorted, p + 1) = Earlier(sqs, sorted, p) \cup OfPiece(sqs, sorted, p)
             /\ Earlier(sqs, sorted, p) \cap OfPiece(sqs, sorted, p) = {}
             /\ Earlier(sqs, sorted, p) \in SUBSET (1 .. Len(sqs))
             /\ OfPiece(sqs, sorted, p) \in SUBSET (1 .. Len(sqs))
  <2>1. \A i \in 1 .. Len(sqs) : k(i) < p + 1 <=> k(i) < p \/ k(i) = p
    BY <1>1
  <2>2. \A i \in 1 .. Len(sqs) : ~(k(i) < p /\ k(i) = p)
    BY <1>1
  <2>. QED BY <1>2, <2>1, <2>2
<1>4. Earlier(sqs, sorted, 1) = {}
  <2>1. \A i \in 1 .. Len(sqs) : ~(k(i) < 1)
    BY <1>1
  <2>. QED BY <1>2, <2>1
<1>5. Earlier(sqs, sorted, N + 1) = 1 .. Len(sqs)
  <2>1. \A i \in 1 .. Len(sqs) : k(i) < N + 1
    BY <1>1
  <2>. QED BY <1>2, <2>1
<1>6. \A p \in 1 .. N : OfPiece(sqs, sorted, p) # {}
  BY <1>1, <1>2
<1>. QED BY <1>3, <1>4, <1>5, <1>6 DEF N

-----------------------------------------------------------------------------
\* Whether generate_edges may put an edge in a square, in a given call.
Allowed(c, s, e) ==
  /\ e \in Within(s)
  /\ e[1] = e[2] => c.allowEdgeToSelf
  /\ e[1] > e[2] => c.directedGraph \/ s.h < s.v

\* Whether the edges of a vector are those of some squares: which square each
\* is from, so that no square has one twice unless duplicates are allowed.
Owned(sqs, c, vec, S, own) ==
  /\ own \in [1 .. Len(vec) -> S]
  /\ \A i \in 1 .. Len(vec) : Allowed(c, sqs[own[i]], vec[i])
  /\ c.allowDuplicateEdges \/ \A i, j \in 1 .. Len(vec) :
       vec[i] = vec[j] /\ own[i] = own[j] => i = j

Fits(sqs, c, vec, S) ==
  /\ vec \in Seq(Nat \X Nat)
  /\ Len(vec) = SumAt(sqs, S)
  /\ \E own : Owned(sqs, c, vec, S, own)

\* Edges of no square are none.
LEMMA FitsNothing ==
  ASSUME NEW sqs \in Seq(SquareType), NEW c
  PROVE  Fits(sqs, c, << >>, {})
<1>. DEFINE own == [i \in 1 .. 0 |-> i]
<1>1. << >> \in Seq(Nat \X Nat) /\ Len(<< >>) = 0 /\ SumAt(sqs, {}) = 0
  BY SumAtEnds
<1>2. own \in [1 .. 0 -> {}] /\ \A i \in 1 .. 0 : FALSE
  OBVIOUS
<1>. HIDE DEF own
<1>3. Owned(sqs, c, << >>, {}, own)
  BY <1>1, <1>2 DEF Owned
<1>. QED BY <1>1, <1>3 DEF Fits

\* The edges of some squares and those of others are those of all of them.
LEMMA SumAtJoined ==
  ASSUME NEW sqs \in Seq(SquareType), NEW S \in SUBSET (1 .. Len(sqs)),
         NEW T \in SUBSET (1 .. Len(sqs)), S \cap T = {}
  PROVE  /\ SumAt(sqs, S \cup T) = SumAt(sqs, S) + SumAt(sqs, T)
         /\ SumAt(sqs, S) \in Nat /\ SumAt(sqs, T) \in Nat
<1>. DEFINE J == S \cup T
<1>1. J \in SUBSET (1 .. Len(sqs)) /\ J \ T = S /\ T \in SUBSET J
  OBVIOUS
<1>. HIDE DEF J
<1>2. /\ SumAt(sqs, J) = SumAt(sqs, J \ T) + SumAt(sqs, T)
      /\ SumAt(sqs, J \ T) \in Nat /\ SumAt(sqs, T) \in Nat
  BY <1>1, SumAtSplit
<1>. QED BY <1>1, <1>2 DEF J

\* Vectors of different squares, one after the other.
LEMMA FitsJoined ==
  ASSUME NEW sqs \in Seq(SquareType), NEW c, NEW S \in SUBSET (1 .. Len(sqs)),
         NEW T \in SUBSET (1 .. Len(sqs)), S \cap T = {},
         NEW u, NEW v, Fits(sqs, c, u, S), Fits(sqs, c, v, T)
  PROVE  Fits(sqs, c, u \o v, S \cup T)
<1>. DEFINE E == Nat \X Nat
            w == u \o v
            l == Len(u)
            m == Len(v)
<1>1. PICK a : Owned(sqs, c, u, S, a)
  BY DEF Fits
<1>2. PICK b : Owned(sqs, c, v, T, b)
  BY DEF Fits
<1>3. u \in Seq(E) /\ v \in Seq(E) /\ l \in Nat /\ m \in Nat
  BY LenProperties DEF Fits
<1>4. /\ w \in Seq(E) /\ Len(w) = l + m
      /\ \A i \in 1 .. l : w[i] = u[i]
      /\ \A i \in l + 1 .. l + m : w[i] = v[i - l]
  <2>. HIDE DEF E
  <2>. QED BY <1>3, ConcatProperties
<1>5. SumAt(sqs, S \cup T) = l + m
  BY SumAtJoined DEF Fits
<1>. DEFINE own == [i \in 1 .. l + m |-> IF i <= l THEN a[i] ELSE b[i - l]]
<1>6. \A i \in 1 .. l + m : i \in 1 .. l \/ (i \in l + 1 .. l + m /\ i - l \in 1 .. m /\ i \notin 1 .. l)
  BY <1>3
<1>7. /\ \A i \in 1 .. l : own[i] = a[i]
      /\ \A i \in l + 1 .. l + m : own[i] = b[i - l]
  BY <1>3
<1>8. a \in [1 .. l -> S] /\ b \in [1 .. m -> T]
  BY <1>1, <1>2 DEF Owned
<1>9. own \in [1 .. l + m -> S \cup T]
  <2>1. \A i \in 1 .. l + m : own[i] \in S \cup T
    BY <1>6, <1>7, <1>8
  <2>. QED BY <2>1
<1>. HIDE DEF w, own
<1>10. ASSUME NEW i \in 1 .. l + m PROVE Allowed(c, sqs[own[i]], w[i])
  <2>1. CASE i \in 1 .. l
    <3>1. own[i] = a[i] /\ w[i] = u[i]
      BY <1>4, <1>7, <2>1
    <3>. QED BY <1>1, <2>1, <3>1 DEF Owned
  <2>2. CASE i \in l + 1 .. l + m /\ i - l \in 1 .. m
    <3>1. own[i] = b[i - l] /\ w[i] = v[i - l]
      BY <1>4, <1>7, <2>2
    <3>. QED BY <1>2, <2>2, <3>1 DEF Owned
  <2>. QED BY <1>6, <2>1, <2>2
<1>11. ASSUME ~c.allowDuplicateEdges, NEW i \in 1 .. l + m, NEW j \in 1 .. l + m,
              w[i] = w[j], own[i] = own[j]
       PROVE  i = j
  <2>1. CASE i \in 1 .. l /\ j \in 1 .. l
    <3>1. own[i] = a[i] /\ w[i] = u[i] /\ own[j] = a[j] /\ w[j] = u[j]
      BY <1>4, <1>7, <2>1
    <3>. QED BY <1>1, <1>11, <2>1, <3>1 DEF Owned
  <2>2. CASE i - l \in 1 .. m /\ j - l \in 1 .. m /\ i \in l + 1 .. l + m /\ j \in l + 1 .. l + m
    <3>1. own[i] = b[i - l] /\ w[i] = v[i - l] /\ own[j] = b[j - l] /\ w[j] = v[j - l]
      BY <1>4, <1>7, <2>2
    <3>2. i - l = j - l
      BY <1>2, <1>11, <2>2, <3>1 DEF Owned
    <3>. QED BY <1>3, <2>2, <3>2
  <2>3. CASE i \in 1 .. l /\ j - l \in 1 .. m /\ j \in l + 1 .. l + m
    BY <1>7, <1>8, <1>11, <2>3
  <2>4. CASE j \in 1 .. l /\ i - l \in 1 .. m /\ i \in l + 1 .. l + m
    BY <1>7, <1>8, <1>11, <2>4
  <2>. QED BY <1>6, <2>1, <2>2, <2>3, <2>4
<1>12. Owned(sqs, c, w, S \cup T, own)
  <2>. HIDE DEF l, m
  <2>. QED BY <1>4, <1>9, <1>10, <1>11 DEF Owned
<1>. QED BY <1>4, <1>5, <1>12 DEF Fits, w

\* Draws of one square that repeat none of its edges are edges of that square.
LEMMA FitsSquare ==
  ASSUME NEW sqs \in Seq(SquareType), NEW c, NEW h \in 1 .. Len(sqs),
         NEW new \in Seq(Nat \X Nat), Len(new) = sqs[h].n,
         \A i \in 1 .. Len(new) : Allowed(c, sqs[h], new[i]),
         c.allowDuplicateEdges \/ \A i, j \in 1 .. Len(new) : new[i] = new[j] => i = j
  PROVE  Fits(sqs, c, new, {h})
<1>. DEFINE own == [i \in 1 .. Len(new) |-> h]
<1>1. own \in [1 .. Len(new) -> {h}] /\ \A i \in 1 .. Len(new) : own[i] = h
  OBVIOUS
<1>. HIDE DEF own
<1>2. Owned(sqs, c, new, {h}, own)
  BY <1>1 DEF Owned
<1>. QED BY <1>2, SumAtSingle DEF Fits

-----------------------------------------------------------------------------
\* Edges are ordered by source, then by destination.
LEMMA BeforeIsOrder ==
  ASSUME NEW d \in Nat \X Nat, NEW e \in Nat \X Nat, NEW f \in Nat \X Nat
  PROVE  /\ ~Before(d, d)
         /\ Before(d, e) => ~Before(e, d)
         /\ d = e \/ Before(d, e) \/ Before(e, d)
         /\ Before(d, e) /\ Before(e, f) => Before(d, f)
<1>1. /\ d = <<d[1], d[2]>> /\ e = <<e[1], e[2]>> /\ f = <<f[1], f[2]>>
      /\ d[1] \in Nat /\ d[2] \in Nat /\ e[1] \in Nat /\ e[2] \in Nat
      /\ f[1] \in Nat /\ f[2] \in Nat
  OBVIOUS
<1>2. d[1] = e[1] /\ d[2] = e[2] => d = e
  BY <1>1
<1>. QED BY <1>1, <1>2 DEF Before

\* Sorting a vector moves its edges, and leaves it ascending.
LEMMA SortEdgesFacts ==
  ASSUME NEW T, T \subseteq Nat \X Nat, NEW vec \in Seq(T)
  PROVE  /\ SortEdges(vec) \in Seq(T) /\ Len(SortEdges(vec)) = Len(vec)
         /\ Ascending(SortEdges(vec))
         /\ \E p \in Bijection(1 .. Len(vec), 1 .. Len(vec)) :
              \A i \in 1 .. Len(vec) : SortEdges(vec)[i] = vec[p[i]]
<1>. DEFINE L == Len(vec)
            D == 1 .. L
            Goes(j, k) == Before(vec[j], vec[k]) \/ (j < k /\ ~Before(vec[k], vec[j]))
            R == {q \in D \X D : Goes(q[1], q[2])}
<1>1. L \in Nat /\ DOMAIN vec = D /\ \A k \in D : vec[k] \in T /\ vec[k] \in Nat \X Nat
  BY LenProperties
<1>2. \A k \in D : vec[k] \in Nat \X Nat /\ k \in Nat
  BY <1>1
<1>3. \A j \in D, k \in D : <<j, k>> \in R <=> Goes(j, k)
  OBVIOUS
<1>4. StrictOrder(R, D)
  <2>. HIDE DEF R, D
  <2>1. \A x \in D : <<x, x>> \notin R
    BY <1>2, <1>3, BeforeIsOrder
  <2>2. ASSUME NEW x \in D, NEW y \in D, x # y PROVE <<x, y>> \in R \/ <<y, x>> \in R
    <3>1. x < y \/ y < x
      BY <1>2, <2>2
    <3>2. Before(vec[x], vec[y]) => ~Before(vec[y], vec[x])
      BY <1>2, BeforeIsOrder
    <3>3. Goes(x, y) \/ Goes(y, x)
      BY <3>1, <3>2
    <3>. QED BY <1>3, <3>3
  <2>3. ASSUME NEW x \in D, NEW y \in D, NEW z \in D, <<x, y>> \in R, <<y, z>> \in R
        PROVE  <<x, z>> \in R
    <3>1. Goes(x, y) /\ Goes(y, z)
      BY <1>3, <2>3
    <3>2. /\ vec[x] = vec[y] \/ Before(vec[x], vec[y]) \/ Before(vec[y], vec[x])
          /\ vec[y] = vec[z] \/ Before(vec[y], vec[z]) \/ Before(vec[z], vec[y])
      BY <1>2, BeforeIsOrder
    <3>3. /\ Before(vec[x], vec[y]) \/ (x < y /\ vec[x] = vec[y])
          /\ Before(vec[y], vec[z]) \/ (y < z /\ vec[y] = vec[z])
      BY <3>1, <3>2
    <3>4. Before(vec[x], vec[y]) /\ Before(vec[y], vec[z]) => Before(vec[x], vec[z])
      BY <1>2, BeforeIsOrder
    <3>5. x < y /\ y < z => x < z
      BY <1>2
    <3>6. Before(vec[x], vec[z]) \/ (x < z /\ vec[x] = vec[z])
      BY <3>3, <3>4, <3>5
    <3>7. vec[x] = vec[z] => ~Before(vec[z], vec[x])
      BY <1>2, BeforeIsOrder
    <3>8. Goes(x, z)
      BY <3>6, <3>7
    <3>. QED BY <1>3, <3>8
  <2>. QED BY <2>1, <2>2, <2>3 DEF StrictOrder
<1>5. SortEdges(vec) = Rearranged(vec, R)
  <2>1. \A k \in D : {j \in D : <<j, k>> \in R} = {j \in D : Goes(j, k)}
    OBVIOUS
  <2>. HIDE DEF R
  <2>2. \A k \in D : RankIn(D, R, k) = Cardinality({j \in D : Goes(j, k)})
    BY <2>1 DEF RankIn
  <2>3. Ranks(vec, R) = [k \in D |-> Cardinality({j \in D : Goes(j, k)})]
    BY <2>2 DEF Ranks
  <2>. QED BY <1>1, <2>3 DEF Rearranged, SortEdges, SortedBy
<1>6. /\ Rearranged(vec, R) \in Seq(T) /\ Len(Rearranged(vec, R)) = Len(vec)
      /\ \E p \in Bijection(1 .. Len(vec), 1 .. Len(vec)) :
           /\ \A i \in 1 .. Len(vec) : Rearranged(vec, R)[i] = vec[p[i]]
           /\ \A i \in 1 .. Len(vec), j \in 1 .. Len(vec) : i < j => <<p[i], p[j]>> \in R
  <2>. HIDE DEF R
  <2>. QED BY <1>4, RearrangedFacts
<1>. HIDE DEF R
<1>. DEFINE new == SortEdges(vec)
<1>7. PICK p \in Bijection(D, D) :
        /\ \A i \in D : new[i] = vec[p[i]]
        /\ \A i \in D, j \in D : i < j => <<p[i], p[j]>> \in R
  BY <1>5, <1>6
<1>8. \A i \in D : p[i] \in D
  BY <1>7 DEF Bijection, Injection
<1>9. new \in Seq(T) /\ Len(new) = L /\ DOMAIN new = D
  BY <1>5, <1>6, LenProperties
<1>10. ASSUME NEW i \in D, NEW j \in D, i < j PROVE ~Before(new[j], new[i])
  <2>1. Goes(p[i], p[j]) /\ p[i] \in D /\ p[j] \in D
    BY <1>3, <1>7, <1>8, <1>10
  <2>2. Before(vec[p[i]], vec[p[j]]) => ~Before(vec[p[j]], vec[p[i]])
    BY <1>2, <2>1, BeforeIsOrder
  <2>3. ~Before(vec[p[j]], vec[p[i]])
    BY <2>1, <2>2
  <2>. QED BY <1>7, <2>3
<1>11. Ascending(new)
  <2>. HIDE DEF new
  <2>. QED BY <1>9, <1>10 DEF Ascending
<1>. QED BY <1>7, <1>9, <1>11

\* They remain those of the same squares.
LEMMA FitsSorted ==
  ASSUME NEW sqs \in Seq(SquareType), NEW c, NEW S, NEW vec, Fits(sqs, c, vec, S)
  PROVE  Fits(sqs, c, SortEdges(vec), S) /\ Ascending(SortEdges(vec))
<1>. DEFINE E == Nat \X Nat
            D == 1 .. Len(vec)
            new == SortEdges(vec)
<1>1. PICK a : Owned(sqs, c, vec, S, a)
  BY DEF Fits
<1>2. vec \in Seq(E) /\ E \subseteq Nat \X Nat
  BY DEF Fits
<1>3. /\ new \in Seq(E) /\ Len(new) = Len(vec) /\ Ascending(new)
      /\ \E p \in Bijection(D, D) : \A i \in D : new[i] = vec[p[i]]
  <2>. HIDE DEF E
  <2>. QED BY <1>2, SortEdgesFacts
<1>4. PICK p \in Bijection(D, D) : \A i \in D : new[i] = vec[p[i]]
  BY <1>3
<1>5. p \in [D -> D] /\ \A i \in D, j \in D : p[i] = p[j] => i = j
  BY <1>4 DEF Bijection, Injection, IsInjective
<1>. DEFINE own == [i \in D |-> a[p[i]]]
<1>. HIDE DEF new, D
<1>6. /\ a \in [D -> S]
      /\ \A i \in D : Allowed(c, sqs[a[i]], vec[i])
      /\ c.allowDuplicateEdges \/ \A i, j \in D : vec[i] = vec[j] /\ a[i] = a[j] => i = j
  BY <1>1 DEF Owned, D
<1>7. own \in [D -> S] /\ \A i \in D : own[i] = a[p[i]]
  <2>1. \A i \in D : p[i] \in D
    BY <1>5
  <2>2. \A i \in D : a[p[i]] \in S
    BY <1>6, <2>1
  <2>. QED BY <2>2
<1>. HIDE DEF own
<1>8. \A i \in D : Allowed(c, sqs[own[i]], new[i])
  BY <1>4, <1>5, <1>6, <1>7
<1>9. c.allowDuplicateEdges \/ \A i, j \in D : new[i] = new[j] /\ own[i] = own[j] => i = j
  BY <1>4, <1>5, <1>6, <1>7
<1>10. Owned(sqs, c, new, S, own)
  BY <1>3, <1>7, <1>8, <1>9 DEF Owned, D
<1>. QED BY <1>3, <1>10 DEF Fits, new

-----------------------------------------------------------------------------
\* The middle of a part of an interval is in the interval.
LEMMA MiddleInside ==
  ASSUME NEW d \in Nat, NEW D \in Nat, D > d, NEW j \in 0 .. D - 1
  PROVE  ((2 * j + 1) * d + D) \div (2 * D) \in 0 .. d
<1>. DEFINE x == (2 * j + 1) * d + D
            q == x \div (2 * D)
            m == D * d
            r == D * q
<1>1. (2 * j + 1) * d <= (2 * D - 1) * d /\ (2 * j + 1) * d \in Nat
  <2>1. 2 * j + 1 \in Nat /\ 2 * D - 1 \in Nat /\ 2 * j + 1 <= 2 * D - 1
    OBVIOUS
  <2>. QED BY <2>1, ProductMonotone
<1>2. (2 * D - 1) * d = 2 * m - d /\ m \in Nat
  OBVIOUS
<1>3. x \in Nat /\ x <= 2 * m - d + D
  BY <1>1, <1>2
<1>. HIDE DEF x
<1>4. 2 * D \in Nat \ {0}
  OBVIOUS
<1>5. q \in Int /\ (2 * D) * q <= x /\ q >= 0
  <2>. DEFINE K == 2 * D
  <2>1. K \in Nat \ {0} /\ x \in Int /\ x >= 0
    BY <1>3, <1>4
  <2>. HIDE DEF K
  <2>2. x \div K \in Int /\ K * (x \div K) <= x /\ (x >= 0 => x \div K >= 0)
    BY <2>1, DivBounds
  <2>. QED BY <2>1, <2>2 DEF K
<1>. HIDE DEF q
<1>6. (2 * D) * q = 2 * r /\ r \in Int
  BY <1>5
<1>7. q >= d + 1 => r >= m + D
  <2>1. D * (d + 1) = m + D
    OBVIOUS
  <2>2. ASSUME q >= d + 1 PROVE D * (d + 1) <= r
    BY <1>5, <2>2, ProductMonotone
  <2>. QED BY <2>1, <2>2
<1>. HIDE DEF m, r
<1>8. ~(q >= d + 1)
  BY <1>2, <1>3, <1>5, <1>6, <1>7
<1>. QED BY <1>5, <1>8 DEF q, x

\* So drawn indices are within the side of the square.
LEMMA IndexInside ==
  ASSUME NEW lo \in Nat, NEW hi \in Nat, lo <= hi, NEW i \in genEdgeIndex_FP(lo, hi)
  PROVE  i \in lo .. hi
<1>. DEFINE d == hi - lo
<1>1. d \in Nat
  OBVIOUS
<1>2. PICK D \in Halvings(d) :
        \E k \in 0 .. D - 1 : i = lo + ((2 * k + 1) * d + D) \div (2 * D)
  BY DEF genEdgeIndex_FP
<1>. HIDE DEF d
<1>3. D \in d + 1 .. 2 * d + 1
  BY DEF Halvings
<1>4. D \in Nat /\ D > d
  BY <1>1, <1>3
<1>5. PICK j \in 0 .. D - 1 : i = lo + ((2 * j + 1) * d + D) \div (2 * D)
  BY <1>2
<1>. DEFINE q == ((2 * j + 1) * d + D) \div (2 * D)
<1>6. q \in 0 .. d
  BY <1>1, <1>4, MiddleInside
<1>. HIDE DEF q
<1>7. i = lo + q
  BY <1>5 DEF q
<1>. QED BY <1>6, <1>7 DEF d

\* Ascending edges of which no two adjacent ones are equal are all different.
LEMMA AscendingDiffer ==
  ASSUME NEW vec \in Seq(Nat \X Nat), Ascending(vec),
         \A i \in 1 .. Len(vec) - 1 : vec[i] # vec[i + 1],
         NEW i \in 1 .. Len(vec), NEW j \in 1 .. Len(vec), vec[i] = vec[j]
  PROVE  i = j
<1>1. /\ Len(vec) \in Nat /\ DOMAIN vec = 1 .. Len(vec)
      /\ \A k \in 1 .. Len(vec) : vec[k] \in Nat \X Nat
  BY LenProperties
<1>2. ASSUME NEW k \in 1 .. Len(vec), NEW l \in 1 .. Len(vec), k < l, vec[k] = vec[l]
      PROVE  FALSE
  <2>1. k + 1 \in 1 .. Len(vec) /\ k \in 1 .. Len(vec) - 1 /\ k < k + 1 /\ (k + 1 = l \/ k + 1 < l)
    BY <1>1, <1>2
  <2>2. ~Before(vec[k + 1], vec[k])
    BY <1>1, <2>1 DEF Ascending
  <2>3. k + 1 < l => ~Before(vec[l], vec[k + 1])
    BY <1>1, <2>1 DEF Ascending
  <2>4. vec[k] # vec[k + 1]
    BY <2>1
  <2>5. Before(vec[k], vec[k + 1])
    BY <1>1, <2>1, <2>2, <2>4, BeforeIsOrder
  <2>6. k + 1 # l
    BY <1>2, <2>4
  <2>. QED BY <1>2, <2>1, <2>3, <2>5, <2>6
<1>. QED BY <1>1, <1>2

-----------------------------------------------------------------------------
\* The pieces of a state are those of its squares.
LEMMA PiecesOfState ==
  ASSUME PartitionTypeOK
  PROVE  /\ squares \in Seq(SquareType) /\ Len(squares) \in Nat /\ DOMAIN squares = 1 .. Len(squares)
         /\ call.sorted \in BOOLEAN
         /\ nPieces = PieceCount(squares, call.sorted) /\ nPieces \in Nat
         /\ piece \in 1 .. nPieces => Piece = OfPiece(squares, call.sorted, piece)
<1>1. /\ squares \in Seq(SquareType) /\ Len(squares) \in Nat /\ DOMAIN squares = 1 .. Len(squares)
      /\ call.sorted \in BOOLEAN
  BY CallsAssumption, LenProperties DEF PartitionTypeOK
<1>. DEFINE N == PieceCount(squares, call.sorted)
            c(i) == Cardinality({x \in Lefts(squares) : x < squares[i].xs})
<1>2. N \in Nat
  BY <1>1, PieceFacts
<1>3. nPieces = N
  BY <1>1 DEF nPieces, nColumns, PieceCount, Lefts
<1>4. ASSUME piece \in 1 .. nPieces, call.sorted PROVE Piece = OfPiece(squares, call.sorted, piece)
  <2>1. \A i \in 1 .. Len(squares) : c(i) \in Nat
    BY <1>1, <1>4, PieceFacts
  <2>2. Piece = {i \in 1 .. Len(squares) : c(i) = piece - 1}
    BY <1>1, <1>4 DEF Piece, rectagnleVecs, Lefts
  <2>3. OfPiece(squares, call.sorted, piece) = {i \in 1 .. Len(squares) : c(i) + 1 = piece}
    BY <1>4 DEF OfPiece, PieceOf
  <2>. HIDE DEF c
  <2>4. \A i \in 1 .. Len(squares) : c(i) = piece - 1 <=> c(i) + 1 = piece
    BY <1>2, <1>3, <1>4, <2>1
  <2>. QED BY <2>2, <2>3, <2>4
<1>5. ASSUME piece \in 1 .. nPieces, ~call.sorted PROVE Piece = OfPiece(squares, call.sorted, piece)
  <2>1. piece \in 1 .. Len(squares)
    BY <1>5 DEF nPieces
  <2>. QED BY <1>5, <2>1 DEF Piece, OfPiece, PieceOf
<1>. QED BY <1>1, <1>2, <1>3, <1>4, <1>5

\* Whose turn it is in a piece.
LEMMA TurnOfState ==
  ASSUME PartitionTypeOK, piece \in 1 .. nPieces, rec \in 1 .. Cardinality(Piece)
  PROVE  /\ Cardinality(Piece) \in Nat /\ Piece \in SUBSET (1 .. Len(squares))
         /\ Here \in Piece /\ Here \in 1 .. Len(squares) /\ Here \notin FirstOf(Piece, rec)
         /\ FirstOf(Piece, rec + 1) = FirstOf(Piece, rec) \cup {Here}
         /\ FirstOf(Piece, Cardinality(Piece) + 1) = Piece
         /\ FirstOf(Piece, rec) \in SUBSET (1 .. Len(squares))
         /\ Square \in SquareType
<1>1. /\ squares \in Seq(SquareType) /\ Len(squares) \in Nat
      /\ call.sorted \in BOOLEAN
      /\ Piece = OfPiece(squares, call.sorted, piece)
  BY PiecesOfState
<1>2. Piece \in SUBSET (1 .. Len(squares))
  BY <1>1 DEF OfPiece
<1>. DEFINE P == Piece
            h == CHOOSE i \in P : RankAmong(P, i) = rec - 1
<1>3. h = Here
  BY DEF Here, RankAmong
<1>. HIDE DEF P
<1>4. P \in SUBSET (1 .. Len(squares)) /\ rec \in 1 .. Cardinality(P)
  BY <1>2 DEF P
<1>5. /\ Cardinality(P) \in Nat
      /\ h \in P /\ h \notin FirstOf(P, rec)
      /\ FirstOf(P, rec + 1) = FirstOf(P, rec) \cup {h}
      /\ FirstOf(P, Cardinality(P) + 1) = P
      /\ FirstOf(P, rec) \in SUBSET P
  BY <1>1, <1>4, TurnFacts
<1>. HIDE DEF h
<1>6. h \in 1 .. Len(squares) /\ FirstOf(P, rec) \in SUBSET (1 .. Len(squares))
  BY <1>4, <1>5
<1>7. squares[h] \in SquareType
  BY <1>1, <1>6
<1>. QED BY <1>3, <1>4, <1>5, <1>6, <1>7 DEF P, Square

-----------------------------------------------------------------------------
\* Edges go back in the order only at the end of a column.
Ordered(sqs, vec) ==
  \A i, j \in 1 .. Len(vec) : i < j /\ Before(vec[j], vec[i]) =>
    vec[i][1] = vec[j][1] /\ vec[i][1] \in {s.xe : s \in Range(sqs)}

\* The vector has the edges of the squares before, and draws for the one whose
\* turn it is.
DrawnFor(s, c, new) ==
  /\ new \in Seq(Nat \X Nat) /\ Len(new) = s.n /\ Ascending(new)
  /\ \A i \in 1 .. Len(new) : Allowed(c, s, new[i])

VectorInv ==
  IF drawn
  THEN \E old, new : /\ edgesVec = old \o new
                     /\ Fits(squares, call, old, FirstOf(Piece, rec))
                     /\ DrawnFor(Square, call, new)
  ELSE Fits(squares, call, edgesVec, FirstOf(Piece, rec))

\* The piece up to which those before have been delivered.
Upto == IF piece <= nDelivered THEN piece ELSE nDelivered + 1

NothingYet == piece = 1 /\ rec = 1 /\ ~drawn /\ edgesVec = << >> /\ graph = << >>

EdgesInv ==
  /\ piece \in 1 .. nPieces + 1 /\ rec \in Nat /\ drawn \in BOOLEAN /\ failed \in BOOLEAN
  /\ stage # "partitioned" => NothingYet
  /\ Fits(squares, call, graph, Earlier(squares, call.sorted, Upto))
  /\ call.sorted => Ordered(squares, graph)
  /\ piece <= nPieces => rec \in 1 .. Cardinality(Piece) /\ VectorInv
  /\ piece > nPieces => ~drawn /\ edgesVec = << >>

GenerationInv == PartitionInv /\ CapacityInv /\ PlacedInv /\ EdgesInv

\* Every piece is delivered, but for columns if there are too few of them.
LEMMA DeliveredFacts ==
  ASSUME PartitionTypeOK
  PROVE  /\ nDelivered \in Nat /\ nPieces \in Nat /\ nDelivered <= nPieces
         /\ call.sorted => nDelivered = nWritten /\ nPieces = nColumns
         /\ ~call.sorted \/ nColumns >= call.nCPUWorkerThreads => nDelivered = nPieces
<1>1. nPieces \in Nat /\ call.sorted \in BOOLEAN /\ call.nCPUWorkerThreads \in Nat \ {0}
  BY PiecesOfState, CallsAssumption DEF PartitionTypeOK
<1>2. CASE call.sorted
  <2>1. nPieces = nColumns /\ nDelivered = nWritten
    BY <1>2 DEF nPieces, nDelivered
  <2>. DEFINE n == nColumns
              w == call.nCPUWorkerThreads
  <2>2. nWritten = IF n >= w THEN n ELSE Max0(2 * n - w)
    BY DEF nWritten
  <2>3. n \in Nat /\ w \in Nat
    BY <1>1, <2>1
  <2>. HIDE DEF n, w
  <2>4. nWritten \in Nat /\ nWritten <= n /\ (n >= w => nWritten = n)
    BY <2>2, <2>3 DEF Max0
  <2>. QED BY <1>1, <1>2, <2>1, <2>4 DEF n, w
<1>3. CASE ~call.sorted
  BY <1>1, <1>3 DEF nDelivered
<1>. QED BY <1>2, <1>3

\* A piece is begun with its first square and an empty vector.
LEMMA FreshPiece ==
  ASSUME PartitionTypeOK, piece \in 1 .. nPieces, rec = 1, ~drawn, edgesVec = << >>
  PROVE  rec \in 1 .. Cardinality(Piece) /\ VectorInv
<1>1. /\ squares \in Seq(SquareType) /\ Len(squares) \in Nat
      /\ call.sorted \in BOOLEAN /\ nPieces = PieceCount(squares, call.sorted)
      /\ Piece = OfPiece(squares, call.sorted, piece)
  BY PiecesOfState
<1>. DEFINE P == Piece
<1>2. P # {}
  BY <1>1, EarlierFacts
<1>3. P \in SUBSET (1 .. Len(squares))
  BY <1>1 DEF OfPiece
<1>. HIDE DEF P
<1>4. IsFiniteSet(P) /\ Cardinality(P) \in Nat /\ Cardinality(P) # 0
  <2>1. 1 \in Int /\ Len(squares) \in Int
    BY <1>1
  <2>2. IsFiniteSet(1 .. Len(squares))
    BY <2>1, FS_Interval
  <2>3. IsFiniteSet(P)
    BY <1>3, <2>2, FS_Subset
  <2>. QED BY <1>2, <2>3, FS_CardinalityType, FS_EmptySet
<1>5. rec \in 1 .. Cardinality(P)
  BY <1>4
<1>6. FirstOf(P, 1) = {}
  <2>1. Len(squares) \in Nat /\ 1 \in 1 .. Cardinality(P)
    BY <1>1, <1>5
  <2>. QED BY <1>3, <2>1, TurnFacts
<1>7. Fits(squares, call, << >>, {})
  BY <1>1, FitsNothing
<1>8. VectorInv
  BY <1>6, <1>7 DEF VectorInv, P
<1>. QED BY <1>5, <1>8 DEF P

\* Whatever the squares are, nothing has been generated for them yet.
LEMMA NothingYetInv ==
  ASSUME PartitionInv, NothingYet, drawn \in BOOLEAN, failed \in BOOLEAN
  PROVE  EdgesInv
<1>1. PartitionTypeOK /\ piece = 1 /\ rec = 1 /\ ~drawn /\ edgesVec = << >> /\ graph = << >>
  BY DEF PartitionInv, NothingYet
<1>2. /\ squares \in Seq(SquareType) /\ Len(squares) \in Nat /\ DOMAIN squares = 1 .. Len(squares)
      /\ call.sorted \in BOOLEAN
      /\ nPieces = PieceCount(squares, call.sorted) /\ nPieces \in Nat
      /\ piece \in 1 .. nPieces => Piece = OfPiece(squares, call.sorted, piece)
  BY <1>1, PiecesOfState
<1>3. piece \in 1 .. nPieces + 1
  BY <1>1, <1>2
<1>4. Fits(squares, call, << >>, {})
  BY <1>2, FitsNothing
<1>5. Upto = 1 /\ Earlier(squares, call.sorted, 1) = {}
  <2>1. nDelivered \in Nat
    BY <1>1, DeliveredFacts
  <2>. QED BY <1>1, <1>2, <2>1, EarlierFacts DEF Upto
<1>6. Ordered(squares, graph)
  BY <1>1 DEF Ordered
<1>7. piece <= nPieces => rec \in 1 .. Cardinality(Piece) /\ VectorInv
  BY <1>1, <1>3, FreshPiece
<1>. QED BY <1>1, <1>3, <1>4, <1>5, <1>6, <1>7 DEF EdgesInv

\* A generation begins that way.
LEMMA EdgesInitInv ==
  InitEdges => GenerationInv
<1>. SUFFICES ASSUME InitEdges PROVE GenerationInv
  OBVIOUS
<1>1. PartitionInit /\ NothingYet /\ drawn \in BOOLEAN /\ failed \in BOOLEAN
  BY DEF InitEdges, NothingYet
<1>2. PartitionInv /\ CapacityInv /\ PlacedInv
  BY <1>1, PartitionInitInv, CapacityInitInv, PlacedInitInv
<1>. QED BY <1>1, <1>2, NothingYetInv DEF GenerationInv

\* The partition is over before anything is generated.
LEMMA PartitionFirstInv ==
  GenerationInv /\ PartitionFirst => GenerationInv'
<1>. SUFFICES ASSUME GenerationInv, PartitionFirst PROVE GenerationInv'
  OBVIOUS
<1>1. PartitionInv' /\ CapacityInv' /\ PlacedInv'
  BY PartitionStepInv, CapacityStepInv, PlacedStepInv DEF GenerationInv, PartitionFirst
<1>2. stage # "partitioned"
  <2>1. PartitionInv /\ PartitionStep
    BY DEF GenerationInv, PartitionFirst
  <2>2. stage = "partitioned" => nLeft = 0
    BY <2>1 DEF PartitionInv
  <2>. QED BY <2>1, <2>2 DEF PartitionStep, ShatterFirst, ShatterBiggest, BeginPass,
                              ShatterNext, LeaveLoop, GoesOn
<1>3. NothingYet /\ drawn \in BOOLEAN /\ failed \in BOOLEAN
  BY <1>2 DEF GenerationInv, EdgesInv
<1>4. (NothingYet /\ drawn \in BOOLEAN /\ failed \in BOOLEAN)'
  BY <1>3 DEF PartitionFirst, edgeVars, NothingYet
<1>5. (PartitionInv /\ NothingYet /\ drawn \in BOOLEAN /\ failed \in BOOLEAN => EdgesInv)'
  BY NothingYetInv, PTL
<1>. QED BY <1>1, <1>4, <1>5 DEF GenerationInv

-----------------------------------------------------------------------------
\* Generation leaves the squares alone.
LEMMA SquaresStay ==
  ASSUME GenerationInv, UNCHANGED partitionVars
  PROVE  /\ PartitionInv' /\ CapacityInv' /\ PlacedInv'
         /\ call' = call /\ squares' = squares /\ stage' = stage /\ nPieces' = nPieces
         /\ nDelivered' = nDelivered
<1>1. PartitionInv' /\ CapacityInv' /\ PlacedInv'
  BY PartitionStutterInv, CapacityStutterInv, PlacedStutterInv DEF GenerationInv
<1>2. call' = call /\ squares' = squares /\ stage' = stage
  BY DEF partitionVars
<1>3. nColumns' = nColumns /\ nWritten' = nWritten
  BY <1>2 DEF nColumns, nWritten
<1>. QED BY <1>1, <1>2, <1>3 DEF nPieces, nDelivered

\* While a piece is generated, a square of it has its turn.
LEMMA GeneratingFacts ==
  ASSUME GenerationInv, Generating
  PROVE  /\ PartitionTypeOK /\ piece \in 1 .. nPieces /\ rec \in 1 .. Cardinality(Piece) /\ VectorInv
         /\ Here \in 1 .. Len(squares) /\ Square = squares[Here] /\ Square \in SquareType
         /\ Sides(Square)
<1>1. PartitionInv /\ EdgesInv
  BY DEF GenerationInv
<1>2. PartitionTypeOK /\ \A i \in 1 .. Len(squares) : Sides(squares[i])
  BY <1>1 DEF PartitionInv, Tiled
<1>3. nPieces \in Nat
  BY <1>2, PiecesOfState
<1>4. piece \in 1 .. nPieces /\ rec \in 1 .. Cardinality(Piece) /\ VectorInv
  BY <1>1, <1>3 DEF EdgesInv, Generating
<1>5. Here \in 1 .. Len(squares) /\ Square \in SquareType
  BY <1>2, <1>4, TurnOfState
<1>6. Square = squares[Here]
  BY DEF Square
<1>. QED BY <1>2, <1>4, <1>5, <1>6

\* A drawn edge may be in the square it is drawn for.
LEMMA DrawsAllowed ==
  ASSUME GenerationInv, Generating, NEW e \in Draws
  PROVE  e \in Nat \X Nat /\ Allowed(call, Square, e)
<1>1. Square \in SquareType /\ Sides(Square)
  BY GeneratingFacts
<1>2. /\ Square.xs \in Nat /\ Square.xe \in Nat /\ Square.xs <= Square.xe
      /\ Square.ys \in Nat /\ Square.ye \in Nat /\ Square.ys <= Square.ye
  BY <1>1 DEF SquareType, Sides
<1>3. /\ e \in genEdgeIndex_FP(Square.xs, Square.xe) \X genEdgeIndex_FP(Square.ys, Square.ye)
      /\ Accepts(Square, e)
  BY DEF Draws
<1>4. PICK x \in genEdgeIndex_FP(Square.xs, Square.xe),
           y \in genEdgeIndex_FP(Square.ys, Square.ye) : e = <<x, y>>
  BY <1>3
<1>5. x \in Square.xs .. Square.xe /\ y \in Square.ys .. Square.ye
  BY <1>2, IndexInside
<1>6. x \in Nat /\ y \in Nat
  BY <1>2, <1>5
<1>7. e \in Within(Square) /\ e \in Nat \X Nat
  BY <1>4, <1>5, <1>6 DEF Within
<1>. QED BY <1>3, <1>7 DEF Allowed, Accepts

\* What a step inside of a piece has to keep.
LEMMA StaysInPiece ==
  ASSUME GenerationInv, Generating, UNCHANGED <<partitionVars, piece, graph>>,
         drawn' \in BOOLEAN, failed' \in BOOLEAN, rec' \in 1 .. Cardinality(Piece), VectorInv'
  PROVE  GenerationInv'
<1>1. /\ PartitionInv' /\ CapacityInv' /\ PlacedInv'
      /\ call' = call /\ squares' = squares /\ stage' = stage /\ nPieces' = nPieces
  BY SquaresStay
<1>2. EdgesInv /\ stage = "partitioned" /\ piece' = piece /\ graph' = graph
  BY DEF GenerationInv, Generating
<1>3. piece \in 1 .. nPieces /\ nPieces \in Nat
  BY GeneratingFacts, PiecesOfState
<1>4. Piece' = Piece
  BY <1>1, <1>2 DEF Piece
<1>5. Fits(squares, call, graph, Earlier(squares, call.sorted, Upto))'
  <2>1. nDelivered' = nDelivered
    BY SquaresStay
  <2>. QED BY <1>1, <1>2, <2>1 DEF EdgesInv, Upto
<1>6. (call.sorted => Ordered(squares, graph))'
  BY <1>1, <1>2 DEF EdgesInv
<1>7. (piece \in 1 .. nPieces + 1 /\ rec \in Nat /\ ~(piece > nPieces) /\ stage = "partitioned")'
  BY <1>1, <1>2, <1>3
<1>8. (rec \in 1 .. Cardinality(Piece) /\ VectorInv)'
  BY <1>4
<1>9. EdgesInv'
  BY <1>5, <1>6, <1>7, <1>8 DEF EdgesInv
<1>. QED BY <1>1, <1>9 DEF GenerationInv

\* generate_edges adds as many edges as the square has.
LEMMA DrawInv ==
  GenerationInv /\ Draw => GenerationInv'
<1>. SUFFICES ASSUME GenerationInv, Draw PROVE GenerationInv'
  OBVIOUS
<1>1. /\ Generating /\ ~drawn /\ UNCHANGED <<partitionVars, piece, rec, graph, failed>>
      /\ drawn' = TRUE
  BY DEF Draw
<1>2. /\ PartitionInv' /\ CapacityInv' /\ PlacedInv'
      /\ call' = call /\ squares' = squares /\ stage' = stage /\ nPieces' = nPieces
  BY <1>1, SquaresStay
<1>3. PICK new \in [1 .. Square.n -> Draws] : Ascending(new) /\ edgesVec' = edgesVec \o new
  BY DEF Draw
<1>4. Square.n \in Nat /\ piece \in 1 .. nPieces /\ rec \in 1 .. Cardinality(Piece) /\ VectorInv
  BY <1>1, GeneratingFacts DEF SquareType
<1>5. DrawnFor(Square, call, new)
  <2>1. \A e \in Draws : e \in Nat \X Nat /\ Allowed(call, Square, e)
    BY <1>1, DrawsAllowed
  <2>. DEFINE n == Square.n
              E == Nat \X Nat
  <2>2. n \in Nat /\ new \in [1 .. n -> E]
    BY <1>4, <2>1
  <2>. HIDE DEF n, E
  <2>3. new \in Seq(E) /\ Len(new) = n
    BY <2>2, SeqDef, LenProperties
  <2>4. \A i \in 1 .. Len(new) : Allowed(call, Square, new[i])
    BY <1>3, <2>1, <2>3 DEF n
  <2>. QED BY <1>3, <2>3, <2>4 DEF DrawnFor, n, E
<1>6. Fits(squares, call, edgesVec, FirstOf(Piece, rec))
  BY <1>1, <1>4 DEF VectorInv
<1>7. Piece' = Piece /\ Square' = Square
  BY <1>1, <1>2 DEF Piece, Square, Here
<1>8. VectorInv'
  BY <1>1, <1>2, <1>3, <1>5, <1>6, <1>7 DEF VectorInv
<1>9. failed' \in BOOLEAN
  BY <1>1 DEF GenerationInv, EdgesInv
<1>. QED BY <1>1, <1>4, <1>8, <1>9, StaysInPiece

\* Where the draws for the square are in the vector, and where repeats of them.
VectorParts(old, new) ==
  /\ edgesVec = old \o new /\ old \in Seq(Nat \X Nat) /\ new \in Seq(Nat \X Nat)
  /\ Fits(squares, call, old, FirstOf(Piece, rec)) /\ DrawnFor(Square, call, new)
  /\ Len(old) \in Nat /\ Len(new) = Square.n /\ Square.n \in Nat
  /\ edgesVec \in Seq(Nat \X Nat) /\ Len(edgesVec) = Len(old) + Square.n
  /\ \A i \in 1 .. Len(old) : edgesVec[i] = old[i]
  /\ \A i \in 1 .. Square.n : edgesVec[Len(old) + i] = new[i]
  /\ \A i \in 1 .. Len(old) : i \notin Repeats
  /\ Repeats = {} => \A i \in 1 .. Square.n - 1 : new[i] # new[i + 1]

LEMMA VectorHasParts ==
  ASSUME GenerationInv, Generating, drawn
  PROVE  \E old, new : VectorParts(old, new)
<1>. DEFINE E == Nat \X Nat
            n == Square.n
<1>1. VectorInv /\ PartitionTypeOK /\ Square \in SquareType /\ rec \in 1 .. Cardinality(Piece)
  BY GeneratingFacts
<1>2. PICK old, new : /\ edgesVec = old \o new
                      /\ Fits(squares, call, old, FirstOf(Piece, rec))
                      /\ DrawnFor(Square, call, new)
  BY <1>1 DEF VectorInv
<1>. DEFINE l == Len(old)
<1>3. old \in Seq(E) /\ new \in Seq(E) /\ Len(new) = n
  BY <1>2 DEF Fits, DrawnFor
<1>4. n \in Nat
  BY <1>1 DEF SquareType
<1>. HIDE DEF n, E
<1>5. l \in Nat
  BY <1>3, LenProperties
<1>6. /\ edgesVec \in Seq(E) /\ Len(edgesVec) = l + n
      /\ \A i \in 1 .. l : edgesVec[i] = old[i]
      /\ \A i \in l + 1 .. l + n : edgesVec[i] = new[i - l]
  <2>1. /\ old \o new \in Seq(E) /\ Len(old \o new) = l + Len(new)
        /\ \A i \in 1 .. l : (old \o new)[i] = old[i]
        /\ \A i \in l + 1 .. l + Len(new) : (old \o new)[i] = new[i - l]
    BY <1>3, ConcatProperties
  <2>. QED BY <1>2, <1>3, <2>1
<1>7. \A i \in 1 .. n : edgesVec[l + i] = new[i]
  <2>. SUFFICES ASSUME NEW i \in 1 .. n PROVE edgesVec[l + i] = new[i]
    OBVIOUS
  <2>1. l + i \in l + 1 .. l + n /\ (l + i) - l = i
    BY <1>4, <1>5
  <2>. HIDE DEF l
  <2>. QED BY <1>6, <2>1
<1>8. ~call.sorted => l = 0
  <2>. SUFFICES ASSUME ~call.sorted PROVE l = 0
    OBVIOUS
  <2>1. Piece = {piece}
    BY DEF Piece
  <2>2. Cardinality({piece}) = 1
    BY FS_Singleton
  <2>3. rec = 1
    BY <1>1, <2>1, <2>2
  <2>4. {j \in {piece} : j < piece} = {}
    <3>1. piece \in Nat
      BY GeneratingFacts, PiecesOfState
    <3>. QED BY <3>1
  <2>5. Cardinality({}) = 0
    BY FS_EmptySet
  <2>6. FirstOf({piece}, 1) = {}
    BY <2>4, <2>5 DEF FirstOf, RankAmong
  <2>7. squares \in Seq(SquareType)
    BY <1>1, PiecesOfState
  <2>8. SumAt(squares, {}) = 0
    BY <2>7, SumAtEnds
  <2>. QED BY <1>2, <2>1, <2>3, <2>6, <2>8 DEF Fits
<1>. HIDE DEF l
<1>9. ASSUME NEW i \in Repeats PROVE i \in 1 .. l + n /\ i > l
  BY <1>4, <1>5, <1>6, <1>8 DEF Repeats, n
<1>10. \A i \in 1 .. l : i \notin Repeats
  BY <1>5, <1>9
<1>11. ASSUME Repeats = {}, NEW i \in 1 .. n - 1 PROVE new[i] # new[i + 1]
  <2>1. i \in 1 .. n /\ i + 1 \in 1 .. n
    BY <1>4
  <2>2. edgesVec[l + i] = new[i] /\ edgesVec[l + (i + 1)] = new[i + 1]
    BY <1>7, <2>1
  <2>3. CASE call.sorted
    <3>1. l + (i + 1) \in (l + n) - n + 2 .. l + n /\ (l + (i + 1)) - 1 = l + i
      BY <1>4, <1>5
    <3>2. edgesVec[l + (i + 1)] # edgesVec[l + i]
      BY <1>6, <1>11, <2>3, <3>1 DEF Repeats, n
    <3>. QED BY <2>2, <3>2
  <2>4. CASE ~call.sorted
    <3>1. l + i \in 1 .. (l + n) - 1 /\ (l + i) + 1 = l + (i + 1)
      BY <1>4, <1>5
    <3>2. edgesVec[l + i] # edgesVec[l + (i + 1)]
      BY <1>6, <1>11, <2>4, <3>1 DEF Repeats
    <3>. QED BY <2>2, <3>2
  <2>. QED BY <2>3, <2>4
<1>12. VectorParts(old, new)
  BY <1>2, <1>3, <1>4, <1>5, <1>6, <1>7, <1>10, <1>11 DEF VectorParts, l, n, E
<1>. QED BY <1>12

\* A replacement leaves the edges of the squares before as they are.
LEMMA RedrawInv ==
  GenerationInv /\ Redraw => GenerationInv'
<1>. SUFFICES ASSUME GenerationInv, Redraw PROVE GenerationInv'
  OBVIOUS
<1>1. /\ Generating /\ drawn /\ UNCHANGED <<partitionVars, piece, rec, drawn, graph, failed>>
  BY DEF Redraw
<1>2. /\ PartitionInv' /\ CapacityInv' /\ PlacedInv'
      /\ call' = call /\ squares' = squares /\ stage' = stage /\ nPieces' = nPieces
  BY <1>1, SquaresStay
<1>3. piece \in 1 .. nPieces /\ rec \in 1 .. Cardinality(Piece)
  BY <1>1, GeneratingFacts
<1>. DEFINE E == Nat \X Nat
            n == Square.n
            T == {e \in E : Allowed(call, Square, e)}
<1>4. PICK old, new : VectorParts(old, new)
  BY <1>1, VectorHasParts
<1>5. /\ old \in Seq(E) /\ new \in Seq(E)
      /\ Fits(squares, call, old, FirstOf(Piece, rec)) /\ DrawnFor(Square, call, new)
      /\ Len(old) \in Nat /\ Len(new) = n /\ n \in Nat
      /\ edgesVec \in Seq(E) /\ Len(edgesVec) = Len(old) + n
      /\ \A i \in 1 .. Len(old) : edgesVec[i] = old[i]
      /\ \A i \in 1 .. n : edgesVec[Len(old) + i] = new[i]
      /\ \A i \in 1 .. Len(old) : i \notin Repeats
  BY <1>4 DEF VectorParts
<1>. DEFINE l == Len(old)
<1>6. PICK draws \in [Repeats -> Draws] :
        LET vec == [i \in DOMAIN edgesVec |-> IF i \in Repeats THEN draws[i] ELSE edgesVec[i]]
            base == Len(vec) - Square.n
        IN  edgesVec' = SubSeq(vec, 1, base) \o SortEdges(SubSeq(vec, base + 1, Len(vec)))
  BY DEF Redraw
<1>. DEFINE vec == [i \in DOMAIN edgesVec |-> IF i \in Repeats THEN draws[i] ELSE edgesVec[i]]
            tail == SubSeq(vec, l + 1, l + n)
<1>7. \A e \in Draws : e \in T
  BY <1>1, DrawsAllowed
<1>8. \A i \in 1 .. n : new[i] \in T
  <2>1. \A i \in 1 .. n : Allowed(call, Square, new[i])
    BY <1>5 DEF DrawnFor
  <2>2. \A i \in 1 .. n : new[i] \in E
    BY <1>5
  <2>. QED BY <2>1, <2>2
<1>9. T \subseteq E
  OBVIOUS
<1>. HIDE DEF n, E, T
<1>10. DOMAIN edgesVec = 1 .. l + n /\ l \in Nat /\ n \in Nat
  BY <1>5, LenProperties
<1>11. vec \in [1 .. l + n -> E]
  <2>. SUFFICES ASSUME NEW i \in 1 .. l + n
                PROVE  (IF i \in Repeats THEN draws[i] ELSE edgesVec[i]) \in E
    BY <1>10
  <2>1. edgesVec[i] \in E
    BY <1>5, <1>10
  <2>. QED BY <1>6, <1>7, <1>9, <2>1
<1>12. /\ \A i \in 1 .. l : vec[i] = old[i]
       /\ \A i \in 1 .. n : vec[l + i] \in T
  <2>1. ASSUME NEW i \in 1 .. l PROVE vec[i] = old[i]
    <3>1. i \in 1 .. l + n /\ i \notin Repeats /\ edgesVec[i] = old[i]
      BY <1>5, <1>10
    <3>. QED BY <1>10, <3>1
  <2>2. ASSUME NEW i \in 1 .. n PROVE vec[l + i] \in T
    <3>1. l + i \in 1 .. l + n /\ edgesVec[l + i] = new[i]
      BY <1>5, <1>10
    <3>2. CASE l + i \in Repeats
      BY <1>6, <1>7, <1>10, <3>1, <3>2
    <3>3. CASE l + i \notin Repeats
      BY <1>8, <1>10, <3>1, <3>3
    <3>. QED BY <3>2, <3>3
  <2>. QED BY <2>1, <2>2
<1>. HIDE DEF vec
<1>13. vec \in Seq(E) /\ Len(vec) = l + n
  <2>1. l + n \in Nat
    BY <1>10
  <2>2. vec \in Seq(E)
    BY <1>11, <2>1, SeqDef
  <2>. QED BY <1>11, <2>1, <2>2, LenProperties
<1>. HIDE DEF l
<1>14. SubSeq(vec, 1, l) = old
  <2>1. /\ SubSeq(vec, 1, l) \in Seq(E) /\ Len(SubSeq(vec, 1, l)) = l
        /\ \A i \in 1 .. l : SubSeq(vec, 1, l)[i] = vec[i]
    <3>1. 1 \in 1 .. Len(vec) + 1 /\ l \in 1 - 1 .. Len(vec)
      BY <1>10, <1>13
    <3>2. SubSeq(vec, 1, l) = [i \in 1 .. l |-> vec[i]]
      BY <1>10, <1>13
    <3>3. \A i \in 1 .. l : vec[i] \in E
      BY <1>10, <1>11
    <3>. QED BY <1>10, <3>2, <3>3, SeqDef, LenProperties
  <2>2. Len(old) = l
    BY DEF l
  <2>. QED BY <1>5, <1>12, <2>1, <2>2, SeqEqual
<1>15. tail \in Seq(T) /\ Len(tail) = n
  <2>1. SubSeq(vec, l + 1, l + n) = [i \in 1 .. n |-> vec[l + i]]
    <3>1. 1 .. (l + n) - (l + 1) + 1 = 1 .. n
      BY <1>10
    <3>2. SubSeq(vec, l + 1, l + n) = [i \in 1 .. (l + n) - (l + 1) + 1 |-> vec[i + (l + 1) - 1]]
      BY <1>10, <1>13
    <3>3. \A i \in 1 .. n : vec[i + (l + 1) - 1] = vec[l + i]
      BY <1>10
    <3>. QED BY <3>1, <3>2, <3>3
  <2>2. [i \in 1 .. n |-> vec[l + i]] \in [1 .. n -> T]
    BY <1>12
  <2>. HIDE DEF tail
  <2>3. tail \in [1 .. n -> T]
    BY <2>1, <2>2 DEF tail
  <2>. QED BY <1>10, <2>3, SeqDef, LenProperties
<1>. HIDE DEF tail
<1>16. edgesVec' = old \o SortEdges(tail)
  <2>1. Len(vec) - Square.n = l
    BY <1>10, <1>13 DEF n
  <2>2. edgesVec' = SubSeq(vec, 1, l) \o SortEdges(SubSeq(vec, l + 1, Len(vec)))
    BY <1>6, <2>1 DEF vec
  <2>. QED BY <1>13, <1>14, <2>2 DEF tail
<1>17. SortEdges(tail) \in Seq(T) /\ Len(SortEdges(tail)) = n /\ Ascending(SortEdges(tail))
  <2>1. T \subseteq Nat \X Nat
    BY <1>9 DEF E
  <2>. QED BY <1>15, <2>1, SortEdgesFacts
<1>18. DrawnFor(Square, call, SortEdges(tail))
  <2>1. SortEdges(tail) \in Seq(Nat \X Nat)
    BY <1>9, <1>17, SeqMonotonic DEF E
  <2>2. \A i \in 1 .. Len(SortEdges(tail)) : SortEdges(tail)[i] \in T
    BY <1>17
  <2>. QED BY <1>17, <2>1, <2>2 DEF DrawnFor, T, n
<1>19. VectorInv'
  <2>1. Piece' = Piece /\ Square' = Square
    BY <1>1, <1>2 DEF Piece, Square, Here
  <2>. QED BY <1>1, <1>2, <1>5, <1>16, <1>18, <2>1 DEF VectorInv
<1>20. failed' \in BOOLEAN /\ drawn' \in BOOLEAN
  BY <1>1 DEF GenerationInv, EdgesInv
<1>. QED BY <1>1, <1>3, <1>19, <1>20, StaysInPiece

\* A failure leaves everything as it is.
LEMMA FailsInv ==
  GenerationInv /\ Fails => GenerationInv'
<1>. SUFFICES ASSUME GenerationInv, Fails PROVE GenerationInv'
  OBVIOUS
<1>1. /\ Generating /\ failed' = TRUE /\ UNCHANGED <<partitionVars, piece, rec, drawn, edgesVec, graph>>
  BY DEF Fails
<1>2. call' = call /\ squares' = squares
  BY <1>1, SquaresStay
<1>3. rec \in 1 .. Cardinality(Piece) /\ VectorInv /\ drawn \in BOOLEAN
  BY <1>1, GeneratingFacts DEF GenerationInv, EdgesInv
<1>4. VectorInv'
  <2>1. Piece' = Piece /\ Square' = Square
    BY <1>1, <1>2 DEF Piece, Square, Here
  <2>. QED BY <1>1, <1>2, <1>3, <2>1 DEF VectorInv
<1>. QED BY <1>1, <1>3, <1>4, StaysInPiece

-----------------------------------------------------------------------------
\* Draws without repeats are the edges of their square.
LEMMA SquareDone ==
  ASSUME GenerationInv, Generating, drawn, call.allowDuplicateEdges \/ Repeats = {}
  PROVE  Fits(squares, call, edgesVec, FirstOf(Piece, rec + 1))
<1>1. /\ PartitionTypeOK /\ piece \in 1 .. nPieces /\ rec \in 1 .. Cardinality(Piece)
      /\ Here \in 1 .. Len(squares) /\ Square = squares[Here]
  BY GeneratingFacts
<1>2. /\ Here \notin FirstOf(Piece, rec) /\ FirstOf(Piece, rec + 1) = FirstOf(Piece, rec) \cup {Here}
      /\ FirstOf(Piece, rec) \in SUBSET (1 .. Len(squares))
  BY <1>1, TurnOfState
<1>3. squares \in Seq(SquareType)
  BY <1>1, PiecesOfState
<1>4. PICK old, new : VectorParts(old, new)
  BY VectorHasParts
<1>5. /\ edgesVec = old \o new /\ new \in Seq(Nat \X Nat) /\ Len(new) = squares[Here].n
      /\ Fits(squares, call, old, FirstOf(Piece, rec))
      /\ Ascending(new) /\ \A i \in 1 .. Len(new) : Allowed(call, squares[Here], new[i])
      /\ Repeats = {} => \A i \in 1 .. Len(new) - 1 : new[i] # new[i + 1]
  BY <1>1, <1>4 DEF VectorParts, DrawnFor
<1>6. call.allowDuplicateEdges \/ \A i, j \in 1 .. Len(new) : new[i] = new[j] => i = j
  <2>. SUFFICES ASSUME Repeats = {}, NEW i \in 1 .. Len(new), NEW j \in 1 .. Len(new), new[i] = new[j]
                PROVE  i = j
    OBVIOUS
  <2>1. \A k \in 1 .. Len(new) - 1 : new[k] # new[k + 1]
    BY <1>5
  <2>. QED BY <1>5, <2>1, AscendingDiffer
<1>7. Fits(squares, call, new, {Here})
  BY <1>1, <1>3, <1>5, <1>6, FitsSquare
<1>. DEFINE S == FirstOf(Piece, rec)
            T == {Here}
<1>8. S \in SUBSET (1 .. Len(squares)) /\ T \in SUBSET (1 .. Len(squares)) /\ S \cap T = {}
  BY <1>1, <1>2
<1>. HIDE DEF S, T
<1>9. Fits(squares, call, old, S) /\ Fits(squares, call, new, T)
  BY <1>5, <1>7 DEF S, T
<1>10. Fits(squares, call, old \o new, S \cup T)
  BY <1>3, <1>8, <1>9, FitsJoined
<1>. QED BY <1>2, <1>5, <1>10 DEF S, T

\* Where squares end at which others start, so do their edges.
LEMMA OrderedJoined ==
  ASSUME NEW sqs \in Seq(SquareType), NEW c, NEW S \in SUBSET (1 .. Len(sqs)),
         NEW T \in SUBSET (1 .. Len(sqs)), \A i \in S, j \in T : sqs[i].xe <= sqs[j].xs,
         NEW u, NEW v, Fits(sqs, c, u, S), Fits(sqs, c, v, T), Ordered(sqs, u), Ascending(v)
  PROVE  Ordered(sqs, u \o v)
<1>. DEFINE E == Nat \X Nat
            w == u \o v
            l == Len(u)
            m == Len(v)
<1>1. PICK a : Owned(sqs, c, u, S, a)
  BY DEF Fits
<1>2. PICK b : Owned(sqs, c, v, T, b)
  BY DEF Fits
<1>3. u \in Seq(E) /\ v \in Seq(E) /\ l \in Nat /\ m \in Nat /\ DOMAIN v = 1 .. m
  BY LenProperties DEF Fits
<1>4. /\ w \in Seq(E) /\ Len(w) = l + m
      /\ \A i \in 1 .. l : w[i] = u[i]
      /\ \A i \in l + 1 .. l + m : w[i] = v[i - l]
  <2>. HIDE DEF E
  <2>. QED BY <1>3, ConcatProperties
<1>5. \A i \in 1 .. Len(sqs) : sqs[i].xs \in Nat /\ sqs[i].xe \in Nat /\ sqs[i].ys \in Nat /\ sqs[i].ye \in Nat
  <2>1. \A i \in 1 .. Len(sqs) : sqs[i] \in SquareType
    OBVIOUS
  <2>. QED BY <2>1 DEF SquareType
<1>6. ASSUME NEW i \in 1 .. l
      PROVE  u[i][1] \in Nat /\ a[i] \in S /\ a[i] \in 1 .. Len(sqs) /\ u[i][1] <= sqs[a[i]].xe
  <2>1. a[i] \in S /\ Allowed(c, sqs[a[i]], u[i])
    BY <1>1 DEF Owned
  <2>2. a[i] \in 1 .. Len(sqs)
    BY <2>1
  <2>. QED BY <1>5, <2>1, <2>2 DEF Allowed, Within
<1>7. ASSUME NEW i \in 1 .. m
      PROVE  v[i][1] \in Nat /\ b[i] \in T /\ b[i] \in 1 .. Len(sqs) /\ sqs[b[i]].xs <= v[i][1]
  <2>1. b[i] \in T /\ Allowed(c, sqs[b[i]], v[i])
    BY <1>2 DEF Owned
  <2>2. b[i] \in 1 .. Len(sqs)
    BY <2>1
  <2>. QED BY <1>5, <2>1, <2>2 DEF Allowed, Within
<1>. HIDE DEF w, l, m
<1>8. SUFFICES ASSUME NEW i \in 1 .. l + m, NEW j \in 1 .. l + m, i < j, Before(w[j], w[i])
               PROVE  w[i][1] = w[j][1] /\ w[i][1] \in {s.xe : s \in Range(sqs)}
  BY <1>4 DEF Ordered, w
<1>9. CASE j \in 1 .. l
  <2>1. i \in 1 .. l /\ w[i] = u[i] /\ w[j] = u[j]
    BY <1>3, <1>4, <1>8, <1>9
  <2>. QED BY <1>8, <1>9, <2>1 DEF Ordered, l
<1>10. CASE j \in l + 1 .. l + m /\ i \in l + 1 .. l + m
  <2>1. i - l \in 1 .. m /\ j - l \in 1 .. m /\ i - l < j - l /\ w[i] = v[i - l] /\ w[j] = v[j - l]
    <3>1. i - l \in 1 .. m /\ j - l \in 1 .. m /\ i - l < j - l
      BY <1>3, <1>8, <1>10
    <3>2. w[i] = v[i - l] /\ w[j] = v[j - l]
      BY <1>4, <1>10
    <3>. QED BY <3>1, <3>2
  <2>2. ~Before(v[j - l], v[i - l])
    BY <1>3, <2>1 DEF Ascending
  <2>. QED BY <1>8, <2>1, <2>2
<1>11. CASE j \in l + 1 .. l + m /\ i \in 1 .. l
  <2>1. j - l \in 1 .. m /\ w[i] = u[i] /\ w[j] = v[j - l]
    <3>1. j - l \in 1 .. m
      BY <1>3, <1>11
    <3>2. w[i] = u[i]
      BY <1>4, <1>11
    <3>3. w[j] = v[j - l]
      BY <1>4, <1>11
    <3>. QED BY <3>1, <3>2, <3>3
  <2>. DEFINE k == j - l
  <2>. HIDE DEF k
  <2>2. k \in 1 .. m /\ w[j] = v[k]
    BY <2>1 DEF k
  <2>3. sqs[a[i]].xe <= sqs[b[k]].xs /\ sqs[a[i]].xe \in Nat /\ sqs[b[k]].xs \in Nat
    BY <1>5, <1>6, <1>7, <1>11, <2>2
  <2>4. /\ u[i][1] \in Nat /\ u[i][1] <= sqs[a[i]].xe /\ v[k][1] \in Nat /\ sqs[b[k]].xs <= v[k][1]
        /\ a[i] \in 1 .. Len(sqs)
    BY <1>6, <1>7, <1>11, <2>2
  <2>5. v[k][1] <= u[i][1]
    <3>1. Before(v[k], u[i])
      BY <1>8, <2>1, <2>2
    <3>. QED BY <2>4, <3>1 DEF Before
  <2>6. u[i][1] = v[k][1] /\ u[i][1] = sqs[a[i]].xe
    BY <2>3, <2>4, <2>5
  <2>7. sqs[a[i]] \in Range(sqs)
    BY <2>4 DEF Range
  <2>. QED BY <2>1, <2>2, <2>6, <2>7
<1>. QED BY <1>3, <1>8, <1>9, <1>10, <1>11

\* A piece done, its edges are in the graph, which it does not disturb, unless
\* the piece is one that is lost.
LEMMA PieceDone ==
  ASSUME GenerationInv, Generating, Fits(squares, call, edgesVec, Piece),
         UNCHANGED <<partitionVars, failed>>, ~drawn', drawn' \in BOOLEAN, FinishPiece
  PROVE  GenerationInv'
<1>1. /\ PartitionInv' /\ CapacityInv' /\ PlacedInv'
      /\ call' = call /\ squares' = squares /\ stage' = stage /\ nPieces' = nPieces
  BY SquaresStay
<1>2. /\ EdgesInv /\ PartitionInv /\ CapacityInv /\ stage = "partitioned"
      /\ PartitionTypeOK /\ piece \in 1 .. nPieces
  BY GeneratingFacts DEF GenerationInv, Generating
<1>3. /\ squares \in Seq(SquareType) /\ call.sorted \in BOOLEAN /\ nPieces \in Nat
      /\ nPieces = PieceCount(squares, call.sorted)
      /\ Piece = OfPiece(squares, call.sorted, piece)
  BY <1>2, PiecesOfState
<1>4. /\ piece' = piece + 1 /\ rec' = 1 /\ edgesVec' = << >>
      /\ piece <= nDelivered => graph' = graph \o SortEdges(edgesVec)
      /\ ~(piece <= nDelivered) => graph' = graph
  BY DEF FinishPiece, Deliver
<1>5. nDelivered \in Nat /\ nDelivered' = nDelivered /\ piece \in Nat
  BY <1>2, <1>3, DeliveredFacts, SquaresStay
<1>. DEFINE S == Earlier(squares, call.sorted, piece)
            T == OfPiece(squares, call.sorted, piece)
            v == SortEdges(edgesVec)
<1>6. /\ S \cap T = {} /\ S \in SUBSET (1 .. Len(squares)) /\ T \in SUBSET (1 .. Len(squares))
      /\ Earlier(squares, call.sorted, piece + 1) = S \cup T
  <2>1. piece \in Nat
    BY <1>2, <1>3
  <2>. QED BY <1>3, <2>1, EarlierFacts
<1>7. /\ piece <= nDelivered => Fits(squares, call, graph, S)
      /\ call.sorted => Ordered(squares, graph)
  BY <1>2 DEF EdgesInv, Upto
<1>8. Fits(squares, call, v, T) /\ Ascending(v)
  <2>1. Fits(squares, call, edgesVec, T)
    BY <1>3
  <2>. HIDE DEF T
  <2>. QED BY <1>3, <2>1, FitsSorted
<1>9. ASSUME call.sorted PROVE \A i \in S, j \in T : squares[i].xe <= squares[j].xs
  <2>. SUFFICES ASSUME NEW i \in S, NEW j \in T PROVE squares[i].xe <= squares[j].xs
    OBVIOUS
  <2>1. i \in 1 .. Len(squares) /\ j \in 1 .. Len(squares)
    BY <1>6
  <2>2. PieceOf(squares, call.sorted, i) < piece /\ PieceOf(squares, call.sorted, j) = piece
    BY DEF Earlier, OfPiece
  <2>3. squares[i].xs < squares[j].xs
    <3>1. \A k, m \in 1 .. Len(squares) :
            PieceOf(squares, call.sorted, k) < PieceOf(squares, call.sorted, m) => squares[k].xs < squares[m].xs
      BY <1>3, <1>9, PieceFacts
    <3>. HIDE DEF S, T
    <3>. QED BY <2>1, <2>2, <3>1
  <2>4. nLeft = 0
    BY <1>2 DEF PartitionInv
  <2>. HIDE DEF S, T
  <2>. QED BY <1>2, <1>9, <2>1, <2>3, <2>4, ColumnsAscend
<1>10. ASSUME piece <= nDelivered
      PROVE  /\ graph' = graph \o v /\ Upto' = piece + 1
             /\ Fits(squares, call, graph \o v, S \cup T)
             /\ call.sorted => Ordered(squares, graph \o v)
  <2>1. graph' = graph \o v
    BY <1>4, <1>10
  <2>2. Upto' = piece + 1
    <3>1. Upto' = IF piece' <= nDelivered' THEN piece' ELSE nDelivered' + 1
      BY DEF Upto
    <3>. QED BY <1>4, <1>5, <1>10, <3>1
  <2>. HIDE DEF S, T, v
  <2>3. Fits(squares, call, graph \o v, S \cup T)
    BY <1>3, <1>6, <1>7, <1>8, <1>10, FitsJoined
  <2>4. call.sorted => Ordered(squares, graph \o v)
    BY <1>3, <1>6, <1>7, <1>8, <1>9, <1>10, OrderedJoined
  <2>. QED BY <2>1, <2>2, <2>3, <2>4
<1>11. ASSUME ~(piece <= nDelivered)
       PROVE  graph' = graph /\ Upto' = Upto
  <2>1. Upto' = IF piece' <= nDelivered' THEN piece' ELSE nDelivered' + 1
    BY DEF Upto
  <2>2. Upto' = nDelivered + 1 /\ Upto = nDelivered + 1
    BY <1>4, <1>5, <1>11, <2>1 DEF Upto
  <2>. QED BY <1>4, <1>11, <2>2
<1>. HIDE DEF S, T, v
<1>12. Fits(squares, call, graph, Earlier(squares, call.sorted, Upto))'
  <2>1. CASE piece <= nDelivered
    BY <1>1, <1>6, <1>10, <2>1
  <2>2. CASE ~(piece <= nDelivered)
    BY <1>1, <1>2, <1>11, <2>2 DEF EdgesInv
  <2>. QED BY <2>1, <2>2
<1>13. (call.sorted => Ordered(squares, graph))'
  BY <1>1, <1>7, <1>10, <1>11
<1>14. piece' \in 1 .. nPieces' + 1 /\ rec' \in Nat /\ failed' \in BOOLEAN
  BY <1>1, <1>2, <1>3, <1>4 DEF EdgesInv
<1>15. (piece <= nPieces => rec \in 1 .. Cardinality(Piece) /\ VectorInv)'
  <2>1. (/\ PartitionTypeOK /\ piece \in 1 .. nPieces /\ rec = 1 /\ ~drawn /\ edgesVec = << >>
         => rec \in 1 .. Cardinality(Piece) /\ VectorInv)'
    BY FreshPiece, PTL
  <2>2. PartitionTypeOK' /\ rec' = 1 /\ ~drawn' /\ edgesVec' = << >>
    BY <1>1, <1>4 DEF PartitionInv
  <2>3. piece' <= nPieces' => piece' \in 1 .. nPieces'
    BY <1>1, <1>3, <1>14
  <2>. QED BY <2>1, <2>2, <2>3
<1>16. EdgesInv'
  BY <1>1, <1>2, <1>4, <1>12, <1>13, <1>14, <1>15 DEF EdgesInv
<1>. QED BY <1>1, <1>16 DEF GenerationInv

\* Once a square is done, the next one has its turn, or the next piece.
LEMMA NextSquareInv ==
  GenerationInv /\ NextSquare => GenerationInv'
<1>. SUFFICES ASSUME GenerationInv, NextSquare PROVE GenerationInv'
  OBVIOUS
<1>1. /\ Generating /\ drawn
      /\ call.allowDuplicateEdges \/ Repeats = {}
      /\ drawn' = FALSE /\ UNCHANGED <<partitionVars, failed>>
  BY DEF NextSquare
<1>2. Fits(squares, call, edgesVec, FirstOf(Piece, rec + 1))
  BY <1>1, SquareDone
<1>3. /\ PartitionTypeOK /\ piece \in 1 .. nPieces /\ rec \in 1 .. Cardinality(Piece)
  BY <1>1, GeneratingFacts
<1>4. /\ Cardinality(Piece) \in Nat /\ FirstOf(Piece, Cardinality(Piece) + 1) = Piece
  BY <1>3, TurnOfState
<1>5. CASE rec < Cardinality(Piece)
  <2>1. rec' = rec + 1 /\ UNCHANGED <<piece, edgesVec, graph>>
    BY <1>5 DEF NextSquare
  <2>2. Piece' = Piece
    BY <1>1, <2>1, SquaresStay DEF Piece
  <2>3. VectorInv'
    BY <1>1, <1>2, <2>1, <2>2, SquaresStay DEF VectorInv
  <2>4. rec' \in 1 .. Cardinality(Piece)
    BY <1>3, <1>4, <1>5, <2>1
  <2>5. failed' \in BOOLEAN
    BY <1>1 DEF GenerationInv, EdgesInv
  <2>. QED BY <1>1, <2>1, <2>3, <2>4, <2>5, StaysInPiece
<1>6. CASE ~(rec < Cardinality(Piece))
  <2>1. FinishPiece
    BY <1>6 DEF NextSquare
  <2>2. rec = Cardinality(Piece)
    BY <1>3, <1>4, <1>6
  <2>3. Fits(squares, call, edgesVec, Piece)
    BY <1>2, <1>4, <2>2
  <2>. QED BY <1>1, <2>1, <2>3, PieceDone
<1>. QED BY <1>5, <1>6

\* A step that changes nothing.
LEMMA GenerationStutterInv ==
  GenerationInv /\ UNCHANGED generationVars => GenerationInv'
<1>. SUFFICES ASSUME GenerationInv, UNCHANGED generationVars PROVE GenerationInv'
  OBVIOUS
<1>1. UNCHANGED <<partitionVars, piece, rec, drawn, edgesVec, graph, failed>>
  BY DEF generationVars, edgeVars
<1>2. /\ PartitionInv' /\ CapacityInv' /\ PlacedInv'
      /\ call' = call /\ squares' = squares /\ stage' = stage /\ nPieces' = nPieces
  BY <1>1, SquaresStay
<1>3. Piece' = Piece /\ Square' = Square
  BY <1>1, <1>2 DEF Piece, Square, Here
<1>4. VectorInv' <=> VectorInv
  BY <1>1, <1>2, <1>3 DEF VectorInv
<1>5. NothingYet' <=> NothingYet
  BY <1>1 DEF NothingYet
<1>6. EdgesInv
  BY DEF GenerationInv
<1>7. Earlier(squares, call.sorted, Upto)' = Earlier(squares, call.sorted, Upto)
  <2>1. nDelivered' = nDelivered
    BY <1>1, SquaresStay
  <2>. QED BY <1>1, <1>2, <2>1 DEF Upto
<1>8. EdgesInv'
  BY <1>1, <1>2, <1>3, <1>4, <1>5, <1>6, <1>7 DEF EdgesInv
<1>. QED BY <1>2, <1>8 DEF GenerationInv

LEMMA GenerationInvariance ==
  SpecEdges => []GenerationInv
<1>1. GenerationInv /\ [NextEdges]_generationVars => GenerationInv'
  <2>. SUFFICES ASSUME GenerationInv, [NextEdges]_generationVars PROVE GenerationInv'
    OBVIOUS
  <2>1. CASE PartitionFirst
    BY <2>1, PartitionFirstInv
  <2>2. CASE Draw
    BY <2>2, DrawInv
  <2>3. CASE Redraw
    BY <2>3, RedrawInv
  <2>4. CASE Fails
    BY <2>4, FailsInv
  <2>5. CASE NextSquare
    BY <2>5, NextSquareInv
  <2>6. CASE Spin \/ EndedEdges \/ UNCHANGED generationVars
    BY <2>6, GenerationStutterInv DEF Spin, EndedEdges
  <2>. QED BY <2>1, <2>2, <2>3, <2>4, <2>5, <2>6 DEF NextEdges, Step
<1>. QED BY <1>1, EdgesInitInv, PTL DEF SpecEdges

-----------------------------------------------------------------------------
\* An edge that may be in a square is one of vertices of the graph; in an
\* undirected graph, of the triangle.
LEMMA AllowedFacts ==
  ASSUME GenerationInv, NEW i \in 1 .. Len(squares), NEW e, Allowed(call, squares[i], e)
  PROVE  /\ e \in Vertices \X Vertices
         /\ ~call.directedGraph => e[1] <= e[2]
<1>1. /\ squares[i] \in SquareType /\ Placed(squares[i], call.nVertices)
      /\ Sides(squares[i]) /\ call \in Calls
  BY DEF GenerationInv, PartitionInv, PartitionTypeOK, PlacedInv, Tiled
<1>2. call.nVertices \in Nat
  BY <1>1, CallsAssumption
<1>. DEFINE s == squares[i]
<1>. HIDE DEF s
<1>3. s.xs \in Nat /\ s.xe \in Nat /\ s.ys \in Nat /\ s.ye \in Nat /\ s.h \in Nat /\ s.v \in Nat
  BY <1>1 DEF SquareType, s
<1>4. s.xe <= call.nVertices /\ s.ye <= call.nVertices /\ (s.h < s.v => s.xe <= s.ys)
  BY <1>1 DEF Placed, s
<1>5. PICK x \in s.xs .. s.xe, y \in s.ys .. s.ye : e = <<x, y>>
  BY DEF Allowed, Within, s
<1>6. x \in Vertices /\ y \in Vertices
  BY <1>2, <1>3, <1>4 DEF Vertices
<1>7. x > y /\ ~call.directedGraph => s.h < s.v
  BY <1>5 DEF Allowed, s
<1>8. ~call.directedGraph => x <= y
  BY <1>3, <1>4, <1>7
<1>. QED BY <1>5, <1>6, <1>8

\* So are the edges of the graph, each from a square of its own.
LEMMA GraphFacts ==
  ASSUME GenerationInv
  PROVE  /\ graph \in Seq(Vertices \X Vertices) /\ DOMAIN graph = 1 .. Len(graph) /\ Len(graph) \in Nat
         /\ \A i \in 1 .. Len(graph) : ~call.directedGraph => graph[i][1] <= graph[i][2]
         /\ \E own \in [1 .. Len(graph) -> 1 .. Len(squares)] :
              /\ \A i \in 1 .. Len(graph) : graph[i] \in Within(squares[own[i]])
              /\ call.allowDuplicateEdges \/ \A i, j \in 1 .. Len(graph) :
                   graph[i] = graph[j] /\ own[i] = own[j] => i = j
<1>. DEFINE S == Earlier(squares, call.sorted, Upto)
            V == Vertices \X Vertices
<1>1. Fits(squares, call, graph, S) /\ S \in SUBSET (1 .. Len(squares))
  BY DEF GenerationInv, EdgesInv, Earlier
<1>. HIDE DEF S
<1>2. graph \in Seq(Nat \X Nat) /\ DOMAIN graph = 1 .. Len(graph) /\ Len(graph) \in Nat
  BY <1>1, LenProperties DEF Fits
<1>3. PICK own : Owned(squares, call, graph, S, own)
  BY <1>1 DEF Fits
<1>4. /\ own \in [1 .. Len(graph) -> S]
      /\ \A i \in 1 .. Len(graph) : Allowed(call, squares[own[i]], graph[i])
      /\ call.allowDuplicateEdges \/ \A i, j \in 1 .. Len(graph) :
           graph[i] = graph[j] /\ own[i] = own[j] => i = j
  BY <1>3 DEF Owned
<1>5. own \in [1 .. Len(graph) -> 1 .. Len(squares)]
  BY <1>1, <1>4
<1>6. ASSUME NEW i \in 1 .. Len(graph)
      PROVE  /\ graph[i] \in V /\ graph[i] \in Within(squares[own[i]])
             /\ ~call.directedGraph => graph[i][1] <= graph[i][2]
  <2>1. own[i] \in 1 .. Len(squares) /\ Allowed(call, squares[own[i]], graph[i])
    BY <1>4, <1>5
  <2>2. graph[i] \in Within(squares[own[i]])
    BY <2>1 DEF Allowed
  <2>. QED BY <2>1, <2>2, AllowedFacts
<1>. HIDE DEF V
<1>7. graph \in Seq(V)
  <2>1. graph = [i \in 1 .. Len(graph) |-> graph[i]]
    BY <1>2
  <2>2. graph \in [1 .. Len(graph) -> V]
    BY <1>6, <2>1
  <2>. DEFINE n == Len(graph)
  <2>3. n \in Nat /\ graph \in [1 .. n -> V]
    BY <1>2, <2>2
  <2>. HIDE DEF n
  <2>. QED BY <2>3, SeqDef
<1>. QED BY <1>2, <1>4, <1>5, <1>6, <1>7 DEF V

(***************************************************************************)
(* The generation keeps to its types: whatever the parameters, edges are   *)
(* drawn between vertices of the graph, and no more pieces are generated   *)
(* than there are.                                                         *)
(***************************************************************************)
THEOREM EdgesTypeCorrect == SpecEdges => []TypeOKEdges
<1>1. ASSUME GenerationInv PROVE TypeOKEdges
  <2>1. /\ PartitionTypeOK /\ piece \in 1 .. nPieces + 1 /\ rec \in Nat
        /\ drawn \in BOOLEAN /\ failed \in BOOLEAN
    BY <1>1 DEF GenerationInv, PartitionInv, EdgesInv
  <2>2. graph \in Seq(Vertices \X Vertices)
    BY <1>1, GraphFacts
  <2>3. edgesVec \in Seq(Vertices \X Vertices)
    <3>. DEFINE V == Vertices \X Vertices
    <3>1. ASSUME NEW vec \in Seq(Nat \X Nat),
                 \A i \in 1 .. Len(vec) : \E k \in 1 .. Len(squares) : Allowed(call, squares[k], vec[i])
          PROVE  vec \in Seq(V)
      <4>1. \A i \in 1 .. Len(vec) : vec[i] \in V
        BY <1>1, <3>1, AllowedFacts
      <4>. HIDE DEF V
      <4>2. Len(vec) \in Nat /\ vec = [i \in 1 .. Len(vec) |-> vec[i]]
        BY LenProperties
      <4>3. vec \in [1 .. Len(vec) -> V]
        BY <4>1, <4>2
      <4>. DEFINE n == Len(vec)
      <4>4. n \in Nat /\ vec \in [1 .. n -> V]
        BY <4>2, <4>3
      <4>. HIDE DEF n
      <4>. QED BY <4>4, SeqDef
    <3>2. ASSUME NEW vec, NEW S \in SUBSET (1 .. Len(squares)), Fits(squares, call, vec, S)
          PROVE  vec \in Seq(V)
      <4>1. PICK own : Owned(squares, call, vec, S, own)
        BY <3>2 DEF Fits
      <4>2. \A i \in 1 .. Len(vec) : own[i] \in 1 .. Len(squares) /\ Allowed(call, squares[own[i]], vec[i])
        BY <4>1 DEF Owned
      <4>3. vec \in Seq(Nat \X Nat)
        BY <3>2 DEF Fits
      <4>. HIDE DEF V
      <4>. QED BY <3>1, <4>2, <4>3
    <3>3. CASE piece > nPieces
      <4>1. edgesVec = << >>
        BY <1>1, <3>3 DEF GenerationInv, EdgesInv
      <4>. QED BY <4>1
    <3>4. CASE ~(piece > nPieces)
      <4>1. nPieces \in Nat
        BY <2>1, PiecesOfState
      <4>2. piece \in 1 .. nPieces /\ rec \in 1 .. Cardinality(Piece) /\ VectorInv
        BY <1>1, <2>1, <3>4, <4>1 DEF GenerationInv, EdgesInv
      <4>3. FirstOf(Piece, rec) \in SUBSET (1 .. Len(squares)) /\ Here \in 1 .. Len(squares)
        BY <2>1, <4>2, TurnOfState
      <4>4. CASE ~drawn
        <5>1. Fits(squares, call, edgesVec, FirstOf(Piece, rec))
          BY <4>2, <4>4 DEF VectorInv
        <5>. QED BY <3>2, <4>3, <5>1
      <4>5. CASE drawn
        <5>1. PICK old, new : /\ edgesVec = old \o new
                              /\ Fits(squares, call, old, FirstOf(Piece, rec))
                              /\ DrawnFor(Square, call, new)
          BY <4>2, <4>5 DEF VectorInv
        <5>2. old \in Seq(V)
          BY <3>2, <4>3, <5>1
        <5>3. new \in Seq(V)
          BY <3>1, <4>3, <5>1 DEF DrawnFor, Square
        <5>. HIDE DEF V
        <5>. QED BY <5>1, <5>2, <5>3, ConcatProperties DEF V
      <4>. QED BY <4>4, <4>5
    <3>. QED BY <3>3, <3>4
  <2>. QED BY <2>1, <2>2, <2>3 DEF TypeOKEdges
<1>. QED BY <1>1, GenerationInvariance, PTL

\* The columns up to one are those whose squares come before the next.
LEMMA ColumnsUpTo ==
  ASSUME NEW sqs \in Seq(SquareType), NEW n \in Nat
  PROVE  UNION {rectagnleVecs(sqs, c) : c \in 1 .. n} = Earlier(sqs, TRUE, n + 1)
<1>. DEFINE k(i) == Cardinality({x \in Lefts(sqs) : x < sqs[i].xs})
<1>1. \A i \in 1 .. Len(sqs) : k(i) \in Nat
  BY PieceFacts
<1>2. DOMAIN sqs = 1 .. Len(sqs)
  BY LenProperties
<1>3. \A c : rectagnleVecs(sqs, c) = {i \in 1 .. Len(sqs) : k(i) = c - 1}
  BY <1>2 DEF rectagnleVecs, Lefts
<1>4. Earlier(sqs, TRUE, n + 1) = {i \in 1 .. Len(sqs) : k(i) + 1 < n + 1}
  BY DEF Earlier, PieceOf
<1>. HIDE DEF k
<1>5. ASSUME NEW i \in 1 .. Len(sqs)
      PROVE  (\E c \in 1 .. n : k(i) = c - 1) <=> k(i) + 1 < n + 1
  <2>1. ASSUME k(i) + 1 < n + 1 PROVE \E c \in 1 .. n : k(i) = c - 1
    <3>1. k(i) + 1 \in 1 .. n /\ k(i) = (k(i) + 1) - 1
      BY <1>1, <2>1
    <3>. QED BY <3>1
  <2>2. ASSUME NEW c \in 1 .. n, k(i) = c - 1 PROVE k(i) + 1 < n + 1
    BY <1>1, <2>2
  <2>. QED BY <2>1, <2>2
<1>6. \A i : i \in UNION {rectagnleVecs(sqs, c) : c \in 1 .. n}
               <=> i \in 1 .. Len(sqs) /\ \E c \in 1 .. n : k(i) = c - 1
  BY <1>3
<1>. QED BY <1>4, <1>5, <1>6

(***************************************************************************)
(* However the matrix was divided, edges were drawn, replaced and sorted,  *)
(* a graph has as many edges as were asked for, or, of the sorted          *)
(* generator with fewer columns than threads, as were asked for in the     *)
(* columns written.                                                        *)
(***************************************************************************)
THEOREM OnlyColumnsAreLost == SpecEdges => []LosesOnlyColumns
<1>1. ASSUME GenerationInv PROVE LosesOnlyColumns
  <2>. DEFINE columns == UNION {rectagnleVecs(squares, c) : c \in 1 .. nWritten}
              tooFew  == call.sorted /\ nColumns < call.nCPUWorkerThreads
  <2>. SUFFICES ASSUME OverEdges, ~failed
                PROVE  IF tooFew THEN Len(graph) = SumAt(squares, columns) ELSE Len(graph) = call.nEdges
    BY DEF LosesOnlyColumns
  <2>1. /\ PartitionTypeOK /\ EdgesConserved /\ piece \in 1 .. nPieces + 1 /\ piece > nPieces
        /\ Fits(squares, call, graph, Earlier(squares, call.sorted, Upto))
    BY <1>1 DEF GenerationInv, PartitionInv, EdgesInv, OverEdges
  <2>2. /\ squares \in Seq(SquareType) /\ call.sorted \in BOOLEAN
        /\ nPieces = PieceCount(squares, call.sorted) /\ nPieces \in Nat
    BY <2>1, PiecesOfState
  <2>3. /\ nDelivered \in Nat /\ nDelivered <= nPieces
        /\ call.sorted => nDelivered = nWritten
        /\ ~call.sorted \/ nColumns >= call.nCPUWorkerThreads => nDelivered = nPieces
    BY <2>1, DeliveredFacts
  <2>4. Upto = nDelivered + 1
    BY <2>1, <2>2, <2>3 DEF Upto
  <2>5. Len(graph) = SumAt(squares, Earlier(squares, call.sorted, nDelivered + 1))
    BY <2>1, <2>4 DEF Fits
  <2>6. CASE tooFew
    <3>1. call.sorted = TRUE /\ nDelivered = nWritten /\ nWritten \in Nat
      BY <2>2, <2>3, <2>6
    <3>2. columns = Earlier(squares, TRUE, nWritten + 1)
      BY <2>2, <3>1, ColumnsUpTo
    <3>. HIDE DEF columns
    <3>. QED BY <2>5, <2>6, <3>1, <3>2
  <2>7. CASE ~tooFew
    <3>1. nDelivered = nPieces
      <4>1. call.sorted => nColumns \in Nat
        BY <2>1, <2>2, DeliveredFacts
      <4>2. call.nCPUWorkerThreads \in Nat
        BY <2>1, CallsAssumption DEF PartitionTypeOK
      <4>. QED BY <2>3, <2>7, <4>1, <4>2
    <3>2. Earlier(squares, call.sorted, nPieces + 1) = 1 .. Len(squares)
      BY <2>2, EarlierFacts
    <3>3. SumAt(squares, 1 .. Len(squares)) = SumOf(squares)
      BY <2>2, SumAtEnds
    <3>. QED BY <2>1, <2>5, <2>7, <3>1, <3>2, <3>3 DEF EdgesConserved
  <2>. QED BY <2>6, <2>7
<1>. QED BY <1>1, GenerationInvariance, PTL

(***************************************************************************)
(* Where duplicates are not allowed, an edge is in the graph no more often *)
(* than there are squares it lies in, those on whose border it is included.*)
(***************************************************************************)
THEOREM DuplicatesOnBordersOnly == SpecEdges => []DuplicatesOnBorders
<1>1. ASSUME GenerationInv PROVE DuplicatesOnBorders
  <2>. SUFFICES ASSUME ~call.allowDuplicateEdges, NEW e \in Range(graph)
                PROVE  Cardinality({i \in DOMAIN graph : graph[i] = e})
                         <= Cardinality({i \in DOMAIN squares : e \in Within(squares[i])})
    BY DEF DuplicatesOnBorders
  <2>. DEFINE I == {i \in DOMAIN graph : graph[i] = e}
              J == {i \in DOMAIN squares : e \in Within(squares[i])}
  <2>1. PICK own \in [1 .. Len(graph) -> 1 .. Len(squares)] :
          /\ \A i \in 1 .. Len(graph) : graph[i] \in Within(squares[own[i]])
          /\ \A i, j \in 1 .. Len(graph) : graph[i] = graph[j] /\ own[i] = own[j] => i = j
    BY <1>1, GraphFacts
  <2>2. DOMAIN graph = 1 .. Len(graph)
    BY <1>1, GraphFacts
  <2>3. DOMAIN squares = 1 .. Len(squares) /\ Len(squares) \in Nat
    BY <1>1, PiecesOfState DEF GenerationInv, PartitionInv
  <2>. DEFINE f == [i \in I |-> own[i]]
  <2>4. f \in [I -> J] /\ \A i, j \in I : f[i] = f[j] => i = j
    <3>1. \A i \in I : own[i] \in J
      BY <2>1, <2>2, <2>3
    <3>2. \A i, j \in I : own[i] = own[j] => i = j
      BY <2>1, <2>2
    <3>. HIDE DEF I, J
    <3>. QED BY <3>1, <3>2
  <2>5. IsFiniteSet(J)
    <3>1. 1 \in Int /\ Len(squares) \in Int
      BY <2>3
    <3>2. IsFiniteSet(1 .. Len(squares)) /\ J \in SUBSET (1 .. Len(squares))
      BY <2>3, <3>1, FS_Interval
    <3>. HIDE DEF J
    <3>. QED BY <3>2, FS_Subset
  <2>. HIDE DEF I, J, f
  <2>6. f \in Injection(I, J)
    BY <2>4 DEF Injection, IsInjective
  <2>7. Cardinality(I) <= Cardinality(J)
    BY <2>5, <2>6, FS_Injection
  <2>. QED BY <2>7 DEF I, J
<1>. QED BY <1>1, GenerationInvariance, PTL

(***************************************************************************)
(* An undirected graph has edges on one side of the diagonal only.         *)
(***************************************************************************)
THEOREM UndirectedStaysTriangle == SpecEdges => []UndirectedIsTriangle
<1>1. ASSUME GenerationInv PROVE UndirectedIsTriangle
  <2>1. /\ DOMAIN graph = 1 .. Len(graph)
        /\ \A i \in 1 .. Len(graph) : ~call.directedGraph => graph[i][1] <= graph[i][2]
    BY <1>1, GraphFacts
  <2>. QED BY <2>1 DEF UndirectedIsTriangle, Range
<1>. QED BY <1>1, GenerationInvariance, PTL

(***************************************************************************)
(* What the sorted generator delivers ascends, except that edges go back   *)
(* at a vertex where one column ends and the next one starts.              *)
(***************************************************************************)
THEOREM AscendsUpToBorders == SpecEdges => []SortedUpToBorders
<1>1. ASSUME GenerationInv PROVE SortedUpToBorders
  <2>1. Len(graph) \in Nat /\ (call.sorted => Ordered(squares, graph))
    BY <1>1, GraphFacts DEF GenerationInv, EdgesInv
  <2>. SUFFICES ASSUME call.sorted, NEW i \in 1 .. Len(graph) - 1, Before(graph[i + 1], graph[i])
                PROVE  graph[i][1] = graph[i + 1][1] /\ graph[i][1] \in {s.xe : s \in Range(squares)}
    BY DEF SortedUpToBorders
  <2>2. i \in 1 .. Len(graph) /\ i + 1 \in 1 .. Len(graph) /\ i < i + 1
    BY <2>1
  <2>. QED BY <2>1, <2>2 DEF Ordered
<1>. QED BY <1>1, GenerationInvariance, PTL

(***************************************************************************)
(* On a call that is feasible the edges of no square exceed its cells when *)
(* they are drawn, in either generator: the case in which duplicates are   *)
(* replaced for ever is one of the other calls.                            *)
(***************************************************************************)
THEOREM FeasibleIsNotOverfull == SpecEdges => [](Feasible => ~Overfull)
<1>1. InitEdges => RoomInv
  BY RoomInitInv DEF InitEdges
<1>2. GenerationInv /\ RoomInv /\ [NextEdges]_generationVars => RoomInv'
  <2>. SUFFICES ASSUME GenerationInv, RoomInv, [NextEdges]_generationVars PROVE RoomInv'
    OBVIOUS
  <2>1. PartitionInv
    BY DEF GenerationInv
  <2>2. CASE PartitionFirst
    BY <2>1, <2>2, RoomStepInv DEF PartitionFirst
  <2>3. CASE UNCHANGED partitionVars
    BY <2>3, RoomStutterInv
  <2>4. PartitionFirst \/ UNCHANGED partitionVars
    BY DEF NextEdges, Step, Draw, Redraw, Fails, NextSquare, Spin, EndedEdges, generationVars
  <2>. QED BY <2>2, <2>3, <2>4
<1>3. ASSUME GenerationInv, RoomInv, Feasible, Overfull PROVE FALSE
  <2>1. /\ PartitionInv /\ PartitionTypeOK /\ squares \in Seq(SquareType)
        /\ DOMAIN squares = 1 .. Len(squares) /\ nPieces \in Nat
    BY <1>3, PiecesOfState, LenProperties DEF GenerationInv, PartitionInv, PartitionTypeOK
  <2>2. piece \in 1 .. nPieces /\ Square.n > Cardinality(Cells(Square))
    BY <1>3, <2>1 DEF Overfull, GenerationInv, EdgesInv
  <2>3. Here \in 1 .. Len(squares)
    BY <1>3, <2>1, <2>2, TurnOfState DEF GenerationInv, EdgesInv
  <2>4. Square \in SquareType /\ Square \in Range(squares)
    BY <2>1, <2>3, LenProperties DEF Square, Range
  <2>5. /\ Sides(Square) /\ Room(Square) /\ call.directedGraph
    BY <1>3, <2>1, <2>3 DEF PartitionInv, Tiled, RoomInv, Feasible, Square
  <2>6. Square.n <= Cardinality(Cells(Square))
    BY <2>4, <2>5, RoomIsCells
  <2>7. Square.n \in Int /\ Cardinality(Cells(Square)) \in Int
    BY <2>4, <2>5, CellsFinite DEF SquareType
  <2>. QED BY <2>2, <2>6, <2>7
<1>. QED BY <1>1, <1>2, <1>3, GenerationInvariance, PTL DEF SpecEdges
=============================================================================
