-------------------------- MODULE SortedGenerator --------------------------
(***************************************************************************)
(* GraphGen_sorted::GenerateGraph: when the matrix is partitioned, each    *)
(* column of squares is generated by a thread of its own into one of       *)
(* nCPUWorkerThreads edge vectors, its slot.  The caller starts as many    *)
(* threads as there are slots; before it starts another one it joins the   *)
(* oldest, writes a slot and gives that slot to the new thread; at the end *)
(* it joins those left.  The edges of a column are known by its number.    *)
(*                                                                         *)
(* Calls of the unsorted generator end here with the partition.            *)
(***************************************************************************)
EXTENDS SquarePartition

VARIABLES
  main,        \* where the caller is
  recIdx,
  threads,     \* the threads not joined: column, slot and where they are
  slots,       \* threads_edges: the columns whose edges each vector holds
  allocated,   \* whether the vector of a slot has ever held memory
  outFile,     \* the columns written
  aborted      \* a thread crashed

threadVars == <<recIdx, threads, slots, allocated, outFile, aborted>>
vars == <<partitionVars, main, threadVars>>

nSlots == call.nCPUWorkerThreads
Slots  == 0 .. nSlots - 1

Init ==
  /\ PartitionInit
  /\ main = "partition"
  /\ recIdx = 0
  /\ threads = << >>
  /\ slots = [k \in Slots |-> << >>]
  /\ allocated = [k \in Slots |-> FALSE]
  /\ outFile = << >>
  /\ aborted = FALSE

Partition == PartitionStep /\ UNCHANGED <<main, threadVars>>

MainStep(from, to) ==
  /\ ~aborted
  /\ main = from /\ main' = to
  /\ UNCHANGED <<partitionVars, aborted>>

(***************************************************************************)
(* The caller                                                              *)
(***************************************************************************)
Assign ==
  /\ MainStep("partition", "launch")
  /\ call.sorted /\ stage = "partitioned"
  /\ UNCHANGED <<recIdx, threads, slots, allocated, outFile>>

Thread(slot) == [column |-> recIdx + 1, slot |-> slot, at |-> "start"]

Launch ==
  /\ MainStep("launch", "launch")
  /\ recIdx < nSlots /\ recIdx < nColumns
  /\ threads' = Append(threads, Thread(recIdx))
  /\ recIdx' = recIdx + 1
  /\ UNCHANGED <<slots, allocated, outFile>>

AllLaunched ==
  /\ MainStep("launch", "reuse")
  /\ ~(recIdx < nSlots /\ recIdx < nColumns)
  /\ UNCHANGED <<recIdx, threads, slots, allocated, outFile>>

\* The oldest thread has been joined: its slot, as the code reckons, is written.
JoinAndPrint ==
  /\ threads # << >> /\ Head(threads).at = "done"
  /\ outFile' = outFile \o slots[recIdx % nSlots]
  /\ recIdx' = recIdx + 1
  /\ UNCHANGED <<slots, allocated>>

\* Mistaken form: the new thread gets the slot after the one written.
ReuseNextSlot ==
  /\ MainStep("reuse", "reuse")
  /\ recIdx < nColumns
  /\ JoinAndPrint
  /\ threads' = Append(Tail(threads), Thread((recIdx + 1) % nSlots))

Reuse ==
  /\ MainStep("reuse", "reuse")
  /\ recIdx < nColumns
  /\ JoinAndPrint
  /\ threads' = Append(Tail(threads), Thread(recIdx % nSlots))

JoinLast ==
  /\ MainStep("reuse", "reuse")
  /\ recIdx >= nColumns
  /\ JoinAndPrint
  /\ threads' = Tail(threads)

Return ==
  /\ MainStep("reuse", "returned")
  /\ recIdx >= nColumns /\ threads = << >>
  /\ UNCHANGED <<recIdx, threads, slots, allocated, outFile>>

(***************************************************************************)
(* EachThreadGeneratesEdges, by the i-th thread                            *)
(***************************************************************************)
ThreadStep(i, from, to) ==
  /\ ~aborted
  /\ i \in DOMAIN threads /\ threads[i].at = from
  /\ threads' = [threads EXCEPT ![i].at = to]
  /\ UNCHANGED <<partitionVars, main, recIdx, outFile>>

\* Mistaken form: the vector keeps what the thread before left in it.
StartUncleared(i) ==
  /\ ThreadStep(i, "start", "generate")
  /\ UNCHANGED <<slots, allocated, aborted>>

Start(i) ==
  /\ ThreadStep(i, "start", "generate")
  /\ slots' = [slots EXCEPT ![threads[i].slot] = << >>]
  /\ UNCHANGED <<allocated, aborted>>

EdgesOf(i) == SumAt(squares, rectagnleVecs(squares, threads[i].column))

\* Mistaken form: duplicates are searched for even if they are allowed.
SearchesAlways(i) == EdgesOf(i) = 0 /\ ~allocated[threads[i].slot]

\* Without edges in the column and with a vector that never held any memory,
\* the search for duplicates starts one edge before a null pointer, which is
\* not less than its end, and reads there.
ReadsAtNull(i) ==
  ~call.allowDuplicateEdges /\ EdgesOf(i) = 0 /\ ~allocated[threads[i].slot]

Generate(i) ==
  /\ ThreadStep(i, "generate", "done")
  /\ ~ReadsAtNull(i)
  /\ slots' = [slots EXCEPT ![threads[i].slot] = Append(@, threads[i].column)]
  /\ allocated' = [allocated EXCEPT ![threads[i].slot] = @ \/ EdgesOf(i) > 0]
  /\ UNCHANGED aborted

Crash(i) ==
  /\ ThreadStep(i, "generate", "crashed")
  /\ ReadsAtNull(i)
  /\ aborted' = TRUE
  /\ UNCHANGED <<slots, allocated>>

Over ==
  \/ aborted
  \/ main = "returned"
  \/ ~call.sorted /\ stage = "partitioned"

Ended == Over /\ UNCHANGED vars

CallerStep == Partition \/ Assign \/ Launch \/ AllLaunched \/ Reuse \/ JoinLast \/ Return
WorkerStep(i) == Start(i) \/ Generate(i) \/ Crash(i)

Next ==
  \/ CallerStep
  \/ \E i \in DOMAIN threads : WorkerStep(i)
  \/ Ended

Spec == Init /\ [][Next]_vars

\* Threads run.  A thread waits for nothing, so whichever runs on, all do.
FairSpec ==
  /\ Spec
  /\ WF_vars(CallerStep)
  /\ WF_vars(\E i \in DOMAIN threads : WorkerStep(i))

-----------------------------------------------------------------------------
ThreadType == [column : 1 .. nColumns, slot : Slots, at : {"start", "generate", "done", "crashed"}]

TypeOK ==
  /\ PartitionTypeOK
  /\ main \in {"partition", "launch", "reuse", "returned"}
  /\ recIdx \in Nat
  /\ threads \in Seq(ThreadType)
  /\ slots \in [Slots -> Seq(1 .. nColumns)]
  /\ allocated \in [Slots -> BOOLEAN]
  /\ outFile \in Seq(1 .. nColumns)
  /\ aborted \in BOOLEAN

(***************************************************************************)
(* No two threads share a vector, and the caller never writes a vector     *)
(* some thread is still filling, although it finds the vector by counting  *)
(* columns and not through the thread it has joined.                       *)
(***************************************************************************)
NoSharedSlot ==
  /\ \A i, j \in DOMAIN threads : i # j => threads[i].slot # threads[j].slot
  /\ main = "reuse" /\ threads # << >> /\ Head(threads).at = "done" =>
       \A i \in DOMAIN threads :
         threads[i].slot = recIdx % nSlots => threads[i].at = "done"

(***************************************************************************)
(* The file receives the columns from left to right, each at most once.    *)
(* It receives all of them if there are as many as threads; if there are   *)
(* fewer, the slots written last are not those of the threads joined, and  *)
(* as many columns as threads are missing for want of work are lost.       *)
(***************************************************************************)
WritesColumnsInOrder ==
  /\ outFile = [c \in 1 .. Len(outFile) |-> c]
  /\ main = "returned" => Len(outFile) = nWritten

(***************************************************************************)
(* A column without edges among the first ones ends the program when       *)
(* duplicates are not allowed; nothing else does.                          *)
(***************************************************************************)
OnlyEmptyColumnsCrash ==
  LET emptyFirst == {c \in 1 .. nColumns : c <= nSlots /\ SumAt(squares, rectagnleVecs(squares, c)) = 0}
      empty == {c \in 1 .. nColumns : SumAt(squares, rectagnleVecs(squares, c)) = 0}
  IN  /\ aborted => ~call.allowDuplicateEdges /\ empty # {}
      /\ main = "returned" => call.allowDuplicateEdges \/ emptyFirst = {}

(***************************************************************************)
(* Both partitions end, and so do threads and caller.                      *)
(***************************************************************************)
GeneratorEnds == <>Over
=============================================================================
