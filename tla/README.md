# Verification of query-processing

TLA+ specifications, model-checking runs and machine-checked proofs for the
program in this repository: two in-memory edge stores that count labelled
triangles (C), and the multi-threaded random-graph generator their benchmark
feeds on (C++).

## 1. The system

| Component | Source | State | Operations |
|---|---|---|---|
| Sort-merge edge store | `Source/ShapeCount.c` 19-65, 311-332 | array of edge slots, -1 marks a free one | allocate, insert (first free slot), delete (first equal edge), find, dispose |
| Hash edge store | `ShapeCount.c` 340-421, 682-717 | open-addressing table, two slots per declared edge | the same; insertion probes all slots but the home slot, deletion leaves a hole |
| Sort-merge query | `ShapeCount.c` 67-309 | seven stack arrays and their cursors | filter, three merge joins, minimum of three counts |
| Hash query | `ShapeCount.c` 423-680 | six stack arrays | copy by label, pair, close, maximum of three counts |
| Implementation tables | `Source/ShapeCount.hpp` 36-73 | function pointers | name the functions of one store |
| Thread-safe queue | `Dependencies/threadsafe_queue.hpp` | linked list with a dummy, two mutexes, a condition variable | `push`, `try_pop`, `wait_and_pop` |
| Capacity gate | `Dependencies/capacity_controller.hpp` | `accumulated`, a mutex, a condition variable | `accumulate` (waits), `dissipate` (notifies all) |
| Unsorted generator | `Dependencies/GraphGen_notSorted.cpp` | queue of squares, queue of edge vectors, gate, result | workers generate squares, the caller collects them |
| Sorted generator | `Dependencies/GraphGen_sorted.cpp` | columns of squares, a vector of edges per thread | threads generate columns, the caller writes them in order |
| Partition | `Square.cpp`, `utils.cpp` 34-98, 133-139, the loops of both generators | squares of the adjacency matrix with numbers of edges | shatter, renormalise, test sizes, sort |
| Edge generation | `utils.cpp` 100-165, `fill_up_edge_vector`, `EachThreadGeneratesEdges` | edges of one square or column | draw, sort, replace duplicates |
| Entry point | `PaRMAT_vector.cpp` | - | chooses the generator's parameters, shuffles its result |
| Benchmark, tests | `Benchmarks/`, `Tests/` | - | clients of the above |

**Interactions.** The benchmark asks the generator for a graph, inserts it in
batches into a store, runs the query after each batch and deletes every tenth
edge. Store and query share the slot array and nothing else; one thread uses a
store. In the generator, workers and caller share the two queues and the gate:
workers take squares from `rec_queue`, wait at the gate, and push edge vectors
to `EV_queue`; the caller pops as many vectors as there are squares and gives
their capacity back. In the sorted generator a thread per column fills one of as
many vectors as there are worker threads; the caller joins the oldest thread,
writes a vector, and hands it to the next thread. Both generators begin by
dividing the adjacency matrix, alone, before any thread runs.

**What is hard.** *Stores*: sequences of insertions and deletions (equal edges,
holes in probe sequences, full tables), hashes that overflow. *Queries*: what
the joins do with repeated keys, arrays that overflow, elements read behind and
below arrays - the tests check about a dozen graphs in stores of 32 edges, and
none of these shows there. *Generator*: the interleavings of two locks per
queue, notifications sent without the waiter's lock, a caller and workers that
wait for each other; vectors that are found by counting. *Partition and edges*:
loops that test one thing and change another, rounding at every level, squares
on the diagonal, squares without width or without edges, indices that belong to
two squares.

**What makes each part correct.** A store is a bag of edges: equal edges are
removed one at a time, an edge stays visible until it is removed, no insertion
within the declared size is lost, and no access leaves the table. A query
returns the number of triangles and stays inside its arrays. The queue is a
linearizable FIFO whose sleepers are woken. The gate bounds the edges in memory
and keeps nobody out for ever. The unsorted generator delivers every square
once and returns. The sorted one writes every column once, from left to right.
The partition covers the matrix without overlap, loses no edge, and keeps what
one thread holds within the capacity. A graph has the number of edges asked for,
none twice unless allowed, none on the wrong side of the diagonal. The code does
not keep all of this: sections 2 and 3 say where it falls short, and the properties
state what does hold.

## 2. Modules

| Module | Models | Checked by |
|---|---|---|
| `EdgeBag` | abstract: what a store promises | refined by both stores |
| `EdgeDb` | the slot array, calls and disposal both stores share | through the stores |
| `SortMergeStore` | the sort-merge store | `sort_merge_store`, `StoreProofs` |
| `HashStore` | the hash store | `hash_store`, `StoreProofs` |
| `SortMergeQuery` | `SortMergeJoinRunQuery` | `sort_merge_query`, `triangle_count`, `SortMergeQueryProofs` |
| `HashQuery` | `HashjoinRunQuery` | `hash_query`, `hash_odd_size`, `HashQueryProofs` |
| `FifoQueue` | abstract: what the queue promises | refined by the queue |
| `ThreadsafeQueue` | `threadsafe_queue` | `threadsafe_queue`, `lost_wakeup`, `ThreadsafeQueueProofs` |
| `GraphSource` | abstract: what a generator promises | refined by the pipeline |
| `GraphPipeline` | threads of the unsorted generator, with the gate | `graph_pipeline`, `full_square`, `GraphPipelineProofs` |
| `SquarePartition` | both generators' division of the matrix | `sorted_generator`, `edge_generation`, `SquarePartitionProofs` |
| `SortedGenerator` | the sorted generator's threads, on `SquarePartition` | `sorted_generator`, `GeneratorProofs` |
| `EdgeGeneration` | the edges and their duplicates in both generators, and the entry point, on `SquarePartition` | `edge_generation`, `GeneratorProofs` |
| `DataProofs`, `*Proofs` | lemmas and theorems | the proof system |
| `MC*` | constants for the runs | - |

The operators next to an action or helper that are introduced as *mistaken
form* are what a plausible slip in that place would be. They are not part of
any specification: substituting one for the definition it follows makes the
property it was written for fail.

### Stores

`EdgeDb` holds `db` (slots `0 .. length - 1`) and `length`, the fields of
`struct edge_db`; `open` says whether a database is allocated. An operation on
an edge is two steps, `Call` and the operation itself: without the first, an
operation that changes nothing would be a stuttering step and the bag could not
be asked to account for it. `Free` and `Holding(e)` are the slots the loops look
for; "the first one" is `Min`.

`HashStore` adds `undefined`, set by `OutOfTable` when the first probe, which
every operation makes, is below the table: undefined behaviour, after which
nothing is said. `Wrap` and `CRem` are C's `int` overflow (two's complement, as
gcc compiles it) and truncating `%`, so `MaxInt` is a parameter and the run uses
8-bit ints. `Hits(e, last, S)` are the probe numbers up to `last` that find a
slot of `S`: insertion goes to `length - 1`, deletion and lookup give up only
after probe `length + 1`.

`CompetitionImplementation` is bound to the hash functions (`ShapeCount.hpp`
62-73), although the comment at `ShapeCount.c` 722 says the competition uses the
sort-merge store. `HashStore` and `HashQuery` are therefore its model too.

### Queries

`SortMergeQuery` is one action per turn of a merge loop: `Skip` (the four
branches that advance a cursor), `Match` (write a pair, test for a repeated
key), `Overrun` (the write is behind the array), and `NextJoin` (sort the next
two arrays). `qsort` may put equal keys in any order, and the test for a
repeated key may read the element behind a full array: both are choices.
Arrays not yet in use are empty rather than absent. Databases hold node numbers
and labels from 0 on, as all callers insert them.

Two merges write an edge of one side from the place of the other side's cursor:
the first copies `edge2matches[leftIter]` (`ShapeCount.c` 165), the last
`valids3[rightIter]` (260). With three different labels, or three equal ones, the
sorted sides of triangles without a common node agree place by place, and it does
no harm, as long as no other edge has one of the labels. One such edge is enough:
beside the triangle 0-1-2-0 with labels 0, 1, 2, an edge 0-3 with label 0 is the
last of the first side, so that the match is at the place before it, where the
second side has a free slot, and the triangle is counted as none (`triangle_count`).
With two equal labels and one different the sides do not agree either: the triangle
0-1-2-0 with labels 0, 0, 1 is counted as none. No test asks such a query, and
`CountsDisjointTriangles` of `SortMergeQuery` therefore has the condition
`LabelsAlike \/ LabelsDiffer`; the run's databases include that triangle.

`HashQuery` is one action per turn of an outer loop, and of the inner loop of the
pairing (`Pair`), which writes to two arrays. Free slots of `edge1matches` hash to
a negative index, so every query reads below `edge2matches` and may write below
`valids1` and `valids2`. The module therefore has a memory, `mem`, of ints: the
arrays one below the other in the order of declaration, each aligned to 16 bytes,
as gcc lays them out on x86-64 and AArch64 at all optimisation levels, with
padding of arbitrary content. An index below its array, though, is in another of
the six (`StaysInArrays`): the pairing writes to no array without another below
it, and the closing, which writes to the lowest, does so for edges in use only. In
a store declared for an even number of edges (`Unpadded`) there is no padding, an
array's negative indices are the last elements of the next array, and a free slot
turns out to change nothing (`FreeSlotsJoinNothing`). In a store declared for an
odd number the arrays are two ints apart, the elements read are no edges, and they
are counted. Compiled code and model were compared on random small stores: for
even sizes the answers agree; for odd sizes the compiled query counts the single
triangle of `hash_odd_size` as eight or nine triangles, as the model does. Node
numbers and labels are assumed not to overflow the hashes of the query.

### Queue

`ThreadsafeQueue` has one action per access to shared memory; an action that
takes a mutex is enabled when it is free. The node a pointer designates is its
place in the list, so `head` and `tail` are numbers, `data[n + 1]` is the data
pointer of node `n` and `links` counts the `next` pointers set. `wait` is three
steps: the test under `head_mutex` (`WaitFindsNone`), going to sleep, which
releases it (`WaitSleeps`), and waking (`PushNotify` of another thread, or
`SpuriousWakeup`), after which the mutex is taken again. Every value is pushed
at most once, which bounds the runs. The two overloads that return a
`shared_ptr` are not modelled (nothing calls them), nor is `empty()`, which
returns a value from a `void` function and cannot be instantiated.

### Unsorted generator

`GraphPipeline` uses the queue at the level `FifoQueue` justifies: `push`,
`try_pop` and the test of `wait_and_pop` are one step each, but the gap
between that test and the sleep, which `SleeperIsWoken` shows to matter, is kept.
`accumulate`'s test and addition are one critical section. A square is its place
in `rec_queue`, known by its number of edges. `fill_up_edge_vector` either
returns or, on a square without edges when duplicates are not allowed, throws in
its thread, which ends the process.

### Partition

`SquarePartition` starts from a record `call`, the parameters of a call of either
generator, with one square, the whole matrix. A square is a record of its sides
(`xs`, `xe`, `ys`, `ye`), its number of edges `n` and its place `h`, `v` in the
division; its `level` is never read. `ShatterSquare` is the set of results that
random noise and rounding allow: each share is `Share[p]` give or take `Noise`, in
units of `Whole` (the code: 0.45, 0.22, 0.22, each within half a percent), rounded
down, and the last part has what is left. The code seeds its noise with the time,
so that squares shattered within one second get the same; the model lets each have
its own. The noise for the cuts is computed and never used. In an undirected graph
a square that ends on the diagonal loses part b, whose edges go to part c.

`stage` is the loop the partition is in. The unsorted generator shatters one square
per turn: `ShatterFirst`, which takes the square at the front whichever square was
too large, as `recIdx` is incremented only behind a `continue` and a `break`; and
`ShatterBiggest`. The sorted one shatters all: `BeginPass` sets `nLeft`, and
`ShatterNext` shatters the front square, and sorts after the last.
`Eligible_RNG_Squares` groups squares by where they end, `rectagnleVecs` by where
they start. Squares without width end where they start, so that a column as the
threads get it may be two as they are tested: `PiecesBounded` allows such a column
twice the capacity, and every other piece the capacity. The run has columns of
eight edges where the capacity is seven.

### Sorted generator

`threads` is the code's vector of threads, oldest first; `slots` is
`threads_edges`, each vector by the columns whose edges are in it. `Launch` starts
the first threads; `Reuse` joins the oldest, writes slot `recIdx % nSlots` and
gives it to a new thread; `JoinLast` ends the rest. A thread clears its vector
(`Start`) and fills it (`Generate`) in two steps, so that a caller that wrote a
vector of another thread would be seen to do so. `Crash` is the search for
duplicates in a column without edges: `edgesVec.end()-1` of a vector that never
held memory is eight bytes below a null pointer, which compares greater than the
end, and is read. `allocated` remembers which vectors ever held memory.

Two consequences, both stated by the properties as what the code does and both
seen in the compiled program: with fewer columns than threads the slots written
last are not those of the threads joined, so that the last columns are lost
(`WritesColumnsInOrder`; a graph of 2000 edges on 100 vertices with four threads
yields an empty file), and an empty first column ends the program when duplicates
are not allowed (`OnlyEmptyColumnsCrash`; one edge, 16 vertices, two threads).

### Edges

`EdgeGeneration` runs on after the partition, piece by piece: a square in the
unsorted generator, a column, square by square, in the sorted one.
`genEdgeIndex_FP` is the set of indices that halving an interval down to less than
one, and rounding the middle, may yield: the loop ends with one of `Halvings`
equal parts, a power of two, and the middles of the parts are fractions that are
rounded exactly, in integers. An index may be the end of the interval, which
belongs to the neighbouring square. The vectors of the pieces are put one behind
the other in `graph`, those that are delivered: of the sorted generator's columns,
the `nWritten` leftmost ones, which is what `WritesColumnsInOrder` says the caller
writes. `Draw` is `generate_edges`, all edges of a square at once and in order, as
nothing reads them before a sort; `Redraw` replaces exactly the places `Repeats`
finds, then sorts; `Fails` is the square or column without edges. `Calls` begins
with those of `generate_graph_in_vector`, whose arithmetic on the machine's memory
and processors is an operator.

What holds of duplicates is weaker than the parameter's name says: an edge on a
border may be drawn by each of the squares it borders on (`DuplicatesOnBorders`),
and the sorted output may fall back where two columns meet (`SortedUpToBorders`).
The compiled sorted generator, asked for 300 edges without duplicates, wrote 297
different ones, not in order.

## 3. Runs

| Run | Bounds | Shows |
|---|---|---|
| `sort_merge_store` | 3 edges (two with equal ends, two with equal labels), 2 or 3 slots | the store is a bag, also when full and with equal edges |
| `hash_store` | 4 edges, three in one probe sequence, one whose hash overflows 8 bits; tables of 2 and 4 slots | the table is a bag up to and beyond the declared size; only overflow leaves it |
| `sort_merge_query` | all multisets of 4 slots from 8 contents, two separate triangles in 6 slots; three different labels, two equal ones, one label thrice | right on disjoint triangles; where the output may overrun; it ends |
| `triangle_count` | the same | *violated*: an edge that closes no triangle hides one |
| `hash_query` | all multisets of 2 and 4 edges from 9 in stores declared for 2 and 4, two triangles declared for 6 | right on disjoint triangles, misses none while there is room, negative indices harmless and within the six arrays |
| `hash_odd_size` | one triangle, declared for 7 | *violated*: counts what lies between arrays |
| `threadsafe_queue` | 3 threads, 3 values, symmetric | linearizable, ends kept apart |
| `lost_wakeup` | 2 threads, 1 value | *violated*: a sleeper is left with a value in the queue |
| `graph_pipeline` | 2 workers, squares of 3, 2, 4 and 0 edges, capacity 6, duplicates allowed or not | every square once, bounded memory, ends |
| `full_square` | one square as large as the capacity | *violated*: it never passes the gate |
| `sorted_generator` | both generators; 0 to 10 edges on matrices of 3 and 4, 0 to 3 on one of 1, up to 85 on up to 16; 1 to 5 threads, capacity 2, 5, 7 or 100 | the matrix is divided without loss, into pieces within the capacity (columns with squares without width: twice the capacity), no vector is shared, columns are written in order, it ends |
| `edge_generation` | both generators, up to 5 edges on up to 5 vertices, every combination of flags, and the entry point's calls | no edge lost but with the columns that are not written, duplicates and disorder on borders only, one triangle of an undirected graph, it ends unless a square is overfull |

**Why the bounds are enough.** Stores: a slot is free, holds the edge, or holds
another; two equal copies, two other edges and one slot more than declared edges
give every combination an insertion or deletion can meet, and the proofs cover the
rest. Queue: a pusher between any two of its steps, one popper at work and one
competing or asleep; the proofs cover any number. Queries: one triangle and one
edge beside it, in four slots, are enough for a wrong count; six slots are for the
combination of two correct triangles. Pipeline: two workers are enough for
overtaking, for one waiting at the gate while the other delivers, and for the last
push to be missed; four squares let a worker come back. Partition: capacities
small enough for two passes of the sorted generator's first loop and more turns of
the other's, numbers of edges that noise rounds either way, up to 64 squares,
matrices on which squares lose their width before they are few enough, larger ones
on which `edgeOverflow` decides. Sorted generator: as many columns as threads,
fewer, and more than twice as many. Edges: squares that share borders and corners,
of one cell, of none, and with more edges than places; sorted calls with a column
for every thread, with one column for two threads, which is lost, and with two for
three, of which one is. Calls for which the first loop cannot end are left out: a
column that cannot be divided and holds more edges than the capacity is shattered
for ever. `hash_store` may stop, as an access outside the table ends it; every
other system runs on or says explicitly where it has ended.

**Fairness.** `WF` on the steps of each thread: the threads are system threads
and none of them spins. No fairness on calls (nobody must use a queue), none on
spurious wakeups, and `notify_one` may wake any sleeper. The sequential query
has `WF` on its steps. In `SortedGenerator` the caller runs and so do its threads;
they wait for nothing, so whichever of them runs, all end. In `EdgeGeneration`
numbers are random: `SF` on `FreshRedraw` says that draws which leave fewer
duplicates, being possible again and again, happen in the end.
`FillsUnlessOverfull` says what this is worth: the replacement ends unless a
square is asked for more edges than it has places. `NoneOverfull` says when the
partition rules that out: the graph is directed, within the capacity, and three
times sparser than the matrix. For undirected graphs it does not, as
`edgeOverflow` counts the places above the diagonal too: 16 edges on seven
vertices and two threads never end in the compiled program. `EndsUnlessStranded`
states what fairness buys the unsorted generator when every square is smaller than
the capacity, as in its run: it ends, or one notification was lost when no further
push could come. A square as large as the capacity keeps it at the gate for ever
(`full_square`).

**Findings.** Section 3's violated runs: the sort-merge query counts a triangle as
none when an edge with one of the labels closes no triangle (`explanation.txt` 8),
and when two labels are equal and one is different (section 2); the hash query
counts what lies between its arrays in stores of odd declared size; a push can
leave a waiter asleep; the gate never admits a square as large as the capacity,
which `Eligible_RNG_Rec` accepts. `ZeroMeansNoneWithRoom` has its condition
because without it the comment at `ShapeCount.c` 642, that an empty table means no
triangle, is wrong: `valids2` has a slot per table slot, and pairs, possibly
quadratic in number, that find none are dropped. The hash query's answer is
moreover the maximum of three counts, two of which do not ask for a third edge:
`CountsTriangles` of `HashQuery` fails on three edges that close a triangle and
one that only continues the first.

## 4. Proofs

All are for every value of the constants, under the assumptions named in the
modules (an edge has a label other than -1; declared sizes are positive; `NoValue`
is no value and `NoThread` no thread; those on the shares are explained below).

* `StoreProofs`, the slot array: how `Free`, `Holding`, `Copies` and `Live` change
  when one slot is filled or cleared. Cardinalities of sets of slots are the heart
  of both refinements. The sort-merge store: `TypeCorrect`, and
  `StoreImplementsBag`. The type invariant is inductive, because it says that an
  open store has a positive length and a closed one none. Each action maps to one
  action of the bag: insertion to `Keep`, or, with no free slot, to `Lose`, where
  `Live = length` follows from `Free = {}`. The hash store: `HashTypeCorrect`,
  `HashStaysInTable`, `HashStoreImplementsBag`. The extra argument is about
  probing: probes `1 .. length` meet every slot, probes `1 .. length - 1` all but
  the home slot, so an insertion that finds nothing leaves at most one slot free,
  and then at least `length - 1` slots are taken, which is no less than the
  declared `length / 2`.
* `SortMergeQueryProofs`: `TypeCorrect`, `OverrunsOnlyInLastJoin`,
  `DisjointTrianglesAreCounted`. Three invariants. `Shape`: the arrays have the
  table's length and hold what it holds. `RoomInv`: with different labels the
  three filtered arrays share the slots, so their elements are at most as many as
  slots; a match passes at least one that it had not passed, so the cursor of the
  output is at most the number of elements passed on both sides, and less than
  that of all of them while both cursors stand on an element. `CountInv`, for
  triangles without a common node: which set of edges each array holds in each
  merge (`ArraysInv`), and that after the free slots both cursors go side by side
  (`Cursors`). It rests on `ColumnsAgree`: two sorted arrays with the same keys,
  each once, have the same key in every place - at the last place where they
  differ, the larger key would have to be in the other array once more - and on
  `AskedCount`: each label has as many edges as there are triangles.
* `HashQueryProofs`: `TypeCorrect` and `NeverOutsideTheArrays`, for tables of any
  size and any padding, from `Shape`: whatever the pairing writes below its arrays,
  the three arrays of matches hold edges of the table, so that every hash is in
  `-(n - 1) .. n - 1` and is negative for free slots only. The other theorems are
  about `Unpadded` tables, those declared for an even number of edges, whose memory
  is nothing but edges and free slots (`AllCells`). `FreeSlotsAreHarmless`: what a
  free slot joins is a slot whose node is -1, hence free, and inserting it writes -1
  over -1, wherever that is. `NoTriangleIsMissed` and `DisjointTrianglesAreCounted`
  need to know what the arrays hold at every turn (`Arranged`): the matches hold the
  edges of their label that have been copied, `valids1` and `valids2` the first
  edges and the pairs that the pairing has passed, `valids3` the third edges found,
  each once, in slots about which nothing is said. That holds as long as no array
  overflows (`Room`); an insertion then finds a free slot, because probes from one
  home meet every slot once (`HoldsInsert`), and reaches none but its own array,
  because the home of an edge is a slot. Searches by probing find what is anywhere
  in the array (`ClosesFacts`). What is left is counting, by correspondences:
  `AllPairs`, the pairs of slots that join, with `Pairs`, those of the table, and,
  for triangles without a common node, first edges, pairs and third edges with
  triangles. There a pair may begin at any edge of its triangle, if the labels are
  the same (`DisjointFacts`). `NoneFull` is a condition of the last theorem only,
  and true of tables with no more edges than they are declared for, as they have
  two slots for each. `MCHashQuery` has TLC evaluate both conditions for the run's
  tables.
* `ThreadsafeQueueProofs`: `QueueTypeCorrect`, `EndsStayApart`,
  `QueueImplementsFifo`. The inductive invariant `IInv` adds to the type invariant
  who holds which mutex at which step (`MutexInv`), how far `data` and `links` are
  ahead of `tail` while a push is under way (`ListInv`), that a pop past its test
  has `head < tail` (`PopInv`), and that the step fits the operation (`OpInv`).
  `PopInv` survives a concurrent push because `tail` only grows, and a concurrent
  pop because `head_mutex` is held: neither fact is visible in `EndsApart` alone.
* `GraphPipelineProofs`: `TypeCorrect`, `MemoryBounded`, `EmptySquareNeverReturns`,
  `RefinesSource`. `IInv` adds to the type invariant and to `GateBoundsMemory`,
  which is about a sum over the squares past the gate, where each square is: not
  taken, with one worker, in `EV_queue`, in the caller's hands, or in the result,
  and in one place only (`PlaceInv`); how many vectors end the caller's loop
  (`LoopInv`); and that a square without edges gets past no search for duplicates
  (`EmptySquareInv`). `PlaceInv` is what makes the sum change by just one square's
  edges at the gate, and every delivery a new one for the source.
* `DataProofs`: sums over finite sets, sequences as sets of places, least
  elements, and sorting by any strict order, for the proofs about generators and
  queries. The library defines a sum by recursion on a set from which the chosen
  element is taken away; that the choice does not matter is proved by looking at a
  least counterexample, as the library's induction theorems take an operator as a
  parameter.
* `SquarePartitionProofs`, cited by `GeneratorProofs`: `PartitionInv` is the
  partition's type invariant, that the squares have as many edges as the call asks
  for (`EdgesConserved`: the last part has what is left, and the others never take
  more than there is, by `ShareAssumption`), and that they tile the matrix
  (`Tiled`). That the four parts of a square touch no other square follows only
  because two squares' sides on an axis are the same interval or disjoint, which
  the invariant has to say. `CapacityInv`: in the sorted generator the columns that
  the pass before left are intervals that rise from left to right, a pass halves
  them in this order, and once the first loop is left none of them has more edges
  than the capacity; those that start at one line are two of them at most, the first
  without width. `PlacedInv`: a square lies in the matrix, and its place `h`,
  `v` tells on which side of the diagonal. Sorting is defined by the place each
  element gets (`SortedBy`), not by the library's `SortSeq`, into which the prover
  cannot look; that it permutes and leaves the result ascending is `RearrangedFacts`
  of `DataProofs`, for every strict order.

  `RoomInv` is for `NoneOverfull`, which is not inductive: a square with as many
  edges as cells could be shattered into overfull ones. On a `Feasible` call (the
  property's condition) the first loop has nothing to do (`NothingTooLarge`).
  The second asks `edgeOverflow` before it shatters, and for the sorted generator
  once for a whole pass; so the squares the pass has still to shatter have `Slack`,
  three times more cells than edges, and all others have `Room`. A part gets at most
  three quarters of the edges, rounded up (`ThreeQuarters`: the first share with
  its noise is a quarter at least, which leaves three for the last part), and at
  least half of each side, rounded down (`PartHalves`). Of `w * t > 3 * n` cells a
  quarter, nearly, is left, and `QuarterHasRoom` says that this is enough without
  the diagonal because a square includes its borders: `Room` counts
  `(w + 1) * t` or `w * (t + 1)` places. `PartsAssumption`, that the first share
  less the noise is a quarter and no share and noise is more than three quarters,
  holds of 0.45, 0.22, 0.22 and half a percent, the only shares the program calls
  the generators with. It is not superfluous: with shares of nothing, nothing and
  everything, a square passes all its edges to a quarter of its cells.
* `GeneratorProofs`, the caller of the sorted generator: `EdgesAreConserved`,
  `SquaresTileMatrix`, `PiecesStayBounded` and `SquaresKeepRoom`, which are
  about the partition, and `TypeCorrect`,
  `SlotsAreNotShared`, `ColumnsAreWrittenInOrder`, `EmptyColumnsCrash`. `IInv` says
  where the columns are: those joined, then those of the threads in their order,
  then those not started (`CallerInv`, `ThreadsInv`), column `c` in slot
  `(c - 1) % nSlots`; hence the columns under way, no more than there are slots,
  are in different ones. `SlotsInv` says what a slot holds, `FileInv` that the file
  has the first columns, `MemoryInv` and `CrashInv` which slots have memory and
  what a crash tells of the columns.
* `GeneratorProofs`, the edges, in both generators: `EdgesTypeCorrect`,
  `OnlyColumnsAreLost`, `DuplicatesOnBordersOnly`, `UndirectedStaysTriangle`,
  `AscendsUpToBorders`, from one invariant, `GenerationInv`. Its heart is
  `Fits(squares, call, vec, S)`: each edge of a vector can be given an owner among
  the squares `S` (`Owned`) such that a square may hold what it owns (`Allowed`:
  within its borders, and not to itself or across the diagonal if the call says
  so), owns nothing twice if duplicates are not allowed, and the vector has as
  many edges as the squares of `S` together ask for. The graph `Fits` the squares
  of all pieces before that are delivered (`Earlier`, `Upto`), the vector those of
  the piece before the one whose turn it is (`FirstOf`), with the edges just drawn
  behind them (`VectorInv`). Owners are not in the code, where edges of several
  squares are mixed by a sort; they exist because drawing, replacing and sorting
  move edges and their owners together (`Rearranged`). A square's own edges become
  free of duplicates when the search, which compares neighbours only, finds none,
  as the part it searches is sorted. `Ordered` says that an edge falls back only
  at a border of columns, which `ColumnsAscend` gets from `CapacityInv`.
  `UndirectedStaysTriangle` needs `PlacedInv`, as only squares with `h = v` have
  their edges tested. `FeasibleIsNotOverfull` joins the two halves: on a feasible
  call the square whose edges are drawn has cells for all of them, so that what
  `FillsUnlessOverfull` excepts does not arise.

Every invariant the runs check is a theorem, and so is each refinement.

**Only model-checked.** Liveness (`QueryEnds`, `EndsUnlessStranded`,
`GeneratorEnds`, `FillsUnlessOverfull`, and the violated ones): fairness and
`ENABLED` are out of the prover's reach. That `genEdgeIndex_FP` yields every index of
an interval, borders included, is not proved either (it takes a power of two between
a number and its double, an induction): the run of `FillsUnlessOverfull` rests on it,
the theorems only on that it yields no other.

## 5. Not modelled

* The file-writing twin of the unsorted generator (`GenerateGraph`): the same code
  with a stream in place of the result, and nothing calls it.
* The mode with a mutex and the mode with futures: switched off at compile time.
* The benchmark and the tests: sequential clients of one store at a time, whose
  calls are among those the store modules allow in any order.
* Printing, progress bars, and the query for the machine's memory, whose result is
  a constant of `EdgeGeneration`.
* Probabilities: the R-MAT parameters decide how likely an index is, not which ones
  are possible; and the random labels the unsorted generator gives its edges.
* The size of the stack, which the queries' arrays overflow for large tables.
* Widths of integers in the generators: numbers of edges and vertices are 64-bit
  and far from overflow; an index is narrowed to 32 bits in an edge, which matters
  beyond four billion vertices.

## 6. Plan

1. Done: the stores, the queue, the queries, both generators with their partition
   and edges; the proofs of section 4.
2. Open: the benchmark driver as a client of the stores, which would state the
   largest declared size the stack allows; calls whose first loop does not end.
