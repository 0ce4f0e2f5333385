# arch-lab in TLA+

This directory specifies the programs of arch-lab: three computer-architecture
labs written as Pin tools.  A Pin tool is linked into a running program; Pin
calls the tool's *analysis routines* at each instruction, memory access or
branch of the program, and the tool simulates hardware (a cache, a branch
predictor) or keeps statistics.  The state of a tool is therefore driven by an
arbitrary stream of events, and a wrong simulation does not crash: it prints a
plausible hit rate.  That is why the specifications ask whether what a model
*holds* is what its definition says, after every stream.  Four of the tools of
the first lab run in programs of several threads, one of them under a debugger;
there the interleavings are the question.

## 1. The system

| component | source | state | operations | status |
|---|---|---|---|---|
| address translation | `labs/src/cacheModel.cpp` 19-53 | none (pure functions on `UINT32`) | `get_vir_page_no`, `get_page_offset`, `get_phy_page_no`, `get_phy_addr` | modelled |
| replacement algorithms | 55-190 | `LinkedLRU::replace_queue`, `PLRURepl::bits`, `FIFORepl::cnt` | constructor, `front`, `update`, `select` | modelled |
| direct mapped cache | 195-331 | `m_valids`, `m_tags`, request counters | `readReq`, `writeReq` (with `access`, `lookup`) | modelled |
| fully associative cache | 336-391 | the same and a `LinkedLRU` | the same | modelled |
| set-associative cache | 396-549 | one `LinearCache` per way, one `ReplaceAlgo` per row | the same | modelled |
| cache tool | 550-715 | the vector `models` | `readCache`, `writeCache`, `Instruction`, `Fini`, `main` | partly |
| predictor building blocks | `labs/src/brchPredict.cpp` 41-151, 243-300 | `SaturatingCnt`, `ShiftReg`, `BHTEntry`; hashes | increase, decrease, shiftIn, `fold_xor`, `hash_xor`, `truncate` | partly |
| BHT and global history predictors | 153-370 | table of entries, history register | `predict`, `update` | partly |
| tournament predictor | 375-435 | two predictors and a choice counter | `predict`, `update` | modelled |
| TAGE predictor | 440-632 | a base table, tagged tables, usefulness, the last provider | `predict`, `update`, allocation, reset | modelled |
| predictor tool | 635-839 | results per predictor | `predictBranch`, `Instruction`, the ranking of `Fini`, `main` | partly |
| dependency distance tools | `lab1/workspace/insDependDist*.cpp` | instruction counter, last writer per register, histogram | analysis routine per instruction or per block, `Fini` | modelled |
| instruction counting tools | `lab1/workspace/inscount0.cpp`, `inscount1.cpp`, `inscount2.cpp`, `countreps.cpp` | a counter; per REP opcode statistics, memory operations and a log of addresses | a call per instruction, block or iteration | modelled |
| stack debugger | `lab1/workspace/stack-debugger.cpp` | `TINFO` per thread, the kind of breakpoint, whether code is traced | thread start and end, stack change, breakpoint, debugger commands | modelled |
| thread tools | `lab1/workspace/inscount_tls.cpp`, `buffer_linux.cpp`, `buffer_windows.cpp` | a counter or a buffer per thread, files, a lock | a call per block or access, `BufferFull`, `ThreadStart`, `ThreadFini`, `Fini` | modelled |
| cache measurement program, test programs, plot scripts | `labs/src/cache_test.cpp`, `pin_test.cpp`, `simple_test.cpp`, `labs/scripts`, `lab1/workspace/paint_*.py` | | | not modelled |
| other Pin samples, build files | `lab1/workspace` | a counter per routine, or none | | not modelled |

Interaction.  `main` builds a list of models and registers `Instruction`, with
which Pin inserts a call of `readCache` (`writeCache`) before each instruction
that reads (writes) memory.  These pass the effective address, cut to 32 bits
and aligned to 4 bytes, to `readReq` (`writeReq`) of every model in turn, which
counts the request, calls the model's `access` and counts the hit.  When the
program ends, `Fini` prints and deletes every model.  The models never see each
other; what is compared afterwards is their hit rates.  The dependency tools are
two programs of their own that are run on the same program: Pin calls the first
before every instruction, the second once before every basic block with all the
block's instructions.

The branch predictor tool works the same way: `predictBranch` asks each
predictor, updates it with what the branch did, and counts the result, for every
branch in turn; a tournament passes the update on to both of its predictors.
The counting tools are programs of their own as well; `countreps` computes from
one call what its knob `-slow` makes it count call by call.  The thread tools
keep their state per thread in thread-local storage; only `buffer_windows` has a
lock, for its single output file.  The stack debugger has three actors: the
threads of the application, which stop in its analysis routine, Pin's debugger
server, and the user, whose commands switch the instrumentation on and off.

What is hard here.  In the simulators not concurrency but *long legal sequences*:
queues and tables that must stay consistent with each other over any mix of hits
and misses (`access` never looks for a free block: it relies on the order of the
queue), bit fields that must fit together (tag, index, offset; page number and
page offset), state left uninitialised (`m_tags`), counters that wrap, state
remembered from `predict` to `update` (TAGE's provider), history registers that
must see each branch once although only one table is trained, and the claim that
a class named LRU is one.  In the counting tools *calls at different granularity*
for the same events.  In the thread tools *interleaving*: buffers that fill while
another thread writes, threads that end with a part of a buffer, the end of the
application; a debugger that connects, stops, continues and detaches at any
moment, code compiled before the command that should have instrumented it, and a
timeout that races the connection.  Pin also calls the cache tool on the
application's threads without a lock; that is listed as a hazard and not modelled.

What makes the components correct:

* address translation: offset kept; the physical address lies in the memory;
* replacement: every way has its turn, a selection is a way, the order is the
  one the class is named after;
* direct mapped: holds the block accessed last among those of its index;
* fully associative: queue a permutation of the blocks, a tag in one block only,
  no eviction while a block is free, holds exactly the *n* most recently used;
* set-associative: a tag in one way of a row only; rows filled in order; eviction
  order; a hit only on what was loaded; VIPT and PIPT agree;
* the suite: a larger cache of a kind never hits less than a smaller one;
* the predictors: every history register holds the last outcomes, an entry
  predicts what its branches did, a tournament asks the predictor that was right,
  a tag comes from a branch that was mispredicted, an entry of use is kept;
* predictor results: the counters add up to the branches, `Fini` names the best;
* the counting tools: the four totals agree between blocks; `-slow` and the
  fast computation of `countreps` agree once an instruction has come to its end;
* the stack debugger: code calls the tool exactly when tracing is on; a reported
  usage is never above the maximum and, with "stackbreak newmax", always new; a
  thread that stopped comes back;
* the thread tools: no record lost, doubled, reordered or given to another thread,
  the dumps of two threads not mixed, counts complete at the end;
* the dependency tools: each read of a register written before is counted once,
  at its distance, inside the array; both tools count the same.

## 2. Modules

| module | models | how |
|---|---|---|
| `Words` | `UINT32` | a word is the set of its one-bits (`SUBSET 0..31`); `<<`, `>>`, `^`, `~`, `+` are set expressions |
| `AddressTranslation` | lines 19-53 | the same expressions, on `Words` |
| `LinkedLRU` | `LinkedLRU` | the vector is a function from positions to blocks; `Update` is find, erase, append |
| `ReplaceAlgo` | `ReplaceAlgo` and subclasses | `Selections(kind, state)`: the pairs of selected way and next state; a singleton except for `RandomRepl` |
| `CacheModel` | `CacheModel` | the four counters; `CountRead(hit)`, `CountWrite(hit)` |
| `LinearCache`, `FullAssoCache`, `SetAssoCache` | the three caches | `readReq` and `writeReq` are the actions, each split into the ways `access` can return (`AccessHit`, `AccessMiss`; `AccessFill` and `AccessReplace` of a set-associative miss) |
| `AccessStream` | what Pin passes and an ideal observer | `mem_addr` truncates; `since[b]` is the set of blocks accessed after the last access to `b` |
| `CapacitySuite`, `PVSuite` | the tool with the lists of `TEST_CAPACITY`, `TEST_PV` | several instances of the caches that take each request in the same step: `readCache`, `writeCache` run all models before they return |
| `ReplaceOrder` | replacement objects of one row (`TEST_ALGO`) | the number of ways is chosen in the initial state |
| `LRUStack`, `FIFORows` | nothing: abstract specifications | what LRU and FIFO replacement promise, with no blocks, ways or queues |
| `FullAssoCacheLRU` | the refinement of `LRUStack` by `FullAssoCache` | the stack is the tags of the valid blocks in queue order; the history variable `accessed` shows which tag each request was for, since a cache state does not, and an abstract cache could otherwise explain a hit by another tag |
| `InsDependDist` | the analysis routine of `insDependDist.cpp`, and the loop body of `insDependDist2.cpp` | `updateInsDependDistance` is task A (`Count`) then task B (`Written`); an increment outside the array leaves its index in `outside` and nothing else |
| `DependSuite` | a program run under both tools | `EnterBlock`, `Analyse` (second tool, whole block first), `Execute` (first tool, before each instruction) |
| `SaturatingCnt`, `ShiftReg` | the counters, history registers and hashes | a counter is its `UINT8` value, a register a word; the widths are arguments |
| `HistoryPredictors` | `BHTEntry`, `BHTPredictor`, `GlobalHistoryPredictor` | a predictor is the record of its members; `predict` and `update` are functions of it, the virtual calls are by `class` |
| `TournamentPredictor`, `TAGEPredictor` | the two composed predictors | the same; TAGE's `update` is the composition of its four parts in the order of the code (`WithVote`, `WithReset`, `WithReplacement`, `WithTraining`) |
| `PredictorSuite` | `predictBranch`, `Fini`, `main` | one action per branch executed: all predictors are asked, updated and counted; `trace` records branch, outcome and answers |
| `CountReps` | analysis routines of `countreps` | operators on its statistics, once per call (fast) or per iteration (`-slow`); the count register is a number of any size, and `ToUINT32` cuts it where the code does, to `UIntWidth` bits (32 in the code) |
| `CountSuite` | the counting tools over the program of `DependSuite` | extends `DependSuite`; what Pin may insert anywhere in a block is an action of its own at any moment of the block; the history variable `lost` adds up what `ToUINT32` cut off, and a byte of the log carries the execution (`exec`) whose line it is in, which the tool does not see |
| `StackDebugger` | the stack debugger | actions of the user (`Connect`, `Interrupt`, `Continue`, `Detach`, `Command`), of the threads (start, end, stack changes) and of the tool (`DoBreakpoint`, `ConnectDebugger`, `ApplicationBreakpoint`) |
| `ThreadSuite` | `inscount_tls`, `buffer_linux`, `buffer_windows` | one application with all three tools; a dump of `buffer_windows` is split at the lock and at each record |
| `MCPinTools` | a run of Pin with the stack debugger or with `ThreadSuite` | `tool` says which; the variables of the other do not change |
| `MC...` | small instances | addresses, sizes and bounds |
| `FullAssoCache_proofs`, `CapacitySuite_proofs`, `PVSuite_proofs`, `ReplaceOrder_proofs`, `PredictorSuite_proofs`, `CountSuite_proofs`, `StackDebugger_proofs`, `ThreadSuite_proofs` | | theorems, section 5 |

A module whose constants have no `ASSUME` (`LinearCache`, `SetAssoCache`,
`LinkedLRU`, `ReplaceAlgo`) is used through `INSTANCE` only, and the suites that
instantiate it assume what it needs.

Abstractions.  Time, log output and the size report (`capacity`) are left out.  A
request is one atomic step: the application is single-threaded in the lab runs
and a routine returns before the next is called.  `rand() % n` is any of `0 ..
n-1`.  The 64-bit counters are natural numbers bounded by `MaxReqs`, the length
of the run.  In the suites `m_tags` starts as zeroes (one element of what it may
hold); `full_asso` starts from every content.  The operators named as faulty
(`UpdateErasesFront`, `docountBlocks`, ...) are used by nothing: they document the
bug a property would catch, and replacing the right definition by the faulty one
makes TLC report the property named with them in `PROJECT.json`.

What the models take from Pin, which is not part of the repository: an
instruction with REP is shown to the tools iteration by iteration, the first in
its block and each further one as a block of its own; a call inserted with
`IPOINT_ANYWHERE` comes once between the entry of its block and the next; thread
callbacks are serialised and thread ids are not reused; a buffer that is not
empty is passed to `BufferFull` before `ThreadFini`; a debugger stops threads
between two instructions or inside a call of Pin, so never in the middle of an
analysis routine; removing the instrumentation empties the code cache.  The
calls of `inscount_tls` come at the entry of a block.

The predictors are modelled with history and table widths below 31 (`Widths`):
from 32 on, the masks `(1 << width) - 1` of the code shift an `int` out of its
width, which C++ does not define.  `main` uses widths up to 20.  Two details are
modelled as written although the texts around them say otherwise: TAGE's periodic
reset of the usefulness counters stops one table early (line 572), and "stackbreak
<number>" breaks from that usage on, not above it (line 304).

`INT32` sums wrap at `IntWidth` bits, which is what the build computes although
C++ does not define it.  An increment outside the histogram is undefined too; the
model lets it destroy nothing, so everything else is checked for the mildest
outcome.

## 3. Runs

`CHECK_DEADLOCK FALSE` stands in the cache, dependency, counting and predictor
runs because a behaviour ends when the program's accesses, instructions or
branches do (`MaxReqs`, `MaxIns`, `MaxBranches`).  `replace_order` has no end and
is checked for deadlock; so is `pin_tools`, where a thread that waits for the lock
or for a debugger for ever would be one (`Exited` is the step of an application
that is over).

Fairness is stated for the stack debugger only: `WF_vars(Tool(t))` for every
thread.  A thread that is in the tool runs when it can, because the operating
system schedules it, and the time it waits for a debugger passes, because Pin
measures it in seconds.  Nothing is assumed of the user, who may never continue a
stopped application, nor of the application, which need not execute anything.
Everywhere else every step is an event of the application, which nothing forces
to come.

| run | bounds | shows |
|---|---|---|
| `full_asso` | 3 blocks, 6 addresses in 5 memory blocks, 6 requests, 27 initial contents of `m_tags` | `QueueIsPermutation`, `UniqueTags`, `MissesFillBlocks`, `EvictOnlyWhenFull`, and `ImplementsLRUStack`: the cache implements `LRUStack` |
| `capacity_suite` | direct mapped and fully associative caches of 2 and 4 blocks, 6 addresses in 5 memory blocks, 6 requests | the caches hold what the access history says (`FullHoldsRecent`, `DirectHoldsLatest`), and the larger include the smaller |
| `pv_suite` | 2 ways of 4 rows, blocks of 2^10 bytes (offset and index fill the page offset), 6 addresses in 2 rows and 4 pages, 5 requests | `UniqueTags`, `FilledInOrder`, `VIPTEqualsPIPT`; a cache with `LRURepl` implements `FIFORows` |
| `replace_order` | 1 to 9 ways, unbounded number of selections | `LRUReplIsFIFORepl`, `NoWayStarves` |
| `depend_suite` | 2 registers, 6 instructions (2 with REP) in 6 blocks, histogram of 3, 9 instructions, dependency counter of 4 bits, `UINT32` of 2 bits, count register 0, 3 or 4, log of 3 operands, both directions | `HistogramIsTrue` against a definition over the whole trace, `ToolsAgree` after every block, also after the counter has wrapped; `CountersAgree`, `SlowAndFastAgree`, `LogsAgree` |
| `predictors` | the five predictors of `main` and a TAGE predictor of 4 tables, tables of 2 or 4 entries, 3 branches, 6 branches executed, a reset every 5 | `HistoriesAgree`, `EntriesFollowOutcomes`, `DirectionTournamentChoosesBetter`, `TagsFromTrace`, `UsefulEntriesKept`, `ResultsMatchTrace` |
| `pin_tools` | 2 threads; stack usage up to 2, sizes 0 and 2, timeout on; 2 kinds of block, 3 blocks a thread, buffers of 3 records | `CodeIsAsEnabled`, `ReportedIsWithinMax`, `NewMaxIsNew`, `BreaksEnd`; `FilesAndBuffersComplete`, `CompleteAtExit`, `DumpsUnbroken`; no deadlock |
| `target_tournament` | as `predictors` | `TargetTournamentChoosesBetter` is violated |
| `depend_outside` | as `depend_suite`, without REP | `InsideArray` is violated |
| `false_hits` | 2 ways of 4 rows, blocks of 16 bytes, 5 addresses of one row in 4 pages, 5 requests | `HitsWereLoaded` is violated |
| `lru_not_renewed` | as `false_hits` | `LRUKeepsRecent` is violated |
| `beyond_memory` | as `false_hits` | `TranslatedIntoMemory` is violated |

Why the bounds are enough.  With *n* blocks or ways, *n* + 2 requests are enough to
fill, hit in between, evict, and come back to an evicted line: six requests for
three blocks and (small) two, five for two ways.  Five memory blocks exceed the
largest fully associative cache by one; the addresses were chosen so that tags
meet (two addresses of one block, two blocks of one index, two pages of one page
frame, two lines that differ in a dropped bit, a tag with its highest bit set, an
effective address above 32 bits).  The replacement objects have finitely many
states and `replace_order` visits all that are reachable, for powers of two and
numbers that are none (`TEST_ASSO` uses 2 to 5 ways).  In `pv_suite` the index
reaches up to the last bit of the page offset, and two pages of one frame differ in
the bit above it: an index one bit higher would put one line into two rows of VIPT.
Nine instructions give every
distance up to the end of the histogram and beyond, and carry the counter of four
bits (-8 to 7) one instruction past its wrap; `HistogramIsTrue` is stated for the
first seven, because from the wrap on the code takes the registers written since for
never written.

Six branches fill a counter of two bits, turn it, and leave one more than the
reset period of TAGE; the three branches share an entry in some tables and differ
in others, two of them only in a bit the hash folds, so entries, tags and targets
collide.  With a `UINT32` of two
bits, the count register 0 gives the iteration that does not execute, 3 is counted
in full and has a middle iteration, but its block of two-byte elements is longer
than a `UINT32` can say, and 4 is cut to 0.  Three logged operands end the log in the
middle of an instruction that would log more.  Three records end a buffer inside
a block, and three blocks leave a part of one at the end.  Two threads are enough
to contend for a lock and for a debugger: the tools treat threads alike, and no
state of a third would be shared by other means.  Stack usages 0 to 2 and a
pointer above the base give a maximum below, at and above the breakpoint.

## 4. What the violated properties say

* `HitsWereLoaded`: `getTag` drops `m_blksz_log + m_asso + m_sets_log` bits,
  `getSetIndex` keeps `m_asso`; the `m_sets_log` bits between them are compared by
  nobody, so addresses that differ there hit on each other.  The comment on line
  451 and lab3.md put nothing between tag and index.  The reported hit rates of
  the set-associative caches are too high, and only `2^m_asso` of the
  `2^m_sets_log` rows of each way are ever used.
* `LRUKeepsRecent`: a hit returns before the replacement object hears of it
  (lines 478-480), although the comment above `access` says that it updates the
  queue on a hit.  With `LRURepl` the cache is first-in first-out; that it is
  *exactly* that is `LRUReplImplementsFIFO`, and `LRUReplIsFIFORepl` says that the
  two classes select the same ways.
* `TranslatedIntoMemory`: the mask for the page number is applied at the wrong
  place, before the shift, so physical addresses use the bits 24 to 31 instead of
  12 to 29.

* `InsideArray`: `distance <= maxSize` admits the index `maxSize` in an array of
  `maxSize` counters, in both tools.  The knob calls it the maximum distance, so it
  should be counted, but `Fini` prints the counters below it only.
* `TargetTournamentChoosesBetter`: a tournament that predicts targets compares
  each sub-predictor's answer with the target of the branch also when the branch is
  not taken (lines 423-424).  A predictor that says "not taken", rightly, is
  counted as wrong, so the choice does not move to the better one; lab2.md says
  that a tournament keeps to the predictor with the higher accuracy.
  `DirectionTournamentChoosesBetter` is the same of the tournament that predicts
  directions, and holds.

One disagreement needs no run of its own, because a property that holds states it
exactly.  The comment at `countreps.cpp:387-390` says that the count register
determines the number of iterations, "therefore we can log all we need at the
start".  But the parameters that receive it are 32 bits wide (lines 302 and 309), and
so is the product of line 329.  From a count of 2^32 on, `countreps` without `-slow`
loses the repetitions, reads and writes above bit 31, and takes an execution of
which nothing is left for an empty one; a block of 4 GiB or more that is walked
downwards is logged above where it lies.  `SlowAndFastAgree` and `LogsAgree` say by
how much, and that nothing else differs.

## 5. Proofs

`tlapm` checks every theorem to its last leaf; the bounds of the runs play no part
in them.  They hold for every value of the constants that satisfies the named
assumptions (`MaxReqsAssumption`, `FullAssoAssumption`, `StreamAssumption`,
`CapacityAssumption`, `PVAssumption`, `MaxTotalAssumption`,
`StackDebuggerAssumption`, `ThreadSuiteAssumption`, `InsDependAssumption`,
`DependSuiteAssumption`, `CountRepsAssumption`, `CountSuiteAssumption`,
`PredictorSuiteAssumption`), which TLC evaluates in the runs.  Where an argument is
by induction over a number, it is either carried by the invariant itself (a state
names the sequence of states that led to it) or is the least counterexample that a
non-empty set of naturals has (`LeastNumber`).

* `FullAssoCache_proofs`.  `IInv` is `TypeOK`, `QueueIsPermutation`,
  `FreeBlocksFirst` and `UniqueTags`.  The permutation is what makes `Position` the
  inverse of the queue (`PositionOfBlock`), so that `Update` is a rotation of the
  positions from some *p* on (`UpdateAtPosition`); from that form follow that the
  result is a permutation again and that free blocks stay in front.
  `FreeBlocksFirst` is not a property one would ask for, but
  `EvictsOnlyWhenFull` is not inductive without it: the victim is the front of
  the queue, so when it is valid every block behind it is.  `HitPreserves` and
  `MissPreserves` are the two ways `access` returns, `CountersPreserved` the
  counters.  `MissesAlwaysFillBlocks` needs `FreeBlocksInOrder` in addition: the
  free blocks still stand in the order of the constructor, so the next to be
  filled is the one after the last.
  `LRUStackImplemented` is the refinement.  After *m* misses the last
  *n - (n - m)* positions of the queue hold the valid blocks, and the stack is their
  tags (`StackIsSeq`); a hit removes the tag from the stack and appends it
  (`HitReuses`), a miss appends it after dropping the oldest if the stack is full
  (`MissLoads`), which are the two actions of `LRUStack`.
  The end of the module prepares `CapacitySuite_proofs`: `Recency` says that the
  tags behind a tag in the queue are those an observer saw after it, and
  `RenewalKeepsRecency` that moving a tag to the back keeps this.
* `CapacitySuite_proofs` instantiates the former twice, for the smaller and the
  larger cache.  The invariant is theirs, `Recency` of both queues, and
  `LatestInPlace` of the direct mapped caches: what a place holds was accessed last
  among the blocks of its index.  From these follow `FullAlwaysHoldsRecent` (a
  block held was followed by the others behind it in the queue, so by fewer than
  *n*; one not held by *n*) and `DirectAlwaysHoldsLatest`; from what the caches
  hold, `HoldingsIncluded`, hence a hit of the smaller is one of the larger, and
  `LargerAlwaysIncludesSmaller` with its comparison of counters (`HitsOrdered`).
* `PVSuite_proofs`.  Shifts and sums of words are words, and a sum of two words with
  no common bit below *k* has no carry below *k* (`AddWithoutCarry`); hence
  `TranslationKeepsOffset`: `get_phy_addr` keeps the page offset, whatever the hash.
  `VIPTAlwaysEqualsPIPT`: the bits of the index lie in the page
  offset (`PVAssumption`), which translation keeps, so VIPT and PIPT use the same
  row (`SameRow`) and the same tag; a fill has one way to load and an `LRURepl` one
  way to select, so equal states stay equal.  The equality is inductive by itself.
  `IInv` adds `RowsInv` of VIVT and PIPT (no tag twice in a row, valid ways first)
  and, for PIPT, `QueuesInv` (each row's queue is a permutation of the ways, and the
  initial one while a way is free): with these `TypeCorrect`, `TagsAlwaysUnique` and
  `AlwaysFilledInOrder`; of VIPT they hold because it equals PIPT.
  `FIFOImplemented`: a row with *k* valid ways holds the tags of the first *k*
  ways of its queue (`RowHolds`), filling way *k* appends a tag (`FillAppends`), and
  replacing the front drops the first tag and appends (`ReplaceAppends`), which is a
  load of `FIFORows`; a hit changes nothing.
* `ReplaceOrder_proofs`.  `Circular`: the queue of `LRURepl` is the numbers from
  FIFORepl's counter on, in circular order, so both select that counter
  (`LRUReplAlwaysFIFORepl`), and the way at position *i* was selected *n - i*
  selections ago (`WaitsInOrder`), if ever.  For `PLRURepl` the invariant names a
  schedule of its tree: node *n* is visited in every `period[n]`-th selection and
  passed by `due[n]` more times before the next (`Scheduled`).  A child has twice the
  period of its parent and is due with it when the parent's bit points to it, one
  period later otherwise (`ChildDue`).  The nodes due now form one path from the
  root to a leaf (`PathHasOneLeaf`) and it is the one `select` follows
  (`CodePathIsDueNow`); flipping its bits renews the schedule
  (`FlippingKeepsSchedule`).  A leaf's period is a power of two and at most its
  number plus one (`PeriodsAreOK`), hence at most `RoundOf(total)`:
  `NoWayEverStarves`, for every number of ways, powers of two or not.
* `CountSuite_proofs`.  `CountInv` is `CountersAgree` with the types of the
  sequences it measures; each step moves one instruction from what is pending to
  the trace (`ExecuteMoves`), adds a block, or makes a call that was due.
  `AheadInv`: the tool per block is ahead of the tool per instruction by the first
  *k* pending instructions; the invariant names the *k + 1* states between.  Each
  call is the same function `After` of the tool's state (`RoutinesAreAfter`).
  Between blocks nothing is pending, *k* is 0 and the states are equal
  (`ToolsAlwaysAgree`, also after the counter wraps); `TypeCorrect` is a part of it.
  `HistoryInv`: until the counter wraps, the state is what the trace makes it
  (`HistoryOf`); one more instruction adds to the pairs at distance *d* exactly
  the registers that the tool finds at that distance (`PairsGrow`, `HistoryGrows`),
  hence `HistogramAlwaysTrue`.
  `RepInv`: while an instruction with REP is iterated, *countreps -slow* still owes
  what the iterations to come will count and log (`CountOwed`, `BytesOwed`); the
  call of the fast tool at the first iteration pays all at once, each call of the
  slow one a part (`CountsPaid`, `OperandPaid`), and after the last nothing is
  owed (`LastOwesNothing`): `StatisticsAlwaysAgree`, `LogsAlwaysAgree`.  What the
  fast tool counts at once is what is left of the count register after `ToUINT32`;
  the rest is in `lost` (`LossesGrow`, `CallCounted`), so the two balance exactly.
  A block logged at once is moved back by its `Displacement` before it is compared
  (`ReplacedBytes`).  The labels of the log say which execution a byte belongs to:
  they grow with the trace (`LabelsUpTo`), so that once the log is full nothing is
  added to it and what is missing is of the newest label (`NewestMissing`).
  `TotalsInv`: the operations *countreps -slow* has counted of instructions with REP,
  and those of the one that waits at the end of the block, are no more than those
  of the whole program and of the block still to be counted.  The two sums, over the
  opcodes and over a block, are `SumFunction` of the community modules; that its
  recursive function exists for every finite set, and grows with one of its numbers
  by as much, is proved by a least counterexample (`LeastNumber`, `NoneBad`,
  `SumGrows`).  The fast tool counts
  no more than the slow one (`FastCountsLess`).  Hence `SlowAndFastAlwaysAgree`.
  `CountRepsAssumption` says that only an instruction that may stop early has two
  reads, as in the table of the code (lines 66-74): for it the tool is called at each
  iteration, so no product of two is cut.  `CountSuiteAssumption` says that the
  table of `countreps` counts for an instruction what Pin says of its operands
  (the comment at `countreps.cpp:56`).
* `StackDebugger_proofs`.  `TypeCorrect` includes that the two kinds of
  breakpoint exclude each other.  `CodeAlwaysAsEnabled` needs it only.
  `UsageInv` adds to `ReportedIsWithinMax` what makes it inductive and implies
  `NewMaxAlwaysNew`: while breakpoints are on new maxima, a thread that has decided
  to break uses more than was reported of it (`BreakIsNew`).  That holds because no
  command can turn "newmax" on between the decision and the report: commands wait
  until no thread is in the analysis routine.  `OnlyOneThread` reduces each step of a
  thread to that thread.
* `ThreadSuite_proofs`.  `FlattenSeq` and `FoldLeft` of the community modules are
  defined by recursion; the first part shows, by a least counterexample, what one
  element more adds (`FlattenOneMore`, `FoldsExtended`), hence what one record, one
  instruction and one line more add to what is printed (`PrintedConcat`,
  `RefsOfOneMore`, `LinesInOneMore`).  The second follows one thread.  `ThreadOK`
  and `WindowsOK` are `FilesAndBuffersComplete` of that thread with what makes it
  inductive: the blocks it entered are what is done and what is to be done
  (`ProgramOK`), its buffers have room, and (`PlaceOK`) a thread that is ending has
  an empty *buffer_linux* buffer and nothing waiting for room, so its last
  `BufferFull` is the last.  There is a lemma for each thing that may happen to a
  thread (`Entering`, `Executing`, `Refilling`, `WritingRecord`, `Ending`).  The
  third part lifts them: a step changes one thread and leaves the others and their
  lines alone (`OneThread`).  `CountsOK` says of *inscount_tls* which threads have a
  count and that it is the length of the blocks entered.  Hence
  `FilesAndBuffersAlwaysComplete`, `AlwaysCompleteAtExit`, and, with `LockInv` (the
  lock is taken while a thread writes, and then by one), `SuiteTypeCorrect`.  Only
  `WriteRecord` makes the file longer: `DumpsAlwaysUnbroken`.
* `PredictorSuite_proofs`.  `SuiteInv` says of every predictor, wherever it is
  nested, that it is what the trace makes it.  One branch more shifts the history by
  one (`ShiftInIsHistory`); `UpdateFollows`, `TournamentFollows` and
  `TrainingFollows` show that each predictor's update shifts every register once:
  in TAGE the provider does it by its own `update`, the other tagged tables by the
  loop at its end, and neither replacement nor reset touches a register.  With the
  history known, so is the entry a past branch fell on (`BranchesIn`), and the other
  parts speak of those branches only:
  - `CounterFollows`, of an entry's counter and of a tournament's choice: if the
    latest *m* outcomes were up, the counter is at *m* at least or at its maximum
    (`UpsCounted`; `DownsCounted` likewise), and one other outcome after *max* equal
    ones moved it from its end by one (`StandsUp`, `StandsDown`).  The property
    `EntriesFollowOutcomes` speaks of two lengths only and is not inductive: the
    counter after *m* outcomes is known from that after *m - 1*.
    `EntriesAlwaysFollowOutcomes` and `DirectionTournamentAlwaysChoosesBetter`
    (counted over the branches of which one answer alone was right, `Votes`) are
    the two uses.
  - `OwnersFound`: a tag that is not 0 names a branch TAGE predicted wrongly; only
    `WithReplacement` writes tags and only of an entry whose usefulness is 0
    (`TAGEStep`): `TagsAlwaysFromTrace`, `UsefulAlwaysKept`.
  - `ResultsOK`: the six counters are cardinalities of sets of branches, the targets
    counted those of branches whose entry had a target (`Had`).  `Fini`'s ranking is
    a recursive function, which exists for every number of predictors
    (by `LeastNumber`) and names the first of the best: `ResultsAlwaysMatchTrace`.

  `PredictorSuiteAssumption` says that the predictors are what the constructors make,
  in the nesting the constructors allow; the lengths of TAGE's histories are any but 0.

Model-checked only: `BreaksEnd`, because liveness under fairness is out of the
prover's reach.

## 6. Not modelled

`Fini`'s rates and ranking of the caches are floating-point arithmetic and text.
`~SetAssoCache` would dereference a null `replace` for a cache without
replacement objects; `main` builds none.  `select(false)` is never called.

Of the predictor file: `capacity()` and the size limit of `main`, which refuses a
predictor before the program runs (it counts the 8 bytes of a target as bits);
`StaticPredictor`, which has no state and is not built; `fold`, `slice`, `f_xor1`
and `f_xnor`, which no predictor of `main` uses; the text of the report.

Of the lab's Pin tools: `help`, `stats` and `TrimWhitespace` of the stack debugger
and the reports of the others change no state; `CheckThreadCount` ends `countreps`
at a second thread; failures to open a file or to get a TLS key end a tool before
the program starts.  The other samples print what Pin passes or show one call of
its interface (probes, detaching, forking, exceptions): what they do depends on
Pin and hardly on their own code.

The cache tool in a program of several threads: the shared state of `access` would
be read and written without a lock.  The lab runs are single-threaded.

The scripts draw figures; `cache_test.cpp` measures the time of the machine it
runs on.

## 7. Plan

1. To model: `FullAssoCache` under two application threads, `access` split at its
   shared reads and writes; the warm-up orders of `cache_test.cpp`; `merge_data`
   of `draw2.py`.
