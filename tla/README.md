# A verification development of rc-singularity

rc-singularity is a C library for hash tables of keys and values that several
processes and threads share through POSIX shared memory, with a copy on disk
that is written after each operation.  Readers take no lock that could stop a
writer; writers exclude each other through a robust mutex or through spinlocks,
as the set was created.  This directory holds TLA+ models of the parts where
threads, processes, deaths and failures meet, the TLC configurations that check
them on small instances, and proofs, checked by TLAPS, of what holds for every
size.  `PROJECT.json` maps each definition to the lines it is translated from.

Contents: 1 the system, 2 the modules, 3 the runs, 4 fairness, 5 the proofs,
6 where the code departs from its promises, 7 abstractions, 8 the plan.

## 1. The system

A set is two files in shared memory.  The *index* holds the head (`FSetHead`:
counters, lock words, lists of free places), the hash table and the masks of
dirty pages; the *pages* hold keys with values, and headers of keys.  Each
process links the set (`FSingSet`) and has its own file descriptors and map of
pages.  The lock mode of a set (`SING_LM_SIMPLE`, `_PROTECTED`, `_FAST`, `_NONE`,
`_READ_ONLY`) says which locks a writer takes.

| Component | State | Operations | What is hard | What makes it correct |
|---|---|---|---|---|
| Reader lock (`locks.c` 433-590) | one 64-bit word: two counters and a sequence; per reader: sequence, `keep`, `keeped` | `lck_readerLock`, `Unlock`, `UnlockCond`, `lck_waitForReaders`, `lck_fullReaderLock` | compare-and-exchange races, readers that sleep or die, timeouts, counters that wrap, `0xFFFF` as a mark | nobody trusts what was freed meanwhile; nobody is in during a revert; only timeouts destroy locks; the writer always comes through |
| Hash chains (`index.c`) | headers in a table block shared by two chains, then pieces in header blocks, `chain_stop`, references | search, get, dump, set, delete, deletion of unmarked keys | readers walk while a header is copied, a piece moved, a place freed | a search answers for a set that was there; nothing freed is read; a dump misses no key; the chain stays sound |
| Process mutex and disk copy (`locks.c` 65-330, `cpages.c`) | robust mutex, `wip` in memory and on disk, masks and chains of dirty pages, `corrupted` | lock, try, unlock with commit or revert, `cp_flush`, `cp_revert`, recovery | death anywhere, failing reads and writes | who gets the mutex finds whole operations; the copy on disk is the last synced state or says it is not |
| Shared/exclusive lock (`locks.c` 64-130) | a word with count and tid, `deleted` | `lck_lock_sh`, `_unlock_sh`, `_lock_ex`, `_unlock_ex`, `_try_ex` | two parts of one word, re-entry by the owner | an owner is alone; the count is exact; the taker gets in |
| Chain and memory spinlocks (`locks.c` 405-431, `index.h` 200-290) | one bit for each pair of chains; one flag | `lck_chainLock`, `lck_memoryLock`, `idx_op_finalize` | look and write are apart; the lock is released in another function | no key is lost or comes back, the count is the number of keys |
| Key headers (`keyhead.c`) | lists of holes by size, `reserved` marks, the zone of unused blocks | `kh_alloc_*`, `kh_expand_*`, `kh_free_block` | long sequences of calls | runs never overlap, every hole is in its list, each change is marked for the disk |
| Page loading (`allocator.c` 27-70, `index.c` 785-830) | `page_loaded` bits, each connection's map, offset and flock | `_load_page`, `_load_hashtable_entry`, `cp_mark_page_loaded` | processes and threads load and write at once, signals, failing reads | nobody uses a page before it is whole; no load undoes a change |
| Pipelines (`pipelines.c`) | blocks of entries with a state, three pipeline places | `pl_pipeline1`, `pl_pipeline2`, `pchain_step` | visits overtake each other; a thread; errors | every key once, per chain in order, no entry is reused too early, the call ends |
| File buffers (`filebuf.c`) and parser | two buffers with a state, for reading and for writing | `fbr_*`, `fbw_*`, both threads | change of hands, keys across buffers, the exact end, failing I/O | no data race, the symbols in order, the file is the committed text |
| Protected mode, manual lock (`locks.c` 223-402) | the mutex; for each connection one word: the count of calls inside and the thread that has locked the set | `lck_processLock`, `lck_protectWait`, `lck_manualLock`, `sing_unlock_*`, `idx_unload_set` | calls of the owner's process that run while a thread of it unlocks; a process that dies; the mutex beside the word | no call is inside while the set is recovered, flushed or reverted, or while another process has it; who waits goes on |
| General allocator (`allocator.c` 70-825) | holes by size, pages by type, subpages for small sizes | `idx_alloc`, `idx_free`, `idx_page_alloc` | long sequences, merging on both sides, pages that become empty, a list in the words of the holes | pieces never overlap, nothing is lost, each place is in the list it belongs to, each change is marked for the disk |
| Creation, linking, unloading (`index.c` 135-778) | names of two shares and two files, `.tmp` names, `deleted`, the flock of a share | `idx_create_set`, `idx_creation_done`, `_link_set`, `idx_relink_set`, `idx_unload_set` | processes that create, link, call and unload at once; names that change one by one; a creator that dies | who is linked to a set that lost its name is told, who links has the parts of one set, nobody works on a deleted set |
| Comparison marks (`rc_singularity.c` 425-510, `index.c`) | a mark in each header and one of the set, `SF_DIFF_MARK`; `marks_lock`; counters of keys | `sing_diff_file`, `sing_diff_replace_file`, `sing_intersect_file`, `sing_intersect_replace_file`, `idx_process_unmarked` | the marks outlive the call: other calls give them, a flush or a death leaves some behind, parts of the table are left out | every key is left and shown as documented; between calls all marks agree |
| Phantom keys | a flag of the set, marks | | | not modelled yet |
| Codecs, configuration, command line tool, logs | none that others depend on | | | not modelled |

How they meet: a public call (`rc_singularity.c`) takes a lock of the mode (mutex
or shared/exclusive lock), goes through a pipeline when it has several keys, and
changes chains under the chain and memory locks; the chain code takes headers
from the header allocator and pieces from the general one, waits for readers
through the reader lock before it frees anything, and marks each changed page
dirty; when the lock is given back the dirty pages are flushed or read back.
Reading calls take the reader lock only, and load pages on the way.  Every call
first looks whether the set it is linked to was deleted, and links the one that
has the name then.

## 2. The modules

**Reader lock.**  `ReadSections` is the promise: readers in sections, a writer
that waits for those that are in, or shuts all out, and takes locks away when
its patience ends.  `ReaderLock` has one step per atomic access to the word:
`LockLoad`, `LockTaken` and `LockRetry` are the loop of `lck_readerLock`; the
`Unlock..`, `Cond..`, wait and `Full..` actions those of the other functions.
Getters carry the control of `_key_search_R` and of the calls for several keys,
dumpers that of `dump_hash_chain`.  The refinement mapping at the end of the
module gives `KeepsPromise`.  `ReaderLockInv` holds the inductive invariant
`IInv` and names the three steps after which the counters of the code are wrong
(`Miscount`: departures 1 to 3), `ReaderLockProofs` the proofs.

**Hash chain.**  `HashChain` takes `ReadSections` as its lock (INSTANCE), since
`ReaderLock` implements it.  An operation of the writer is computed as the
sequence of its stores (`todo`), each a step of its own, with the waits for
readers where the code has them.  Searches and dumps move place by place.
`KeySet` is the promise: a set of keys that changes one key at a time, and calls
that answer for a set that was there; `KeepsSet` is the refinement.

**Disk copy.**  `SyncedSet`: a unit is a disk page, its content the number of the
operation that changed it last.  `pc` of the mutex owner runs through the code of
`cp_flush` and `cp_revert`; `Inherit` is the recovery in the EOWNERDEAD branch.
`Crash` may happen at any step of the owner, and a failing read or write at each
of them.  `cp_revert` goes through the mask of a page run by run (`RevertPage`, `RevertRun`,
`RevertBehind`, `RevertPageEnd`), with the offset that the code adds up in `pos`; `gone` is
how far the mask was really shifted.  From the third run on the two differ, and other disk pages are
read than the marked ones (departure 51).  `misread` notes that a revert has met a page
with more than two runs, or with nothing but marked disk pages.  `setup` is chosen at the start: a *safe* set marks a page with the
change, a *late* one changes first (as some lines of `idx_key_set` do), a
*memory* one has no copy.

**Fast mode.**  `ShExLock` is the lock; `ChainLock` extends it with the bits of
the chains and the memory lock: a call runs inside of `pc = "op"` of its thread.
`SetSpec` is the composition; its steps are steps of `ShExLock` or leave it
alone, which is the theorem `ImplementsLock`.

**Protected mode.**  `ProtectLock`: one process at a time has the mutex, and the
thread that took it opens the set to all threads of its process by writing its
tid into the `protect_lock` of the connection (`Ask`, `MutexTake`, `MutexCheck`,
`Store`).  Their calls count themselves in the other half of that word (`CallBegin`
.. `CallEnd`, `lck_processLock` and `lck_processUnlock`).  To unlock, or to unload, the
thread clears its tid, waits for the count (`ReleaseClosed`, `Drained`), flushes or
reverts and gives the mutex back (`Synced` .. `Leave`).  A process may die at every
point (`Dies`).  `WriteModes` puts this beside `ChainLock`: `lock_mode` is one of the
two for the whole life of a set, and the run `fast` checks both.

**Memory.**  `GeneralAlloc` follows `allocator.c`: `m` holds the words of all pages
with the links and sizes that the code keeps in the holes themselves, a call is
one step (callers hold the memory lock), computed by operators named as the
functions (`LargeAlloc`, `SmallFree`, ...); `Flush` and `Revert` save and bring back
what has been marked.  `KeyHeads` does the same for `keyhead.c`: a page from the list
of empty ones is as its last user left it (`recycled`, `worn`), and `NewBlock` clears of a block
what the code clears, which is nothing where one header is left; `leaked` is the history of
the headers that are lost there (departure 52).  `Memory` is their
composition over one page file: the header allocator takes its pages from the
general one.

**Sets.**  `SetLinks`: a name has four parts (`dir`), a share or file is a number
(node), and one step opens, fills, renames or unlinks one of them.  `Links` is
`_link_set`, `Calls` a write call with `BAD_STATES_CHECK` and the mutex, `Creates`
`idx_create_set`, `idx_creation_done` and `_file_relink`, `Unloads` `idx_unload_set`.
`met` notes that a link met a change of names.

**Page loading.**  `PageLoad`: one step per look at a bit, flock, seek, read and
store, for threads of one or of several connections, and a writer that changes,
adds and flushes pages.  `setup` picks the circumstances: pages of data, pages of
the hash table, a set that grows, reads that fail, signals.

**Pipelines.**  `Pipeline`: both pipelines with the three places of an entry, the
states of the blocks and the end of the call.  `setup` says which pipeline, which
kind of call and whether the set has spinlocks.

**Comparison.**  `Comparison`: a header is a value and a mark.  `Flip` takes
`marks_lock` and changes the mark of the set, `VisitLine` is the callback of one of the
four operations on a line, `NextPart`, `ShowUnmet` and `DeleteUnmet` are
`idx_process_unmarked`; `CallSets` and `CallDeletes` other calls, with the mark they took
when they began.  `usage` says who does what, and whether there is a copy on disk,
whose pages are flushed (`Leave`), read back after a death (`Dies`) and loaded again
(`Restart`).  Of the history, `before` has the keys that nobody else has changed, and
`mixed` notes that one of the departures 44 to 48 or 50 has left a mark behind.

**File buffers.**  `ReadBuffers` and `WriteBuffers`: symbols are numbered, so that
order and completeness can be said; the two states of each buffer decide who may
touch it.  The history variables `slips` and `failed` note that reading or writing
has gone wrong.  `FileCalls` puts both and `Pipeline` together: a call that reads a
file, one that writes it, or one that sends keys through a pipeline.

`MC*` modules give constants their values for TLC.

## 3. The runs

Each passing run asks what could go wrong in its component.  Deadlock is checked
in `rl_get`, `rl_revert`, `hc`, `mem` and `mem_wide`; the others have calls that end
and sets that are unloaded for good.

| Run | Instance | Shows |
|---|---|---|
| `rl_get` | one getter, one dumper, calls for two keys, three waits | freed memory is never trusted; a dumper never lets a deletion in its chain pass |
| `rl_revert` | two getters, one of which may stop anywhere, waits and reverts, counters up to 3 | exclusion during a revert, refinement of `ReadSections`, both sides come through |
| `hc` | gets of four keys with two slots in the table, two blocks of three places and a neighbour; dumps of three keys beside both deletions; gets and dumps of two keys whose locks are taken away | soundness of the chain, live headers only, refinement of `KeySet`, a dump misses no key |
| `sync` | two processes, six disk pages on three pages, three of them runs of one page, two operations, a death, a failure | what an heir finds, what can be loaded, what the marks say, a flush ends |
| `fast` | fast mode: two threads, three keys of two pairs, two calls (any number is proved), unloading; protected mode: three threads of two processes, deaths | exclusion, no lost key, the set at rest for its owner, calls inside only beside their own owner, everyone gets in and every wait ends |
| `chain_bits` | the fast mode with a pair in the upper half of a word | *violation*: a key is lost (departure 18) |
| `mem` | seven settings of up to three pages of 12 words in two subpages, pieces of 1 to 8 words; a page of two blocks of five headers, new or used before | places apart and none lost (of headers but one, departure 52), every hole, page and subpage in its list, runs of headers apart, every change marked, for all sequences of calls |
| `mem_wide` | eight pages, of which an offset tells two apart | *violation*: a page lies over another one (departure 32) |
| `pl` | two processes with a thread each, two pages, one change | a page is used when whole, no load undoes a change, loads end |
| `file` | read: all files up to 17 symbols, buffers of five, keys of two; written: 10 symbols, buffers of four, disk pages of two; visited: nine keys of two chains, three blocks of two, both pipelines, errors | no data race, whole keys, order, the end; bounds, the file is the committed text; every line once, in order, no entry reused, revert after an error; nobody stuck |
| `compare` | three keys with two counters and two values; five files; one process at a time over a copy on disk with deaths, restarts and failing comparisons, threads side by side, two comparisons | what is left and shown of every key, no key of the file is taken for a missing one, all marks agree between the calls |
| `links` | two processes that link, call, create, unload and delete, two creations or unloads, a death of a creator | who is linked is told, parts of one set, no work on a deleted set, calls and links come through |

Why the bounds are enough: counters of 16 bits behave alike at every size but
at 0, at the mark and next to it, and `Full` = 3 or 9 reaches those with two
readers; the header blocks have one place more than a piece, so that a piece
fills its block, moves, is split and is folded.  In `mem` the general pages of 12
words have holes of every kind (below, at and above the indexed sizes, at both
ends of a page and between pieces), special pages two subpages, and a header block of
five has one reserved place and two lists; the last member of `Asks` gives it a page that was
a piece's before as well as a new one; its state space is finite without
a bound on the number of calls.  `View` in `MCMemory` leaves out words that belong
to no hole, list or piece, which the code does not read.  The ring of three blocks
of `Pipeline` is gone round one and a half times; files of more than three buffers use
both buffers twice.  In `compare` two keys share a counter and not a chain, a third has
its own; the files have none, some and all of them, one twice.  In `links` two jobs are a set that is replaced twice, or
replaced and unloaded, while the other process is linked to any of them.  The
sequence of the reader lock, the operations, deaths, failures and calls are
bounded by `MaxSeq`, `MaxOps`, `MaxCrashes`, `MaxFails` and `MaxCalls`, creations and
unloads by `MaxJobs`, pieces and pages by the members of `Asks`.  `MaxNodes` is the number of shares and files that
can be made, more than two jobs need.

In `sync` a page has `Bits` = 6 disk pages, room for three runs with gaps, of which a
revert reads the third behind the page; a full mask does not occur there, only in the proofs.  `Changes` lists the sets of disk pages that an
operation changes: any of the index, or the page of data with one run or with all three.

`rl_get` has no revert: a dump beside a revert breaks the counters (departure 2).
`rl_revert` has calls for one key only, for departure 1.  The settings of `hc` (members
of `Setups`) keep apart what departures 5 to 9 break together.  The properties of
`sync`, `pl` and of `Pipeline` name the circumstances they hold under in their first
conjunct, and those of `links` in `met` and `Alone`; what is outside of them is in
section 6, never left out silently.

Some properties are conjunctions of parts that are named too and that section 6
refers to: `NeverHalf` (`MemSound`,
`TornKnown`), `PagesInPlace` (`LoadedSound`, `RightPlace`), `FileInOrder`
(`KeyWhole`, `SymbolHere`, `EofIsEnd`), `WritesSound` (`InBounds`, `NoDataRace` and
`WrittenIsText` of `WriteBuffers`, the last being `DiskIsText` and `AllWritten`),
`AllAnswered` (`NeverStuck` of both halves, `PipelineEnds`), `LinesDone` (`DoneOnce`,
`InOrder`), `PlacesSound` (`PiecesApart`, `HolesListed`,
`PagesListed`, `SubpagesSound`), `HeadersSound` (`RunsApart`, `HolesIndexed`) and
`ChangesMarked` (`PlacesMarked`, `BlocksMarked`).  The type invariant of each
module (`TypeOK`, `GeneralTypeOK`), and the invariants that the proofs of section 5 rest on or establish beside
those in the runs (`IInv`, `LostOnlyByTimeout`, `CountsExact`, `ChainsTypeOK`,
`Exclusion`, `KeysCounted`, `CountExact`), hold in the same instances when they are
added to the configurations (the first three in `rl_revert`; beside dumpers as long as nothing
is miscounted, see section 5); they are left out of them to keep the runs to what is
not settled by other means.

Each property has a mutant, a definition of the model with a mistake a
programmer might make, under which TLC must find the property violated.

## 4. Fairness

- `ReaderLock`: the writer is scheduled (`WF` of its steps: it spins a bounded
  number of times and then goes on), and so are the readers in `Steady`.  The
  others may stop for ever; `CallReturns` is about `Steady` readers.
- `SyncedSet`: an owner that lives goes on.  A process that waits need not.
- `ChainLock`: every thread that is inside of a call runs; who has locked the set
  unlocks it (`LockGiven`), which is up to the caller and not the library.  The
  spinlocks are not fair: with calls without end a thread may starve, and
  `MaxCalls` ends the traffic.
- `PageLoad`: every thread runs, and the flock is given to one that waits.
- `Pipeline`, `ReadBuffers`, `WriteBuffers`: the two threads run; the caller is
  inside of one call of the library.
- `ProtectLock`: every living thread that is inside of a call runs.  Nobody has to
  unlock the set: `WaitsEnd` is about waits for calls inside, which end by
  themselves, and about sets that were deleted.
- `SetLinks`: what a process has begun goes on; `flock`, and the mutex of the set
  that a creator replaces, are not given past the same waiter for ever (`SF`), as
  the kernel queues who waits for them.  Nobody has to begin anything.

No property is claimed that needs strong fairness of a compare-and-exchange.

## 5. The proofs

`tlapm` checks them from nothing; the constants are as in the assumptions named
in the modules (`ReaderLockAssumption` and so on), which TLC evaluates too.

- **`ReaderLockProofs`**: `TypeCorrect`, for any finite number of readers below
  the mark, with dumps, kept locks and reverts, and, as generally,
  `DumpKeepsChainHolds`: the exchange of `lck_readerUnlockCond` is pending only for a
  word one sequence ahead of the dumper's, and a writer that waits at that sequence
  deletes in another chain (`CondInv`), as a deletion begun later raises the sequence
  before it waits.  That needs the counters to be right nowhere.  `FullExclusionHolds`,
  `LostOnlyByTimeoutHolds`, `CountsExactHolds`, all from
  `InvariantHolds`.  None of
  these properties is inductive: a stale exchange could destroy a count.  `IInv`
  says that a pending exchange would store exactly its reader's change of a word
  not newer than the present one (`XchgInv`), that the counters are the readers
  with a good lock (`CountInv`), that good locks are of the current or of the
  awaited sequence (`HolderInv`) and destroyed ones old (`KilledInv`).  With
  dumpers and kept locks beside reverts it also says what a closed counter and the calls that
  give up on it are (`ShutInv`).  These theorems are about any getters and dumpers,
  with kept locks, timeouts and reverts; no constant is restricted beyond `ReaderLockAssumption`.  They are about the
  behaviours without a miscount, `[][~Miscount]_vars`: the three steps of the code after which a
  counter is wrong are excluded one by one and by their place in the code, `EntersClosed` (departure 1),
  `LeavesTwice` (2) and `CondDone` (3).  What the code does before the first of them is what the
  theorems cover, and section 6 says what can follow one.
  `GraceSafetyHolds` is proved of every behaviour, miscounts included, under the one
  condition `NotFull`: `lck_waitForReaders` never finds a counter of 0xFFFF where it has not
  closed it.  Its argument, `GraceInv`, does not rest on the counters being
  right: behind a wait the counter of the old sequence is 0 (`PassedInv`), and it stays so
  until the sequence moves on, since an exchange is pending only to take from a counter in which it
  saw a count, or to enter the other one (`TakesInv`).  So a lock of a sequence that was waited for
  does not pass its check.
  `NotFullHolds`: without a
  miscount a counter is never that full; with departure 3 one can become so.
  There is one lemma per kind of step; the counting
  lemmas rest on `FiniteSetTheorems`.
  `KeepsPromiseHolds`: `ReaderLock` implements
  `ReadSections`, for any number of readers, in the behaviours without a miscount.  `MapInv`
  says what the mapping is when `IInv` holds: a section is lost if a timeout took it
  away, and the writer waits for the readers with a good lock of the old sequence.
  From it each step is shown to be a step of `ReadSections` or to leave it alone
  (`TakenMaps`, `DoneMaps`, `ReaderMaps`, `WaitMaps`, `FullMaps`).
- **`WriteModesProofs`**: of the lock, `ExclusiveHolds` and `CountExactHolds`, for any
  finite set of threads, through `ExInv`: what a thread has seen of the word and what
  it is about to swap in agree with who is inside.
  Of the fast mode, `ImplementsLock` (the set implements the
  lock, so that its theorems hold of the set), `ExclusionHolds`, `KeysKeptHolds`
  and `SettledHolds`, for any number of threads, keys and words, assuming
  `AllLocked`: that the bit of each pair is one an unsigned can hold.  The code
  does not guarantee that (departure 18), and `chain_bits` shows what happens then.
  `ChainInv` says that what a call has looked at is still so, because only the
  owner of the pair's bit changes it; `RestInv` that calls hold locks only while
  inside of the shared lock.
  Of the protected mode, `GuardedHolds`, for any finite set of threads and
  any processes, with deaths.  `GuardInv` says that the count of a process is the
  number of its calls inside, that at most one process is open (its `manual_locked`
  is set) or has calls inside, that of the owner of the mutex, and that a call which
  is about to add itself has seen it open or will fail.
  `ModesHold` joins them: whatever `lock_mode` is, what a set does is what the two
  modes do.
- **`MemoryProofs`**, of `PageLoad`: `PagesInPlaceHolds`, `SeesLoadedHolds` and `NeverOlderHolds`, for any
  pages, versions and processes, assuming `OwnConns`: each thread has a connection of its
  own.  Threads that share one share its flock and its offset, and none of the three holds
  for them (departure 22).  `LoadInv` says that loads are apart by the flock, and that
  each thread finds its offset where it left it (`LockInv`); that a marked page, the copy on
  disk and what a thread has read are whole and of their page, and that who loads a page has it
  unmarked until the load ends (`WholeInv`, which gives `NeverOlder`); that where reads fail
  nothing is changed (`FailsInv`), and where they do not a page that is not empty is marked
  or being loaded (`ReadInv`); and that a page that a connection has mapped is marked, or its
  own thread loads it (`MappedInv`).
- **`MemoryProofs`**, of the key headers in `Memory`, for blocks of two headers or more, pages
  of any number of blocks, any number of pages and calls in any order beside those of the
  general allocator: `HeadersSoundHolds` and `HeadersMarked`.
  `HeadersSound` says which lists there are, in terms of walks; what the calls rely on is that
  the same holes are known from three sides.  `HeadInv` names them once: `HolesOf` is the set of
  the longest runs of headers that are cut from the zone and not in use (`MaxRuns`).  It says
  that `reserved` has those of one header and the list of each size those of that size
  (`InLists`, by `Listed`: there is a sequence of them that the links follow), that the bit
  of a size is set when there is one, that the zone is at a block or at no page (`ZoneOk`), and that what is in use is what
  the callers have (`RunsSound`) and the headers that departure 52 has lost (`leaked`), which
  count as used and are in no run.  Half of the lemmas are about sets of numbers, and
  say which of the longest runs there are after one was cut (`CutRun`) or joined with its
  neighbours (`JoinRun`); the others about links, and say that `IndexHole`
  and `DeindexHole` add and take one (`IndexHoleDoes`, `DeindexHoleDoes`).  `BelowIs` and `AboveIs` say that the code
  counts in the bits the hole beside a run; each call is then a lemma that puts the two
  halves together.  `Marks` goes along with all of them, which gives
  `HeadersMarked`: every block whose bits or links a call changes is marked, those of other
  holes in its lists too.  That is the half of `ChangesMarked` about headers.
  That the walk `ListOf` of `HolesIndexed`, a recursive function, has the members of that
  sequence is shown by a smallest counterexample (`WalkIs`): `MinExists`, from
  `WFMin` of the library, needs no operator as a parameter.
  The proof found two places in `KeyHeads` where the guards of a CASE overlapped (`Split`,
  `AllocOne`).  TLC takes the first that holds, as the code does, but the language
  leaves it open; the guards say it now.
- **`FileCallsProofs`**, for files, buffers, pages and keys of any size, with failing reads
  and writes and early ends:
  - `NoDataRaceHolds` through `OwnInv`: whoever works on a buffer is who its state gives
    it to.
  - `FileInOrderHolds`: `OrderInv` says which part of the file each buffer holds.  The
    blocks follow each other, with at most a short one at the end (`ReaderInv`,
    `DataInv`); what the parser has left of a key is before the block it
    works on (`TailInv`, `CallerInv`).  After a failed read it says nothing (departures 28
    and 29).
  - `WritesSoundHolds`: `WriteInv` says that the thread's buffer, the caller's and
    the text that was committed follow each other (`TextInv`), that a buffer has room for an entry
    (`RoomInv`, `LengthInv`) and who has which (`HandInv`); after a failed write the text is
    not claimed (departure 30).
  - `LinesDoneHolds` and `EntriesKeptHolds`, of both pipelines, for any number of items, any
    pairs of chains they belong to, at least two blocks of any size (at least three
    entries where there is one) and any interleaving, with visits that fail.  The three
    properties of `Pipeline` say only what is done; none is inductive.  `PipesInv` adds that
    the first `Hi` items have been taken up and that those not done are the last two of them,
    in the two places of the stage (`ItemsInv`, `DoneInv`); that an older entry whose visit
    comes after the newer one's is of another pair of chains (`StageInv`, from `Order`), which
    gives the order; that the blocks the thread has are `Number` of them in the order of
    the ring from the oldest one that it still holds (`RingInv`); that the items of these blocks
    follow each other without a gap, from the first that is not taken up to the one the
    source gives next (`ChainsInv`: `Runs`, `Front`, `Filling`), so that what the thread takes
    next is item `Hi` + 1; and that an entry under way lies in a block that the caller may not
    fill: the one that is worked on or the one still to be given back (`EntriesInv`; with
    one core one and two places before the one that is filled next, `SingleInv`).  `EntriesKept` follows
    from the last, `DoneOnce` from the first two and from where a call that has returned
    can be (`SidesInv`).  There is one lemma per action that says what it does
    (`FillNextFacts` and so on) and one per part of the invariant that goes through the actions.
- **`ComparisonProofs`**: `ComparedHolds` and `MarksAgreeHolds`, for any keys, files, counters
  and callers, assuming `NoDeletesBesideCounts` for the first (departure 46).  One comparison at a time has
  the marks (`LockInv`).  A key of the file has the new mark once its line was visited
  (`FileInv`), a key without a line the old one until its chain was (`RestInv`), and a part
  of the table that was left out has no key with the old mark, as no more keys are counted
  there than have the new one (`CountInv`).
- **`SetLinksInv`** and **`SetLinksProofs`**: `NoLateWorkHolds`, `ToldHolds` and `WholeHolds`, for any
  processes, makers, jobs and nodes.  None of the three says anything while names change, so
  none is inductive; `Inv` says what holds meanwhile: which names a creation or an unload
  has changed so far and what the shares and files that have the names hold (`NewInv`,
  `FileInv`, `GoneInv`), that a share without data is behind the flock of who fills it, alone
  (`ShareInv`, `FillInv`), that an open share still has its name unless its opener has met a
  change (`OpenInv`), whose set each process is linked to (`ToldInv`), and that all who met no
  change see the same parts (`MetInv`).  Each part has a lemma for all steps, from lemmas that say what
  each step does.  That the pages file is there when the index
  file was, follows from `FillInv` and `FileInv`: the branch of `FillPagesFile` without it is not reached.
- **`SyncedSetProofs`**, for any set of disk pages and any number of processes and
  operations:
  - `TypeCorrect`, with deaths and failures anywhere.  Its invariant `TypeInv` adds
    that only the owner of the mutex is anywhere in the code.
  - `CleanSameHolds`: in a safe set a page without a mark is the same in memory
    and on disk, whatever fails, as long as no revert has met a page with more than two runs or
    a full mask (`~misread`, departure 51).  That one or two runs are read where they are is
    proved: what was shifted out of the mask is as on disk, and the offset is where the mask is
    as long as at most one run was (`RunsRight` of `RunInv`).  `CleanInv` adds that nothing is changed and
    unmarked.
  - `MarksChainedHolds`: `ChainInv` says that pages with marks are in their chain,
    that a page without one is in none while an operation may put it into one, and
    that a walk that has begun has the pages that are still marked before it.
    `Reach` is the least set closed under the links, so that nothing in the
    argument needs a recursion.  This one holds wherever a revert reads.
  - `NeverHalfHolds`: `HalfInv` says which of memory and copy can be relied on
    with `wip` set and without, before, in and after the death of an owner;
    `MemoryInv` the same of the marks of a set without a copy.  Under `~misread`.
  - `DiskSoundHolds`: a walk that ends has met every marked page (`EndsInv`).  It
    holds after failures too, since the chains that a failure breaks (departure 13)
    become rings, whose walks do not end: a flush of them never says it is done.  Under
    `~misread` too.
    `DiskInv` says what of the copy has been written.

Model-checked only: all liveness (the prover has no rules for fairness that it
could use here); `ChainSound`, `ReadsSound` and the refinement of
`KeySet`, which have not been proved: `HashChain` follows chains by a recursive definition, which
the prover cannot do an induction over; `PlacesSound` of `Memory` and the half of `ChangesMarked` about the general
allocator, `PlacesMarked`, whose pieces lie in words of
pages: an invariant for any sizes would have to say of every word whose it is, and the marks
are only right where the links that are followed are.

## 6. Where the code departs from its promises

Met while modelling; each one is reached by the model with the constants given
(all others as in the run of its component).  18 and 32 are kept as runs; for the others
the properties of the runs exclude the circumstances, so that the runs show what
holds without them.

Reader lock
1. `locks.c:552`: the retry of `lck_readerUnlock` enters the current counter
   without looking for the closed mark; 0xFFFF wraps to 0 and readers enter during
   a revert.  `FullExclusion`, Getters {g1, g2}, MaxKeys 2, MaxCalls 2, MaxSeq 2,
   Revert TRUE.
2. `index.c:2490`: `dump_hash_chain` unlocks twice at the end of a chain whose last
   header is in the last place of its block; during a revert 0xFFFF becomes
   0xFFFE.  `FullExclusion`, one dumper, Revert TRUE.
3. `locks.c:588`: `lck_readerUnlockCond` moves the count to the new sequence and does
   not store that sequence in `readerSeq`; the count is never given back.
   `LostOnlyByTimeout`, one dumper, Revert FALSE.  The counts that stay fill the counter in
   the end: `lck_waitForReaders` takes 0xFFFF for the closed mark and does not wait.
   `GraceSafety`, one getter and one dumper, Full 4, MaxSeq 3, MaxKeys 2 (with the 16 bits of the
   code, after some 65000 of them).
4. `index.c:864`: a search whose kept lock was destroyed goes back to
   `lck_readerLock` with `keeped` set and goes round for ever.  `CallReturns`,
   MaxKeys 2, Full 3, MaxSeq 1, with one steady getter.

Hash chains
5. `index.c:1789`: an emptied slot of the table is waited for with
   `LCK_NO_DELETION`, which a dumper of the chain lets pass; it then reads the
   neighbour's header.  `stray = {}`, a setting with reads {"dump"} and others 1,
   Slots 3.
6. `index.c:2494`: a dump may contain a key twice; the code that takes the second
   one back compares with the wrong value.  `DumpOnce`, reads {"dump"}, Slots 4.
7. `index.c:1844`: the last header of a chain is freed after a wait that a dumper
   of this chain does not hold up.  `stray = {}`, reads {"dump"}, last 2, Slots 1.
8. `index.c:2324`: `del_unmarked_from_hash_chain` waits for readers first and takes
   the last header out later.  `torn = {}`, deletes {"unmarked"}.
9. `index.c:860`: the result of `lck_readerUnlock` is dropped when nothing was
   found.  `MissingRight`, timeouts TRUE.

Disk copy (setup "safe" but for 14)
10. `cpages.c:155`: a death between the last page and the last write of the head
    leaves a copy that no link accepts.  `CopyComplete`.
11. `cpages.c:84`: recovery with nothing dirty leaves `wip` set, and a second death
    makes the next recovery flush half an operation.  `MemSound` with two deaths.
12. `cpages.c:141`: after a failing write a later revert reads back only what is
    still marked, and the set is a mixture.  `TornKnown` with fails.
13. `cpages.c:91`: the bits of the head are cleared while page 0 is in its chain;
    after a failing write page 0 is put into it again and the next flush never
    ends.  `FlushEnds` and `MarksChained` with fails.
14. `index.c:1693` (and 1752, 1726, 1830): stores before marks; a death in between
    leaves a change the revert does not know of.  `MemSound`, setup "late".
15. `locks.c:210`: `_mutexTry` falls through from EOWNERDEAD to EBUSY and answers
    `RESULT_LOCKED` while it holds the mutex.  `LockedByOther`.
16. `locks.c:166`: `corrupted` is looked at before the mutex is waited for, and not
    after.  `NoCorruptUse`.
17. `locks.c:162`: a recovery overwrites `corrupted` = 2 by 1.  `HeavyStays`.

51. `cpages.c:200` (231): in the loop over the marked disk pages of a page `stt` has `pos` in
    it already (195) when `pos += stt + len` adds both.  The first two runs of
    a page are read where they are; from the third on other disk pages are read, if need be behind the
    page, the marked ones stay as they were changed, and their marks are cleared (202,
    234).  A mask with all 64 bits set is shifted by 64, which C leaves undefined.
    `CleanSame`, `MemSound`, `TornKnown` and `DiskSound` without `~misread`, in the run `sync` as it is:
    the set is a mixture after a revert in which nothing failed, and the next flush leaves
    the difference on disk.

Fast mode
18. `locks.c:408`: `1LL << (hash % 64)` is kept in an unsigned: half of all pairs of
    chains have an empty mask and are not locked at all.  Run `chain_bits`; API.md
    333-334 allows threads to change a set in parallel in this mode.
19. `locks.c:92`: `deleted` is checked before the wait for the lock only, so that a
    call goes on with a set that was unloaded meanwhile.  `DeletedIsLeft`.

Page loading
20. `allocator.c:48`: `_load_page` answers 0, "mmap error", for a page that somebody
    else has loaded meanwhile.  `NoNull`.
21. `index.c:811`: an entry of the hash table that is not zero is used while its
    page is still being read.  `SeesLoaded`, setup "hash".
22. `allocator.c:37` and `cpages.c:133`: threads of one connection share the map, the
    flock and the offset: one uses a page before it is read, one moves the offset
    between seek and write of the other.  `SeesLoaded`, `RightPlace`, ConnOf <-
    Together.
23. `allocator.c:160`: the bit of a new page is set without the flock, and a bit set
    at the same time is lost; the page is later read over its changes.
    `NeverOlder`, setup "grow"; `LoadedSound` there with two new pages, and `RightPlace`
    with MaxVersion 2.
24. `utils.c:137`: `file_lock` compares the result of flock with EINTR, and not errno;
    an interrupted load goes on without the lock.  `NeverOlder`, setup "signals".
25. `index.c:799`, `allocator.c:37`: a page that could not be read is marked as loaded,
    or stays mapped; its zeroes are used.  `SeesLoaded`, setup "fails", and
    `LoadedSound` with ReadsFail for the hash table too.

Pipelines
26. `index.h:242`: `lck_tryChainLock` calls itself when the set has spinlocks; a call
    for several keys never returns in those modes.  `PipelineEnds`, spin TRUE.
27. `rc_singularity.c:390`, `pipelines.c:69`: the pipeline answers 1 for an error, which
    `lck_processUnlock` takes for success (`DoneOnce` without its exception for files); callbacks
    that skip a line with `-` answer 0, and a reference that was never set is
    followed (`NeverCrashes`, minus TRUE).

File buffers
28. `filebuf.c:43`: a failed read is the end of the file, and the call answers 0.
    `EofIsEnd` after a failed read.
29. `filebuf.c:41`: after a failed read a key may be spliced from two blocks.
    `KeyWhole` after a failed read.
30. `filebuf.c:146`: a failed write is not noticed.  `AllWritten` after a failed write.
31. `filebuf.c:92`: `fbr_finish` before `fbr_first_block` sets a stop that the thread
    overwrites; both wait for ever.  `NeverStuck` after an early end.

Key headers
52. `keyhead.c:17`: `_mark_kh_hole_empty` does nothing for one header, `_index_kh_hole` (31) only
    sets its `reserved`, and a page from the list of empty ones is not cleared
    (`allocator.c:136`).  Where the first run of a block has 7 of the 8 headers (236)
    and the last one has `space_used` from the page's earlier life, that header counts as used and
    belongs to no chain: it is lost until the page is.  `leaked = {}`, which
    `HeadersSound` does without.

General allocator
32. `allocator.c:149`: the length of the page file is computed in an `element_type`, 32
    bits of bytes.  With 4 GB of pages, a quarter of `MAX_PAGES` (README.md:16 of the
    repository promises 16 GB), it is 0 again: `ftruncate` cuts the file and the new
    page is mapped over the first one.  Run `mem_wide`.
33. `allocator.c:699`: `idx_large_alloc` makes a hole of the rest of the page before it
    asks for a new one; when there is none the call fails and `unlocated` still
    points into that hole, which is then given out twice.  `PlacesSound` without
    `~lost`.
34. `index.c:184`: the flags of the old set are to be removed from the new
    configuration ("Remove all flags", 204); `old_config` is filled and not used.
    Read, not modelled.

Hash chains, again
35. A dumper that lets the writer pass may go on behind the end of its chain and
    find keys that are being set (`ReadsSound` without `OnlySearched`); `KeepsSet` keeps
    of a dump only that no key is missed.

Sets (`SetLinks` with an assumption dropped)
36. `index.c:740`, `498`: between the two unlinks of an unload, or while a creation has
    renamed one of its shares, a link opens or makes the index by its name and then
    truncates (`O_TRUNC`) the pages that belong to another index, which others may be
    using.  `Told` and `Whole` without `met`.
37. `index.c:657`: a link that could not fill the share it has made unlinks the name,
    which by then may be that of a newer set.  As 36.
38. `index.c:323`: a second creator is refused by `O_EXCL` and unlinks the `.tmp` names of
    the first one; the pages are opened without `O_EXCL` and shared.  `Told`, with
    `Alone` without its first part.
39. `index.c:455`: of two creations that overlap the second has linked the oldest set;
    users of the one in between are never told.  `Whole` and `Told`, as 38.
40. `index.c:416`: `_file_relink` moves two names one after the other.  The rollback
    always takes `pages_file`, and where the second rename fails the new index stays
    beside the old pages (CHANGES, 0.9.9, speaks of a rollback).  Read, not modelled:
    renames do not fail in `SetLinks`.
41. `index.c:258`, `498`: a process that dies while it fills a share leaves it half
    filled, and one that dies between two renames leaves a mixture of sets.
    `SetLinks` has deaths while a set is read from its file only.

Protected mode
42. `index.c:750`: `lck_protectWait` has cleared `manual_locked` when the revert of an
    unload fails; the call returns with the mutex, which no call can give back.
    `ProtectLock` has the step (`Synced`), and `_mutexTry` does the same (15, `Recover`).
43. `locks.h:21`: threads of a connection that find the set deleted call
    `idx_relink_set` on one and the same `FSingSet` without a lock, and an unload
    frees it under threads that wait in `lck_processLock`.  `Starts` and `Calm`
    exclude it.

Comparison (44 to 48 and 50 are what `mixed` excludes from `MarksAgree`, and from the
half of `Compared` about keys that are not in the file)
44. `rc_singularity.c:527`: a call for one key gives it the mark 0, whatever
    `SF_DIFF_MARK` is.  After an odd number of comparisons such a key has the old mark
    (`check_element`, `index.c:2711`, reports "Key diff mark is not equal set diff
    mark"), the next comparison takes it for one that the file has, and neither shows
    it with a minus (API.md:379) nor deletes it.
45. `pipelines.c:189`, `276`: a call for several keys or a file reads the mark when it
    begins; one that began before a comparison gives the old mark to all its keys.
46. `index.c:2386`: beside a comparison of a set with counters another call deletes
    keys that were met; the part of the table then has no more keys than were met
    in it and is left out, with those that were not.  `Compared`, with `deletes` in `Beside(TRUE)`.
47. `rc_singularity.c:472`: a comparison that runs out of memory does not go through
    the chains, and is flushed (27): its keys have both marks.
48. `index.c:2206`: a header in the last place of a block gets its mark without its
    page being marked; a restart finds the old one.
49. `rc_singularity.c:469`: `marks_lock` of a process that died is never released while
    the set is linked; the next comparison spins for ever, with the mutex.  No action
    leaves "marks" then.
50. `cpages.c:173`: a process that dies after the new mark and before the first key got
    it has marked no page, so that nothing is read back; the mark of the set stays changed.

## 7. Abstractions

- Atomic accesses are sequentially consistent.  Copies of an 8-byte header are
  atomic, as they are on the machines the code is built for.
- `ReaderLock`: `delInChain` and the word are loaded in one step in `CondLoad`; the
  32-bit sequence does not wrap within a section.
- `HashChain`: the allocator gives any free run; memory does not run out; a reader
  that has lost its lock and reads a freed place may see anything and notices the
  loss when it unlocks; values are one of two versions.
- `SyncedSet`: an operation is all between lock and unlock; page growth and
  truncation, deletion and relinking are left out, and with growth the guard of `cp_revert` for
  pages behind the restored `pcnt` (212) and its `ftruncate`, whose failure is as that of the
  first read; a read that fails has read nothing; a read behind a page of data, which goes to
  whatever is mapped there, may change any other page of data; writes reach the disk in
  order as long as the machine runs (the code never calls fsync).
- `ShExLock`: callbacks that call the library are left out; a thread that finds
  the set deleted leaves it.
- `ChainLock`: a chain is a set of keys with a look and a write; the waits for
  readers and the pipeline are left out; the mutex modes are in `SyncedSet`.
- `GeneralAlloc`: sizes and pages are small; the first and the last word of a piece
  are not zero, which the code needs too, since it tells a hole from a piece by
  them; flush and revert are of all that is marked, which is exact as far as departure 51 does not
  reach.  `KeyHeads`: blocks of five
  instead of eight headers; a page of two blocks; of what a used page holds only the
  `space_used` of each block's last header, which is all that is looked at before it is written.
- `ProtectLock`: a thread that unloads finds no other thread of its connection
  waiting in a call; a corrupted set is left out; the spins and sleeps are steps
  that can be repeated.
- `SetLinks`: sets in `SING_LM_SIMPLE`; the `.bk` names of replaced parts, and
  failing renames, maps and truncations are left out; deaths as in 41; one process
  at a time creates, unloads or deletes, and none while somebody still links who
  met the change before (`Alone`).
- `PageLoad`: a page is read in two parts; versions up to 1.
- `Pipeline`: the outcome of a callback is chosen freely among those it can have;
  chain locks do nothing in `SING_LM_SIMPLE`.
- `Comparison`: a visit of a chain, under its lock, is one step, and lines are
  visited in their order (`LinesDone`); each key has a page of its own; a flush and a
  revert are one step (`SyncedSet` has theirs, with departure 51); other calls that delete are left out
  beside a counted comparison (46).
- `ReadBuffers`: the parser steps over a symbol, takes a key or gives up; memory
  that was never read into counts as terminators.  `WriteBuffers`: entries of up to
  `Grow` symbols; the shift of the last size and a failing mremap are left out.

Not modelled, and why: codecs and configuration are pure functions over strings;
the command line tool is one call after another; logging has no state;
phantoms are planned.

## 8. The plan

Done, in this order: the reader lock with its invariant, proofs and refinement; the
hash chain over it; the disk copy; the locks of the fast mode; the header
allocator; page loading; pipelines; file buffers; the general allocator and its
composition with the headers; the protected mode; creation, linking and unloading;
the marks of comparisons.

Next:
1. Phantom keys, as an extension of `HashChain`.
2. Running out of memory in `HashChain`, with the results of the allocators that
   `index.c` does not look at.
3. `SetLinks` with deaths at every step and failing renames, once what the code
   promises then is settled (departures 36 to 41).
4. Proofs: `PlacesSound` of `Memory`, and from it `PlacesMarked`, along the argument for the
   key headers, whose lemmas about longest runs (`CutRun`, `JoinRun`) are about sets of numbers and
   hold of words too; `ChainSound` and `ReadsSound` of `HashChain`, once
   the path of a chain is a set closed under its links, as `Reach` is in
   `SyncedSetProofs`, and not a recursion.
