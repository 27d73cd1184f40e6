------------------------------ MODULE SyncedSet ------------------------------
(***************************************************************************)
(* A set in shared memory and its copy on disk: the robust process mutex   *)
(* (locks.c, SING_LM_SIMPLE and the manual lock of SING_LM_PROTECTED), the *)
(* dirty pages of cpages.c, and what a process does that finds the mutex   *)
(* of a dead one.                                                          *)
(*                                                                         *)
(* A unit is a disk page: <<chain, page, bit>> is the bit of               *)
(* dirty_masks[chain][page].  Its content is the number of the operation   *)
(* that changed it last.  An operation is all that a process does between  *)
(* taking the mutex and giving it back.  The copy on disk is written with  *)
(* plain writes; a write or read that fails, and a process that dies, are  *)
(* actions of the model.  A machine that loses what it was told to write   *)
(* is not: the code never calls fsync.                                     *)
(***************************************************************************)
EXTENDS Naturals, FiniteSets

CONSTANTS
  Procs,        \* the processes that have the set linked
  Units,        \* the disk pages of both files
  Head,         \* the disk page with FSetHead: bit 0 of page 0 of the index
  Bits,         \* disk pages in a page: the bits of a mask, 64
  Changes,      \* the sets of units that an operation changes
  Nobody, Dead, \* the mutex is free; its owner has died
  NoPage,       \* NO_PAGE
  Setups,       \* the sets that are looked at: subset of {"safe", "late", "memory"}
  MayRevert,    \* an operation may fail, or its transaction be reverted
  UseTry,       \* a process may call sing_try_lock_W
  MaxOps, MaxCrashes, MaxFails  \* bounds

Chains == {"index", "pages"}

PageOf(u) == <<u[1], u[2]>>

Pages == {PageOf(u) : u \in Units}

ASSUME UnitsAssumption ==
  /\ Bits \in Nat \ {0} /\ Units \subseteq Chains \X Nat \X (0..Bits - 1)
  /\ Changes \subseteq SUBSET Units
  /\ Head = <<"index", 0, 0>> /\ Head \in Units
  /\ NoPage \notin Nat /\ {Nobody, Dead} \cap Procs = {} /\ Nobody # Dead
  /\ Setups \subseteq {"safe", "late", "memory"}
  /\ {MayRevert, UseTry} \subseteq BOOLEAN
  /\ {MaxOps, MaxCrashes, MaxFails} \subseteq Nat

VARIABLES
  setup,     \* what kind of set it is, and of operations
  mem,       \* what the units hold in shared memory
  disk,      \* and on disk
  wip,       \* head->wip in memory
  diskWip,   \* and on disk
  dirty,     \* the bits set in dirty_masks
  first,     \* dirty_first: where the chain of the pages with a mask begins
  next,      \* dirty_chain
  owner,     \* of process_lock
  checked,   \* who has passed BAD_STATES_CHECK and is about to lock
  pc,        \* where the owner is
  after,     \* what it does when cp_flush or idx_revert has returned
  workpg,    \* the chain it walks, and the page it is at
  mask,      \* of the page that cp_revert reads back: the bits still to come,
  gone,      \* how many are shifted out,
  pos,       \* and how many it takes to be
  misread,   \* it has met a page that it does not read back as it is marked
  todo,      \* the units its operation has still to change
  late,      \* the units it has changed and not marked yet
  corrupted, \* bad_states.corrupted: 1 the set can be read, 2 it can not
  lost,      \* a link of the set has refused the copy on disk
  ops, crashes, fails,  \* how many there were
  good,      \* the content after the last operation that was done
  saved      \* the content that was synced last

work    == <<todo, late>>
content == <<mem, disk, wip, diskWip>>
marks   == <<dirty, first, next>>
mutex   == <<owner, checked, pc, after, workpg>>
states  == <<corrupted, lost>>
counts  == <<ops, crashes, fails>>
ghosts  == <<good, saved>>
reading == <<mask, gone, pos, misread>>
vars == <<setup, content, marks, mutex, work, states, counts, ghosts, reading>>

\* With UF_NOT_PERSISTENT there is no copy.  Some places of the code store
\* first and mark the page later; a safe set is one that they do not change.
Persistent == setup # "memory"
LateMarks  == setup = "late"

----------------------------------------------------------------------------
(* Dirty pages *)

Mask(page) == {u \in dirty : PageOf(u) = page}

\* _mark_index_dirty, _mark_pages_dirty: a page whose mask was 0 goes to the
\* front of its chain.  A set without a copy has no marks.
Link(page) ==
  /\ next' = [next EXCEPT ![page] = first[page[1]]]
  /\ first' = [first EXCEPT ![page[1]] = page[2]]

MarkSetFirst(u) == dirty' = dirty \cup {u} /\ UNCHANGED <<first, next>>
MarkAgain(u) == dirty' = dirty \cup {u} /\ Link(PageOf(u))

Mark(u) ==
  IF Persistent
  THEN /\ dirty' = dirty \cup {u}
       /\ IF Mask(PageOf(u)) = {} THEN Link(PageOf(u)) ELSE UNCHANGED <<first, next>>
  ELSE UNCHANGED marks

\* The units us of a, with what they hold in b.
Copy(a, b, us) == [u \in Units |-> IF u \in us THEN b[u] ELSE a[u]]

\* What a write that was broken off may have written.
Written == IF pc = "write" THEN SUBSET Mask(workpg) ELSE {{}}

NothingDirty == first = [c \in Chains |-> NoPage]

\* The page done is left: its mask is cleared and the walk goes on; behind the
\* last page the chain is empty.
PassPage ==
  /\ dirty' = dirty \ Mask(workpg)
  /\ workpg' = <<workpg[1], next[workpg]>>
  /\ first' = IF next[workpg] = NoPage THEN [first EXCEPT ![workpg[1]] = NoPage] ELSE first
  /\ UNCHANGED next

----------------------------------------------------------------------------
(* The mutex *)

\* BAD_STATES_CHECK before the mutex is asked for.
Check(p) ==
  /\ corrupted = 0 /\ ~lost /\ p \notin checked /\ p # owner
  /\ checked' = checked \cup {p}
  /\ UNCHANGED <<content, marks, owner, pc, after, workpg, work, states, counts, ghosts>>

Hold(p, at, then) ==
  /\ p \in checked /\ ~lost
  /\ owner' = p /\ checked' = checked \ {p} /\ pc' = at /\ after' = then
  /\ UNCHANGED <<content, marks, workpg, work, lost, counts, ghosts>>

\* case 0 of _common_mutexLock and of _mutexTry.
Lock(p) == owner = Nobody /\ Hold(p, "held", "out") /\ UNCHANGED corrupted

\* A mistake: a copy that a dead owner was writing is not finished.
InheritReverts(p, then) == owner = Dead /\ Hold(p, "revert", then) /\ UNCHANGED corrupted

\* EOWNERDEAD: the copy is finished when the dead owner was at it, and taken
\* back when it was not; a set without a copy is corrupted.
Inherit(p, then) ==
  /\ owner = Dead
  /\ IF Persistent
     THEN Hold(p, IF wip THEN "flush" ELSE "revert", then) /\ UNCHANGED corrupted
     ELSE Hold(p, "leave", "out") /\ corrupted' = 1

InheritByLock(p) == Inherit(p, "held")

\* _mutexTry goes on to "case EBUSY" when the recovery is done.
InheritByTry(p) == UseTry /\ Inherit(p, "locked")

\* pthread_mutex_unlock
Leave ==
  /\ pc = "leave"
  /\ owner' = Nobody /\ pc' = "out" /\ after' = "out" /\ workpg' = <<"index", NoPage>>
  /\ UNCHANGED <<content, marks, checked, work, states, counts, ghosts>>

\* The owner dies.  The page it was writing may be written in part; what its
\* operation was doing is half done.
Crash ==
  /\ owner \in Procs /\ crashes < MaxCrashes
  /\ crashes' = crashes + 1
  /\ owner' = Dead /\ pc' = "out" /\ after' = "out" /\ workpg' = <<"index", NoPage>>
  /\ todo' = {} /\ late' = {}
  /\ \E us \in Written : disk' = Copy(disk, mem, us)
  /\ UNCHANGED <<mem, wip, diskWip, marks, checked, states, ops, fails, ghosts>>

----------------------------------------------------------------------------
(* What the owner does with the set *)

Owner == UNCHANGED <<owner, checked>>

\* An operation begins: it will change these units, and head->count, for
\* which nothing is marked.
Begin ==
  /\ pc = "held" /\ ops < MaxOps
  /\ ops' = ops + 1 /\ pc' = "op"
  /\ \E us \in Changes : us \ {Head} # {} /\ todo' = us
  /\ Owner /\ UNCHANGED <<content, marks, after, workpg, late, states, crashes, fails, ghosts>>

\* It gives the mutex back without having changed anything.
NoOperation ==
  /\ pc = "held" /\ pc' = "leave"
  /\ Owner /\ UNCHANGED <<content, marks, after, workpg, work, states, counts, ghosts>>

Store(u) == mem' = [mem EXCEPT ![u] = ops, ![Head] = ops] /\ todo' = todo \ {u}

\* A page is marked and changed...
Change(u) ==
  /\ pc = "op" /\ u \in todo /\ late = {}
  /\ Mark(u) /\ Store(u)
  /\ Owner /\ UNCHANGED <<disk, wip, diskWip, pc, after, workpg, late, states, counts, ghosts>>

\* ... or changed and marked.
ChangeUnmarked(u) ==
  /\ LateMarks /\ pc = "op" /\ u \in todo /\ late = {}
  /\ Store(u) /\ late' = {u}
  /\ Owner /\ UNCHANGED <<disk, wip, diskWip, marks, pc, after, workpg, states, counts, ghosts>>

MarkLate ==
  /\ \E u \in late : Mark(u)
  /\ late' = {}
  /\ Owner /\ UNCHANGED <<content, pc, after, workpg, todo, states, counts, ghosts>>

\* lck_processUnlock, lck_manualUnlock: the operation is done and its pages
\* are written...
Done ==
  /\ pc = "op" /\ todo = {} /\ late = {}
  /\ pc' = IF Persistent THEN "flush" ELSE "leave"
  /\ after' = "leave" /\ good' = mem
  /\ Owner /\ UNCHANGED <<content, marks, workpg, work, states, counts, saved>>

\* ... or it has failed, or is not wanted, and the pages are read back.
Failed ==
  /\ MayRevert /\ Persistent /\ pc = "op" /\ late = {}
  /\ pc' = "revert" /\ after' = "leave" /\ todo' = {}
  /\ Owner /\ UNCHANGED <<content, marks, workpg, late, states, counts, ghosts>>

----------------------------------------------------------------------------
(* cp_flush *)

Goto(at) == pc' = at /\ UNCHANGED after

FlushBeginNoWip ==
  /\ pc = "flush" /\ Goto(IF NothingDirty THEN after ELSE "head")
  /\ saved' = IF NothingDirty THEN good ELSE saved
  /\ Owner /\ UNCHANGED <<content, marks, workpg, work, states, counts, good>>

FlushBegin ==
  /\ pc = "flush"
  /\ IF NothingDirty THEN Goto(after) /\ saved' = good /\ UNCHANGED wip
                     ELSE Goto("head") /\ wip' = TRUE /\ UNCHANGED saved
  /\ Owner /\ UNCHANGED <<mem, disk, diskWip, marks, workpg, work, states, counts, good>>

\* The head is written with wip set, and its bit taken out of page 0, which
\* stays in its chain.
FlushHead ==
  /\ pc = "head" /\ Goto("write")
  /\ disk' = Copy(disk, mem, {Head}) /\ diskWip' = wip
  /\ dirty' = dirty \ {Head} /\ workpg' = <<"index", first["index"]>>
  /\ Owner /\ UNCHANGED <<mem, wip, first, next, work, states, counts, ghosts>>

FlushPage ==
  /\ pc = "write" /\ workpg[2] # NoPage
  /\ disk' = Copy(disk, mem, Mask(workpg))
  /\ PassPage
  /\ Owner /\ UNCHANGED <<mem, wip, diskWip, pc, after, work, states, counts, ghosts>>

FlushNextChain ==
  /\ pc = "write" /\ workpg = <<"index", NoPage>>
  /\ workpg' = <<"pages", first["pages"]>>
  /\ Owner /\ UNCHANGED <<content, marks, pc, after, work, states, counts, ghosts>>

FlushClean ==
  /\ pc = "write" /\ workpg = <<"pages", NoPage>>
  /\ wip' = FALSE /\ Goto("last")
  /\ saved' = good
  /\ Owner /\ UNCHANGED <<mem, disk, diskWip, marks, workpg, work, states, counts, good>>

FlushLast ==
  /\ pc = "last" /\ Goto(after)
  /\ disk' = Copy(disk, mem, {Head}) /\ diskWip' = wip
  /\ Owner /\ UNCHANGED <<mem, wip, marks, workpg, work, states, counts, ghosts>>

SyncFailed == pc' = "leave" /\ fails < MaxFails /\ fails' = fails + 1 /\ UNCHANGED after

FlushHeadFails ==
  /\ pc = "head" /\ SyncFailed
  /\ Owner /\ UNCHANGED <<content, marks, workpg, work, states, ops, crashes, ghosts>>

FlushPageFailsClears ==
  /\ pc = "write" /\ workpg[2] # NoPage /\ Mask(workpg) # {} /\ SyncFailed
  /\ dirty' = dirty \ Mask(workpg)
  /\ Owner /\ UNCHANGED <<content, first, next, workpg, work, states, ops, crashes, ghosts>>
\* A page can not be written, or only in part: it stays first in its chain.
FlushPageFails ==
  /\ pc = "write" /\ workpg[2] # NoPage /\ Mask(workpg) # {} /\ SyncFailed
  /\ \E us \in Written : disk' = Copy(disk, mem, us)
  /\ first' = [first EXCEPT ![workpg[1]] = workpg[2]]
  /\ Owner /\ UNCHANGED <<mem, wip, diskWip, dirty, next, workpg, work, states, ops, crashes, ghosts>>

FlushLastFails ==
  /\ pc = "last" /\ SyncFailed
  /\ Mark(Head)
  /\ Owner /\ UNCHANGED <<content, workpg, work, states, ops, crashes, ghosts>>

----------------------------------------------------------------------------
(* idx_revert, cp_revert *)

RevertBegin ==
  /\ pc = "revert"
  /\ IF NothingDirty THEN Goto(after) /\ good' = saved
                     ELSE Goto("rhead") /\ UNCHANGED good
  /\ Owner /\ UNCHANGED <<content, marks, workpg, work, states, counts, saved>>

RevertHead ==
  /\ pc = "rhead" /\ Goto("read")
  /\ mem' = Copy(mem, disk, {Head}) /\ wip' = diskWip
  /\ dirty' = dirty \ {Head} /\ workpg' = <<"index", first["index"]>>
  /\ Owner /\ UNCHANGED <<disk, diskWip, first, next, work, states, counts, ghosts>>

\* The marked disk pages of a page are read back run by run.
BitsOf(page) == {u[3] : u \in Mask(page)}

Starts(bits) == {b \in bits : b - 1 \notin bits}

\* More than two runs, or nothing but marked disk pages, are not read back
\* where they are.
Scattered(bits) ==
  \/ \E a, b, c \in Starts(bits) : a < b /\ b < c
  \/ bits = 0..(Bits - 1)

RevertPage ==
  /\ pc = "read" /\ workpg[2] # NoPage /\ Goto("runs")
  /\ mask' = BitsOf(workpg) /\ gone' = 0 /\ pos' = 0
  /\ misread' = (misread \/ Scattered(BitsOf(workpg)))
  /\ Owner /\ UNCHANGED <<content, marks, workpg, work, states, counts, ghosts>>

\* The next run: it begins at bit b and has len bits (ffs).
FirstRun(b, len) ==
  /\ b \in mask /\ \A c \in mask : b <= c
  /\ b..(b + len - 1) \subseteq mask /\ (b + len) \notin mask

\* Where it is read: stt += pos.
Start(b) == pos + (b - gone)

\* It is shifted out, and pos += stt + len, though stt has pos in it: from the
\* third run on this is not where the run is.
PassRun(b, len) ==
  /\ mask' = mask \ (b..(b + len - 1)) /\ gone' = b + len
  /\ pos' = pos + Start(b) + len
  /\ UNCHANGED misread

InPage(stt, len) == {u \in Units : PageOf(u) = workpg /\ u[3] \in stt..(stt + len - 1)}

RevertRun ==
  /\ pc = "runs"
  /\ \E b \in mask, len \in 1..Bits :
       /\ FirstRun(b, len) /\ Start(b) + len <= Bits
       /\ mem' = Copy(mem, disk, InPage(Start(b), len))
       /\ PassRun(b, len)
  /\ Owner /\ UNCHANGED <<disk, wip, diskWip, marks, pc, after, workpg, work, states, counts, ghosts>>

\* A read that leaves the page.  The pages of the index lie behind each other
\* in memory as they do on disk; what lies behind a page of data, and gets
\* something of the next one, is not known.
InIndex(stt, len) ==
  {u \in Units : u[1] = "index" /\ u[2] >= workpg[2]
                 /\ (u[2] - workpg[2]) * Bits + u[3] \in stt..(stt + len - 1)}

OtherData == {u \in Units : u[1] = "pages" /\ PageOf(u) # workpg}

ReadBehind(stt, len) ==
  IF workpg[1] = "index" THEN mem' = Copy(mem, disk, InIndex(stt, len))
  ELSE \E us \in SUBSET OtherData : \E what \in [us -> 0..ops] :
         mem' = [u \in Units |-> IF u \in us THEN what[u] ELSE Copy(mem, disk, InPage(stt, len))[u]]

\* It may come to the end of the file or of the memory, and fail (RevertFails).
\* A mask with all its bits set is shifted by 64: what is left of it is not
\* known, and the loop may read on behind the page until a read fails.
RevertBehind ==
  /\ pc = "runs"
  /\ \E b \in mask, len \in 1..Bits :
       /\ FirstRun(b, len) /\ (Start(b) + len > Bits \/ len = Bits)
       /\ ReadBehind(Start(b), len)
       /\ PassRun(b, len)
  /\ Owner /\ UNCHANGED <<disk, wip, diskWip, marks, pc, after, workpg, work, states, counts, ghosts>>

RevertPageEnd ==
  /\ pc = "runs" /\ mask = {} /\ Goto("read")
  /\ PassPage
  /\ gone' = 0 /\ pos' = 0 /\ UNCHANGED <<mask, misread>>
  /\ Owner /\ UNCHANGED <<content, work, states, counts, ghosts>>

RevertNextChain ==
  /\ pc = "read" /\ workpg = <<"index", NoPage>>
  /\ workpg' = <<"pages", first["pages"]>>
  /\ Owner /\ UNCHANGED <<content, marks, pc, after, work, states, counts, ghosts>>

RevertEnd ==
  /\ pc = "read" /\ workpg = <<"pages", NoPage>>
  /\ Goto(after) /\ good' = saved
  /\ Owner /\ UNCHANGED <<content, marks, workpg, work, states, counts, saved>>

\* cp_revert_error; a recovery takes its ERROR_INTERNAL for one of a revert
\* that has read nothing.
RevertFails ==
  /\ \/ pc = "rhead" 
     \/ pc = "runs" /\ mask # {}
  /\ fails < MaxFails /\ fails' = fails + 1
  /\ corrupted' = 2 /\ pc' = IF after = "leave" THEN "leave" ELSE "downgrade"
  /\ Owner /\ UNCHANGED <<content, marks, after, workpg, work, lost, ops, crashes, ghosts>>

Downgrade ==
  /\ pc = "downgrade"
  /\ corrupted' = 1 /\ Goto("leave")
  /\ Owner /\ UNCHANGED <<content, marks, workpg, work, lost, counts, ghosts>>

----------------------------------------------------------------------------
(* The share is gone, with every process; _link_set makes it from the copy  *)

Reload ==
  /\ Persistent /\ ~lost /\ owner \in {Nobody, Dead}
  /\ IF diskWip THEN lost' = TRUE /\ UNCHANGED <<mem, wip, dirty, first, corrupted, owner, checked, good>>
     ELSE /\ mem' = disk /\ wip' = FALSE /\ corrupted' = 0 /\ owner' = Nobody
          /\ dirty' = {} /\ first' = [c \in Chains |-> NoPage] /\ checked' = {}
          /\ good' = saved /\ UNCHANGED lost
  /\ UNCHANGED <<disk, diskWip, next, pc, after, workpg, work, counts, saved>>

OwnerStep ==
  \/ Leave \/ Begin \/ NoOperation \/ MarkLate \/ Done \/ Failed
  \/ \E u \in Units : Change(u) \/ ChangeUnmarked(u)
  \/ FlushBegin \/ FlushHead \/ FlushPage \/ FlushNextChain \/ FlushClean \/ FlushLast
  \/ FlushHeadFails \/ FlushPageFails \/ FlushLastFails
  \/ RevertBegin \/ RevertHead \/ RevertNextChain \/ RevertEnd
  \/ RevertFails \/ Downgrade

ReadStep == RevertPage \/ RevertRun \/ RevertBehind \/ RevertPageEnd

Step ==
  \/ \E p \in Procs : Check(p) \/ Lock(p) \/ InheritByLock(p) \/ InheritByTry(p)
  \/ OwnerStep \/ Crash \/ Reload

Next ==
  \/ Step /\ UNCHANGED <<setup, reading>>
  \/ ReadStep /\ UNCHANGED setup

Init ==
  /\ setup \in Setups
  /\ mem = [u \in Units |-> 0] /\ disk = mem /\ wip = FALSE /\ diskWip = FALSE
  /\ dirty = {} /\ first = [c \in Chains |-> NoPage] /\ next = [p \in Pages |-> NoPage]
  /\ owner = Nobody /\ checked = {} /\ pc = "out" /\ after = "out" /\ workpg = <<"index", NoPage>>
  /\ mask = {} /\ gone = 0 /\ pos = 0 /\ misread = FALSE
  /\ todo = {} /\ late = {} /\ corrupted = 0 /\ lost = FALSE
  /\ ops = 0 /\ crashes = 0 /\ fails = 0
  /\ good = mem /\ saved = mem

Spec == Init /\ [][Next]_vars

\* A process that holds the mutex and lives goes on.
FairSpec ==
  /\ Spec
  /\ WF_vars((OwnerStep /\ UNCHANGED <<setup, reading>>) \/ (ReadStep /\ UNCHANGED setup))

----------------------------------------------------------------------------
(* Properties *)

Contents == [Units -> 0..MaxOps]

ReadingOK == mask \subseteq 0..(Bits - 1) /\ gone \in 0..Bits /\ pos \in Nat /\ misread \in BOOLEAN

TypeOK ==
  /\ setup \in Setups /\ {mem, disk, good, saved} \subseteq Contents
  /\ {wip, diskWip, lost} \subseteq BOOLEAN /\ corrupted \in 0..2
  /\ dirty \subseteq Units /\ todo \subseteq Units /\ late \subseteq Units
  /\ first \in [Chains -> Nat \cup {NoPage}] /\ next \in [Pages -> Nat \cup {NoPage}]
  /\ workpg \in Pages \cup (Chains \X {NoPage})
  /\ owner \in Procs \cup {Nobody, Dead} /\ (owner \in Procs <=> pc # "out") /\ checked \subseteq Procs
  /\ pc \in {"out", "held", "op", "leave", "locked", "flush", "head", "write", "last",
             "revert", "rhead", "read", "runs", "downgrade"}
  /\ ReadingOK
  /\ after \in {"out", "held", "leave", "locked"}
  /\ ops \in 0..MaxOps /\ crashes \in 0..MaxCrashes /\ fails \in 0..MaxFails

\* As long as no revert has met a page with more than two runs of marked disk
\* pages, or with nothing but marked ones, a disk page that is not marked is the
\* same in memory and on disk: neither a flush nor a revert can miss a change
\* (cp_mark_*, cp_flush, cp_revert).
CleanSame ==
  setup = "safe" /\ ~misread => \A u \in Units \ (dirty \cup {Head}) : mem[u] = disk[u]

\* The pages that a walk along these links from page q of chain c reaches:
\* those of every set that has q and, with a page, its next one.
Reach(links, c, q) ==
  {p \in Pages :
     \A S \in SUBSET Pages :
       /\ q # NoPage => <<c, q>> \in S
       /\ \A r \in S : links[r] # NoPage => <<r[1], links[r]>> \in S
       => p \in S}

Chained(c) == Reach(next, c, first[c])

\* As long as no write has failed every page with a mark is in its chain
\* (cpages.h, _mark_index_dirty).
MarksChained == fails = 0 => \A u \in dirty : PageOf(u) \in Chained(u[1])

\* As long as every write and read succeeds, at the right place, and no more
\* than one owner has died, whoever gets the mutex finds the set as the last operation that was
\* done left it, or as it was synced last: never half an operation
\* (_common_mutexLock, idx_revert).
MemSound ==
  setup = "safe" /\ ~misread /\ fails = 0 /\ crashes <= 1 /\ pc = "held" => mem = good

\* A copy on disk that does not say it is being written is the content that was
\* synced last, whenever it is looked at and as long as no revert has read at
\* the wrong place: whatever write or read fails when no owner dies, and after
\* one death in a safe set when none fails (cp_flush, cp_revert, _link_set).
DiskSound ==
  /\ Persistent /\ ~diskWip /\ ~misread
  /\ crashes = 0 \/ (setup = "safe" /\ fails = 0 /\ crashes = 1)
  => disk = saved

\* As long as every write and read succeeds, at the right place, a set that is
\* given back with half an operation in it is marked as corrupted
\* (lck_processUnlock, _common_mutexLock).
TornKnown ==
  setup # "late" /\ ~misread /\ fails = 0 /\ crashes <= 1 /\ owner = Nobody => mem = good \/ corrupted # 0

\* Half an operation is never taken for a whole one: the next owner does not
\* get it, and where it is given back it is marked (_common_mutexLock).
NeverHalf == MemSound /\ TornKnown

\* Nobody works on a set that was found to be corrupted.  Not kept: the mark
\* is looked at before the mutex is waited for (_common_mutexLock).
NoCorruptUse == pc = "held" => corrupted = 0

\* Who was told that the set is locked does not hold the lock (_mutexTry).
\* Not kept: the case EOWNERDEAD falls through.
LockedByOther == pc # "locked"

\* When nothing is left to be written the copy on disk can be loaded.  Not
\* kept after a death before the last write of the head (cp_flush).
CopyComplete == pc = "held" /\ NothingDirty /\ ~wip => ~diskWip

\* A set of which a part was read back stays unusable.  Not kept: the recovery
\* takes the mark for a lighter one (_common_mutexLock).
HeavyStays == [][corrupted = 2 => corrupted' # 1]_vars

\* A flush that has begun ends.
Flushing == pc \in {"head", "write", "last"}
FlushEnds == (Flushing /\ fails = 0) ~> ~Flushing
=============================================================================
