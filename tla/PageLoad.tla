------------------------------ MODULE PageLoad ------------------------------
(***************************************************************************)
(* How a set that was linked from its disk copy comes into shared memory   *)
(* page by page: _load_page (allocator.c) for the pages of data and        *)
(* _load_hashtable_entry (index.c) for those of the hash table.            *)
(*                                                                         *)
(* A connection (FSingSet) has its own map of pages and its own disk file, *)
(* that is, its own file offset and its own flock; the bits that say what  *)
(* is loaded are in shared memory.  Several threads may use a connection   *)
(* (SING_LM_PROTECTED asks for it).  One thread writes: it has the set     *)
(* locked, changes pages, adds pages and flushes them.                     *)
(*                                                                         *)
(* The contents of a page are <<page, version>>; the page is what it was   *)
(* written as, so that contents in the wrong place show.                   *)
(***************************************************************************)
EXTENDS Naturals, FiniteSets

CONSTANTS
  Conns, Threads, ConnOf,  \* who uses which connection
  Writer,                  \* the thread that changes the set
  Pages,                   \* 1 .. n, their order is that in the file
  NewPages,                \* those that the writer adds to a set that grows
  NoConn,
  Setups,                  \* the circumstances that are looked at
  MaxVersion               \* bound: no page is changed more often

ASSUME LoadAssumption ==
  /\ ConnOf \in [Threads -> Conns] /\ Writer \in Threads /\ NoConn \notin Conns
  /\ Pages \subseteq Nat \ {0} /\ NewPages \subseteq Pages
  /\ Setups \subseteq {"data", "hash", "grow", "fails", "signals"} /\ MaxVersion \in Nat

VARIABLES
  setup,   \* which of them
  mem,     \* the pages in shared memory
  disk,    \* and in the file
  bits,    \* page_loaded, head_loaded
  exists,  \* the pages that something in the set refers to
  mapped,  \* index->pages[p] # MAP_FAILED, of a connection
  lock,    \* who has the flock of the file
  offset,  \* where a connection's descriptor is
  dirty,   \* what the writer has to flush
  pc, pg,  \* where a thread is, and the page it is about
  reg,     \* the mask it has loaded
  src,     \* what it copies
  got      \* what its last look at a page has given

vars == <<setup, mem, disk, bits, exists, mapped, lock, offset, dirty, pc, pg, reg, src, got>>

shared == <<mem, disk, bits, exists, dirty>>

Nothing == <<0, 0>>    \* a page of zeroes
Part    == <<0, 1>>    \* a page that the kernel is still copying
NULL    == <<0, 2>>    \* no pointer

Contents == Pages \X (0 .. MaxVersion)

Conn(t) == ConnOf[t]

\* Pages of the hash table, else pages of data.
HashTable == setup = "hash"

\* Reads of the disk copy may fail, and signals interrupt flock.
ReadsFail == setup = "fails"
Signals   == setup = "signals"

Init ==
  /\ setup \in Setups
  /\ exists = IF setup = "grow" THEN Pages \ NewPages ELSE Pages
  /\ disk = [p \in Pages |-> IF p \in exists THEN <<p, 0>> ELSE Nothing]
  /\ mem = [p \in Pages |-> Nothing] /\ bits = {} /\ dirty = {}
  /\ mapped = [c \in Conns |-> {}] /\ lock = NoConn
  /\ offset = [c \in Conns |-> 0]
  /\ pc = [t \in Threads |-> "idle"] /\ pg = [t \in Threads |-> 0]
  /\ reg = [t \in Threads |-> {}] /\ src = [t \in Threads |-> Nothing]
  /\ got = [t \in Threads |-> NULL]

Go(t, place) == pc' = [pc EXCEPT ![t] = place]

Stays(t) == UNCHANGED <<pg, reg, src, got>>

-----------------------------------------------------------------------------
\* pagesPointer: a page that the connection has mapped is used at once.
\* get_hashtable_entry: so is an entry that is not zero or has its bit.
Want(t, p) ==
  /\ pc[t] = "idle" /\ p \in exists
  /\ pg' = [pg EXCEPT ![t] = p]
  /\ Go(t, IF HashTable
           THEN IF mem[p] # Nothing \/ p \in bits THEN "use" ELSE "lock"
           ELSE IF p \in mapped[Conn(t)] THEN "use" ELSE "map")
  /\ UNCHANGED <<shared, mapped, lock, offset, reg, src, got>>

\* _load_page maps the page, then asks whether it is loaded.
MapPage(t) ==
  /\ pc[t] = "map"
  /\ mapped' = [mapped EXCEPT ![Conn(t)] = @ \cup {pg[t]}]
  /\ Go(t, "check")
  /\ Stays(t) /\ UNCHANGED <<shared, lock, offset>>

CheckBit(t) ==
  /\ pc[t] = "check"
  /\ Go(t, IF pg[t] \in bits THEN "use" ELSE "lock")
  /\ Stays(t) /\ UNCHANGED <<shared, mapped, lock, offset>>

\* flock belongs to the open file: the threads of one connection do not keep
\* each other out, and one of them unlocks for all.
FileLock(t) ==
  /\ pc[t] = "lock" /\ lock \in {NoConn, Conn(t)}
  /\ lock' = Conn(t) /\ Go(t, "recheck")
  /\ Stays(t) /\ UNCHANGED <<shared, mapped, offset>>

\* file_lock repeats flock while it returns EINTR, which flock never does: it
\* returns -1 and has errno set.  The loads do not look at the result.
FileLockInterrupted(t) ==
  /\ pc[t] = "lock" /\ Signals /\ lock \notin {NoConn, Conn(t)}
  /\ Go(t, "recheck")
  /\ Stays(t) /\ UNCHANGED <<shared, mapped, lock, offset>>

\* How a load that has not read goes on: _load_page returns 0, even when the
\* page was loaded meanwhile, and only pagesPointer does not look at that.
Unneeded(t) == IF HashTable \/ t = Writer THEN "unlock" ELSE "unlock_null"

\* A mistake: the page is not looked at again under the lock.
RecheckNot(t) ==
  /\ pc[t] = "recheck" /\ Go(t, "seek")
  /\ Stays(t) /\ UNCHANGED <<shared, mapped, lock, offset>>

\* Somebody else may have loaded it meanwhile.
Recheck(t) ==
  /\ pc[t] = "recheck"
  /\ Go(t, IF pg[t] \in bits THEN Unneeded(t) ELSE "seek")
  /\ Stays(t) /\ UNCHANGED <<shared, mapped, lock, offset>>

\* A mistake: the page is marked before it is read.
SeekMarks(t) ==
  /\ pc[t] = "seek"
  /\ offset' = [offset EXCEPT ![Conn(t)] = pg[t]] /\ bits' = bits \cup {pg[t]}
  /\ Go(t, "read")
  /\ Stays(t) /\ UNCHANGED <<mem, disk, exists, dirty, mapped, lock>>

Seek(t) ==
  /\ pc[t] = "seek"
  /\ offset' = [offset EXCEPT ![Conn(t)] = pg[t]] /\ Go(t, "read")
  /\ Stays(t) /\ UNCHANGED <<shared, mapped, lock>>

OnDisk(o) == IF o \in Pages THEN disk[o] ELSE Nothing

\* file_read copies into shared memory; it is short behind the end of the file.
ReadBegin(t) ==
  /\ pc[t] = "read" /\ OnDisk(offset[Conn(t)]) # Nothing
  /\ src' = [src EXCEPT ![t] = OnDisk(offset[Conn(t)])]
  /\ mem' = [mem EXCEPT ![pg[t]] = Part]
  /\ offset' = [offset EXCEPT ![Conn(t)] = @ + 1] /\ Go(t, "copy")
  /\ UNCHANGED <<disk, bits, exists, dirty, mapped, lock, pg, reg, got>>

ReadEnd(t) ==
  /\ pc[t] = "copy"
  /\ mem' = [mem EXCEPT ![pg[t]] = src[t]]
  /\ Go(t, "mark")
  /\ Stays(t) /\ UNCHANGED <<disk, bits, exists, dirty, mapped, lock, offset>>

\* A mistake: what could not be read is read again.
ReadFailsRetry(t) ==
  /\ pc[t] = "read" /\ (ReadsFail \/ OnDisk(offset[Conn(t)]) = Nothing)
  /\ Go(t, "seek")
  /\ Stays(t) /\ UNCHANGED <<shared, mapped, lock, offset>>

\* A read that fails or is short: _load_page leaves the bit alone, and the
\* writer's pagesPointer does not look at its answer; _load_hashtable_entry
\* sets the bit and answers NULL this once.
ReadFails(t) ==
  /\ pc[t] = "read" /\ (ReadsFail \/ OnDisk(offset[Conn(t)]) = Nothing)
  /\ Go(t, IF HashTable THEN "mark_null" ELSE Unneeded(t))
  /\ Stays(t) /\ UNCHANGED <<shared, mapped, lock, offset>>

\* cp_mark_page_loaded is `|=' on a word that 64 pages share: a load and a store.
MarkLoad(t) ==
  /\ pc[t] \in {"mark", "mark_null"}
  /\ reg' = [reg EXCEPT ![t] = bits]
  /\ Go(t, IF pc[t] = "mark" THEN "store" ELSE "store_null")
  /\ UNCHANGED <<shared, mapped, lock, offset, pg, src, got>>

MarkStore(t) ==
  /\ pc[t] \in {"store", "store_null"}
  /\ bits' = reg[t] \cup {pg[t]}
  /\ Go(t, IF pc[t] = "store" THEN "unlock" ELSE "unlock_null")
  /\ Stays(t) /\ UNCHANGED <<mem, disk, exists, dirty, mapped, lock, offset>>

FileUnlock(t) ==
  /\ pc[t] \in {"unlock", "unlock_null"}
  /\ lock' = IF lock = Conn(t) THEN NoConn ELSE lock
  /\ Go(t, IF pc[t] = "unlock" THEN "use" ELSE "idle")
  /\ got' = IF pc[t] = "unlock" THEN got ELSE [got EXCEPT ![t] = NULL]
  /\ UNCHANGED <<shared, mapped, offset, pg, reg, src>>

\* The pointer is followed; the writer then changes the page or not.
Use(t) ==
  /\ pc[t] = "use"
  /\ got' = [got EXCEPT ![t] = mem[pg[t]]]
  /\ Go(t, IF t = Writer THEN "write" ELSE "idle")
  /\ UNCHANGED <<shared, mapped, lock, offset, pg, reg, src>>

-----------------------------------------------------------------------------
\* Bound: where loads go wrong only the loads are looked at.
LastVersion == IF setup \in {"fails", "signals"} THEN 0 ELSE MaxVersion

NewVersion(p) == <<p, IF mem[p][1] = p THEN mem[p][2] + 1 ELSE 1>>

Change(p) ==
  /\ NewVersion(p)[2] <= LastVersion
  /\ mem' = [mem EXCEPT ![p] = NewVersion(p)]
  /\ dirty' = dirty \cup {p}

Write ==
  /\ pc[Writer] = "write"
  /\ Change(pg[Writer]) \/ UNCHANGED <<mem, dirty>>
  /\ Go(Writer, "idle")
  /\ Stays(Writer) /\ UNCHANGED <<disk, bits, exists, mapped, lock, offset>>

\* idx_alloc_page: the file grows, the page is mapped and marked as loaded,
\* under the memory lock and not under the flock.  What the writer puts there
\* is referred to only afterwards.
NewPage(p) ==
  /\ pc[Writer] = "idle" /\ p \in NewPages \ exists
  /\ mapped' = [mapped EXCEPT ![Conn(Writer)] = @ \cup {p}]
  /\ pg' = [pg EXCEPT ![Writer] = p]
  /\ reg' = [reg EXCEPT ![Writer] = bits]
  /\ Go(Writer, "new")
  /\ UNCHANGED <<shared, lock, offset, src, got>>

NewPageMarked ==
  /\ pc[Writer] = "new"
  /\ bits' = reg[Writer] \cup {pg[Writer]}
  /\ exists' = exists \cup {pg[Writer]}
  /\ Change(pg[Writer]) /\ Go(Writer, "idle")
  /\ Stays(Writer) /\ UNCHANGED <<disk, mapped, lock, offset>>

\* A mistake: the pages are taken to lie behind each other.
FlushSeekNot(p) ==
  /\ pc[Writer] = "idle" /\ p \in dirty
  /\ pg' = [pg EXCEPT ![Writer] = p] /\ Go(Writer, "flush")
  /\ UNCHANGED <<shared, offset, mapped, lock, reg, src, got>>

\* cp_flush: lseek and write, page by page, without a flock.
FlushSeek(p) ==
  /\ pc[Writer] = "idle" /\ p \in dirty
  /\ offset' = [offset EXCEPT ![Conn(Writer)] = p]
  /\ pg' = [pg EXCEPT ![Writer] = p] /\ Go(Writer, "flush")
  /\ UNCHANGED <<shared, mapped, lock, reg, src, got>>

FlushWrite ==
  /\ pc[Writer] = "flush"
  /\ disk' = [p \in Pages |-> IF p = offset[Conn(Writer)] THEN mem[pg[Writer]] ELSE disk[p]]
  /\ offset' = [offset EXCEPT ![Conn(Writer)] = @ + 1]
  /\ dirty' = dirty \ {pg[Writer]} /\ Go(Writer, "idle")
  /\ Stays(Writer) /\ UNCHANGED <<mem, bits, exists, mapped, lock>>

-----------------------------------------------------------------------------
Loads(t) ==
  \/ MapPage(t) \/ CheckBit(t) \/ FileLock(t)
  \/ FileLockInterrupted(t) \/ Recheck(t)
  \/ Seek(t) \/ ReadBegin(t) \/ ReadEnd(t) \/ ReadFails(t)
  \/ MarkLoad(t) \/ MarkStore(t) \/ FileUnlock(t) \/ Use(t)

Writes ==
  \/ Write \/ NewPageMarked \/ FlushWrite
  \/ \E p \in Pages : NewPage(p) \/ FlushSeek(p)

Step ==
  \/ \E t \in Threads : Loads(t) \/ \E p \in Pages : Want(t, p)
  \/ Writes

Next == Step /\ UNCHANGED setup

Spec == Init /\ [][Next]_vars

\* A thread that has begun to load goes on.
FairSpec ==
  /\ Spec
  /\ \A t \in Threads : WF_vars(Loads(t) /\ UNCHANGED setup)
  /\ WF_vars(Write /\ UNCHANGED setup)

-----------------------------------------------------------------------------
Places == {"idle", "map", "check", "lock", "recheck", "seek", "read", "copy",
           "mark", "mark_null", "store", "store_null", "unlock", "unlock_null",
           "use", "write", "new", "flush"}

TypeOK ==
  /\ setup \in Setups
  /\ mem \in [Pages -> Contents \cup {Nothing, Part}]
  /\ disk \in [Pages -> Contents \cup {Nothing, Part}]
  /\ bits \subseteq exists /\ exists \subseteq Pages /\ dirty \subseteq exists
  /\ mapped \in [Conns -> SUBSET Pages] /\ lock \in Conns \cup {NoConn}
  /\ offset \in [Conns -> Nat]
  /\ pc \in [Threads -> Places] /\ pg \in [Threads -> Pages \cup {0}]
  /\ reg \in [Threads -> SUBSET Pages]
  /\ src \in [Threads -> Contents \cup {Nothing, Part}]
  /\ got \in [Threads -> Contents \cup {Nothing, Part, NULL}]

\* A page that is marked as loaded is whole in memory, and is itself: the bit
\* is set after the read and only by who has read it (_load_page,
\* _load_hashtable_entry), as long as flock is not interrupted and no page is
\* added: the bit of a new page is set without the flock, and lost bits of other
\* pages come back with it while these are read again.
LoadedSound ==
  setup \in {"data", "hash", "fails"} =>
    \A p \in bits : mem[p] \in {p} \X (0 .. MaxVersion)

\* What is in memory is never read over by the older copy on disk: the changes
\* that were not flushed yet would be lost (the second look at the bit).  It
\* takes pages of data, none added and none that can not be read.
NeverOlder ==
  [][\A p \in Pages :
       setup = "data" /\ mem[p] \in Contents =>
         /\ mem'[p] \in Contents
         /\ mem'[p][2] >= mem[p][2]]_vars

\* Every page of the file is the page it is the place of (cp_flush), as long as
\* all of them can be read and none is added.
RightPlace ==
  setup \in {"data", "hash"} =>
    \A p \in Pages : disk[p] \in {p} \X (0 .. MaxVersion)

\* No page is taken for another: lseek, and read or write behind it, find the
\* page's own place, in both directions (_load_page, cp_flush).
PagesInPlace == LoadedSound /\ RightPlace

\* What a thread finds behind the pointer to a page of data is the page, never
\* the zeroes of a page that is still to be read (_load_page), under the same
\* conditions as NeverOlder.
SeesLoaded == setup = "data" => \A t \in Threads : got[t] \notin {Nothing, Part}

\* Reading a page that exists gives a pointer: "1 - success, 0 - mmap error".
\* Not kept: a page that was loaded meanwhile is answered with 0 (_load_page).
NoNull == [][\A t \in Threads : pc[t] = "unlock_null" => pc'[t] # "idle"]_vars

\* A page that is wanted is loaded, or its read has failed: the flock is given
\* back on every way.
LoadEnds == \A t \in Threads : pc[t] = "lock" ~> pc[t] = "idle"
=============================================================================
