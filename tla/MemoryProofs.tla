---------------------------- MODULE MemoryProofs ----------------------------
(***************************************************************************)
(* Theorems about the pages of a set and the headers in them.              *)
(*   PageLoad: for any pages, connections and threads, when each thread    *)
(* has a connection of its own: a page that is marked is whole, a page is  *)
(* written to its own place, and where reads succeed nobody sees a page    *)
(* before it is whole and no load undoes a change.                         *)
(*   Memory: for blocks and pages of any size, no key header is given out  *)
(* twice and none is lost but the last one of a block that was not         *)
(* cleared, and what a call changes of them it marks.                      *)
(***************************************************************************)
EXTENDS PageLoad, Memory, FiniteSetTheorems, WellFoundedInduction, TLAPS

-----------------------------------------------------------------------------
(* Loading of pages.                                                        *)

\* Processes with one thread each.  Threads that share a connection share its
\* flock, its map and its offset, and nothing below holds for them.
OwnConns == \A s, t \in Threads : ConnOf[s] = ConnOf[t] => s = t

Whole(p) == {p} \X (0 .. MaxVersion)

\* A thread that has the flock.
Locking(t) ==
  pc[t] \in {"recheck", "seek", "read", "copy", "mark", "store", "unlock", "unlock_null"}

\* A thread that has found the page not loaded, and one that has begun to copy it.
Loading(t) == pc[t] \in {"seek", "read", "copy", "mark", "store"}
Copying(t) == pc[t] \in {"copy", "mark", "store"}

\* Where no page is added and no flock is interrupted.
Undisturbed == setup \in {"data", "hash", "fails"}
ReadsWork   == setup \in {"data", "hash"}

-----------------------------------------------------------------------------
\* Who may be where, and about which page.
PlaceInv ==
  \A t \in Threads :
    /\ pc[t] # "idle" => pg[t] \in Pages
    /\ pc[t] \notin {"idle", "new"} => pg[t] \in exists
    /\ pc[t] \in {"write", "new", "flush"} => t = Writer
    /\ pc[t] = "flush" => pg[t] \in dirty
    /\ reg[t] \subseteq exists

\* The flock keeps loads apart; each thread finds its descriptor where it has
\* left it; nothing is added, and no failed read is marked.
LockInv ==
  Undisturbed =>
    /\ exists = Pages
    /\ \A t \in Threads :
         /\ Locking(t) => lock = Conn(t)
         /\ pc[t] \in {"read", "flush"} => offset[Conn(t)] = pg[t]
         /\ pc[t] \notin {"new", "mark_null", "store_null"}

\* What is loaded, or nearly so, is the page itself; who loads is the only one to
\* mark anything.
WholeInv ==
  Undisturbed =>
    /\ \A p \in Pages : disk[p] \in Whole(p)
    /\ \A p \in bits : mem[p] \in Whole(p)
    /\ \A t \in Threads :
         /\ Loading(t) => pg[t] \notin bits
         /\ pc[t] = "copy" => src[t] \in Whole(pg[t])
         /\ pc[t] \in {"mark", "store"} => mem[pg[t]] \in Whole(pg[t])
         /\ pc[t] = "store" => reg[t] = bits

\* Where reads may fail nothing is changed.
FailsInv == setup = "fails" => dirty = {}

\* Where they do not, a page that is not empty was loaded or is being loaded, and
\* what is written is whole.
ReadInv ==
  ReadsWork =>
    /\ \A p \in Pages : mem[p] # Nothing =>
         p \in bits \/ (\E t \in Threads : Copying(t) /\ pg[t] = p)
    /\ \A p \in dirty : mem[p] \in Whole(p)
    /\ \A t \in Threads :
         /\ pc[t] = "unlock" => pg[t] \in bits
         /\ pc[t] \in {"use", "write"} => mem[pg[t]] # Nothing

\* A page of data that a connection has mapped is loaded, or its thread loads it.
MappedInv ==
  setup = "data" =>
    \A t \in Threads :
      /\ \A p \in mapped[Conn(t)] :
           \/ p \in bits
           \/ pg[t] = p /\ (pc[t] \in {"check", "lock", "recheck"} \/ Loading(t))
      /\ pc[t] \in {"unlock_null", "use", "write"} => pg[t] \in bits
      /\ pc[t] = "copy" => mem[pg[t]] = Part
      /\ got[t] \notin {Nothing, Part}

LoadInv ==
  TypeOK /\ PlaceInv /\ LockInv /\ WholeInv /\ FailsInv /\ ReadInv /\ MappedInv

-----------------------------------------------------------------------------
\* A page that is whole is neither empty nor still being copied.
LEMMA WholeFacts ==
  ASSUME NEW p \in Pages, NEW x \in Whole(p)
  PROVE  x # Nothing /\ x # Part /\ x \in Contents
BY LoadAssumption DEF Whole, Nothing, Part, Contents

\* What follows from it for the pages that are marked, and for those being read.
LEMMA LoadedFacts ==
  ASSUME TypeOK, PlaceInv, WholeInv, ReadInv, Undisturbed
  PROVE  /\ \A p \in bits : p \in Pages /\ mem[p] # Nothing /\ mem[p] # Part
         /\ \A p \in Pages : disk[p] # Nothing
         /\ \A t \in Threads : pc[t] = "copy" => src[t] # Nothing
<1>1. \A p \in bits : p \in Pages /\ mem[p] \in Whole(p)
  BY DEF TypeOK, WholeInv
<1>2. \A t \in Threads : pc[t] = "copy" => pg[t] \in Pages /\ src[t] \in Whole(pg[t])
  BY DEF PlaceInv, WholeInv
<1>3. \A p \in Pages : disk[p] \in Whole(p)
  BY DEF WholeInv
<1> QED
  BY <1>1, <1>2, <1>3, WholeFacts

\* What a change does.
ChangedTo(p) ==
  /\ mem' \in [Pages -> Contents \cup {Nothing, Part}]
  /\ mem'[p] \in Whole(p) /\ mem'[p] # Nothing
  /\ \A q \in Pages : mem[q] \in Whole(q) => mem'[q] \in Whole(q)
  /\ \A q \in Pages : q # p => mem'[q] = mem[q]
  /\ dirty' = dirty \cup {p} /\ setup # "fails"
  /\ mem[p] \in Whole(p) => mem'[p][2] >= mem[p][2]

\* A change leaves a whole page that is not older, and is not made where reads fail.
LEMMA ChangeFacts ==
  ASSUME TypeOK, NEW p \in Pages, Change(p)
  PROVE  ChangedTo(p)
<1>1. mem' = [mem EXCEPT ![p] = NewVersion(p)] /\ dirty' = dirty \cup {p}
  BY DEF Change
<1>2. mem \in [Pages -> Contents \cup {Nothing, Part}]
  BY DEF TypeOK
<1>3. mem[p][2] \in Nat
  <2>1. mem[p] \in Contents \/ mem[p] = Nothing \/ mem[p] = Part
    BY <1>2
  <2> QED
    BY <2>1, LoadAssumption DEF Contents, Nothing, Part
<1>4. NewVersion(p)[2] \in Nat \ {0} /\ NewVersion(p)[2] <= LastVersion
  BY <1>3 DEF NewVersion, Change
<1>5. LastVersion <= MaxVersion /\ (setup = "fails" => LastVersion = 0)
  BY LoadAssumption DEF LastVersion
<1>6. NewVersion(p) \in Whole(p) /\ setup # "fails"
  BY <1>4, <1>5, LoadAssumption DEF Whole, NewVersion, LastVersion
<1>7. mem[p] \in Whole(p) => NewVersion(p)[2] >= mem[p][2]
  BY <1>3 DEF Whole, NewVersion
<1>8. mem' \in [Pages -> Contents \cup {Nothing, Part}]
  BY <1>1, <1>2, <1>6, WholeFacts
<1>9. mem'[p] = NewVersion(p) /\ mem'[p] # Nothing
  BY <1>1, <1>2, <1>6, WholeFacts
<1> QED
  BY <1>1, <1>2, <1>6, <1>7, <1>8, <1>9 DEF ChangedTo


\* The types, and that a thread is about a page that exists.
LEMMA TypeStep == TypeOK /\ PlaceInv /\ OwnConns /\ [Next]_vars => TypeOK'
<1> SUFFICES ASSUME TypeOK, PlaceInv, OwnConns, [Next]_vars PROVE TypeOK'
  OBVIOUS
<1> USE LoadAssumption, WholeFacts DEF TypeOK, PlaceInv, Places, NULL, Conn
<1>1. CASE UNCHANGED vars
  BY <1>1 DEF vars
<1>2. ASSUME NEW t \in Threads, NEW p \in Pages, Want(t, p), UNCHANGED setup PROVE TypeOK'
  BY <1>2 DEF Want, shared, Stays, Go
<1>3. ASSUME NEW t \in Threads, MapPage(t), UNCHANGED setup PROVE TypeOK'
  BY <1>3 DEF MapPage, shared, Stays, Go
<1>4. ASSUME NEW t \in Threads, CheckBit(t), UNCHANGED setup PROVE TypeOK'
  BY <1>4 DEF CheckBit, shared, Stays, Go
<1>5. ASSUME NEW t \in Threads, FileLock(t), UNCHANGED setup PROVE TypeOK'
  BY <1>5 DEF FileLock, shared, Stays, Go
<1>6. ASSUME NEW t \in Threads, FileLockInterrupted(t), UNCHANGED setup PROVE TypeOK'
  BY <1>6 DEF FileLockInterrupted, Signals, shared, Stays, Go
<1>7. ASSUME NEW t \in Threads, Recheck(t), UNCHANGED setup PROVE TypeOK'
  BY <1>7 DEF Recheck, Unneeded, shared, Stays, Go
<1>8. ASSUME NEW t \in Threads, Seek(t), UNCHANGED setup PROVE TypeOK'
  BY <1>8 DEF Seek, shared, Stays, Go
<1>9. ASSUME NEW t \in Threads, ReadBegin(t), UNCHANGED setup PROVE TypeOK'
  BY <1>9 DEF ReadBegin, OnDisk, shared, Stays, Go
<1>10. ASSUME NEW t \in Threads, ReadEnd(t), UNCHANGED setup PROVE TypeOK'
  BY <1>10 DEF ReadEnd, shared, Stays, Go
<1>11. ASSUME NEW t \in Threads, ReadFails(t), UNCHANGED setup PROVE TypeOK'
  BY <1>11 DEF ReadFails, Unneeded, OnDisk, shared, Stays, Go
<1>12. ASSUME NEW t \in Threads, MarkLoad(t), UNCHANGED setup PROVE TypeOK'
  BY <1>12 DEF MarkLoad, shared, Stays, Go
<1>13. ASSUME NEW t \in Threads, MarkStore(t), UNCHANGED setup PROVE TypeOK'
  BY <1>13 DEF MarkStore, shared, Stays, Go
<1>14. ASSUME NEW t \in Threads, FileUnlock(t), UNCHANGED setup PROVE TypeOK'
  BY <1>14 DEF FileUnlock, shared, Stays, Go
<1>15. ASSUME NEW t \in Threads, Use(t), UNCHANGED setup PROVE TypeOK'
  BY ZenonT(30), <1>15 DEF Use, shared, Stays, Go
<1>16. ASSUME Write, UNCHANGED setup PROVE TypeOK'
  <2>1. Writer \in Threads /\ pg[Writer] \in exists /\ exists \subseteq Pages
    BY <1>16 DEF Write
  <2>2. CASE UNCHANGED <<mem, dirty>>
    BY <1>16, <2>1, <2>2 DEF Write, Stays, Go
  <2>3. CASE Change(pg[Writer])
    <3> DEFINE w == pg[Writer]
    <3>1. w \in Pages
      BY <2>1
    <3>2. ChangedTo(w)
      BY <2>3, <3>1, ChangeFacts
    <3> QED
      BY <1>16, <2>1, <3>1, <3>2 DEF ChangedTo, Write, Stays, Go
  <2> QED
    BY <1>16, <2>2, <2>3 DEF Write
<1>17. ASSUME NEW p \in Pages, NewPage(p), UNCHANGED setup PROVE TypeOK'
  BY <1>17 DEF NewPage, shared, Stays, Go
<1>18. ASSUME NewPageMarked, UNCHANGED setup PROVE TypeOK'
  <2>1. Writer \in Threads /\ pg[Writer] \in Pages /\ exists \subseteq Pages
    BY <1>18 DEF NewPageMarked
  <2>2. ChangedTo(pg[Writer])
    BY <1>18, <2>1, ChangeFacts DEF NewPageMarked
  <2> QED
    BY <1>18, <2>1, <2>2 DEF ChangedTo, NewPageMarked, Stays, Go
<1>19. ASSUME NEW p \in Pages, FlushSeek(p), UNCHANGED setup PROVE TypeOK'
  BY <1>19 DEF FlushSeek, shared, Stays, Go
<1>20. ASSUME FlushWrite, UNCHANGED setup PROVE TypeOK'
  <2>1. disk' \in [Pages -> Contents \cup {Nothing, Part}]
    BY ZenonT(30), <1>20 DEF FlushWrite
  <2> QED
    BY <1>20, <2>1 DEF FlushWrite, Stays, Go
<1> QED
  BY <1>1, <1>2, <1>3, <1>4, <1>5, <1>6, <1>7, <1>8, <1>9, <1>10, <1>11, <1>12, <1>13,
     <1>14, <1>15, <1>16, <1>17, <1>18, <1>19, <1>20 DEF Next, Step, Loads, Writes

\* Only the writer writes, and only pages that it has changed are flushed.
LEMMA PlaceStep == TypeOK /\ PlaceInv /\ OwnConns /\ [Next]_vars => PlaceInv'
<1> SUFFICES ASSUME TypeOK, PlaceInv, OwnConns, [Next]_vars PROVE PlaceInv'
  OBVIOUS
<1> USE LoadAssumption, WholeFacts DEF TypeOK, PlaceInv
<1>1. CASE UNCHANGED vars
  BY <1>1 DEF vars
<1>2. ASSUME NEW t \in Threads, NEW p \in Pages, Want(t, p), UNCHANGED setup PROVE PlaceInv'
  BY <1>2 DEF Want, shared, Stays, Go
<1>3. ASSUME NEW t \in Threads, MapPage(t), UNCHANGED setup PROVE PlaceInv'
  BY <1>3 DEF MapPage, shared, Stays, Go
<1>4. ASSUME NEW t \in Threads, CheckBit(t), UNCHANGED setup PROVE PlaceInv'
  BY <1>4 DEF CheckBit, shared, Stays, Go
<1>5. ASSUME NEW t \in Threads, FileLock(t), UNCHANGED setup PROVE PlaceInv'
  BY <1>5 DEF FileLock, shared, Stays, Go
<1>6. ASSUME NEW t \in Threads, FileLockInterrupted(t), UNCHANGED setup PROVE PlaceInv'
  BY <1>6 DEF FileLockInterrupted, Signals, shared, Stays, Go
<1>7. ASSUME NEW t \in Threads, Recheck(t), UNCHANGED setup PROVE PlaceInv'
  BY <1>7 DEF Recheck, Unneeded, shared, Stays, Go
<1>8. ASSUME NEW t \in Threads, Seek(t), UNCHANGED setup PROVE PlaceInv'
  BY <1>8 DEF Seek, shared, Stays, Go
<1>9. ASSUME NEW t \in Threads, ReadBegin(t), UNCHANGED setup PROVE PlaceInv'
  BY <1>9 DEF ReadBegin, OnDisk, shared, Stays, Go
<1>10. ASSUME NEW t \in Threads, ReadEnd(t), UNCHANGED setup PROVE PlaceInv'
  BY <1>10 DEF ReadEnd, shared, Stays, Go
<1>11. ASSUME NEW t \in Threads, ReadFails(t), UNCHANGED setup PROVE PlaceInv'
  BY <1>11 DEF ReadFails, Unneeded, OnDisk, shared, Stays, Go
<1>12. ASSUME NEW t \in Threads, MarkLoad(t), UNCHANGED setup PROVE PlaceInv'
  BY <1>12 DEF MarkLoad, shared, Stays, Go
<1>13. ASSUME NEW t \in Threads, MarkStore(t), UNCHANGED setup PROVE PlaceInv'
  BY <1>13 DEF MarkStore, shared, Stays, Go
<1>14. ASSUME NEW t \in Threads, FileUnlock(t), UNCHANGED setup PROVE PlaceInv'
  BY <1>14 DEF FileUnlock, shared, Stays, Go
<1>15. ASSUME NEW t \in Threads, Use(t), UNCHANGED setup PROVE PlaceInv'
  BY <1>15 DEF Use, shared, Stays, Go
<1>16. ASSUME Write, UNCHANGED setup PROVE PlaceInv'
  BY <1>16, ChangeFacts DEF Write, shared, Stays, Go
<1>17. ASSUME NEW p \in Pages, NewPage(p), UNCHANGED setup PROVE PlaceInv'
  BY <1>17 DEF NewPage, shared, Stays, Go
<1>18. ASSUME NewPageMarked, UNCHANGED setup PROVE PlaceInv'
  BY <1>18, ChangeFacts DEF NewPageMarked, shared, Stays, Go
<1>19. ASSUME NEW p \in Pages, FlushSeek(p), UNCHANGED setup PROVE PlaceInv'
  BY <1>19 DEF FlushSeek, shared, Stays, Go
<1>20. ASSUME FlushWrite, UNCHANGED setup PROVE PlaceInv'
  BY <1>20 DEF FlushWrite, shared, Stays, Go
<1> QED
  BY <1>1, <1>2, <1>3, <1>4, <1>5, <1>6, <1>7, <1>8, <1>9, <1>10, <1>11, <1>12, <1>13,
     <1>14, <1>15, <1>16, <1>17, <1>18, <1>19, <1>20 DEF Next, Step, Loads, Writes

\* flock lets one load of all connections in at a time, and nobody moves the
\* offset of somebody else.
LEMMA LockStep ==
  TypeOK /\ PlaceInv /\ LockInv /\ WholeInv /\ OwnConns /\ [Next]_vars =>
    LockInv'
<1> SUFFICES ASSUME TypeOK, PlaceInv, LockInv, WholeInv, OwnConns, [Next]_vars
             PROVE  LockInv'
  OBVIOUS
<1> USE LoadAssumption, WholeFacts DEF TypeOK, PlaceInv, OwnConns, Conn, LockInv,
        Locking, Undisturbed, WholeInv, HashTable, ReadsFail, OnDisk
<1>1. CASE UNCHANGED vars
  BY <1>1 DEF vars
<1>2. ASSUME NEW t \in Threads, NEW p \in Pages, Want(t, p), UNCHANGED setup PROVE LockInv'
  BY <1>2 DEF Want, shared, Stays, Go
<1>3. ASSUME NEW t \in Threads, MapPage(t), UNCHANGED setup PROVE LockInv'
  BY <1>3 DEF MapPage, shared, Stays, Go
<1>4. ASSUME NEW t \in Threads, CheckBit(t), UNCHANGED setup PROVE LockInv'
  BY <1>4 DEF CheckBit, shared, Stays, Go
<1>5. ASSUME NEW t \in Threads, FileLock(t), UNCHANGED setup PROVE LockInv'
  BY <1>5 DEF FileLock, shared, Stays, Go
<1>6. ASSUME NEW t \in Threads, FileLockInterrupted(t), UNCHANGED setup PROVE LockInv'
  BY <1>6 DEF FileLockInterrupted, Signals, shared, Stays, Go
<1>7. ASSUME NEW t \in Threads, Recheck(t), UNCHANGED setup PROVE LockInv'
  BY <1>7 DEF Recheck, Unneeded, shared, Stays, Go
<1>8. ASSUME NEW t \in Threads, Seek(t), UNCHANGED setup PROVE LockInv'
  BY <1>8 DEF Seek, shared, Stays, Go
<1>9. ASSUME NEW t \in Threads, ReadBegin(t), UNCHANGED setup PROVE LockInv'
  BY <1>9 DEF ReadBegin, OnDisk, shared, Stays, Go
<1>10. ASSUME NEW t \in Threads, ReadEnd(t), UNCHANGED setup PROVE LockInv'
  BY <1>10 DEF ReadEnd, shared, Stays, Go
<1>11. ASSUME NEW t \in Threads, ReadFails(t), UNCHANGED setup PROVE LockInv'
  BY <1>11 DEF ReadFails, Unneeded, OnDisk, shared, Stays, Go
<1>12. ASSUME NEW t \in Threads, MarkLoad(t), UNCHANGED setup PROVE LockInv'
  BY <1>12 DEF MarkLoad, shared, Stays, Go
<1>13. ASSUME NEW t \in Threads, MarkStore(t), UNCHANGED setup PROVE LockInv'
  BY <1>13 DEF MarkStore, shared, Stays, Go
<1>14. ASSUME NEW t \in Threads, FileUnlock(t), UNCHANGED setup PROVE LockInv'
  BY <1>14 DEF FileUnlock, shared, Stays, Go
<1>15. ASSUME NEW t \in Threads, Use(t), UNCHANGED setup PROVE LockInv'
  BY <1>15 DEF Use, shared, Stays, Go
<1>16. ASSUME Write, UNCHANGED setup PROVE LockInv'
  BY <1>16, ChangeFacts DEF Write, shared, Stays, Go
<1>17. ASSUME NEW p \in Pages, NewPage(p), UNCHANGED setup PROVE LockInv'
  BY <1>17 DEF NewPage, shared, Stays, Go
<1>18. ASSUME NewPageMarked, UNCHANGED setup PROVE LockInv'
  BY <1>18, ChangeFacts DEF NewPageMarked, shared, Stays, Go
<1>19. ASSUME NEW p \in Pages, FlushSeek(p), UNCHANGED setup PROVE LockInv'
  BY <1>19 DEF FlushSeek, shared, Stays, Go
<1>20. ASSUME FlushWrite, UNCHANGED setup PROVE LockInv'
  BY <1>20 DEF FlushWrite, shared, Stays, Go
<1> QED
  BY <1>1, <1>2, <1>3, <1>4, <1>5, <1>6, <1>7, <1>8, <1>9, <1>10, <1>11, <1>12, <1>13,
     <1>14, <1>15, <1>16, <1>17, <1>18, <1>19, <1>20 DEF Next, Step, Loads, Writes

\* Nothing is changed where reads fail: the bound LastVersion.
LEMMA FailsStep ==
  TypeOK /\ PlaceInv /\ FailsInv /\ OwnConns /\ [Next]_vars =>
    FailsInv'
<1> SUFFICES ASSUME TypeOK, PlaceInv, FailsInv, OwnConns, [Next]_vars PROVE FailsInv'
  OBVIOUS
<1> USE LoadAssumption, WholeFacts DEF TypeOK, PlaceInv, FailsInv
<1>1. CASE UNCHANGED vars
  BY <1>1 DEF vars
<1>2. ASSUME NEW t \in Threads, NEW p \in Pages, Want(t, p), UNCHANGED setup PROVE FailsInv'
  BY <1>2 DEF Want, shared, Stays, Go
<1>3. ASSUME NEW t \in Threads, MapPage(t), UNCHANGED setup PROVE FailsInv'
  BY <1>3 DEF MapPage, shared, Stays, Go
<1>4. ASSUME NEW t \in Threads, CheckBit(t), UNCHANGED setup PROVE FailsInv'
  BY <1>4 DEF CheckBit, shared, Stays, Go
<1>5. ASSUME NEW t \in Threads, FileLock(t), UNCHANGED setup PROVE FailsInv'
  BY <1>5 DEF FileLock, shared, Stays, Go
<1>6. ASSUME NEW t \in Threads, FileLockInterrupted(t), UNCHANGED setup PROVE FailsInv'
  BY <1>6 DEF FileLockInterrupted, Signals, shared, Stays, Go
<1>7. ASSUME NEW t \in Threads, Recheck(t), UNCHANGED setup PROVE FailsInv'
  BY <1>7 DEF Recheck, Unneeded, shared, Stays, Go
<1>8. ASSUME NEW t \in Threads, Seek(t), UNCHANGED setup PROVE FailsInv'
  BY <1>8 DEF Seek, shared, Stays, Go
<1>9. ASSUME NEW t \in Threads, ReadBegin(t), UNCHANGED setup PROVE FailsInv'
  BY <1>9 DEF ReadBegin, OnDisk, shared, Stays, Go
<1>10. ASSUME NEW t \in Threads, ReadEnd(t), UNCHANGED setup PROVE FailsInv'
  BY <1>10 DEF ReadEnd, shared, Stays, Go
<1>11. ASSUME NEW t \in Threads, ReadFails(t), UNCHANGED setup PROVE FailsInv'
  BY <1>11 DEF ReadFails, Unneeded, OnDisk, shared, Stays, Go
<1>12. ASSUME NEW t \in Threads, MarkLoad(t), UNCHANGED setup PROVE FailsInv'
  BY <1>12 DEF MarkLoad, shared, Stays, Go
<1>13. ASSUME NEW t \in Threads, MarkStore(t), UNCHANGED setup PROVE FailsInv'
  BY <1>13 DEF MarkStore, shared, Stays, Go
<1>14. ASSUME NEW t \in Threads, FileUnlock(t), UNCHANGED setup PROVE FailsInv'
  BY <1>14 DEF FileUnlock, shared, Stays, Go
<1>15. ASSUME NEW t \in Threads, Use(t), UNCHANGED setup PROVE FailsInv'
  BY <1>15 DEF Use, shared, Stays, Go
<1>16. ASSUME Write, UNCHANGED setup PROVE FailsInv'
  <2>1. Writer \in Threads /\ pg[Writer] \in exists /\ exists \subseteq Pages
    BY <1>16 DEF Write
  <2>2. CASE UNCHANGED <<mem, dirty>>
    BY <1>16, <2>1, <2>2 DEF Write, Stays, Go
  <2>3. CASE Change(pg[Writer])
    <3> DEFINE w == pg[Writer]
    <3>1. w \in Pages
      BY <2>1
    <3>2. ChangedTo(w)
      BY <2>3, <3>1, ChangeFacts
    <3> QED
      BY <1>16, <2>1, <3>1, <3>2 DEF ChangedTo, Write, Stays, Go
  <2> QED
    BY <1>16, <2>2, <2>3 DEF Write
<1>17. ASSUME NEW p \in Pages, NewPage(p), UNCHANGED setup PROVE FailsInv'
  BY <1>17 DEF NewPage, shared, Stays, Go
<1>18. ASSUME NewPageMarked, UNCHANGED setup PROVE FailsInv'
  <2>1. Writer \in Threads /\ pg[Writer] \in Pages /\ exists \subseteq Pages
    BY <1>18 DEF NewPageMarked
  <2>2. ChangedTo(pg[Writer])
    BY <1>18, <2>1, ChangeFacts DEF NewPageMarked
  <2> QED
    BY <1>18, <2>1, <2>2 DEF ChangedTo, NewPageMarked, Stays, Go
<1>19. ASSUME NEW p \in Pages, FlushSeek(p), UNCHANGED setup PROVE FailsInv'
  BY <1>19 DEF FlushSeek, shared, Stays, Go
<1>20. ASSUME FlushWrite, UNCHANGED setup PROVE FailsInv'
  BY <1>20 DEF FlushWrite, shared, Stays, Go
<1> QED
  BY <1>1, <1>2, <1>3, <1>4, <1>5, <1>6, <1>7, <1>8, <1>9, <1>10, <1>11, <1>12, <1>13,
     <1>14, <1>15, <1>16, <1>17, <1>18, <1>19, <1>20 DEF Next, Step, Loads, Writes

\* The bit of a page is set by who has read the page, and by nobody meanwhile.
LEMMA WholeStep ==
  TypeOK /\ PlaceInv /\ LockInv /\ WholeInv /\ FailsInv /\ ReadInv /\ OwnConns /\
    [Next]_vars =>
    WholeInv'
<1> SUFFICES ASSUME TypeOK, PlaceInv, LockInv, WholeInv, FailsInv, ReadInv, OwnConns,
                    [Next]_vars
             PROVE  WholeInv'
  OBVIOUS
<1> USE LoadAssumption, WholeFacts DEF TypeOK, PlaceInv, OwnConns, Conn, LockInv,
        Locking, Undisturbed, WholeInv, Loading, HashTable, ReadsFail, FailsInv,
        ReadInv, ReadsWork
<1>1. CASE UNCHANGED vars
  BY <1>1 DEF vars
<1>2. ASSUME NEW t \in Threads, NEW p \in Pages, Want(t, p), UNCHANGED setup PROVE WholeInv'
  BY <1>2 DEF Want, shared, Stays, Go
<1>3. ASSUME NEW t \in Threads, MapPage(t), UNCHANGED setup PROVE WholeInv'
  BY <1>3 DEF MapPage, shared, Stays, Go
<1>4. ASSUME NEW t \in Threads, CheckBit(t), UNCHANGED setup PROVE WholeInv'
  BY <1>4 DEF CheckBit, shared, Stays, Go
<1>5. ASSUME NEW t \in Threads, FileLock(t), UNCHANGED setup PROVE WholeInv'
  BY <1>5 DEF FileLock, shared, Stays, Go
<1>6. ASSUME NEW t \in Threads, FileLockInterrupted(t), UNCHANGED setup PROVE WholeInv'
  BY <1>6 DEF FileLockInterrupted, Signals, shared, Stays, Go
<1>7. ASSUME NEW t \in Threads, Recheck(t), UNCHANGED setup PROVE WholeInv'
  BY <1>7 DEF Recheck, Unneeded, shared, Stays, Go
<1>8. ASSUME NEW t \in Threads, Seek(t), UNCHANGED setup PROVE WholeInv'
  BY <1>8 DEF Seek, shared, Stays, Go
<1>9. ASSUME NEW t \in Threads, ReadBegin(t), UNCHANGED setup PROVE WholeInv'
  BY <1>9 DEF ReadBegin, OnDisk, shared, Stays, Go
<1>10. ASSUME NEW t \in Threads, ReadEnd(t), UNCHANGED setup PROVE WholeInv'
  BY <1>10 DEF ReadEnd, shared, Stays, Go
<1>11. ASSUME NEW t \in Threads, ReadFails(t), UNCHANGED setup PROVE WholeInv'
  BY <1>11 DEF ReadFails, Unneeded, OnDisk, shared, Stays, Go
<1>12. ASSUME NEW t \in Threads, MarkLoad(t), UNCHANGED setup PROVE WholeInv'
  BY <1>12 DEF MarkLoad, shared, Stays, Go
<1>13. ASSUME NEW t \in Threads, MarkStore(t), UNCHANGED setup PROVE WholeInv'
  BY <1>13 DEF MarkStore, shared, Stays, Go
<1>14. ASSUME NEW t \in Threads, FileUnlock(t), UNCHANGED setup PROVE WholeInv'
  BY <1>14 DEF FileUnlock, shared, Stays, Go
<1>15. ASSUME NEW t \in Threads, Use(t), UNCHANGED setup PROVE WholeInv'
  BY <1>15 DEF Use, shared, Stays, Go
<1>16. ASSUME Write, UNCHANGED setup PROVE WholeInv'
  <2>1. Writer \in Threads /\ pg[Writer] \in exists /\ exists \subseteq Pages
    BY <1>16 DEF Write
  <2>2. CASE UNCHANGED <<mem, dirty>>
    BY <1>16, <2>1, <2>2 DEF Write, Stays, Go
  <2>3. CASE Change(pg[Writer])
    <3> DEFINE w == pg[Writer]
    <3>1. w \in Pages
      BY <2>1
    <3>2. ChangedTo(w)
      BY <2>3, <3>1, ChangeFacts
    <3>3. \A q \in Pages : mem[q] \in Whole(q) => mem'[q] \in Whole(q)
      BY <3>2 DEF ChangedTo
    <3>4. UNCHANGED <<disk, bits, exists, pg, reg, src>>
      BY <1>16 DEF Write, Stays
    <3>5. \A s \in Threads : pc'[s] = pc[s] \/ (s = Writer /\ pc'[s] = "idle")
      BY <1>16 DEF Write, Go
    <3> HIDE DEF w
    <3> QED
      BY <1>16, <3>3, <3>4, <3>5
  <2> QED
    BY <1>16, <2>2, <2>3 DEF Write
<1>17. ASSUME NEW p \in Pages, NewPage(p), UNCHANGED setup PROVE WholeInv'
  BY <1>17 DEF NewPage, shared, Stays, Go
<1>18. ASSUME NewPageMarked, UNCHANGED setup PROVE WholeInv'
  <2>1. Writer \in Threads /\ pg[Writer] \in Pages /\ exists \subseteq Pages
    BY <1>18 DEF NewPageMarked
  <2>2. ChangedTo(pg[Writer])
    BY <1>18, <2>1, ChangeFacts DEF NewPageMarked
  <2> QED
    BY <1>18, <2>1, <2>2 DEF ChangedTo, NewPageMarked, Stays, Go
<1>19. ASSUME NEW p \in Pages, FlushSeek(p), UNCHANGED setup PROVE WholeInv'
  BY <1>19 DEF FlushSeek, shared, Stays, Go
<1>20. ASSUME FlushWrite, UNCHANGED setup PROVE WholeInv'
  BY <1>20 DEF FlushWrite, shared, Stays, Go
<1> QED
  BY <1>1, <1>2, <1>3, <1>4, <1>5, <1>6, <1>7, <1>8, <1>9, <1>10, <1>11, <1>12, <1>13,
     <1>14, <1>15, <1>16, <1>17, <1>18, <1>19, <1>20 DEF Next, Step, Loads, Writes

\* A page that was touched was loaded or is being loaded, so that what is changed
\* is not copied over afterwards with half a page.
LEMMA ReadStep ==
  TypeOK /\ PlaceInv /\ LockInv /\ WholeInv /\ ReadInv /\ MappedInv /\ OwnConns /\
    [Next]_vars =>
    ReadInv'
<1> SUFFICES ASSUME TypeOK, PlaceInv, LockInv, WholeInv, ReadInv, MappedInv, OwnConns,
                    [Next]_vars
             PROVE  ReadInv'
  OBVIOUS
<1>0. Undisturbed => /\ \A p \in bits : p \in Pages /\ mem[p] # Nothing /\ mem[p] # Part
                     /\ \A p \in Pages : disk[p] # Nothing
                     /\ \A t \in Threads : pc[t] = "copy" => src[t] # Nothing
  BY LoadedFacts
<1> USE <1>0, LoadAssumption DEF TypeOK, PlaceInv, OwnConns, Conn, LockInv, Locking,
        Undisturbed, WholeInv, Loading, HashTable, ReadsFail, ReadInv, ReadsWork,
        Copying, MappedInv
<1>1. CASE UNCHANGED vars
  BY <1>1 DEF vars
<1>2. ASSUME NEW t \in Threads, NEW p \in Pages, Want(t, p), UNCHANGED setup PROVE ReadInv'
  BY <1>2 DEF Want, shared, Stays, Go
<1>3. ASSUME NEW t \in Threads, MapPage(t), UNCHANGED setup PROVE ReadInv'
  BY <1>3 DEF MapPage, shared, Stays, Go
<1>4. ASSUME NEW t \in Threads, CheckBit(t), UNCHANGED setup PROVE ReadInv'
  <2>1. pg[t] \in bits /\ Undisturbed => mem[pg[t]] # Nothing
    OBVIOUS
  <2> QED
    BY <1>4, <2>1 DEF CheckBit, shared, Stays, Go
<1>5. ASSUME NEW t \in Threads, FileLock(t), UNCHANGED setup PROVE ReadInv'
  BY <1>5 DEF FileLock, shared, Stays, Go
<1>6. ASSUME NEW t \in Threads, FileLockInterrupted(t), UNCHANGED setup PROVE ReadInv'
  BY <1>6 DEF FileLockInterrupted, Signals, shared, Stays, Go
<1>7. ASSUME NEW t \in Threads, Recheck(t), UNCHANGED setup PROVE ReadInv'
  BY <1>7 DEF Recheck, Unneeded, shared, Stays, Go
<1>8. ASSUME NEW t \in Threads, Seek(t), UNCHANGED setup PROVE ReadInv'
  BY <1>8 DEF Seek, shared, Stays, Go
<1>9. ASSUME NEW t \in Threads, ReadBegin(t), UNCHANGED setup PROVE ReadInv'
  <2> SUFFICES ASSUME ReadsWork PROVE ReadInv'
    BY <1>9 DEF ReadBegin, shared
  <2> DEFINE w == pg[t]
  <2>1. pc[t] = "read" /\ w \in Pages /\ w \notin bits
    BY <1>9 DEF ReadBegin
  <2>2. mem[w] = Nothing
    <3>1. \A s \in Threads : Copying(s) => s = t
      BY <2>1
    <3> QED
      BY <2>1, <3>1
  <2>3. w \notin dirty
    BY <2>1, <2>2, WholeFacts
  <2>4. mem'[w] = Part /\ \A q \in Pages : q # w => mem'[q] = mem[q]
    BY <1>9, <2>1 DEF ReadBegin
  <2>5. Part # Nothing
    BY DEF Part, Nothing
  <2>6. UNCHANGED <<bits, dirty, pg>>
    BY <1>9 DEF ReadBegin
  <2>7. pc'[t] = "copy" /\ \A s \in Threads : s # t => pc'[s] = pc[s]
    BY <1>9 DEF ReadBegin, Go
  <2>8. \A q \in Pages : mem'[q] # Nothing =>
          q \in bits \/ (\E s \in Threads : Copying(s)' /\ pg[s] = q)
    <3> SUFFICES ASSUME NEW q \in Pages, mem'[q] # Nothing, q # w, q \notin bits
                 PROVE  \E s \in Threads : Copying(s)' /\ pg[s] = q
      BY <2>7
    <3>1. PICK s \in Threads : Copying(s) /\ pg[s] = q
      BY ZenonT(30), <2>4
    <3> QED
      BY <2>1, <2>7, <3>1
  <2>9. \A q \in dirty : mem'[q] \in Whole(q)
    BY <2>3, <2>4
  <2>10. \A s \in Threads : pc'[s] \in {"use", "write"} => mem'[pg[s]] # Nothing
    <3> SUFFICES ASSUME NEW s \in Threads, pc'[s] \in {"use", "write"}
                 PROVE  mem'[pg[s]] # Nothing
      OBVIOUS
    <3>1. mem[pg[s]] # Nothing /\ pg[s] \in Pages
      BY <2>7
    <3> QED
      BY <2>4, <2>5, <3>1
  <2>11. \A s \in Threads : pc'[s] = "unlock" => pg[s] \in bits
    BY <2>7
  <2> QED
    BY <2>6, <2>8, <2>9, <2>10, <2>11
<1>10. ASSUME NEW t \in Threads, ReadEnd(t), UNCHANGED setup PROVE ReadInv'
  <2>1. ReadsWork => src[t] \in Whole(pg[t]) /\ src[t] # Nothing /\ pg[t] \in Pages
    BY <1>10 DEF ReadEnd
  <2>2. \A q \in Pages : q # pg[t] => mem'[q] = mem[q]
    BY <1>10 DEF ReadEnd
  <2>3. ReadsWork => mem'[pg[t]] = src[t]
    BY <1>10, <2>1 DEF ReadEnd
  <2>4. ReadsWork => \A q \in dirty' : mem'[q] \in Whole(q)
    BY <1>10, <2>1, <2>2, <2>3 DEF ReadEnd
  <2>5. ReadsWork =>
          \A q \in Pages : mem'[q] # Nothing =>
            q \in bits' \/ (\E s \in Threads : Copying(s)' /\ pg'[s] = q)
    BY <1>10, <2>1, <2>2, <2>3 DEF ReadEnd, Stays, Go
  <2>6. ReadsWork =>
          \A s \in Threads : (pc'[s] = "unlock" => pg'[s] \in bits') /\
            (pc'[s] \in {"use", "write"} => mem'[pg'[s]] # Nothing)
    BY <1>10, <2>1, <2>2, <2>3 DEF ReadEnd, Stays, Go
  <2> QED
    BY <1>10, <2>4, <2>5, <2>6
<1>11. ASSUME NEW t \in Threads, ReadFails(t), UNCHANGED setup PROVE ReadInv'
  BY <1>11 DEF ReadFails, Unneeded, OnDisk, shared, Stays, Go
<1>12. ASSUME NEW t \in Threads, MarkLoad(t), UNCHANGED setup PROVE ReadInv'
  BY <1>12 DEF MarkLoad, shared, Stays, Go
<1>13. ASSUME NEW t \in Threads, MarkStore(t), UNCHANGED setup PROVE ReadInv'
  BY <1>13 DEF MarkStore, shared, Stays, Go
<1>14. ASSUME NEW t \in Threads, FileUnlock(t), UNCHANGED setup PROVE ReadInv'
  <2>1. pc[t] = "unlock" /\ ReadsWork =>
          pg[t] \in Pages /\ pg[t] \in bits /\ mem[pg[t]] \in Whole(pg[t])
    BY <1>14
  <2>2. pc[t] = "unlock" /\ ReadsWork => mem[pg[t]] # Nothing
    BY <2>1
  <2> QED
    BY <1>14, <2>2 DEF FileUnlock, shared, Stays, Go
<1>15. ASSUME NEW t \in Threads, Use(t), UNCHANGED setup PROVE ReadInv'
  BY <1>15 DEF Use, shared, Stays, Go
<1>16. ASSUME Write, UNCHANGED setup PROVE ReadInv'
  <2>1. Writer \in Threads /\ pg[Writer] \in exists /\ exists \subseteq Pages
    BY <1>16 DEF Write
  <2>2. CASE UNCHANGED <<mem, dirty>>
    BY <1>16, <2>1, <2>2 DEF Write, Stays, Go
  <2>3. CASE Change(pg[Writer])
    <3> DEFINE w == pg[Writer]
    <3>1. w \in Pages
      BY <2>1
    <3>2. ChangedTo(w)
      BY <2>3, <3>1, ChangeFacts
    <3>3. \A q \in Pages : mem[q] \in Whole(q) => mem'[q] \in Whole(q)
      BY <3>2 DEF ChangedTo
    <3>4. UNCHANGED <<bits, pg>>
      BY <1>16 DEF Write, Stays
    <3>5. \A s \in Threads : pc'[s] = pc[s] \/ (s = Writer /\ pc'[s] = "idle" /\ pc[s] = "write")
      BY <1>16 DEF Write, Go
    <3>6. dirty' = dirty \cup {w} /\ mem'[w] \in Whole(w) /\ mem'[w] # Nothing
      BY <3>1, <3>2 DEF ChangedTo
    <3>7. ReadsWork => mem[w] # Nothing
      BY <1>16 DEF Write
    <3>8. \A q \in Pages : q # w => mem'[q] = mem[q]
      BY <3>2 DEF ChangedTo
    <3>9. ReadsWork => \A q \in dirty' : mem'[q] \in Whole(q)
      BY <3>3, <3>6
    <3>10. ReadsWork =>
            \A q \in Pages : mem'[q] # Nothing =>
              q \in bits' \/ (\E s \in Threads : Copying(s)' /\ pg'[s] = q)
      BY <3>4, <3>5, <3>7, <3>8
    <3>11. ReadsWork =>
            \A s \in Threads : (pc'[s] = "unlock" => pg'[s] \in bits') /\
              (pc'[s] \in {"use", "write"} => mem'[pg'[s]] # Nothing)
      <4> SUFFICES ASSUME ReadsWork, NEW s \in Threads
                   PROVE  (pc'[s] = "unlock" => pg'[s] \in bits') /\
                            (pc'[s] \in {"use", "write"} => mem'[pg'[s]] # Nothing)
        OBVIOUS
      <4>1. pc'[s] \in {"use", "write"} => mem[pg[s]] # Nothing /\ pg[s] \in Pages
        BY <3>5
      <4>2. pc'[s] = "unlock" => pg'[s] \in bits'
        BY <3>4, <3>5
      <4>3. ASSUME pc'[s] \in {"use", "write"} PROVE mem'[pg'[s]] # Nothing
        <5>1. CASE pg[s] = w
          BY <3>4, <3>6, <5>1
        <5>2. CASE pg[s] # w
          BY ZenonT(30), <3>4, <3>8, <4>1, <4>3, <5>2
        <5> QED
          BY <5>1, <5>2
      <4> QED
        BY <4>2, <4>3
    <3> QED
      BY <1>16, <3>9, <3>10, <3>11
  <2> QED
    BY <1>16, <2>2, <2>3 DEF Write
<1>17. ASSUME NEW p \in Pages, NewPage(p), UNCHANGED setup PROVE ReadInv'
  BY <1>17 DEF NewPage, shared, Stays, Go
<1>18. ASSUME NewPageMarked, UNCHANGED setup PROVE ReadInv'
  <2>1. Writer \in Threads /\ pg[Writer] \in Pages /\ exists \subseteq Pages
    BY <1>18 DEF NewPageMarked
  <2>2. ChangedTo(pg[Writer])
    BY <1>18, <2>1, ChangeFacts DEF NewPageMarked
  <2> QED
    BY <1>18, <2>1, <2>2 DEF ChangedTo, NewPageMarked, Stays, Go
<1>19. ASSUME NEW p \in Pages, FlushSeek(p), UNCHANGED setup PROVE ReadInv'
  BY <1>19 DEF FlushSeek, shared, Stays, Go
<1>20. ASSUME FlushWrite, UNCHANGED setup PROVE ReadInv'
  BY <1>20 DEF FlushWrite, shared, Stays, Go
<1> QED
  BY <1>1, <1>2, <1>3, <1>4, <1>5, <1>6, <1>7, <1>8, <1>9, <1>10, <1>11, <1>12, <1>13,
     <1>14, <1>15, <1>16, <1>17, <1>18, <1>19, <1>20 DEF Next, Step, Loads, Writes

\* A page of data is used without a look at its bit when its connection has mapped
\* it; the thread that mapped it has loaded it by then.
LEMMA MappedStep ==
  TypeOK /\ PlaceInv /\ LockInv /\ WholeInv /\ ReadInv /\ MappedInv /\ OwnConns /\
    [Next]_vars =>
    MappedInv'
<1> SUFFICES ASSUME TypeOK, PlaceInv, LockInv, WholeInv, ReadInv, MappedInv, OwnConns,
                    [Next]_vars
             PROVE  MappedInv'
  OBVIOUS
<1>0. Undisturbed => /\ \A p \in bits : p \in Pages /\ mem[p] # Nothing /\ mem[p] # Part
                     /\ \A p \in Pages : disk[p] # Nothing
                     /\ \A t \in Threads : pc[t] = "copy" => src[t] # Nothing
  BY LoadedFacts
<1> USE <1>0, LoadAssumption DEF TypeOK, PlaceInv, OwnConns, Conn, LockInv, Locking,
        Undisturbed, WholeInv, Loading, HashTable, ReadsFail, ReadInv, ReadsWork,
        Copying, MappedInv, NULL
<1>1. CASE UNCHANGED vars
  BY <1>1 DEF vars
<1>2. ASSUME NEW t \in Threads, NEW p \in Pages, Want(t, p), UNCHANGED setup PROVE MappedInv'
  BY <1>2 DEF Want, shared, Stays, Go
<1>3. ASSUME NEW t \in Threads, MapPage(t), UNCHANGED setup PROVE MappedInv'
  BY <1>3 DEF MapPage, shared, Stays, Go
<1>4. ASSUME NEW t \in Threads, CheckBit(t), UNCHANGED setup PROVE MappedInv'
  BY <1>4 DEF CheckBit, shared, Stays, Go
<1>5. ASSUME NEW t \in Threads, FileLock(t), UNCHANGED setup PROVE MappedInv'
  BY <1>5 DEF FileLock, shared, Stays, Go
<1>6. ASSUME NEW t \in Threads, FileLockInterrupted(t), UNCHANGED setup PROVE MappedInv'
  BY <1>6 DEF FileLockInterrupted, Signals, shared, Stays, Go
<1>7. ASSUME NEW t \in Threads, Recheck(t), UNCHANGED setup PROVE MappedInv'
  BY <1>7 DEF Recheck, Unneeded, shared, Stays, Go
<1>8. ASSUME NEW t \in Threads, Seek(t), UNCHANGED setup PROVE MappedInv'
  BY <1>8 DEF Seek, shared, Stays, Go
<1>9. ASSUME NEW t \in Threads, ReadBegin(t), UNCHANGED setup PROVE MappedInv'
  BY <1>9 DEF ReadBegin, OnDisk, shared, Stays, Go
<1>10. ASSUME NEW t \in Threads, ReadEnd(t), UNCHANGED setup PROVE MappedInv'
  BY <1>10 DEF ReadEnd, shared, Stays, Go
<1>11. ASSUME NEW t \in Threads, ReadFails(t), UNCHANGED setup PROVE MappedInv'
  BY <1>11 DEF ReadFails, Unneeded, OnDisk, shared, Stays, Go
<1>12. ASSUME NEW t \in Threads, MarkLoad(t), UNCHANGED setup PROVE MappedInv'
  BY <1>12 DEF MarkLoad, shared, Stays, Go
<1>13. ASSUME NEW t \in Threads, MarkStore(t), UNCHANGED setup PROVE MappedInv'
  BY <1>13 DEF MarkStore, shared, Stays, Go
<1>14. ASSUME NEW t \in Threads, FileUnlock(t), UNCHANGED setup PROVE MappedInv'
  <2>1. UNCHANGED <<bits, pg, mapped, mem>>
    BY <1>14 DEF FileUnlock, shared
  <2>2. setup = "data" => pg[t] \in bits
    BY <1>14 DEF FileUnlock
  <2>3. \A s \in Threads : s # t => pc'[s] = pc[s] /\ got'[s] = got[s]
    BY <1>14 DEF FileUnlock, Go
  <2>4. pc'[t] \in {"use", "idle"} /\ got'[t] \in {got[t], NULL}
    BY <1>14 DEF FileUnlock, Go
  <2>5. NULL # Nothing /\ NULL # Part
    BY DEF Nothing, Part
  <2> QED
    BY <1>14, <2>1, <2>2, <2>3, <2>4, <2>5
<1>15. ASSUME NEW t \in Threads, Use(t), UNCHANGED setup PROVE MappedInv'
  <2>1. setup = "data" => mem[pg[t]] \notin {Nothing, Part}
    BY <1>15 DEF Use
  <2> QED
    BY <1>15, <2>1 DEF Use, shared, Stays, Go
<1>16. ASSUME Write, UNCHANGED setup PROVE MappedInv'
  <2>1. Writer \in Threads /\ pg[Writer] \in exists /\ exists \subseteq Pages
    BY <1>16 DEF Write
  <2>2. CASE UNCHANGED <<mem, dirty>>
    BY <1>16, <2>1, <2>2 DEF Write, Stays, Go
  <2>3. CASE Change(pg[Writer])
    <3> DEFINE w == pg[Writer]
    <3>1. w \in Pages
      BY <2>1
    <3>2. ChangedTo(w)
      BY <2>3, <3>1, ChangeFacts
    <3>3. \A q \in Pages : mem[q] \in Whole(q) => mem'[q] \in Whole(q)
      BY <3>2 DEF ChangedTo
    <3>4. UNCHANGED <<bits, pg, mapped, got>>
      BY <1>16 DEF Write, Stays
    <3>5. \A s \in Threads : pc'[s] = pc[s] \/ (s = Writer /\ pc'[s] = "idle" /\ pc[s] = "write")
      BY <1>16 DEF Write, Go
    <3>6. setup = "data" => w \in bits
      BY <1>16 DEF Write
    <3>7. setup = "data" =>
            \A s \in Threads : pc[s] = "copy" => mem'[pg[s]] = mem[pg[s]]
      <4> SUFFICES ASSUME setup = "data", NEW s \in Threads, pc[s] = "copy"
                   PROVE  mem'[pg[s]] = mem[pg[s]]
        OBVIOUS
      <4>1. pg[s] \in Pages /\ pg[s] \notin bits
        OBVIOUS
      <4> QED
        BY <3>2, <3>6, <4>1 DEF ChangedTo
    <3> HIDE DEF w
    <3> QED
      BY <1>16, <3>4, <3>5, <3>7
  <2> QED
    BY <1>16, <2>2, <2>3 DEF Write
<1>17. ASSUME NEW p \in Pages, NewPage(p), UNCHANGED setup PROVE MappedInv'
  BY <1>17 DEF NewPage, shared, Stays, Go
<1>18. ASSUME NewPageMarked, UNCHANGED setup PROVE MappedInv'
  <2>1. Writer \in Threads /\ pg[Writer] \in Pages /\ exists \subseteq Pages
    BY <1>18 DEF NewPageMarked
  <2>2. ChangedTo(pg[Writer])
    BY <1>18, <2>1, ChangeFacts DEF NewPageMarked
  <2> QED
    BY <1>18, <2>1, <2>2 DEF ChangedTo, NewPageMarked, Stays, Go
<1>19. ASSUME NEW p \in Pages, FlushSeek(p), UNCHANGED setup PROVE MappedInv'
  BY <1>19 DEF FlushSeek, shared, Stays, Go
<1>20. ASSUME FlushWrite, UNCHANGED setup PROVE MappedInv'
  BY <1>20 DEF FlushWrite, shared, Stays, Go
<1> QED
  BY <1>1, <1>2, <1>3, <1>4, <1>5, <1>6, <1>7, <1>8, <1>9, <1>10, <1>11, <1>12, <1>13,
     <1>14, <1>15, <1>16, <1>17, <1>18, <1>19, <1>20 DEF Next, Step, Loads, Writes

\* Where every page of data can be read, no step puts an older page, or none, in
\* the place of one that is there.
LEMMA OlderStep ==
  LoadInv /\ OwnConns /\ [Next]_vars =>
    [\A p \in Pages :
       setup = "data" /\ mem[p] \in Contents =>
         /\ mem'[p] \in Contents
         /\ mem'[p][2] >= mem[p][2]]_vars
<1> SUFFICES ASSUME LoadInv, OwnConns, Next, NEW p \in Pages, setup = "data", mem[p] \in Contents
             PROVE  mem'[p] \in Contents /\ mem'[p][2] >= mem[p][2]
  BY DEF vars
<1>1. TypeOK /\ PlaceInv /\ LockInv /\ WholeInv /\ ReadInv /\ MappedInv
  BY DEF LoadInv
<1>2. Nothing \notin Contents /\ Part \notin Contents
  BY LoadAssumption DEF Contents, Nothing, Part
<1>3. mem[p][2] \in Nat
  BY DEF Contents
<1>4. CASE UNCHANGED mem
  BY <1>3, <1>4
<1>5. ASSUME NEW t \in Threads, ReadBegin(t) PROVE p # pg[t]
  <2>1. pc[t] = "read" /\ pg[t] \in Pages /\ pg[t] \notin bits
    BY <1>1, <1>5 DEF ReadBegin, PlaceInv, WholeInv, Undisturbed, Loading
  <2>2. \A s \in Threads : Copying(s) => s = t
    BY <1>1, <2>1 DEF LockInv, Undisturbed, Locking, Copying, OwnConns, Conn
  <2>3. mem[pg[t]] = Nothing
    BY <1>1, <2>1, <2>2 DEF ReadInv, ReadsWork, Copying
  <2> QED
    BY <1>2, <2>3
<1>6. ASSUME NEW t \in Threads, ReadEnd(t) PROVE p # pg[t]
  BY <1>1, <1>2, <1>6 DEF ReadEnd, MappedInv
<1>7. ASSUME NEW w \in Pages, Change(w), w \in bits
      PROVE  mem'[p] \in Contents /\ mem'[p][2] >= mem[p][2]
  <2>1. ChangedTo(w)
    BY <1>1, <1>7, ChangeFacts
  <2>2. mem[w] \in Whole(w)
    BY <1>1, <1>7 DEF WholeInv, Undisturbed
  <2>3. mem'[w] \in Contents
    BY <2>1, WholeFacts DEF ChangedTo
  <2> QED
    BY <1>3, <2>1, <2>2, <2>3 DEF ChangedTo
<1>8. CASE \E t \in Threads : ReadBegin(t) \/ ReadEnd(t)
  <2>1. PICK t \in Threads : ReadBegin(t) \/ ReadEnd(t)
    BY <1>8
  <2>2. p # pg[t]
    BY <1>5, <1>6, <2>1
  <2>3. mem'[p] = mem[p]
    BY <1>1, <2>1, <2>2 DEF ReadBegin, ReadEnd, TypeOK
  <2> QED
    BY <1>3, <2>3
<1>9. CASE Write
  BY <1>1, <1>4, <1>7, <1>9, LoadAssumption DEF Write, MappedInv, PlaceInv
<1>10. ~NewPageMarked
  BY <1>1, LoadAssumption DEF NewPageMarked, LockInv, Undisturbed
<1>11. Next =>
        UNCHANGED mem \/ Write \/ NewPageMarked \/ \E t \in Threads : ReadBegin(t) \/ ReadEnd(t)
  BY DEF Next, Step, Loads, Writes, Want, MapPage, CheckBit, FileLock,
     FileLockInterrupted,
         Recheck, Seek, ReadFails, MarkLoad, MarkStore, FileUnlock, Use, NewPage, FlushSeek,
         FlushWrite, shared
<1> QED
  BY <1>4, <1>8, <1>9, <1>10, <1>11

\* A set that was just linked: nothing is in memory.
LEMMA LoadInit == Init => LoadInv
<1> SUFFICES ASSUME Init PROVE LoadInv
  OBVIOUS
<1> USE LoadAssumption DEF Init
<1>1. setup # "grow" => \A p \in Pages : disk[p] = <<p, 0>> /\ <<p, 0>> \in Whole(p)
  BY DEF Whole
<1>2. TypeOK
  <2>1. disk \in [Pages -> Contents \cup {Nothing, Part}]
    BY DEF Contents
  <2> QED
    BY <2>1 DEF TypeOK, Places, Conn
<1>3. PlaceInv /\ LockInv /\ FailsInv
  BY DEF PlaceInv, LockInv, FailsInv, Undisturbed, Locking
<1>4. WholeInv
  BY <1>1 DEF WholeInv, Undisturbed, Loading
<1>5. ReadInv
  BY DEF ReadInv, Copying
<1>6. NULL # Nothing /\ NULL # Part
  BY DEF NULL, Nothing, Part
<1>7. MappedInv
  BY <1>6 DEF MappedInv, Conn
<1> QED
  BY <1>2, <1>3, <1>4, <1>5, <1>7 DEF LoadInv

\* The parts of the invariant carry each other over every step.
LEMMA LoadStep == LoadInv /\ OwnConns /\ [Next]_vars => LoadInv'
BY TypeStep, PlaceStep, LockStep, WholeStep, FailsStep, ReadStep, MappedStep DEF LoadInv

\* Every reachable state keeps the invariant.
LEMMA InvariantHolds == ASSUME OwnConns PROVE Spec => []LoadInv
BY OwnConns, LoadInit, LoadStep, PTL DEF Spec

\* _load_page and _load_hashtable_entry: a page with its bit is the page itself,
\* and cp_flush writes each page to its place, however many processes load at once.
THEOREM PagesInPlaceHolds == ASSUME OwnConns PROVE Spec => []PagesInPlace
<1>1. LoadInv => PagesInPlace
  BY DEF LoadInv, TypeOK, WholeInv, Undisturbed, Whole, PagesInPlace, LoadedSound,
     RightPlace
<1> QED
  BY <1>1, OwnConns, InvariantHolds, PTL

\* _load_page: nobody follows a pointer to a page of data that is still empty or
\* being copied.
THEOREM SeesLoadedHolds == ASSUME OwnConns PROVE Spec => []SeesLoaded
<1>1. LoadInv => SeesLoaded
  BY DEF LoadInv, MappedInv, SeesLoaded
<1> QED
  BY <1>1, OwnConns, InvariantHolds, PTL

\* The second look at the bit, under the flock: no load reads a page of data over
\* what the writer has made of it.
THEOREM NeverOlderHolds == ASSUME OwnConns PROVE Spec => NeverOlder
BY OwnConns, InvariantHolds, OlderStep, PTL DEF Spec, NeverOlder

-----------------------------------------------------------------------------
(* Key headers.  Every hole is one of the longest runs of headers that are  *)
(* cut from the zone and not in use, and the lists have those: what an      *)
(* operation does to the runs and what it does to the lists are two lemmas, *)
(* and HeadInv says that both are about the same holes.                     *)

\* What `%' and `\div' have to do with each other.
LEMMA ModFacts ==
  ASSUME NEW L \in Nat \ {0}, NEW x \in Nat
  PROVE  /\ x % L \in 0 .. L - 1 /\ x \div L \in Nat
         /\ x = (x \div L) * L + (x % L)
<1>1. x % L \in 0 .. L - 1 /\ x \div L \in Nat
  OBVIOUS
<1>2. x = (x \div L) * L + (x % L)
  BY Z3
<1> QED
  BY <1>1, <1>2

\* A product grows with its factors.
LEMMA Mono == \A a, b, c \in Nat : a <= b => a * c <= b * c
OBVIOUS

\* A remainder is known by any quotient that leaves it.
LEMMA ModUnique ==
  ASSUME NEW L \in Nat \ {0}, NEW k \in Nat, NEW r \in 0 .. L - 1
  PROVE  (k * L + r) % L = r
<1> DEFINE x == k * L + r
<1>0. x \in Nat 
  OBVIOUS
<1> DEFINE q == x \div L
          s == x % L
<1>1. q \in Nat /\ s \in 0 .. L - 1 /\ x = q * L + s
  BY <1>0, ModFacts
<1> HIDE DEF q, s
<1>2. CASE q < k
  <2>1. (q + 1) * L <= k * L
    BY <1>1, <1>2, Mono
  <2>2. (q + 1) * L = q * L + L
    BY <1>1
  <2> QED
    BY <1>1, <2>1, <2>2
<1>3. CASE k < q
  <2>1. (k + 1) * L <= q * L
    BY <1>1, <1>3, Mono
  <2>2. (k + 1) * L = k * L + L
    BY <1>1
  <2> QED
    BY <1>1, <2>1, <2>2
<1>4. CASE k = q
  BY <1>1, <1>4
<1> QED
  BY <1>1, <1>2, <1>3, <1>4 DEF s

\* The sizes are numbers, and a block has two headers or more.
LEMMA KHSizes ==
  /\ BlockLen \in Nat /\ BlockLen >= 2 /\ PageBlocks \in Nat /\ PageBlocks >= 1 /\ HeaderPages \in Nat
  /\ H!PageLen \in Nat /\ H!PageLen >= BlockLen
BY MemoryAssumption DEF H!SizesFit, H!PageLen

\* The place of a header in its block.
LEMMA BlockFacts ==
  ASSUME NEW h \in Nat
  PROVE  /\ H!NumOf(h) \in 0 .. BlockLen - 1 /\ H!BlockOf(h) \in Nat
         /\ h = H!BlockOf(h) + H!NumOf(h) /\ H!NumOf(H!BlockOf(h)) = 0
<1> DEFINE k == h \div BlockLen
<1>0. BlockLen \in Nat \ {0} /\ 0 \in 0 .. BlockLen - 1
  BY KHSizes
<1>1. /\ H!NumOf(h) \in 0 .. BlockLen - 1 /\ k \in Nat
      /\ h = k * BlockLen + H!NumOf(h)
  BY <1>0, ModFacts, Zenon DEF H!NumOf
<1> HIDE DEF k
<1>2. H!BlockOf(h) = k * BlockLen + 0
  BY <1>1, KHSizes DEF H!BlockOf, H!NumOf
<1>3. H!NumOf(k * BlockLen + 0) = 0
  BY <1>0, <1>1, ModUnique, Zenon DEF H!NumOf
<1> QED
  BY <1>1, <1>2, <1>3, KHSizes

\* The headers of a block, from where it begins.
LEMMA InBlock ==
  ASSUME NEW b \in Nat, H!NumOf(b) = 0, NEW i \in 0 .. BlockLen - 1
  PROVE  H!NumOf(b + i) = i /\ H!BlockOf(b + i) = b
<1> DEFINE k == b \div BlockLen
<1>1. k \in Nat /\ b = k * BlockLen
  BY KHSizes, ModFacts DEF H!NumOf
<1> HIDE DEF k
<1>2. H!NumOf(b + i) = i
  BY <1>1, KHSizes, ModUnique DEF H!NumOf
<1> QED
  BY <1>2 DEF H!BlockOf, H!NumOf

\* Blocks do not overlap.
LEMMA BlocksApart ==
  ASSUME NEW b \in Nat, NEW c \in Nat, H!NumOf(b) = 0, H!NumOf(c) = 0, b < c
  PROVE  b + BlockLen <= c /\ H!NumOf(b + BlockLen) = 0
<1> DEFINE k == b \div BlockLen
           j == c \div BlockLen
<1>1. k \in Nat /\ b = k * BlockLen /\ j \in Nat /\ c = j * BlockLen
  BY KHSizes, ModFacts DEF H!NumOf
<1> HIDE DEF k, j
<1>2. k < j
  <2>1. j <= k => j * BlockLen <= k * BlockLen
    BY <1>1, KHSizes, Mono
  <2> QED
    BY <1>1, <2>1, KHSizes
<1>3. (k + 1) * BlockLen <= j * BlockLen
  BY <1>1, <1>2, KHSizes, Mono
<1>4. (k + 1) * BlockLen = b + BlockLen
  BY <1>1, KHSizes
<1>5. H!NumOf((k + 1) * BlockLen + 0) = 0
  BY <1>1, KHSizes, ModUnique DEF H!NumOf
<1> QED
  BY <1>1, <1>3, <1>4, <1>5, KHSizes

\* The members of S in the order of a list without a repetition.
InOrder(L, k, S) ==
  /\ \A i \in 1 .. k : L[i] \in S
  /\ \A i, j \in 1 .. k : L[i] = L[j] => i = j
  /\ \A x \in S : \E i \in 1 .. k : L[i] = x

\* The links of a list of k members that begins at first.
Chained(L, k, first, next, prev) ==
  /\ first = IF k = 0 THEN H!Zero ELSE L[1]
  /\ \A i \in 1 .. k : next[L[i]] = IF i = k THEN H!Zero ELSE L[i + 1]
  /\ \A i \in 2 .. k : prev[L[i]] = L[i - 1]

\* The doubly linked list from first on has the members of S.
Listed(first, next, prev, S) ==
  \E k \in Nat, L \in Seq(S) : Len(L) = k /\ InOrder(L, k, S) /\ Chained(L, k, first, next, prev)

\* A function of the places is a list.
LEMMA MakeList ==
  ASSUME NEW k \in Nat, NEW f, NEW S, \A i \in 1 .. k : f[i] \in S
  PROVE  LET L == [i \in 1 .. k |-> f[i]] IN L \in Seq(S) /\ Len(L) = k /\ \A i \in 1 .. k : L[i] = f[i]
OBVIOUS

\* What can be said of a list without its order.
LEMMA ListFirst ==
  ASSUME NEW first, NEW next, NEW prev, NEW S, H!Zero \notin S, Listed(first, next, prev, S)
  PROVE  /\ first = H!Zero <=> S = {}
         /\ first # H!Zero => first \in S
         /\ \A h \in S : next[h] # H!Zero => next[h] \in S /\ next[h] # h /\ prev[next[h]] = h
         /\ \A h \in S : h # first => prev[h] \in S /\ prev[h] # h /\ next[prev[h]] = h
<1> PICK k \in Nat, L \in Seq(S) : Len(L) = k /\ InOrder(L, k, S) /\ Chained(L, k, first, next, prev)
  BY DEF Listed
<1>1. first = H!Zero <=> S = {}
  BY DEF InOrder, Chained
<1>2. first # H!Zero => first \in S
  BY DEF InOrder, Chained
<1>3. ASSUME NEW h \in S, next[h] # H!Zero PROVE next[h] \in S /\ next[h] # h /\ prev[next[h]] = h
  <2> PICK i \in 1 .. k : L[i] = h
    BY DEF InOrder
  <2>1. i # k /\ i + 1 \in 2 .. k /\ i + 1 \in 1 .. k /\ next[h] = L[i + 1]
    BY <1>3 DEF Chained
  <2>2. prev[L[i + 1]] = L[i]
    BY <2>1 DEF Chained
  <2> QED
    BY <2>1, <2>2 DEF InOrder
<1>4. ASSUME NEW h \in S, h # first PROVE prev[h] \in S /\ prev[h] # h /\ next[prev[h]] = h
  <2> PICK i \in 1 .. k : L[i] = h
    BY DEF InOrder
  <2>1. i # 1 /\ i \in 2 .. k /\ i - 1 \in 1 .. k
    BY <1>4 DEF Chained
  <2>2. prev[L[i]] = L[i - 1]
    BY <2>1 DEF Chained
  <2>3. next[L[i - 1]] = L[i]
    BY <2>1 DEF Chained
  <2> QED
    BY <2>1, <2>2, <2>3 DEF InOrder
<1> QED
  BY <1>1, <1>2, <1>3, <1>4

\* Links that are not its own do not matter to a list.
LEMMA ListFrame ==
  ASSUME NEW first, NEW next, NEW prev, NEW S, NEW next2, NEW prev2,
         Listed(first, next, prev, S), \A x \in S : next2[x] = next[x] /\ (x # first => prev2[x] = prev[x])
  PROVE  Listed(first, next2, prev2, S)
<1> PICK k \in Nat, L \in Seq(S) : Len(L) = k /\ InOrder(L, k, S) /\ Chained(L, k, first, next, prev)
  BY DEF Listed
<1>1. \A i \in 2 .. k : L[i] # first
  BY DEF InOrder, Chained
<1>2. ASSUME NEW i \in 1 .. k PROVE next2[L[i]] = next[L[i]] /\ (i \in 2 .. k => prev2[L[i]] = prev[L[i]])
  BY <1>1 DEF InOrder
<1>3. Chained(L, k, first, next2, prev2)
  <2>1. \A i \in 1 .. k : next2[L[i]] = IF i = k THEN H!Zero ELSE L[i + 1]
    BY <1>2 DEF Chained
  <2>2. \A i \in 2 .. k : prev2[L[i]] = L[i - 1]
    BY <1>2 DEF Chained
  <2> QED
    BY <2>1, <2>2 DEF Chained
<1> QED
  BY <1>3 DEF Listed

\* A new member in front.
LEMMA ListPush ==
  ASSUME NEW first, NEW next, NEW prev, NEW S, NEW h, NEW next2, NEW prev2,
         Listed(first, next, prev, S), h \notin S, h # H!Zero, H!Zero \notin S,
         next2[h] = first, \A x \in S : next2[x] = next[x],
         \A x \in S : prev2[x] = IF x = first THEN h ELSE prev[x]
  PROVE  Listed(h, next2, prev2, S \cup {h})
<1> PICK k \in Nat, L \in Seq(S) : Len(L) = k /\ InOrder(L, k, S) /\ Chained(L, k, first, next, prev)
  BY DEF Listed
<1> DEFINE f == [i \in 1 .. k + 1 |-> IF i = 1 THEN h ELSE L[i - 1]]
           T == S \cup {h}
<1>1. \A i \in 1 .. k + 1 : f[i] \in T
  BY DEF InOrder
<1>2. f \in Seq(T) /\ Len(f) = k + 1
  BY <1>1
<1>3. InOrder(f, k + 1, T)
  <2>1. ASSUME NEW i \in 1 .. k + 1, NEW j \in 1 .. k + 1, f[i] = f[j] PROVE i = j
    BY <2>1 DEF InOrder
  <2>2. ASSUME NEW x \in S PROVE \E i \in 1 .. k + 1 : f[i] = x
    <3> PICK i \in 1 .. k : L[i] = x
      BY DEF InOrder
    <3> QED
      BY i + 1 \in 1 .. k + 1, f[i + 1] = x
  <2>3. f[1] = h /\ 1 \in 1 .. k + 1
    OBVIOUS
  <2> QED
    BY <1>1, <2>1, <2>2, <2>3 DEF InOrder
<1>4. Chained(f, k + 1, h, next2, prev2)
  <2>1. ASSUME NEW i \in 1 .. k + 1 PROVE next2[f[i]] = IF i = k + 1 THEN H!Zero ELSE f[i + 1]
    <3>1. CASE i = 1
      BY <3>1 DEF Chained
    <3>2. CASE i # 1
      <4>1. i - 1 \in 1 .. k /\ f[i] = L[i - 1] /\ L[i - 1] \in S
        BY <3>2 DEF InOrder
      <4>2. next2[f[i]] = IF i - 1 = k THEN H!Zero ELSE L[(i - 1) + 1]
        BY <4>1 DEF Chained
      <4> QED
        BY <3>2, <4>2
    <3> QED
      BY <3>1, <3>2
  <2>2. ASSUME NEW i \in 2 .. k + 1 PROVE prev2[f[i]] = f[i - 1]
    <3>1. CASE i = 2
      BY <3>1 DEF Chained, InOrder
    <3>2. CASE i # 2
      <4>1. i - 1 \in 2 .. k /\ i - 1 \in 1 .. k /\ 1 \in 1 .. k /\ f[i] = L[i - 1] /\ L[i - 1] \in S
        BY <3>2 DEF InOrder
      <4>2. L[i - 1] # first
        BY <4>1 DEF InOrder, Chained
      <4>3. prev2[f[i]] = L[i - 2]
        BY <4>1, <4>2 DEF Chained
      <4> QED
        BY <3>2, <4>3
    <3> QED
      BY <3>1, <3>2
  <2>3. f[1] = h /\ k + 1 # 0
    OBVIOUS
  <2> HIDE DEF f
  <2> QED
    BY <2>1, <2>2, <2>3 DEF Chained
<1> HIDE DEF f
<1> QED
  BY <1>2, <1>3, <1>4 DEF Listed

\* A member leaves, from the front or from the middle.
LEMMA ListDrop ==
  ASSUME NEW first, NEW next, NEW prev, NEW S, NEW h \in S, NEW next2, NEW prev2,
         Listed(first, next, prev, S), H!Zero \notin S,
         \A x \in S \ {h} : next2[x] = IF h # first /\ x = prev[h] THEN next[h] ELSE next[x],
         \A x \in S \ {h} : h # first => prev2[x] = IF x = next[h] THEN prev[h] ELSE prev[x],
         h = first => \A x \in S \ {h} : x # next[h] => prev2[x] = prev[x]
  PROVE  Listed(IF h = first THEN next[h] ELSE first, next2, prev2, S \ {h})
<1> PICK k \in Nat, L \in Seq(S) : Len(L) = k /\ InOrder(L, k, S) /\ Chained(L, k, first, next, prev)
  BY DEF Listed
<1> PICK d \in 1 .. k : L[d] = h
  BY DEF InOrder
<1> DEFINE f == [i \in 1 .. k - 1 |-> IF i < d THEN L[i] ELSE L[i + 1]]
           T == S \ {h}
           g == IF h = first THEN next[h] ELSE first
<1>0. k - 1 \in Nat /\ (h = first <=> d = 1)
  BY DEF InOrder, Chained
<1>1. \A i \in 1 .. k - 1 : f[i] \in T
  BY DEF InOrder
<1>2. f \in Seq(T) /\ Len(f) = k - 1
  BY <1>0, <1>1
<1>3. InOrder(f, k - 1, T)
  <2>1. ASSUME NEW i \in 1 .. k - 1, NEW j \in 1 .. k - 1, f[i] = f[j] PROVE i = j
    BY <2>1 DEF InOrder
  <2>2. ASSUME NEW x \in T PROVE \E i \in 1 .. k - 1 : f[i] = x
    <3> PICK i \in 1 .. k : L[i] = x
      BY DEF InOrder
    <3>1. i # d
      OBVIOUS
    <3>2. CASE i < d
      BY <3>2, i \in 1 .. k - 1, f[i] = x
    <3>3. CASE i > d
      BY <3>3, i - 1 \in 1 .. k - 1, f[i - 1] = x
    <3> QED
      BY <3>1, <3>2, <3>3
  <2> QED
    BY <1>1, <2>1, <2>2 DEF InOrder
<1>4. g = IF k - 1 = 0 THEN H!Zero ELSE f[1]
  <2>1. CASE d = 1
    <3>1. next[L[1]] = IF 1 = k THEN H!Zero ELSE L[1 + 1]
      BY <2>1 DEF Chained
    <3>2. g = next[L[1]]
      BY <1>0, <2>1
    <3>3. k - 1 # 0 => f[1] = L[1 + 1]
      BY <2>1
    <3> QED
      BY <3>1, <3>2, <3>3
  <2>2. CASE d # 1
    BY <1>0, <2>2 DEF Chained
  <2> QED
    BY <2>1, <2>2
<1>5. ASSUME NEW i \in 1 .. k - 1 PROVE next2[f[i]] = IF i = k - 1 THEN H!Zero ELSE f[i + 1]
  <2>1. CASE i + 1 = d
    <3>1. prev[h] = L[i] /\ f[i] = L[i] /\ h # first /\ i \in 1 .. k
      BY <1>0, <2>1 DEF Chained
    <3>2. next2[f[i]] = next[h]
      BY <1>1, <3>1
    <3>3. next[h] = IF d = k THEN H!Zero ELSE L[d + 1]
      BY DEF Chained
    <3> QED
      BY <2>1, <3>2, <3>3
  <2>2. CASE i + 1 # d
    <3> DEFINE j == IF i < d THEN i ELSE i + 1
    <3>1. j \in 1 .. k /\ f[i] = L[j] /\ j # d /\ j + 1 # d
      BY <2>2
    <3>2. h # first => prev[h] # L[j]
      <4> SUFFICES ASSUME h # first PROVE prev[h] # L[j]
        OBVIOUS
      <4>1. d - 1 \in 1 .. k /\ d - 1 # j /\ prev[h] = L[d - 1]
        BY <1>0, <3>1 DEF Chained
      <4> QED
        BY <3>1, <4>1 DEF InOrder
    <3>3. next2[f[i]] = next[L[j]]
      BY <1>1, <3>1, <3>2
    <3>4. next[L[j]] = IF j = k THEN H!Zero ELSE L[j + 1]
      BY <3>1 DEF Chained
    <3>5. CASE i < d
      BY <2>2, <3>3, <3>4, <3>5
    <3>6. CASE ~(i < d)
      BY <2>2, <3>3, <3>4, <3>6
    <3> QED
      BY <3>5, <3>6
  <2> QED
    BY <2>1, <2>2
<1>6. ASSUME NEW i \in 2 .. k - 1 PROVE prev2[f[i]] = f[i - 1]
  <2>1. CASE i = d
    <3>1. f[i] = L[d + 1] /\ f[i - 1] = L[d - 1] /\ d # k
      BY <2>1
    <3>2. prev[h] = L[d - 1] /\ next[h] = L[d + 1] /\ h # first
      BY <1>0, <2>1, <3>1 DEF Chained
    <3> QED
      BY <1>1, <3>1, <3>2
  <2>2. CASE i # d
    <3> DEFINE j == IF i < d THEN i ELSE i + 1
    <3>1. j \in 2 .. k /\ f[i] = L[j] /\ f[i - 1] = L[j - 1] /\ j # d /\ (j - 1 # d \/ d = 1)
      BY <2>2
    <3>2. j - 1 # d
      BY <2>2
    <3>3. next[h] # L[j]
      <4>1. next[h] = IF d = k THEN H!Zero ELSE L[d + 1]
        BY DEF Chained
      <4>2. L[j] # H!Zero /\ j \in 1 .. k
        BY <3>1 DEF InOrder
      <4>3. d # k => L[d + 1] # L[j]
        BY <3>1, <3>2, <4>2 DEF InOrder
      <4> QED
        BY <4>1, <4>2, <4>3
    <3>4. prev2[f[i]] = prev[L[j]]
      BY <1>1, <3>1, <3>3
    <3> QED
      BY <3>1, <3>4 DEF Chained
  <2> QED
    BY <2>1, <2>2
<1>7. Chained(f, k - 1, g, next2, prev2)
  <2> HIDE DEF f, g
  <2> QED
    BY <1>4, <1>5, <1>6 DEF Chained
<1> HIDE DEF f
<1> QED
  BY <1>0, <1>2, <1>3, <1>7 DEF Listed

\* A longest run of members of F inside a block.
MaxRun(F, h, n) ==
  /\ \A x \in H!Run(h, n) : x \in F
  /\ \A x \in h + 1 .. h + n - 1 : H!NumOf(x) # 0
  /\ H!NumOf(h) = 0 \/ h - 1 \notin F
  /\ H!NumOf(h + n) = 0 \/ h + n \notin F

\* All the longest runs of F.
MaxRuns(F) == {r \in Nat \X (Nat \ {0}) : MaxRun(F, r[1], r[2])}

\* What a pair in MaxRuns is.
LEMMA MaxRunsMember ==
  ASSUME NEW F, NEW h, NEW n
  PROVE  <<h, n>> \in MaxRuns(F) <=> h \in Nat /\ n \in Nat \ {0} /\ MaxRun(F, h, n)
BY DEF MaxRuns

\* Two of them that share a member are the same.
LEMMA RunsMeet ==
  ASSUME NEW F, NEW h \in Nat, NEW n \in Nat \ {0}, NEW g \in Nat, NEW k \in Nat \ {0},
         MaxRun(F, h, n), MaxRun(F, g, k), NEW x \in Nat, x \in H!Run(h, n), x \in H!Run(g, k)
  PROVE  h = g /\ n = k
<1>1. ~(h < g)
  <2> SUFFICES ASSUME h < g PROVE FALSE
    OBVIOUS
  <2>1. g \in h + 1 .. h + n - 1 /\ g - 1 \in H!Run(h, n)
    BY DEF H!Run
  <2> QED
    BY <2>1 DEF MaxRun
<1>2. ~(g < h)
  <2> SUFFICES ASSUME g < h PROVE FALSE
    OBVIOUS
  <2>1. h \in g + 1 .. g + k - 1 /\ h - 1 \in H!Run(g, k)
    BY DEF H!Run
  <2> QED
    BY <2>1 DEF MaxRun
<1>3. h = g
  BY <1>1, <1>2
<1>4. ~(n < k)
  <2> SUFFICES ASSUME n < k PROVE FALSE
    OBVIOUS
  <2>1. h + n \in g + 1 .. g + k - 1 /\ h + n \in H!Run(g, k)
    BY <1>3 DEF H!Run
  <2> QED
    BY <2>1 DEF MaxRun
<1>5. ~(k < n)
  <2> SUFFICES ASSUME k < n PROVE FALSE
    OBVIOUS
  <2>1. g + k \in h + 1 .. h + n - 1 /\ g + k \in H!Run(h, n)
    BY <1>3 DEF H!Run
  <2> QED
    BY <2>1 DEF MaxRun
<1> QED
  BY <1>3, <1>4, <1>5

\* The runs M when the n members from a on are taken out of the k from h on.
CutOut(M, h, k, a, n) ==
  ((M \ {<<h, k>>}) \cup (IF a = h THEN {} ELSE {<<h, a - h>>}))
    \cup (IF a + n = h + k THEN {} ELSE {<<a + n, h + k - (a + n)>>})

\* A part of a run is taken.
LEMMA CutRun ==
  ASSUME NEW F \in SUBSET Nat, NEW h \in Nat, NEW k \in Nat \ {0}, MaxRun(F, h, k),
         NEW a \in Nat, NEW n \in Nat \ {0}, h <= a, a + n <= h + k
  PROVE  MaxRuns(F \ H!Run(a, n)) = CutOut(MaxRuns(F), h, k, a, n)
<1> DEFINE E == F \ H!Run(a, n)
<1>1. ASSUME NEW g \in Nat, NEW j \in Nat \ {0}, MaxRun(E, g, j)
      PROVE  \/ MaxRun(F, g, j) /\ <<g, j>> # <<h, k>>
             \/ a # h /\ g = h /\ j = a - h
             \/ a + n # h + k /\ g = a + n /\ j = h + k - (a + n)
  <2>1. CASE \E x \in H!Run(g, j) : x \in H!Run(h, k)
    <3> PICK x \in H!Run(g, j) : x \in H!Run(h, k)
      BY <2>1
    <3>0. x \in Nat /\ g <= x /\ x < g + j /\ h <= x /\ x < h + k
      BY DEF H!Run
    <3>1. \A y \in H!Run(g, j) : y \in F /\ ~(a <= y /\ y < a + n)
      BY <1>1 DEF MaxRun, H!Run
    <3>2. \A y \in h + 1 .. h + k - 1 : H!NumOf(y) # 0
      BY DEF MaxRun
    <3>3. ~(g < h)
      <4> SUFFICES ASSUME g < h PROVE FALSE
        OBVIOUS
      <4>1. h \in g + 1 .. g + j - 1 /\ h - 1 \in H!Run(g, j)
        BY <3>0 DEF H!Run
      <4> QED
        BY <1>1, <3>1, <4>1 DEF MaxRun
    <3>4. ~(g + j > h + k)
      <4> SUFFICES ASSUME g + j > h + k PROVE FALSE
        OBVIOUS
      <4>1. h + k \in g + 1 .. g + j - 1 /\ h + k \in H!Run(g, j)
        BY <3>0 DEF H!Run
      <4> QED
        BY <1>1, <3>1, <4>1 DEF MaxRun
    <3>5. \A y \in H!Run(h, k) : y \in F
      BY DEF MaxRun
    <3>6. CASE x < a
      <4>1. g + j <= a
        <5> SUFFICES ASSUME a < g + j PROVE FALSE
          OBVIOUS
        <5>1. a \in H!Run(g, j)
          BY <3>0, <3>6 DEF H!Run
        <5> QED
          BY <3>1, <5>1
      <4>2. g = h
        <5> SUFFICES ASSUME h < g PROVE FALSE
          BY <3>3
        <5>1. g \in h + 1 .. h + k - 1 /\ g - 1 \in H!Run(h, k) /\ g - 1 \notin H!Run(a, n)
          BY <4>1, <3>0 DEF H!Run
        <5> QED
          BY <1>1, <3>2, <3>5, <5>1 DEF MaxRun
      <4>3. g + j = a
        <5> SUFFICES ASSUME g + j < a PROVE FALSE
          BY <4>1
        <5>1. g + j \in h + 1 .. h + k - 1 /\ g + j \in H!Run(h, k) /\ g + j \notin H!Run(a, n)
          BY <4>2, <3>0 DEF H!Run
        <5> QED
          BY <1>1, <3>2, <3>5, <5>1 DEF MaxRun
      <4> QED
        BY <4>2, <4>3, <3>0, <3>6
    <3>7. CASE x >= a + n
      <4>1. a + n <= g
        <5> SUFFICES ASSUME g < a + n PROVE FALSE
          OBVIOUS
        <5>1. a + n - 1 \in H!Run(g, j)
          BY <3>0, <3>7 DEF H!Run
        <5> QED
          BY <3>1, <5>1
      <4>2. g = a + n
        <5> SUFFICES ASSUME a + n < g PROVE FALSE
          BY <4>1
        <5>1. g \in h + 1 .. h + k - 1 /\ g - 1 \in H!Run(h, k) /\ g - 1 \notin H!Run(a, n)
          BY <3>0 DEF H!Run
        <5> QED
          BY <1>1, <3>2, <3>5, <5>1 DEF MaxRun
      <4>3. g + j = h + k
        <5> SUFFICES ASSUME g + j < h + k PROVE FALSE
          BY <3>4
        <5>1. g + j \in h + 1 .. h + k - 1 /\ g + j \in H!Run(h, k) /\ g + j \notin H!Run(a, n)
          BY <4>2, <3>0 DEF H!Run
        <5> QED
          BY <1>1, <3>2, <3>5, <5>1 DEF MaxRun
      <4> QED
        BY <4>2, <4>3, <3>0, <3>7
    <3>8. x < a \/ x >= a + n
      BY <3>0, <3>1
    <3> QED
      BY <3>6, <3>7, <3>8
  <2>2. CASE \A x \in H!Run(g, j) : x \notin H!Run(h, k)
    <3>0. g + j <= h \/ h + k <= g
      <4>1. g \in H!Run(g, j) /\ h \in H!Run(h, k)
        BY DEF H!Run
      <4>2. ~(h <= g /\ g < h + k)
        BY <2>2, <4>1 DEF H!Run
      <4>3. ~(g <= h /\ h < g + j)
        BY <2>2, <4>1 DEF H!Run
      <4> QED
        BY <4>2, <4>3
    <3>1. \A y \in H!Run(g, j) : y \in F
      BY <1>1 DEF MaxRun
    <3>2. H!NumOf(g) = 0 \/ g - 1 \notin F
      <4> SUFFICES ASSUME H!NumOf(g) # 0, g - 1 \in F PROVE FALSE
        OBVIOUS
      <4>1. g - 1 \in H!Run(a, n)
        BY <1>1 DEF MaxRun
      <4>2. g = h + k
        BY <3>0, <4>1 DEF H!Run
      <4> QED
        BY <3>1, <4>2 DEF MaxRun, H!Run
    <3>3. H!NumOf(g + j) = 0 \/ g + j \notin F
      <4> SUFFICES ASSUME H!NumOf(g + j) # 0, g + j \in F PROVE FALSE
        OBVIOUS
      <4>1. g + j \in H!Run(a, n)
        BY <1>1 DEF MaxRun
      <4>2. g + j = h /\ g + j - 1 \in H!Run(g, j)
        BY <3>0, <4>1 DEF H!Run
      <4> QED
        BY <3>1, <4>2 DEF MaxRun
    <3>4. MaxRun(F, g, j)
      BY <1>1, <3>1, <3>2, <3>3 DEF MaxRun
    <3> QED
      BY <3>0, <3>4
  <2> QED
    BY <2>1, <2>2
<1>2. ASSUME NEW g \in Nat, NEW j \in Nat \ {0}, MaxRun(F, g, j), <<g, j>> # <<h, k>>
      PROVE  MaxRun(E, g, j)
  <2>1. \A x \in H!Run(g, j) : x \in F /\ x \notin H!Run(h, k)
    <3> SUFFICES ASSUME NEW x \in H!Run(g, j), x \in H!Run(h, k) PROVE FALSE
      BY <1>2 DEF MaxRun
    <3>1. x \in Nat
      BY DEF H!Run
    <3> QED
      BY <1>2, <3>1, RunsMeet
  <2>2. \A x \in H!Run(g, j) : x \in E
    BY <2>1 DEF H!Run
  <2> QED
    BY <1>2, <2>2 DEF MaxRun
<1>3. ASSUME a # h PROVE MaxRun(E, h, a - h) /\ a - h \in Nat \ {0}
  <2>1. \A x \in H!Run(h, a - h) : x \in E
    BY DEF MaxRun, H!Run
  <2>2. h + (a - h) = a /\ a \notin E
    BY DEF H!Run
  <2>3. \A x \in h + 1 .. h + (a - h) - 1 : x \in h + 1 .. h + k - 1
    OBVIOUS
  <2> QED
    BY <1>3, <2>1, <2>2, <2>3 DEF MaxRun
<1>4. ASSUME a + n # h + k
      PROVE  MaxRun(E, a + n, h + k - (a + n)) /\ h + k - (a + n) \in Nat \ {0}
  <2> DEFINE j == h + k - (a + n)
  <2>1. j \in Nat \ {0} /\ (a + n) + j = h + k
    BY <1>4
  <2>2. \A x \in H!Run(a + n, j) : x \in E
    BY <2>1 DEF MaxRun, H!Run
  <2>3. (a + n) - 1 \notin E
    BY DEF H!Run
  <2>4. \A x \in (a + n) + 1 .. (a + n) + j - 1 : x \in h + 1 .. h + k - 1
    BY <2>1
  <2>5. H!NumOf((a + n) + j) = 0 \/ (a + n) + j \notin E
    BY <2>1 DEF MaxRun
  <2> HIDE DEF j
  <2> QED
    BY <2>1, <2>2, <2>3, <2>4, <2>5 DEF MaxRun, j
<1>5. ~MaxRun(E, h, k)
  <2>1. a \in H!Run(h, k) /\ a \in H!Run(a, n)
    BY DEF H!Run
  <2> QED
    BY <2>1 DEF MaxRun
<1>6. ASSUME NEW r \in Nat \X (Nat \ {0})
      PROVE  MaxRun(E, r[1], r[2]) <=>
               \/ MaxRun(F, r[1], r[2]) /\ r # <<h, k>>
               \/ a # h /\ r = <<h, a - h>>
               \/ a + n # h + k /\ r = <<a + n, h + k - (a + n)>>
  <2> DEFINE g == r[1]  j == r[2]
  <2>1. g \in Nat /\ j \in Nat \ {0} /\ r = <<g, j>>
    OBVIOUS
  <2> HIDE DEF g, j
  <2>2. MaxRun(E, g, j) <=> \/ MaxRun(F, g, j) /\ <<g, j>> # <<h, k>>
                            \/ a # h /\ g = h /\ j = a - h
                            \/ a + n # h + k /\ g = a + n /\ j = h + k - (a + n)
    <3> HIDE DEF E
    <3>1. ASSUME a # h, g = h, j = a - h PROVE MaxRun(E, g, j)
      BY <1>3, <3>1
    <3>2. ASSUME a + n # h + k, g = a + n, j = h + k - (a + n) PROVE MaxRun(E, g, j)
      BY <1>4, <3>2
    <3> QED
      BY <1>1, <1>2, <2>1, <3>1, <3>2
  <2>3. r[1] = g /\ r[2] = j
    BY DEF g, j
  <2> HIDE DEF E
  <2> QED
    BY <2>1, <2>2, <2>3
<1> HIDE DEF E
<1>7. ASSUME a # h PROVE <<h, a - h>> \in Nat \X (Nat \ {0})
  BY <1>3, <1>7
<1>8. ASSUME a + n # h + k PROVE <<a + n, h + k - (a + n)>> \in Nat \X (Nat \ {0})
  BY <1>4, <1>8
<1>9. MaxRuns(E) = ((MaxRuns(F) \ {<<h, k>>}) \cup (IF a = h THEN {} ELSE {<<h, a - h>>}))
             \cup (IF a + n = h + k THEN {} ELSE {<<a + n, h + k - (a + n)>>})
  <2>1. ASSUME NEW r PROVE r \in MaxRuns(E) <=>
             \/ r \in MaxRuns(F) /\ r # <<h, k>>
             \/ a # h /\ r = <<h, a - h>>
             \/ a + n # h + k /\ r = <<a + n, h + k - (a + n)>>
    BY <1>6, <1>7, <1>8 DEF MaxRuns
  <2> QED
    BY <2>1
<1> QED
  BY <1>9 DEF E, CutOut

\* The runs M when the n members from a on join the p before and the q after them.
Joined(M, a, n, p, q) == (M \ {<<a - p, p>>, <<a + n, q>>}) \cup {<<a - p, p + n + q>>}

\* n numbers of one block that are not in F, between a run of p and one of q;
\* 0 where there is none.
Between(F, a, n, p, q) ==
  /\ p <= a /\ (\A x \in H!Run(a, n) : x \notin F) /\ (\A x \in a + 1 .. a + n - 1 : H!NumOf(x) # 0)
  /\ IF p = 0 THEN H!NumOf(a) = 0 \/ a - 1 \notin F ELSE H!NumOf(a) # 0 /\ MaxRun(F, a - p, p)
  /\ IF q = 0 THEN H!NumOf(a + n) = 0 \/ a + n \notin F
     ELSE H!NumOf(a + n) # 0 /\ MaxRun(F, a + n, q)

\* A run is given back between those before and behind it.
LEMMA JoinRun ==
  ASSUME NEW F \in SUBSET Nat, NEW a \in Nat, NEW n \in Nat \ {0}, NEW p \in Nat, NEW q \in Nat,
         Between(F, a, n, p, q)
  PROVE  MaxRuns(F \cup H!Run(a, n)) = Joined(MaxRuns(F), a, n, p, q)
<1> USE DEF Between
<1> DEFINE E == F \cup H!Run(a, n)
           h == a - p
           k == p + n + q
<1>0. h \in Nat /\ k \in Nat \ {0} /\ a = h + p /\ h + k = a + n + q
  OBVIOUS
<1>1. MaxRun(E, h, k)
  <2>1. \A x \in H!Run(h, k) : x \in E
    <3> SUFFICES ASSUME NEW x \in H!Run(h, k) PROVE x \in E
      OBVIOUS
    <3>0. x \in Nat /\ h <= x /\ x < h + k
      BY <1>0 DEF H!Run
    <3>1. CASE x < a
      BY <3>0, <3>1 DEF MaxRun, H!Run
    <3>2. CASE x >= a + n
      BY <3>0, <3>2 DEF MaxRun, H!Run
    <3> QED
      BY <3>0, <3>1, <3>2 DEF H!Run
  <2>2. \A x \in h + 1 .. h + k - 1 : H!NumOf(x) # 0
    <3> SUFFICES ASSUME NEW x \in h + 1 .. h + k - 1 PROVE H!NumOf(x) # 0
      OBVIOUS
    <3>0. x \in Nat /\ h < x /\ x < h + k
      BY <1>0
    <3>1. CASE x < a
      <4>1. p # 0 /\ x \in (a - p) + 1 .. (a - p) + p - 1
        BY <3>0, <3>1
      <4> QED
        BY <4>1 DEF MaxRun
    <3>2. CASE x = a
      BY <3>0, <3>2
    <3>3. CASE x = a + n
      BY <3>0, <3>3
    <3>4. CASE x > a + n
      <4>1. q # 0 /\ x \in (a + n) + 1 .. (a + n) + q - 1
        BY <3>0, <3>4
      <4> QED
        BY <4>1 DEF MaxRun
    <3>5. CASE x > a /\ x < a + n
      BY <3>0, <3>5
    <3> QED
      BY <3>0, <3>1, <3>2, <3>3, <3>4, <3>5
  <2>3. H!NumOf(h) = 0 \/ h - 1 \notin E
    <3>1. H!NumOf(h) = 0 \/ h - 1 \notin F
      BY DEF MaxRun
    <3> QED
      BY <3>1, <1>0 DEF H!Run
  <2>4. H!NumOf(h + k) = 0 \/ h + k \notin E
    <3>1. H!NumOf(h + k) = 0 \/ h + k \notin F
      BY <1>0 DEF MaxRun
    <3> QED
      BY <3>1, <1>0 DEF H!Run
  <2> HIDE DEF E, h, k
  <2> QED
    BY <2>1, <2>2, <2>3, <2>4 DEF MaxRun
<1>2. ASSUME NEW g \in Nat, NEW j \in Nat \ {0}, MaxRun(E, g, j), <<g, j>> # <<h, k>>
      PROVE  MaxRun(F, g, j) /\ <<g, j>> # <<a - p, p>> /\ <<g, j>> # <<a + n, q>>
  <2>1. \A x \in H!Run(g, j) : x \in E /\ x \notin H!Run(h, k)
    <3> SUFFICES ASSUME NEW x \in H!Run(g, j), x \in H!Run(h, k) PROVE FALSE
      BY <1>2 DEF MaxRun
    <3>1. x \in Nat
      BY DEF H!Run
    <3> HIDE DEF E, h, k
    <3> QED
      BY <1>0, <1>1, <1>2, <3>1, RunsMeet
  <2>2. \A x \in H!Run(g, j) : x \in F
    BY <1>0, <2>1 DEF H!Run
  <2>3. MaxRun(F, g, j)
    BY <1>2, <2>2 DEF MaxRun
  <2>4. g \in H!Run(g, j)
    BY DEF H!Run
  <2>5. ~(h <= g /\ g < h + k)
    BY <1>0, <2>1, <2>4 DEF H!Run
  <2>6. <<g, j>> # <<a - p, p>>
    BY <1>0, <2>5
  <2>7. <<g, j>> # <<a + n, q>>
    BY <1>0, <2>5
  <2> QED
    BY <2>3, <2>6, <2>7
<1>3. ASSUME NEW g \in Nat, NEW j \in Nat \ {0}, MaxRun(F, g, j),
             <<g, j>> # <<a - p, p>>, <<g, j>> # <<a + n, q>>
      PROVE  MaxRun(E, g, j)
  <2>1. \A x \in H!Run(g, j) : x \in F
    BY <1>3 DEF MaxRun
  <2>2. H!NumOf(g) = 0 \/ g - 1 \notin E
    <3> SUFFICES ASSUME H!NumOf(g) # 0, g - 1 \notin F, g - 1 \in H!Run(a, n) PROVE FALSE
      BY <1>3 DEF MaxRun
    <3>1. g = a + n
      <4>1. g \in H!Run(g, j)
        BY DEF H!Run
      <4> QED
        BY <2>1, <4>1 DEF H!Run
    <3>2. q # 0
      <4>1. g \in H!Run(g, j)
        BY DEF H!Run
      <4> QED
        BY <2>1, <3>1, <4>1
    <3>3. MaxRun(F, a + n, q) /\ g \in H!Run(g, j) /\ g \in H!Run(a + n, q) /\ a + n \in Nat
      BY <3>1, <3>2 DEF H!Run
    <3>4. g = a + n /\ j = q
      BY <1>3, <3>2, <3>3, RunsMeet
    <3> QED
      BY <1>3, <3>4
  <2>3. H!NumOf(g + j) = 0 \/ g + j \notin E
    <3> SUFFICES ASSUME H!NumOf(g + j) # 0, g + j \notin F, g + j \in H!Run(a, n) PROVE FALSE
      BY <1>3 DEF MaxRun
    <3>0. g + j - 1 \in H!Run(g, j)
      BY DEF H!Run
    <3>1. g + j = a
      BY <2>1, <3>0 DEF H!Run
    <3>2. p # 0
      BY <2>1, <3>0, <3>1
    <3>3. MaxRun(F, a - p, p) /\ g + j - 1 \in H!Run(a - p, p) /\ a - p \in Nat /\ g + j - 1 \in Nat
      BY <3>1, <3>2 DEF H!Run
    <3>4. g = a - p /\ j = p
      BY <1>3, <3>0, <3>2, <3>3, RunsMeet
    <3> QED
      BY <1>3, <3>4
  <2> QED
    BY <1>3, <2>1, <2>2, <2>3 DEF MaxRun
<1>4. ASSUME NEW r PROVE r \in MaxRuns(E) <=>
             \/ r \in MaxRuns(F) /\ r # <<a - p, p>> /\ r # <<a + n, q>>
             \/ r = <<h, k>>
  <2>1. <<h, k>> \in Nat \X (Nat \ {0})
    BY <1>0
  <2>2. CASE r \in Nat \X (Nat \ {0})
    <3> DEFINE g == r[1]  j == r[2]
    <3>1. g \in Nat /\ j \in Nat \ {0} /\ r = <<g, j>>
      BY <2>2
    <3>2. MaxRuns(E) = {x \in Nat \X (Nat \ {0}) : MaxRun(E, x[1], x[2])}
          /\ MaxRuns(F) = {x \in Nat \X (Nat \ {0}) : MaxRun(F, x[1], x[2])}
      BY DEF MaxRuns
    <3>3. (r \in MaxRuns(E) <=> MaxRun(E, g, j)) /\ (r \in MaxRuns(F) <=> MaxRun(F, g, j))
      BY <2>2, <3>2
    <3> HIDE DEF g, j, E
    <3>4. CASE <<g, j>> = <<h, k>>
      <4>1. g = h /\ j = k
        BY <3>4
      <4> HIDE DEF h, k
      <4> QED
        BY <1>1, <3>1, <3>3, <3>4, <4>1
    <3>5. CASE <<g, j>> # <<h, k>>
      <4> HIDE DEF h, k
      <4> QED
        BY <1>2, <1>3, <3>1, <3>3, <3>5
    <3> QED
      BY <3>4, <3>5
  <2> HIDE DEF h, k, E
  <2> QED
    BY <2>1, <2>2 DEF MaxRuns
<1> QED
  BY <1>4 DEF Joined

\* Values of `links' of every header.
Links == [H!Headers -> H!Headers \cup {H!Zero}]

\* Values of m that have the right types.
HeadStates == [used : SUBSET H!Headers, reserved : SUBSET H!Headers, next : Links, prev : Links,
               holes : [H!Sizes -> H!Headers \cup {H!Zero}], mask : SUBSET H!Sizes, zone : Nat, pages : Nat]

\* Values of the states that the helpers take.
HStates == [m : HeadStates, dirty : SUBSET Nat]

\* The holes of G that have n headers.
At(G, n) == {h \in H!Headers : <<h, n>> \in G}

\* Those that are in the list of their size or, of one header, reserved.
InLists(mm, G) ==
  /\ mm.reserved = At(G, 1)
  /\ \A n \in H!Sizes :
       /\ Listed(mm.holes[n], mm.next, mm.prev, At(G, n))
       /\ n \in mm.mask <=> At(G, n) # {}

\* No two holes begin at the same header.
OnePlace(G) == \A h, n, k : <<h, n>> \in G /\ <<h, k>> \in G => n = k

\* What is in use and what was cut from the zone is the same.
Same(s, t) == t.m.used = s.m.used /\ t.m.zone = s.m.zone /\ t.m.pages = s.m.pages

\* What is changed in a block other than b is marked.
Marks(s, t, b) ==
  /\ s.dirty \subseteq t.dirty
  /\ \A x \in H!Headers :
       H!BlockOf(x) \in t.dirty \/ H!BlockOf(x) = b \/
         /\ x \in s.m.used <=> x \in t.m.used
         /\ x \in s.m.reserved <=> x \in t.m.reserved
         /\ s.m.next[x] = t.m.next[x] /\ s.m.prev[x] = t.m.prev[x]

\* Zero is no header, and headers and sizes are numbers.
LEMMA ZeroNoHead == H!Zero \notin H!Headers /\ H!Headers \subseteq Nat /\ (\A n \in H!Sizes : n \in Nat /\ n # 1)
BY KHSizes DEF H!Zero, H!Headers, H!Sizes

\* The holes of one size are headers.
LEMMA AtFacts ==
  ASSUME NEW G
  PROVE  \A k : H!Zero \notin At(G, k) /\ At(G, k) \subseteq H!Headers
BY ZeroNoHead DEF At

\* IndexHole adds a hole to its list and changes nothing else; it marks the blocks
\* it writes, except that of the hole, which its callers mark.
LEMMA IndexHoleDoes ==
  ASSUME NEW s \in HStates, NEW G, OnePlace(G), InLists(s.m, G), NEW h \in H!Headers,
         NEW n \in 1 .. BlockLen, \A k : <<h, k>> \notin G
  PROVE  LET t == H!IndexHole(s, h, n) IN
         t \in HStates /\ Same(s, t) /\ InLists(t.m, G \cup {<<h, n>>}) /\ Marks(s, t, H!BlockOf(h))
<1> DEFINE t == H!IndexHole(s, h, n)
           J == G \cup {<<h, n>>}
<1>0. s.m \in HeadStates /\ s.dirty \in SUBSET Nat /\ h # H!Zero
  BY ZeroNoHead DEF HStates
<1>1. CASE n = 1
  <2>1. t = [s EXCEPT !.m = [s.m EXCEPT !.reserved = s.m.reserved \cup {h}]]
    BY <1>1 DEF H!IndexHole
  <2>2. /\ t.m = [s.m EXCEPT !.reserved = s.m.reserved \cup {h}] /\ t.dirty = s.dirty
        /\ t \in HStates
    BY <1>0, <2>1 DEF HStates, HeadStates
  <2>3. /\ t.m.reserved = s.m.reserved \cup {h} /\ t.m.next = s.m.next /\ t.m.prev = s.m.prev
        /\ t.m.holes = s.m.holes /\ t.m.mask = s.m.mask /\ Same(s, t)
    BY <1>0, <2>2 DEF HeadStates, Same
  <2>4. InLists(t.m, J)
    <3>1. At(J, 1) = At(G, 1) \cup {h}
      BY <1>1 DEF At
    <3>2. \A k \in H!Sizes : k # n
      BY <1>1, ZeroNoHead
    <3>3. \A k \in H!Sizes : At(J, k) = At(G, k)
      BY <3>2 DEF At
    <3> HIDE DEF t, J
    <3> QED
      BY <2>3, <3>1, <3>3 DEF InLists
  <2>5. Marks(s, t, H!BlockOf(h))
    <3> HIDE DEF t
    <3> QED
      BY <2>2, <2>3 DEF Marks
  <2> QED
    BY <2>2, <2>3, <2>4, <2>5
<1>2. CASE n # 1
  <2> DEFINE old == s.m.holes[n]
  <2>0. n \in H!Sizes /\ old \in H!Headers \cup {H!Zero}
    BY <1>0, <1>2, KHSizes DEF H!Sizes, HeadStates
  <2>1. /\ t.m = [s.m EXCEPT !.next[h] = old,
                  !.prev = IF old = H!Zero THEN s.m.prev ELSE [s.m.prev EXCEPT ![old] = h],
                  !.holes[n] = h, !.mask = s.m.mask \cup {n}]
        /\ t.dirty = s.dirty \cup IF old = H!Zero THEN {} ELSE {H!BlockOf(old)}
        /\ t = [m |-> t.m, dirty |-> t.dirty]
    BY <1>2 DEF H!IndexHole, H!State
  <2>2. /\ t.m.reserved = s.m.reserved /\ t.m.next = [s.m.next EXCEPT ![h] = old]
        /\ t.m.prev = IF old = H!Zero THEN s.m.prev ELSE [s.m.prev EXCEPT ![old] = h]
        /\ t.m.holes = [s.m.holes EXCEPT ![n] = h] /\ t.m.mask = s.m.mask \cup {n}
        /\ Same(s, t)
    BY <1>0, <2>1 DEF HeadStates, Same
  <2>3. t \in HStates
    <3>1. t.m \in HeadStates
      <4>1. /\ [s.m.next EXCEPT ![h] = old] \in Links
            /\ s.m.prev \in Links
            /\ old # H!Zero => [s.m.prev EXCEPT ![old] = h] \in Links
            /\ [s.m.holes EXCEPT ![n] = h] \in [H!Sizes -> H!Headers \cup {H!Zero}]
            /\ s.m.mask \cup {n} \in SUBSET H!Sizes
        <5>1. s.m.next \in Links /\ s.m.prev \in Links /\ s.m.mask \in SUBSET H!Sizes
              /\ s.m.holes \in [H!Sizes -> H!Headers \cup {H!Zero}]
          BY <1>0 DEF HeadStates
        <5> QED
          BY <2>0, <5>1 DEF Links
      <4> QED
        BY <1>0, <2>1, <4>1 DEF HeadStates
    <3>2. old # H!Zero => H!BlockOf(old) \in Nat
      BY <2>0, BlockFacts, ZeroNoHead
    <3>3. t.dirty \in SUBSET Nat
      BY <1>0, <2>1, <3>2
    <3> HIDE DEF t
    <3> QED
      BY <2>1, <3>1, <3>3 DEF HStates
  <2>4. s.m.next \in Links /\ s.m.prev \in Links /\ s.m.holes \in [H!Sizes -> H!Headers \cup {H!Zero}]
    BY <1>0 DEF HeadStates
  <2> HIDE DEF t
  <2>5. Listed(old, s.m.next, s.m.prev, At(G, n))
    BY <2>0 DEF InLists
  <2>6. (old = H!Zero <=> At(G, n) = {}) /\ (old # H!Zero => old \in At(G, n))
    <3>1. H!Zero \notin At(G, n)
      BY AtFacts
    <3> HIDE DEF old
    <3> QED
      BY <2>5, <3>1, ListFirst
  <2>7. h \notin At(G, n)
    BY DEF At
  <2>8. Listed(h, t.m.next, t.m.prev, At(G, n) \cup {h})
    <3>1. t.m.next[h] = old /\ \A x \in At(G, n) : t.m.next[x] = s.m.next[x]
      BY <2>2, <2>4, <2>7, AtFacts DEF Links
    <3>2. \A x \in At(G, n) : t.m.prev[x] = IF x = old THEN h ELSE s.m.prev[x]
      BY <2>2, <2>4, <2>6, AtFacts DEF Links
    <3>3. H!Zero \notin At(G, n)
      BY AtFacts
    <3> HIDE DEF old
    <3> QED
      BY <1>0, <2>5, <2>7, <3>1, <3>2, <3>3, ListPush
  <2>9. ASSUME NEW k \in H!Sizes, k # n
        PROVE  Listed(t.m.holes[k], t.m.next, t.m.prev, At(G, k))
    <3>1. Listed(s.m.holes[k], s.m.next, s.m.prev, At(G, k)) /\ t.m.holes[k] = s.m.holes[k]
      BY <2>2, <2>4, <2>9 DEF InLists
    <3>2. \A x \in At(G, k) : x # h /\ x \notin At(G, n)
      BY <2>9 DEF At, OnePlace
    <3>3. \A x \in At(G, k) : t.m.next[x] = s.m.next[x] /\ t.m.prev[x] = s.m.prev[x]
      BY <2>2, <2>4, <2>6, <3>2, AtFacts DEF Links
    <3> QED
      BY <3>1, <3>3, ListFrame
  <2>10. InLists(t.m, J)
    <3>1. At(J, 1) = At(G, 1)
      BY <1>2 DEF At
    <3>2. ASSUME NEW k \in H!Sizes
          PROVE  Listed(t.m.holes[k], t.m.next, t.m.prev, At(J, k)) /\ (k \in t.m.mask <=> At(J, k) # {})
      <4>1. CASE k = n
        <5>1. At(J, k) = At(G, n) \cup {h}
          BY <4>1 DEF At
        <5>2. t.m.holes[n] = h /\ n \in t.m.mask
          BY <2>0, <2>2, <2>4
        <5> QED
          BY <2>8, <4>1, <5>1, <5>2
      <4>2. CASE k # n
        <5>1. At(J, k) = At(G, k)
          BY <4>2 DEF At
        <5>2. k \in t.m.mask <=> k \in s.m.mask
          BY <2>2, <4>2
        <5> QED
          BY <2>9, <4>2, <5>1, <5>2 DEF InLists
      <4> QED
        BY <4>1, <4>2
    <3> HIDE DEF J
    <3> QED
      BY <2>2, <3>1, <3>2 DEF InLists
  <2>11. Marks(s, t, H!BlockOf(h))
    <3>1. ASSUME NEW x \in H!Headers, H!BlockOf(x) \notin t.dirty, H!BlockOf(x) # H!BlockOf(h)
          PROVE  s.m.next[x] = t.m.next[x] /\ s.m.prev[x] = t.m.prev[x]
      <4>1. x # h /\ (old # H!Zero => x # old)
        BY <2>1, <3>1
      <4> QED
        BY <2>2, <2>4, <4>1 DEF Links
    <3> QED
      BY <2>1, <2>2, <3>1 DEF Marks, Same
  <2> QED
    BY <2>2, <2>3, <2>10, <2>11 DEF t
<1> QED
  BY <1>1, <1>2

\* DeindexHole takes a hole out of its list, wherever it is there.
LEMMA DeindexHoleDoes ==
  ASSUME NEW s \in HStates, NEW G, OnePlace(G), InLists(s.m, G), NEW h \in H!Headers,
         NEW n \in H!Sizes, <<h, n>> \in G
  PROVE  LET t == H!DeindexHole(s, h, n) IN
         t \in HStates /\ Same(s, t) /\ InLists(t.m, G \ {<<h, n>>}) /\ Marks(s, t, H!BlockOf(h))
<1> DEFINE t == H!DeindexHole(s, h, n)
           J == G \ {<<h, n>>}
           S == At(G, n)
           first == s.m.holes[n]
           p == s.m.prev[h]
           q == s.m.next[h]
<1>0. /\ s.m \in HeadStates /\ s.dirty \in SUBSET Nat /\ h # H!Zero /\ h \in S
      /\ s = [m |-> s.m, dirty |-> s.dirty]
  BY ZeroNoHead DEF HStates, At
<1>1. /\ s.m.next \in Links /\ s.m.prev \in Links /\ s.m.holes \in [H!Sizes -> H!Headers \cup {H!Zero}]
      /\ q \in H!Headers \cup {H!Zero} /\ p \in H!Headers \cup {H!Zero} /\ s.m.mask \in SUBSET H!Sizes
  BY <1>0 DEF HeadStates, Links
<1>2. Listed(first, s.m.next, s.m.prev, S)
  BY DEF InLists
<1>3. H!Zero \notin S /\ S \subseteq H!Headers
  BY AtFacts
<1>4. /\ first # H!Zero /\ first \in S
      /\ q # H!Zero => q \in S /\ q # h /\ s.m.prev[q] = h
      /\ h # first => p \in S /\ p # h /\ s.m.next[p] = h
  BY <1>0, <1>2, <1>3, ListFirst
<1>5. ASSUME NEW k \in H!Sizes, k # n, \A x \in H!Headers \ S : t.m.next[x] = s.m.next[x] /\ t.m.prev[x] = s.m.prev[x]
      PROVE  Listed(s.m.holes[k], t.m.next, t.m.prev, At(G, k))
  <2>1. Listed(s.m.holes[k], s.m.next, s.m.prev, At(G, k))
    BY DEF InLists
  <2>2. \A x \in At(G, k) : x \in H!Headers \ S
    BY <1>5 DEF At, OnePlace
  <2>3. \A x \in At(G, k) : t.m.next[x] = s.m.next[x] /\ t.m.prev[x] = s.m.prev[x]
    BY <1>5, <2>2
  <2> HIDE DEF t
  <2> QED
    BY <2>1, <2>3, ListFrame
<1>6. At(J, n) = S \ {h} /\ \A k : k = n \/ At(J, k) = At(G, k)
  BY DEF At
<1>7. At(J, 1) = At(G, 1)
  BY <1>6, ZeroNoHead
<1>8. CASE first = h
  <2>1. t = [s EXCEPT !.m = [s.m EXCEPT !.holes[n] = q,
                             !.mask = IF q = H!Zero THEN s.m.mask \ {n} ELSE s.m.mask]]
    BY <1>8 DEF H!DeindexHole, H!ShiftList
  <2>2. /\ t.m = [s.m EXCEPT !.holes[n] = q, !.mask = IF q = H!Zero THEN s.m.mask \ {n} ELSE s.m.mask]
        /\ t.dirty = s.dirty /\ t \in HStates
    <3>1. [s.m.holes EXCEPT ![n] = q] \in [H!Sizes -> H!Headers \cup {H!Zero}]
      BY <1>1
    <3>2. /\ t.m = [s.m EXCEPT !.holes[n] = q, !.mask = IF q = H!Zero THEN s.m.mask \ {n} ELSE s.m.mask]
          /\ t.dirty = s.dirty /\ t = [m |-> t.m, dirty |-> t.dirty]
      BY <1>0, <2>1
    <3>3. t.m \in HeadStates
      BY <1>0, <1>1, <3>1, <3>2 DEF HeadStates
    <3> HIDE DEF t
    <3> QED
      BY <1>0, <3>2, <3>3 DEF HStates
  <2>3. /\ t.m.next = s.m.next /\ t.m.prev = s.m.prev /\ t.m.reserved = s.m.reserved /\ Same(s, t)
        /\ t.m.holes = [s.m.holes EXCEPT ![n] = q]
        /\ t.m.mask = IF q = H!Zero THEN s.m.mask \ {n} ELSE s.m.mask
    BY <1>0, <2>2 DEF HeadStates, Same
  <2> HIDE DEF t
  <2>4. Listed(q, t.m.next, t.m.prev, S \ {h})
    <3> HIDE DEF S, first
    <3>1. Listed(IF h = first THEN s.m.next[h] ELSE first, t.m.next, t.m.prev, S \ {h})
      BY <1>0, <1>2, <1>3, <1>8, <2>3, ListDrop
    <3> QED
      BY <1>8, <3>1
  <2>5. q = H!Zero <=> S \ {h} = {}
    <3> HIDE DEF S, q
    <3> QED
      BY <1>3, <2>4, ListFirst
  <2>6. ASSUME NEW k \in H!Sizes
        PROVE  Listed(t.m.holes[k], t.m.next, t.m.prev, At(J, k)) /\ (k \in t.m.mask <=> At(J, k) # {})
    <3>1. CASE k = n
      <4>1. t.m.holes[n] = q /\ (n \in t.m.mask <=> q # H!Zero)
        <5>1. n \in s.m.mask
          BY <1>0 DEF InLists
        <5> QED
          BY <1>1, <2>3, <5>1
      <4> HIDE DEF q, J, S
      <4> QED
        BY <1>6, <2>4, <2>5, <3>1, <4>1
    <3>2. CASE k # n
      <4>1. t.m.holes[k] = s.m.holes[k] /\ (k \in t.m.mask <=> k \in s.m.mask) /\ At(J, k) = At(G, k)
        BY <1>1, <1>6, <2>3, <3>2
      <4>2. Listed(s.m.holes[k], t.m.next, t.m.prev, At(G, k))
        BY <1>5, <2>3, <3>2
      <4>3. k \in s.m.mask <=> At(G, k) # {}
        BY DEF InLists
      <4> QED
        BY <4>1, <4>2, <4>3
    <3> QED
      BY <3>1, <3>2
  <2>7. InLists(t.m, J)
    <3>1. t.m.reserved = At(J, 1)
      BY <1>7, <2>3 DEF InLists
    <3> HIDE DEF J
    <3> QED
      BY <2>6, <3>1 DEF InLists
  <2>8. Marks(s, t, H!BlockOf(h))
    BY <2>2, <2>3 DEF Marks, Same
  <2> QED
    BY <2>2, <2>3, <2>7, <2>8 DEF t
<1>9. CASE first # h
  <2>1. /\ t.m = [s.m EXCEPT !.next[p] = q,
                             !.prev = IF q = H!Zero THEN s.m.prev ELSE [s.m.prev EXCEPT ![q] = p]]
        /\ t.dirty = s.dirty \cup {H!BlockOf(p)} \cup IF q = H!Zero THEN {} ELSE {H!BlockOf(q)}
        /\ t = [m |-> t.m, dirty |-> t.dirty]
    BY <1>9 DEF H!DeindexHole, H!State
  <2>2. /\ t.m.next = [s.m.next EXCEPT ![p] = q]
        /\ t.m.prev = IF q = H!Zero THEN s.m.prev ELSE [s.m.prev EXCEPT ![q] = p]
        /\ t.m.reserved = s.m.reserved /\ Same(s, t)
        /\ t.m.holes = s.m.holes /\ t.m.mask = s.m.mask
    BY <1>0, <2>1 DEF HeadStates, Same
  <2>3. t \in HStates
    <3>1. t.m \in HeadStates
      <4>1. /\ [s.m.next EXCEPT ![p] = q] \in Links
            /\ q # H!Zero => [s.m.prev EXCEPT ![q] = p] \in Links
        BY <1>1 DEF Links
      <4> QED
        BY <1>0, <1>1, <2>1, <4>1 DEF HeadStates
    <3>2. (q # H!Zero => H!BlockOf(q) \in Nat) /\ H!BlockOf(p) \in Nat
      BY <1>3, <1>4, <1>9, BlockFacts, ZeroNoHead
    <3>3. t.dirty \in SUBSET Nat
      BY <1>0, <2>1, <3>2
    <3> HIDE DEF t
    <3> QED
      BY <2>1, <3>1, <3>3 DEF HStates
  <2> HIDE DEF t
  <2>4. /\ \A x \in H!Headers : t.m.next[x] = IF x = p THEN q ELSE s.m.next[x]
        /\ \A x \in H!Headers : t.m.prev[x] = IF q # H!Zero /\ x = q THEN p ELSE s.m.prev[x]
    BY <1>1, <2>2 DEF Links
  <2>5. Listed(first, t.m.next, t.m.prev, S \ {h})
    <3>1. \A x \in S \ {h} : t.m.next[x] = IF h # first /\ x = s.m.prev[h] THEN s.m.next[h] ELSE s.m.next[x]
      BY <1>3, <1>9, <2>4
    <3>2. \A x \in S \ {h} : h # first => t.m.prev[x] = IF x = s.m.next[h] THEN s.m.prev[h] ELSE s.m.prev[x]
      BY <1>3, <1>9, <2>4
    <3> HIDE DEF S, first
    <3>3. Listed(IF h = first THEN s.m.next[h] ELSE first, t.m.next, t.m.prev, S \ {h})
      <4>1. h # first /\ (h = first => \A x \in S \ {h} : x # s.m.next[h] => t.m.prev[x] = s.m.prev[x])
        BY <1>9
      <4>2. h \in S /\ H!Zero \notin S
        BY <1>0, <1>3
      <4> DEFINE nx == s.m.next  pv == s.m.prev  nx2 == t.m.next  pv2 == t.m.prev
      <4>3. Listed(first, nx, pv, S)
        BY <1>2
      <4>4. \A x \in S \ {h} : nx2[x] = IF h # first /\ x = pv[h] THEN nx[h] ELSE nx[x]
        BY <3>1
      <4>5. \A x \in S \ {h} : h # first => pv2[x] = IF x = nx[h] THEN pv[h] ELSE pv[x]
        BY <3>2
      <4>6. h = first => \A x \in S \ {h} : x # nx[h] => pv2[x] = pv[x]
        BY <4>1
      <4> HIDE DEF p, q, nx, pv, nx2, pv2
      <4>7. Listed(IF h = first THEN nx[h] ELSE first, nx2, pv2, S \ {h})
        BY <4>2, <4>3, <4>4, <4>5, <4>6, ListDrop
      <4> QED
        BY <4>7 DEF nx, nx2, pv2
    <3> QED
      BY <1>9, <3>3
  <2>6. ASSUME NEW k \in H!Sizes
        PROVE  Listed(t.m.holes[k], t.m.next, t.m.prev, At(J, k)) /\ (k \in t.m.mask <=> At(J, k) # {})
    <3>1. CASE k = n
      <4>1. n \in s.m.mask /\ first \in S \ {h}
        BY <1>0, <1>4, <1>9 DEF InLists
      <4> QED
        BY <1>6, <2>2, <2>5, <3>1, <4>1
    <3>2. CASE k # n
      <4>1. \A x \in H!Headers \ S : t.m.next[x] = s.m.next[x] /\ t.m.prev[x] = s.m.prev[x]
        BY <1>4, <1>9, <2>4
      <4>2. Listed(s.m.holes[k], t.m.next, t.m.prev, At(G, k))
        BY <1>5, <3>2, <4>1
      <4>3. k \in s.m.mask <=> At(G, k) # {}
        BY DEF InLists
      <4> QED
        BY <1>6, <2>2, <3>2, <4>2, <4>3
    <3> QED
      BY <3>1, <3>2
  <2>7. InLists(t.m, J)
    <3>1. t.m.reserved = At(J, 1)
      BY <1>7, <2>2 DEF InLists
    <3> HIDE DEF J
    <3> QED
      BY <2>6, <3>1 DEF InLists
  <2>8. Marks(s, t, H!BlockOf(h))
    <3>1. ASSUME NEW x \in H!Headers, H!BlockOf(x) \notin t.dirty
          PROVE  s.m.next[x] = t.m.next[x] /\ s.m.prev[x] = t.m.prev[x]
      <4>1. x # p /\ (q # H!Zero => x # q)
        BY <2>1, <3>1
      <4> QED
        BY <2>4, <4>1
    <3> QED
      BY <2>1, <2>2, <3>1 DEF Marks, Same
  <2> QED
    BY <2>2, <2>3, <2>7, <2>8 DEF t
<1> QED
  BY <1>8, <1>9

\* A well-founded order that has all smaller numbers before a number.
LEMMA MinOf ==
  ASSUME NEW R, IsWellFoundedOn(R, Nat), \A x, y \in Nat : y < x => <<y, x>> \in R,
         NEW S \in SUBSET Nat, S # {}
  PROVE  \E x \in S : \A y \in S : x <= y
<1>1. \E x \in S : \A y \in S : ~(<<y, x>> \in R)
  BY WFMin
<1>2. PICK x \in S : \A y \in S : ~(<<y, x>> \in R)
  BY <1>1
<1>3. ASSUME NEW y \in S PROVE x <= y
  <2>1. ~(y < x)
    BY <1>2
  <2>2. x \in Nat /\ y \in Nat
    OBVIOUS
  <2> QED
    BY <2>1, <2>2
<1> QED
  BY <1>3

\* A set of naturals has a smallest member, which is what induction comes from.
LEMMA MinExists ==
  ASSUME NEW S \in SUBSET Nat, S # {}
  PROVE  \E x \in S : \A y \in S : x <= y
<1> DEFINE R == OpToRel(<, Nat)
<1>1. IsWellFoundedOn(R, Nat)
  BY NatLessThanWellFounded
<1>2. \A x, y \in Nat : y < x => <<y, x>> \in R
  BY DEF OpToRel
<1> QED
  BY <1>1, <1>2, MinOf

\* Smallest is what its name says.
LEMMA SmallestIs ==
  ASSUME NEW S \in SUBSET Nat, S # {}
  PROVE  H!Smallest(S) \in S /\ \A y \in S : H!Smallest(S) <= y
BY MinExists DEF H!Smallest

\* A step from a header inside its block, or to the end of it.
LEMMA NumShift ==
  ASSUME NEW h \in Nat, NEW i \in Nat
  PROVE  /\ H!NumOf(h) + i < BlockLen => H!NumOf(h + i) = H!NumOf(h) + i /\ H!BlockOf(h + i) = H!BlockOf(h)
         /\ H!NumOf(h) + i = BlockLen => H!NumOf(h + i) = 0
         /\ i <= H!NumOf(h) => /\ h - i \in Nat /\ H!NumOf(h - i) = H!NumOf(h) - i
                             /\ H!BlockOf(h - i) = H!BlockOf(h)
<1> DEFINE b == H!BlockOf(h)  j == H!NumOf(h)
<1>1. b \in Nat /\ j \in 0 .. BlockLen - 1 /\ h = b + j /\ H!NumOf(b) = 0
  BY BlockFacts
<1> HIDE DEF b, j
<1>2. ASSUME j + i < BlockLen PROVE H!NumOf(h + i) = j + i /\ H!BlockOf(h + i) = b
  <2>1. j + i \in 0 .. BlockLen - 1 /\ h + i = b + (j + i)
    BY <1>1, <1>2, KHSizes
  <2> QED
    BY <1>1, <2>1, InBlock
<1>3. ASSUME i <= j PROVE h - i \in Nat /\ H!NumOf(h - i) = j - i /\ H!BlockOf(h - i) = b
  <2>1. j - i \in 0 .. BlockLen - 1 /\ h - i = b + (j - i)
    BY <1>1, <1>3, KHSizes
  <2> QED
    BY <1>1, <2>1, InBlock
<1>4. ASSUME j + i = BlockLen PROVE H!NumOf(h + i) = 0
  <2>1. h + i = b + BlockLen
    BY <1>1, <1>4, KHSizes
  <2> DEFINE k == b \div BlockLen
  <2>2. k \in Nat /\ b = k * BlockLen
    BY <1>1, KHSizes, ModFacts DEF H!NumOf
  <2> HIDE DEF k
  <2>3. h + i = (k + 1) * BlockLen + 0
    BY <2>1, <2>2, KHSizes
  <2>4. 0 \in 0 .. BlockLen - 1 /\ BlockLen \in Nat \ {0} /\ k + 1 \in Nat
    BY <2>2, KHSizes
  <2>5. ((k + 1) * BlockLen + 0) % BlockLen = 0
    BY <2>4, ModUnique
  <2> QED
    BY <2>3, <2>5 DEF H!NumOf
<1> QED
  BY <1>2, <1>3, <1>4 DEF b, j

\* How far the blocks are cut.
Limit(mm) == IF mm.zone # H!Zero THEN mm.zone ELSE (mm.pages + 1) * H!PageLen

\* Behind the last header.
Top == (HeaderPages + 1) * H!PageLen

\* The zone is at a block, and what is in use was cut from it.
ZoneOk(mm) ==
  /\ mm.pages \in 0 .. HeaderPages /\ mm.zone \in Nat
  /\ H!NumOf(Limit(mm)) = 0 /\ Limit(mm) \in H!PageLen .. Top
  /\ mm.zone # H!Zero => mm.pages * H!PageLen < mm.zone /\ mm.zone < (mm.pages + 1) * H!PageLen
  /\ \A x \in mm.used : x < Limit(mm)

\* The headers that were cut from the zone and are not in use.
FreeOf(mm) == {h \in H!Headers : h < Limit(mm) /\ h \notin mm.used}

\* The holes that there are.
HolesOf(mm) == MaxRuns(FreeOf(mm))

\* The headers are whole blocks.
LEMMA TopFacts ==
  /\ Top \in Nat /\ H!Headers = H!PageLen .. Top - 1 /\ H!NumOf(Top) = 0 /\ H!NumOf(H!PageLen) = 0
  /\ H!PageLen <= Top
<1>1. 0 \in 0 .. BlockLen - 1 /\ BlockLen \in Nat \ {0} /\ (HeaderPages + 1) * PageBlocks \in Nat
  BY KHSizes
<1>2. H!PageLen = PageBlocks * BlockLen + 0
  BY KHSizes DEF H!PageLen
<1>3. Top = ((HeaderPages + 1) * PageBlocks) * BlockLen + 0
  BY KHSizes DEF H!PageLen, Top
<1>4. H!NumOf(Top) = 0
  BY <1>1, <1>3, ModUnique DEF H!NumOf
<1>5. H!NumOf(H!PageLen) = 0
  BY <1>1, <1>2, ModUnique, KHSizes DEF H!NumOf
<1>6. Top \in Nat /\ H!PageLen <= Top
  BY KHSizes DEF Top
<1> QED
  BY <1>4, <1>5, <1>6 DEF H!Headers, Top

\* A block that has begun below the limit is below it.
LEMMA InLimit ==
  ASSUME NEW c \in Nat, H!NumOf(c) = 0, NEW h \in Nat, h < c, NEW i \in Nat, H!NumOf(h) + i <= BlockLen
  PROVE  h + i <= c
<1>1. H!BlockOf(h) \in Nat /\ H!NumOf(H!BlockOf(h)) = 0 /\ h = H!BlockOf(h) + H!NumOf(h) /\ H!NumOf(h) \in Nat
  BY BlockFacts
<1>2. H!BlockOf(h) + BlockLen <= c
  BY <1>1, BlocksApart
<1> QED
  BY <1>1, <1>2, KHSizes

\* Nor does a block behind what was cut reach into it.
LEMMA FromLimit ==
  ASSUME NEW c \in Nat, H!NumOf(c) = 0, NEW h \in Nat, c <= h
  PROVE  c <= H!BlockOf(h)
<1>1. H!BlockOf(h) \in Nat /\ H!NumOf(H!BlockOf(h)) = 0 /\ h = H!BlockOf(h) + H!NumOf(h)
      /\ H!NumOf(h) \in 0 .. BlockLen - 1
  BY BlockFacts
<1>2. ~(H!BlockOf(h) < c)
  <2> SUFFICES ASSUME H!BlockOf(h) < c PROVE FALSE
    OBVIOUS
  <2>1. H!BlockOf(h) + BlockLen <= c
    BY <1>1, BlocksApart
  <2> QED
    BY <1>1, <2>1, KHSizes
<1> QED
  BY <1>1, <1>2

\* Free headers are headers.
LEMMA FreeFacts == \A mm : FreeOf(mm) \in SUBSET Nat /\ FreeOf(mm) \subseteq H!Headers
BY ZeroNoHead DEF FreeOf

\* One longest run begins at a number.
LEMMA HolesOnce == \A F : OnePlace(MaxRuns(F))
<1> SUFFICES ASSUME NEW F, NEW h, NEW n, NEW k, <<h, n>> \in MaxRuns(F), <<h, k>> \in MaxRuns(F)
             PROVE  n = k
  BY DEF OnePlace
<1>1. h \in Nat /\ n \in Nat \ {0} /\ k \in Nat \ {0} /\ MaxRun(F, h, n) /\ MaxRun(F, h, k)
  BY MaxRunsMember
<1>2. h \in H!Run(h, n) /\ h \in H!Run(h, k)
  BY <1>1 DEF H!Run
<1> QED
  BY <1>1, <1>2, RunsMeet

\* Where a hole is: in one block, cut from the zone and not in use.
LEMMA HoleFacts ==
  ASSUME NEW F, F \subseteq H!Headers, NEW h, NEW n, <<h, n>> \in MaxRuns(F)
  PROVE  /\ h \in H!Headers /\ n \in 1 .. BlockLen /\ H!NumOf(h) + n <= BlockLen
         /\ MaxRun(F, h, n) /\ \A x \in H!Run(h, n) : x \in F
<1>1. h \in Nat /\ n \in Nat \ {0} /\ MaxRun(F, h, n)
  BY MaxRunsMember
<1>2. \A x \in H!Run(h, n) : x \in F
  BY <1>1 DEF MaxRun
<1>3. h \in H!Headers
  BY <1>1, <1>2 DEF H!Run
<1>4. H!NumOf(h) \in 0 .. BlockLen - 1
  BY <1>1, BlockFacts
<1>5. H!NumOf(h) + n <= BlockLen
  <2> SUFFICES ASSUME BlockLen < H!NumOf(h) + n PROVE FALSE
    BY <1>1, <1>4, KHSizes
  <2> DEFINE i == BlockLen - H!NumOf(h)
  <2>1. i \in Nat /\ H!NumOf(h) + i = BlockLen /\ i >= 1 /\ i <= n - 1
    BY <1>1, <1>4, KHSizes
  <2> HIDE DEF i
  <2>2. H!NumOf(h + i) = 0
    BY <1>1, <2>1, NumShift
  <2>3. h + i \in h + 1 .. h + n - 1
    BY <1>1, <2>1
  <2> QED
    BY <1>1, <2>2, <2>3 DEF MaxRun
<1> QED
  BY <1>1, <1>2, <1>3, <1>4, <1>5, KHSizes

\* The length that is counted below h is that of the hole that ends there.
LEMMA BelowIs ==
  ASSUME NEW mm, ZoneOk(mm), NEW s, InLists(s.m, HolesOf(mm)), NEW h \in H!Headers, h < Limit(mm),
         h \notin FreeOf(mm), \A x \in H!Headers : x < h => (x \in s.m.used <=> x \in mm.used)
  PROVE  LET p == H!Below(s, h) IN
         /\ p \in Nat /\ p <= H!NumOf(h)
         /\ IF p = 0 THEN H!NumOf(h) = 0 \/ h - 1 \notin FreeOf(mm)
            ELSE H!NumOf(h) # 0 /\ MaxRun(FreeOf(mm), h - p, p)
<1> DEFINE F == FreeOf(mm)
           j == H!NumOf(h)
<1>0. h \in Nat /\ H!PageLen \in Nat /\ h >= H!PageLen /\ j \in 0 .. BlockLen - 1 /\ Limit(mm) \in Nat
  <2>1. h \in Nat /\ H!PageLen \in Nat /\ h >= H!PageLen /\ Limit(mm) \in Nat
    BY KHSizes, TopFacts DEF ZoneOk
  <2>2. j \in 0 .. BlockLen - 1
    BY <2>1, BlockFacts
  <2> QED
    BY <2>1, <2>2
<1>1. ASSUME NEW i \in 1 .. j
      PROVE  /\ h - i \in H!Headers /\ h - i \in Nat /\ h - i < h /\ H!NumOf(h - i) = j - i
             /\ h - i \in F <=> h - i \notin s.m.used
  <2>1. i \in Nat /\ i <= H!NumOf(h)
    BY <1>0
  <2>2. h - i \in Nat /\ H!NumOf(h - i) = H!NumOf(h) - i /\ H!BlockOf(h - i) = H!BlockOf(h)
    BY <1>0, <2>1, NumShift
  <2>3. H!PageLen <= H!BlockOf(h)
    BY <1>0, TopFacts, FromLimit
  <2>4. h - i = H!BlockOf(h - i) + H!NumOf(h - i) /\ H!NumOf(h - i) \in Nat
    BY <2>2, BlockFacts
  <2>5. h - i >= H!PageLen
    <3>1. H!BlockOf(h) \in Nat /\ h - i = H!BlockOf(h) + H!NumOf(h - i)
      BY <1>0, <2>2, <2>4, BlockFacts
    <3> QED
      BY <1>0, <2>3, <2>4, <3>1
  <2>6. h - i \in H!Headers /\ h - i < h /\ h - i < Limit(mm)
    BY <1>0, <2>1, <2>2, <2>5, TopFacts
  <2> QED
    BY <2>2, <2>6 DEF FreeOf
<1>2. ASSUME NEW k \in 1 .. j, \A i \in 1 .. k : h - i \in F, k = j \/ h - k - 1 \notin F
      PROVE  MaxRun(F, h - k, k)
  <2>1. \A x \in H!Run(h - k, k) : x \in F
    <3> SUFFICES ASSUME NEW x \in H!Run(h - k, k) PROVE x \in F
      OBVIOUS
    <3>1. h - x \in 1 .. k /\ h - (h - x) = x
      BY <1>0 DEF H!Run
    <3> QED
      BY <1>2, <3>1
  <2>2. \A x \in (h - k) + 1 .. (h - k) + k - 1 : H!NumOf(x) # 0
    <3> SUFFICES ASSUME NEW x \in (h - k) + 1 .. (h - k) + k - 1 PROVE H!NumOf(x) # 0
      OBVIOUS
    <3>1. h - x \in 1 .. j /\ h - (h - x) = x /\ h - x < j
      BY <1>0
    <3>2. H!NumOf(x) = j - (h - x)
      BY <1>1, <3>1
    <3> QED
      BY <1>0, <3>1, <3>2
  <2>3. H!NumOf(h - k) = 0 \/ (h - k) - 1 \notin F
    BY <1>0, <1>1, <1>2
  <2>4. (h - k) + k = h
    BY <1>0
  <2> QED
    BY <2>1, <2>2, <2>3, <2>4 DEF MaxRun
<1>3. CASE j = 0 \/ h - 1 \in s.m.used
  <2>1. H!Below(s, h) = 0
    BY <1>3 DEF H!Below
  <2>2. j # 0 => h - 1 \notin F
    BY <1>0, <1>1, <1>3
  <2> QED
    BY <1>0, <2>1, <2>2
<1>4. CASE j # 0 /\ h - 1 \notin s.m.used /\ h - 1 \in s.m.reserved
  <2>1. H!Below(s, h) = 1
    BY <1>4 DEF H!Below
  <2>2. <<h - 1, 1>> \in MaxRuns(F)
    BY <1>4 DEF InLists, At, HolesOf
  <2>3. MaxRun(F, h - 1, 1)
    BY <2>2, MaxRunsMember
  <2> QED
    BY <1>0, <1>4, <2>1, <2>3
<1>5. CASE j # 0 /\ h - 1 \notin s.m.used /\ h - 1 \notin s.m.reserved
  <2> DEFINE S == {k \in 2 .. j : k = j \/ h - k - 1 \in s.m.used}
             p == H!Smallest(S)
  <2>1. H!Below(s, h) = p
    BY <1>5 DEF H!Below
  <2>2. ~MaxRun(F, h - 1, 1)
    <3> SUFFICES ASSUME MaxRun(F, h - 1, 1) PROVE FALSE
      OBVIOUS
    <3>0. 1 \in 1 .. j
      BY <1>0, <1>5
    <3>1. h - 1 \in Nat /\ h - 1 \in H!Headers
      BY <1>1, <3>0
    <3>2. <<h - 1, 1>> \in MaxRuns(F)
      BY <3>1, MaxRunsMember
    <3> QED
      BY <1>5, <3>1, <3>2 DEF InLists, At, HolesOf
  <2>3. h - 1 \in F
    BY <1>0, <1>1, <1>5
  <2>4. j >= 2 /\ h - 2 \in F
    <3>1. ~(1 = j \/ h - 1 - 1 \notin F)
      <4>1. 1 \in 1 .. j /\ \A i \in 1 .. 1 : i = 1
        BY <1>0, <1>5
      <4> QED
        BY <1>2, <2>2, <2>3, <4>1
    <3>2. h - 1 - 1 = h - 2
      BY <1>0
    <3> QED
      BY <1>0, <1>5, <3>1, <3>2
  <2>5. S \in SUBSET Nat /\ S # {}
    BY <1>0, <2>4
  <2>6. p \in S /\ \A y \in S : p <= y
    BY <2>5, SmallestIs
  <2>7. p \in 2 .. j /\ (p = j \/ h - p - 1 \in s.m.used)
    BY <2>6
  <2>8. \A i \in 1 .. p : h - i \in F
    <3> SUFFICES ASSUME NEW i \in 1 .. p PROVE h - i \in F
      OBVIOUS
    <3>1. CASE i <= 2
      BY <2>3, <2>4, <3>1
    <3>2. CASE i > 2
      <4>1. i - 1 \in 2 .. j /\ i - 1 < p /\ i \in 1 .. j
        BY <1>0, <2>7, <3>2
      <4>2. i - 1 \notin S
        BY <2>6, <2>7, <4>1
      <4>3. h - (i - 1) - 1 \notin s.m.used
        BY <4>1, <4>2
      <4>4. h - (i - 1) - 1 = h - i
        BY <1>0
      <4> QED
        BY <1>1, <4>1, <4>3, <4>4
    <3> QED
      BY <3>1, <3>2
  <2>9. p = j \/ h - p - 1 \notin F
    <3> SUFFICES ASSUME p # j PROVE h - p - 1 \notin F
      OBVIOUS
    <3>1. h - p - 1 \in s.m.used /\ p + 1 \in 1 .. j /\ h - (p + 1) = h - p - 1
      BY <1>0, <2>7
    <3> QED
      BY <1>1, <3>1
  <2>10. p \in 1 .. j
    BY <2>7
  <2> HIDE DEF p
  <2>11. MaxRun(F, h - p, p)
    BY <1>2, <2>8, <2>9, <2>10
  <2> QED
    BY <1>0, <2>1, <2>10, <2>11
<1> QED
  BY <1>3, <1>4, <1>5

\* The length that is counted from h on is that of the hole that begins there.
LEMMA AboveIs ==
  ASSUME NEW mm, ZoneOk(mm), NEW s, InLists(s.m, HolesOf(mm)), NEW h \in Nat,
         h - 1 \in H!Headers, h - 1 < Limit(mm), h - 1 \notin FreeOf(mm),
         \A x \in H!Headers : x >= h => (x \in s.m.used <=> x \in mm.used)
  PROVE  LET q == H!Above(s, h) IN
         /\ q \in Nat /\ H!NumOf(h) + q <= BlockLen
         /\ IF q = 0 THEN H!NumOf(h) = 0 \/ h \notin FreeOf(mm)
            ELSE H!NumOf(h) # 0 /\ MaxRun(FreeOf(mm), h, q)
<1> DEFINE F == FreeOf(mm)
           j == H!NumOf(h)
<1>0. /\ h \in Nat /\ H!PageLen \in Nat /\ h > H!PageLen /\ j \in 0 .. BlockLen - 1
      /\ Limit(mm) \in Nat /\ H!NumOf(Limit(mm)) = 0 /\ Limit(mm) <= Top /\ h - 1 < Top
      /\ Top \in Nat /\ BlockLen \in Nat /\ h - 1 \in Nat
  <2>1. /\ H!PageLen \in Nat /\ Limit(mm) \in Nat /\ H!NumOf(Limit(mm)) = 0 /\ Limit(mm) <= Top
        /\ Top \in Nat /\ BlockLen \in Nat /\ h - 1 \in Nat /\ h > H!PageLen /\ h - 1 < Top
    BY KHSizes, TopFacts DEF ZoneOk
  <2>2. j \in 0 .. BlockLen - 1
    BY BlockFacts
  <2> QED
    BY <2>1, <2>2
<1>1. ASSUME j # 0, NEW i \in 0 .. BlockLen - j - 1
      PROVE  /\ h + i \in H!Headers /\ h + i >= h /\ H!NumOf(h + i) = j + i
             /\ h + i \in F <=> h + i \notin s.m.used
  <2>1. i \in Nat /\ H!NumOf(h) + i < BlockLen
    BY <1>0
  <2>2. H!NumOf(h + i) = j + i
    BY <1>0, <2>1, NumShift
  <2>3. H!NumOf(h - 1) = j - 1
    <3>1. 1 \in Nat /\ 1 <= H!NumOf(h)
      BY <1>0, <1>1
    <3> QED
      BY <1>0, <3>1, NumShift
  <2>4. (h - 1) + (i + 2) <= Limit(mm)
    <3>1. i + 2 \in Nat /\ H!NumOf(h - 1) + (i + 2) <= BlockLen
      BY <1>0, <2>1, <2>3
    <3> QED
      BY <1>0, <3>1, InLimit
  <2>5. h + i \in H!Headers /\ h + i >= h /\ h + i < Limit(mm)
    BY <1>0, <2>1, <2>4, TopFacts
  <2> QED
    BY <2>2, <2>5 DEF FreeOf
<1>2. ASSUME j # 0, NEW k \in 1 .. BlockLen - j, \A i \in 0 .. k - 1 : h + i \in F,
             k = BlockLen - j \/ h + k \notin F
      PROVE  MaxRun(F, h, k)
  <2>1. \A x \in H!Run(h, k) : x \in F
    <3> SUFFICES ASSUME NEW x \in H!Run(h, k) PROVE x \in F
      OBVIOUS
    <3>1. x - h \in 0 .. k - 1 /\ h + (x - h) = x
      BY <1>0 DEF H!Run
    <3> QED
      BY <1>2, <3>1
  <2>2. \A x \in h + 1 .. h + k - 1 : H!NumOf(x) # 0
    <3> SUFFICES ASSUME NEW x \in h + 1 .. h + k - 1 PROVE H!NumOf(x) # 0
      OBVIOUS
    <3>1. x - h \in 0 .. BlockLen - j - 1 /\ h + (x - h) = x /\ x - h >= 1
      BY <1>0
    <3>2. H!NumOf(x) = j + (x - h)
      BY <1>1, <1>2, <3>1
    <3> QED
      BY <1>0, <3>1, <3>2
  <2>3. H!NumOf(h + k) = 0 \/ h + k \notin F
    <3>1. k = BlockLen - j => H!NumOf(h) + k = BlockLen
      BY <1>0
    <3>2. k \in Nat
      BY <1>0
    <3> QED
      BY <1>0, <1>2, <3>1, <3>2, NumShift
  <2> QED
    BY <2>1, <2>2, <2>3 DEF MaxRun
<1>3. CASE j = 0 \/ h \in s.m.used
  <2>1. H!Above(s, h) = 0
    BY <1>3 DEF H!Above
  <2>2. j # 0 => h \notin F
    <3> SUFFICES ASSUME j # 0 PROVE h \notin F
      OBVIOUS
    <3>1. 0 \in 0 .. BlockLen - j - 1 /\ h + 0 = h
      BY <1>0
    <3> QED
      BY <1>1, <1>3, <3>1
  <2> QED
    BY <1>0, <2>1, <2>2
<1>4. CASE j # 0 /\ h \notin s.m.used /\ h \in s.m.reserved
  <2>1. H!Above(s, h) = 1
    BY <1>4 DEF H!Above
  <2>2. <<h, 1>> \in MaxRuns(F)
    BY <1>4 DEF InLists, At, HolesOf
  <2>3. MaxRun(F, h, 1)
    BY <2>2, MaxRunsMember
  <2> QED
    BY <1>0, <1>4, <2>1, <2>3
<1>5. CASE j # 0 /\ h \notin s.m.used /\ h \notin s.m.reserved
  <2> DEFINE S == {k \in 2 .. BlockLen - j : k = BlockLen - j \/ h + k \in s.m.used}
             p == H!Smallest(S)
  <2>1. H!Above(s, h) = p
    BY <1>5 DEF H!Above
  <2>2. h \in H!Headers /\ h \in F
    <3>1. 0 \in 0 .. BlockLen - j - 1 /\ h + 0 = h
      BY <1>0
    <3> QED
      BY <1>1, <1>5, <3>1
  <2>3. ~MaxRun(F, h, 1)
    <3> SUFFICES ASSUME MaxRun(F, h, 1) PROVE FALSE
      OBVIOUS
    <3>1. <<h, 1>> \in MaxRuns(F)
      BY <1>0, MaxRunsMember
    <3> QED
      BY <1>5, <2>2, <3>1 DEF InLists, At, HolesOf
  <2>4. BlockLen - j >= 2 /\ h + 1 \in F
    <3>1. ~(1 = BlockLen - j \/ h + 1 \notin F)
      <4>1. 1 \in 1 .. BlockLen - j /\ \A i \in 0 .. 1 - 1 : i = 0 /\ h + i = h
        BY <1>0
      <4> QED
        BY <1>2, <1>5, <2>2, <2>3, <4>1
    <3> QED
      BY <1>0, <3>1
  <2>5. S \in SUBSET Nat /\ S # {}
    BY <1>0, <2>4
  <2>6. p \in S /\ \A y \in S : p <= y
    BY <2>5, SmallestIs
  <2>7. p \in 2 .. BlockLen - j /\ (p = BlockLen - j \/ h + p \in s.m.used)
    BY <2>6
  <2>8. \A i \in 0 .. p - 1 : h + i \in F
    <3> SUFFICES ASSUME NEW i \in 0 .. p - 1 PROVE h + i \in F
      OBVIOUS
    <3>1. CASE i <= 1
      BY <1>0, <2>2, <2>4, <3>1
    <3>2. CASE i > 1
      <4>1. i \in 2 .. BlockLen - j /\ i < p /\ i \in 0 .. BlockLen - j - 1
        BY <1>0, <2>7, <3>2
      <4>2. i \notin S
        BY <2>6, <2>7, <4>1
      <4>3. h + i \notin s.m.used
        BY <4>1, <4>2
      <4> QED
        BY <1>1, <1>5, <4>1, <4>3
    <3> QED
      BY <3>1, <3>2
  <2>9. p = BlockLen - j \/ h + p \notin F
    <3> SUFFICES ASSUME p # BlockLen - j PROVE h + p \notin F
      OBVIOUS
    <3>1. h + p \in s.m.used /\ p \in 0 .. BlockLen - j - 1
      BY <1>0, <2>7
    <3> QED
      BY <1>1, <1>5, <3>1
  <2>10. p \in 1 .. BlockLen - j
    BY <2>7
  <2> HIDE DEF p
  <2>11. MaxRun(F, h, p)
    BY <1>2, <1>5, <2>8, <2>9, <2>10
  <2> QED
    BY <1>0, <1>5, <2>1, <2>10, <2>11
<1> QED
  BY <1>3, <1>4, <1>5

\* What holds of the memory between two calls, as far as holes are concerned.
Good(s) == s \in HStates /\ ZoneOk(s.m) /\ InLists(s.m, HolesOf(s.m))

\* Marks of two steps add up.
LEMMA MarksTrans ==
  ASSUME NEW s, NEW t, NEW u, NEW b, Marks(s, t, b), Marks(t, u, b)
  PROVE  Marks(s, u, b)
BY DEF Marks

\* The fields of a state.
LEMMA HStateFields ==
  ASSUME NEW s \in HStates
  PROVE  /\ s.m \in HeadStates /\ s.dirty \in SUBSET Nat /\ s = [m |-> s.m, dirty |-> s.dirty]
         /\ s.m.used \in SUBSET H!Headers /\ s.m.reserved \in SUBSET H!Headers
         /\ s.m.next \in Links /\ s.m.prev \in Links
         /\ s.m.holes \in [H!Sizes -> H!Headers \cup {H!Zero}] /\ s.m.mask \in SUBSET H!Sizes
         /\ s.m.zone \in Nat /\ s.m.pages \in Nat
BY DEF HStates, HeadStates

\* Only the bits of headers change, which the lists do not look at.
SetBits(s, U, V, D) == [s EXCEPT !.m = [s.m EXCEPT !.used = U, !.reserved = V], !.dirty = D]

\* What SetBits leaves as it is.
LEMMA BitsChange ==
  ASSUME NEW s \in HStates, NEW U \in SUBSET H!Headers, NEW V \in SUBSET H!Headers, NEW D \in SUBSET Nat
  PROVE  LET t == SetBits(s, U, V, D) IN
         /\ t \in HStates /\ t.m.used = U /\ t.m.reserved = V /\ t.dirty = D
         /\ t.m.next = s.m.next /\ t.m.prev = s.m.prev /\ t.m.holes = s.m.holes
         /\ t.m.mask = s.m.mask /\ t.m.zone = s.m.zone /\ t.m.pages = s.m.pages
<1> DEFINE t == SetBits(s, U, V, D)
<1>0. s.m \in HeadStates /\ s = [m |-> s.m, dirty |-> s.dirty]
  BY HStateFields
<1>1. t.m = [s.m EXCEPT !.used = U, !.reserved = V] /\ t.dirty = D /\ t = [m |-> t.m, dirty |-> t.dirty]
  <2> DEFINE w == [s.m EXCEPT !.used = U, !.reserved = V]
  <2>1. t = [s EXCEPT !.m = w, !.dirty = D]
    BY DEF SetBits
  <2> HIDE DEF t, w
  <2>2. t.m = w /\ t.dirty = D /\ t = [m |-> t.m, dirty |-> t.dirty]
    BY <1>0, <2>1
  <2> QED
    BY <2>2 DEF w
<1> HIDE DEF t
<1>2. /\ t.m.used = U /\ t.m.reserved = V
      /\ t.m.next = s.m.next /\ t.m.prev = s.m.prev /\ t.m.holes = s.m.holes
      /\ t.m.mask = s.m.mask /\ t.m.zone = s.m.zone /\ t.m.pages = s.m.pages
  BY <1>0, <1>1 DEF HeadStates
<1>3. t.m \in HeadStates
  BY <1>0, <1>1 DEF HeadStates
<1>4. t \in HStates
  BY <1>1, <1>3 DEF HStates
<1> QED
  BY <1>1, <1>2, <1>4 DEF t

\* TakeHole takes any neighbouring hole, or none, out of where it is kept.
LEMMA TakeHoleDoes ==
  ASSUME NEW s \in HStates, NEW G, OnePlace(G), InLists(s.m, G), NEW h, NEW n \in Nat,
         IF n = 0 THEN <<h, n>> \notin G ELSE h \in H!Headers /\ n \in 1 .. BlockLen /\ <<h, n>> \in G
  PROVE  LET t == H!TakeHole(s, h, n) IN
         /\ t \in HStates /\ Same(s, t) /\ InLists(t.m, G \ {<<h, n>>})
         /\ \A b : n = 0 \/ H!BlockOf(h) = b => Marks(s, t, b)
<1>1. CASE n = 0
  <2>1. H!TakeHole(s, h, n) = s /\ G \ {<<h, n>>} = G
    BY <1>1 DEF H!TakeHole
  <2> QED
    BY <2>1 DEF Same, Marks
<1>2. CASE n = 1
  <2> DEFINE t == H!TakeHole(s, h, n)
  <2>1. t = [s EXCEPT !.m = [s.m EXCEPT !.reserved = s.m.reserved \ {h}]]
    BY <1>2 DEF H!TakeHole
  <2>2. t.m = [s.m EXCEPT !.reserved = s.m.reserved \ {h}] /\ t.dirty = s.dirty
        /\ t = [m |-> t.m, dirty |-> t.dirty]
    BY <2>1, HStateFields
  <2>3. /\ t.m.reserved = s.m.reserved \ {h} /\ t.m.next = s.m.next /\ t.m.prev = s.m.prev
        /\ t.m.holes = s.m.holes /\ t.m.mask = s.m.mask /\ Same(s, t) /\ t.m \in HeadStates
    BY <2>2, HStateFields DEF HeadStates, Same
  <2>4. t \in HStates
    BY <2>2, <2>3, HStateFields DEF HStates
  <2> HIDE DEF t
  <2>5. At(G \ {<<h, n>>}, 1) = At(G, 1) \ {h}
    BY <1>2 DEF At
  <2>6. \A k \in H!Sizes : k # n
    BY <1>2, ZeroNoHead
  <2>7. \A k \in H!Sizes : At(G \ {<<h, n>>}, k) = At(G, k)
    BY <2>6 DEF At
  <2>8. InLists(t.m, G \ {<<h, n>>})
    BY <2>3, <2>5, <2>7 DEF InLists
  <2>9. Marks(s, t, H!BlockOf(h))
    BY <1>2, <2>2, <2>3 DEF Marks, Same
  <2> QED
    BY <1>2, <2>3, <2>4, <2>8, <2>9 DEF t
<1>3. CASE n # 0 /\ n # 1
  <2>1. n \in H!Sizes /\ H!TakeHole(s, h, n) = H!DeindexHole(s, h, n)
    BY <1>3, KHSizes DEF H!Sizes, H!TakeHole
  <2> QED
    BY <1>3, <2>1, DeindexHoleDoes
<1> QED
  BY <1>1, <1>2, <1>3

\* A run that does not cross a block: no header but its first begins one.
LEMMA InsideBlock ==
  ASSUME NEW h \in H!Headers, NEW n \in 1 .. BlockLen, H!NumOf(h) + n <= BlockLen
  PROVE  /\ h \in Nat
         /\ \A x \in h + 1 .. h + n - 1 : H!NumOf(x) # 0
         /\ \A x \in H!Run(h, n) : x \in H!Headers /\ H!BlockOf(x) = H!BlockOf(h)
<1>0. h \in Nat /\ H!NumOf(h) \in Nat /\ BlockLen \in Nat /\ h >= H!PageLen /\ h < Top /\ Top \in Nat
      /\ H!PageLen \in Nat
  BY TopFacts, KHSizes, BlockFacts, ZeroNoHead
<1>1. ASSUME NEW x \in H!Run(h, n)
      PROVE  x \in H!Headers /\ H!BlockOf(x) = H!BlockOf(h) /\ (x # h => H!NumOf(x) # 0)
  <2>1. x - h \in Nat /\ H!NumOf(h) + (x - h) < BlockLen /\ h + (x - h) = x /\ x \in Nat
    BY <1>0 DEF H!Run
  <2>2. H!NumOf(x) = H!NumOf(h) + (x - h) /\ H!BlockOf(x) = H!BlockOf(h)
    BY <1>0, <2>1, NumShift
  <2>3. h + n <= Top
    BY <1>0, InLimit, TopFacts
  <2>4. x \in H!Headers
    BY <1>0, <2>3, TopFacts DEF H!Run
  <2> QED
    BY <1>0, <2>1, <2>2, <2>4
<1>2. \A x \in h + 1 .. h + n - 1 : x \in H!Run(h, n) /\ x # h
  BY <1>0 DEF H!Run
<1> QED
  BY <1>0, <1>1, <1>2

\* A run that was in use and its neighbours become one hole.
LEMMA MergeDoes ==
  ASSUME NEW s, Good(s), NEW h \in H!Headers, NEW n \in 1 .. BlockLen, H!NumOf(h) + n <= BlockLen,
         H!Run(h, n) \subseteq s.m.used, NEW p \in Nat, NEW q \in Nat, p <= H!NumOf(h),
         H!NumOf(h + n) + q <= BlockLen,
         IF p = 0 THEN H!NumOf(h) = 0 \/ h - 1 \notin FreeOf(s.m)
         ELSE H!NumOf(h) # 0 /\ MaxRun(FreeOf(s.m), h - p, p),
         IF q = 0 THEN H!NumOf(h + n) = 0 \/ h + n \notin FreeOf(s.m)
         ELSE H!NumOf(h + n) # 0 /\ MaxRun(FreeOf(s.m), h + n, q)
  PROVE  LET t == H!IndexHole(H!TakeHole(H!TakeHole(H!ClearRun(s, h, n), h - p, p), h + n, q),
                            h - p, n + p + q)
         IN  /\ Good(t) /\ t.m.used = s.m.used \ H!Run(h, n)
             /\ Marks(s, t, H!BlockOf(h)) /\ H!BlockOf(h) \in t.dirty
<1> DEFINE F == FreeOf(s.m)
           G == MaxRuns(F)
           c == H!ClearRun(s, h, n)
           u == H!TakeHole(c, h - p, p)
           v == H!TakeHole(u, h + n, q)
           t == H!IndexHole(v, h - p, n + p + q)
           k == n + p + q
           b == H!BlockOf(h)
           G1 == G \ {<<h - p, p>>}
           G2 == G1 \ {<<h + n, q>>}
<1>0. /\ s \in HStates /\ ZoneOk(s.m) /\ InLists(s.m, G) /\ h \in Nat /\ n \in Nat /\ n >= 1
      /\ F \in SUBSET Nat /\ F \subseteq H!Headers /\ OnePlace(G) /\ BlockLen \in Nat /\ n <= BlockLen
      /\ H!NumOf(h) \in 0 .. BlockLen - 1 /\ b \in Nat
  <2>1. h \in Nat
    BY ZeroNoHead
  <2>2. H!NumOf(h) \in 0 .. BlockLen - 1 /\ b \in Nat
    BY <2>1, BlockFacts
  <2>3. F \in SUBSET Nat /\ F \subseteq H!Headers
    BY FreeFacts
  <2>4. OnePlace(G)
    BY HolesOnce
  <2>5. s \in HStates /\ ZoneOk(s.m) /\ InLists(s.m, G)
    BY DEF Good, HolesOf
  <2> QED
    BY <2>1, <2>2, <2>3, <2>4, <2>5, KHSizes
<1>1. \A x \in H!Run(h, n) : x \in s.m.used /\ x \notin F /\ x \in H!Headers /\ x < Limit(s.m)
                           /\ H!BlockOf(x) = b
  BY <1>0, InsideBlock DEF FreeOf, ZoneOk
<1>2. /\ c \in HStates /\ c.m.used = s.m.used \ H!Run(h, n) /\ c.m.zone = s.m.zone
      /\ c.m.pages = s.m.pages /\ c.dirty = s.dirty \cup {b} /\ InLists(c.m, G) /\ Marks(s, c, b)
  <2> DEFINE U == s.m.used \ H!Run(h, n)  V == s.m.reserved \ H!Run(h, n)  D == s.dirty \cup {b}
  <2>1. c = SetBits(s, U, V, D)
    BY <1>0, HStateFields DEF H!ClearRun, SetBits
  <2>2. U \in SUBSET H!Headers /\ V \in SUBSET H!Headers /\ D \in SUBSET Nat
    BY <1>0, HStateFields
  <2> HIDE DEF c, U, V, D
  <2>3. /\ c \in HStates /\ c.m.used = U /\ c.m.reserved = V /\ c.dirty = D
        /\ c.m.next = s.m.next /\ c.m.prev = s.m.prev
        /\ c.m.holes = s.m.holes /\ c.m.mask = s.m.mask /\ c.m.zone = s.m.zone
        /\ c.m.pages = s.m.pages
    BY <1>0, <2>1, <2>2, BitsChange
  <2> USE DEF U, V, D
  <2>4. \A x \in s.m.reserved : x \notin H!Run(h, n)
    <3> SUFFICES ASSUME NEW x \in s.m.reserved PROVE x \notin H!Run(h, n)
      OBVIOUS
    <3>1. <<x, 1>> \in MaxRuns(F)
      BY <1>0 DEF InLists, At
    <3>2. x \in Nat /\ x \in F
      BY <3>1, MaxRunsMember DEF MaxRun, H!Run
    <3> QED
      BY <1>1, <3>2
  <2>5. c.m.reserved = s.m.reserved
    BY <2>3, <2>4
  <2>6. InLists(c.m, G)
    <3> HIDE DEF G
    <3> QED
      BY <1>0, <2>3, <2>5 DEF InLists
  <2>7. Marks(s, c, b)
    BY <1>1, <2>3, <2>5 DEF Marks
  <2> QED
    BY <2>3, <2>6, <2>7
<1>3. /\ p # 0 => h - p \in H!Headers /\ p \in 1 .. BlockLen /\ <<h - p, p>> \in G /\ H!BlockOf(h - p) = b
      /\ q # 0 => h + n \in H!Headers /\ q \in 1 .. BlockLen /\ <<h + n, q>> \in G /\ H!BlockOf(h + n) = b
      /\ <<h - p, 0>> \notin G /\ <<h + n, 0>> \notin G
  <2>1. ASSUME p # 0
        PROVE h - p \in H!Headers /\ p \in 1 .. BlockLen /\ <<h - p, p>> \in G /\ H!BlockOf(h - p) = b
    <3>1. h - p \in Nat /\ H!BlockOf(h - p) = b
      BY <1>0, NumShift
    <3>2. <<h - p, p>> \in MaxRuns(F)
      BY <2>1, <3>1, MaxRunsMember
    <3> QED
      BY <1>0, <3>1, <3>2, HoleFacts
  <2>2. ASSUME q # 0
        PROVE h + n \in H!Headers /\ q \in 1 .. BlockLen /\ <<h + n, q>> \in G /\ H!BlockOf(h + n) = b
    <3>1. h + n \in Nat
      BY <1>0
    <3>2. <<h + n, q>> \in MaxRuns(F)
      BY <2>2, <3>1, MaxRunsMember
    <3>3. H!NumOf(h) + n # BlockLen
      BY <1>0, <2>2, NumShift
    <3>4. H!BlockOf(h + n) = b
      <4>1. H!NumOf(h) + n < BlockLen
        BY <1>0, <3>3
      <4> QED
        BY <1>0, <4>1, NumShift
    <3> QED
      BY <1>0, <3>2, <3>4, HoleFacts
  <2>3. <<h - p, 0>> \notin G /\ <<h + n, 0>> \notin G
    BY MaxRunsMember
  <2> QED
    BY <2>1, <2>2, <2>3
<1> HIDE DEF c
<1>4. u \in HStates /\ Same(c, u) /\ InLists(u.m, G1) /\ Marks(c, u, b)
  <2> HIDE DEF G, b
  <2> QED
    BY <1>0, <1>2, <1>3, TakeHoleDoes
<1> HIDE DEF u
<1>5. OnePlace(G1) /\ OnePlace(G2)
  BY <1>0 DEF OnePlace
<1>6. v \in HStates /\ Same(u, v) /\ InLists(v.m, G2) /\ Marks(u, v, b)
  <2>1. IF q = 0 THEN <<h + n, q>> \notin G1
        ELSE h + n \in H!Headers /\ q \in 1 .. BlockLen /\ <<h + n, q>> \in G1
    <3>1. h + n # h - p
      BY <1>0
    <3> QED
      BY <1>3, <3>1
  <2>2. \A bb : q = 0 \/ H!BlockOf(h + n) = bb => Marks(u, v, bb)
    <3> HIDE DEF G1
    <3> QED
      BY <1>4, <1>5, <2>1, TakeHoleDoes
  <2>3. v \in HStates /\ Same(u, v) /\ InLists(v.m, G2)
    <3> HIDE DEF G1
    <3> QED
      BY <1>4, <1>5, <2>1, TakeHoleDoes
  <2> QED
    BY <1>3, <2>2, <2>3
<1> HIDE DEF v
<1>7. k \in 1 .. BlockLen /\ h - p \in H!Headers /\ H!BlockOf(h - p) = b
  <2>1. H!NumOf(h) + n + q <= BlockLen
    <3>1. CASE q = 0
      BY <1>0, <3>1
    <3>2. CASE q # 0
      <4>1. H!NumOf(h) + n # BlockLen
        BY <1>0, <3>2, NumShift
      <4>2. H!NumOf(h + n) = H!NumOf(h) + n
        <5>1. H!NumOf(h) + n < BlockLen
          BY <1>0, <4>1
        <5> QED
          BY <1>0, <5>1, NumShift
      <4> QED
        BY <1>0, <4>2
    <3> QED
      BY <3>1, <3>2
  <2> QED
    BY <1>0, <1>3, <2>1
<1>8. \A j : <<h - p, j>> \notin G2
  <2> SUFFICES ASSUME NEW j, <<h - p, j>> \in G, <<h - p, j>> # <<h - p, p>> PROVE FALSE
    OBVIOUS
  <2>1. CASE p = 0
    <3>1. h - p = h /\ j \in Nat \ {0} /\ MaxRun(F, h, j)
      BY <1>0, <2>1, MaxRunsMember
    <3>2. h \in F /\ h \in H!Run(h, n)
      BY <1>0, <3>1 DEF MaxRun, H!Run
    <3> QED
      BY <1>1, <3>2
  <2>2. CASE p # 0
    BY <1>0, <1>3, <2>2 DEF OnePlace
  <2> QED
    BY <2>1, <2>2
<1>9. t \in HStates /\ Same(v, t) /\ InLists(t.m, G2 \cup {<<h - p, k>>}) /\ Marks(v, t, b)
  <2> HIDE DEF G2, b
  <2> QED
    BY <1>5, <1>6, <1>7, <1>8, IndexHoleDoes
<1> HIDE DEF t
<1>10. t.m.used = s.m.used \ H!Run(h, n) /\ t.m.zone = s.m.zone /\ t.m.pages = s.m.pages
  BY <1>2, <1>4, <1>6, <1>9 DEF Same
<1>11. Limit(t.m) = Limit(s.m) /\ ZoneOk(t.m)
  BY <1>0, <1>10 DEF Limit, ZoneOk
<1>12. FreeOf(t.m) = F \cup H!Run(h, n)
  BY <1>1, <1>10, <1>11 DEF FreeOf
<1>13. HolesOf(t.m) = G2 \cup {<<h - p, k>>}
  <2>1. \A x \in h + 1 .. h + n - 1 : H!NumOf(x) # 0
    BY InsideBlock
  <2>2. p <= h
    BY <1>3, <1>0, BlockFacts
  <2>3. MaxRuns(F \cup H!Run(h, n)) = Joined(MaxRuns(F), h, n, p, q)
    <3>1. \A x \in H!Run(h, n) : x \notin F
      BY <1>1
    <3>2. /\ IF p = 0 THEN H!NumOf(h) = 0 \/ h - 1 \notin F ELSE H!NumOf(h) # 0 /\ MaxRun(F, h - p, p)
          /\ IF q = 0 THEN H!NumOf(h + n) = 0 \/ h + n \notin F
             ELSE H!NumOf(h + n) # 0 /\ MaxRun(F, h + n, q)
      OBVIOUS
    <3>3. F \in SUBSET Nat /\ h \in Nat /\ n \in Nat \ {0}
      BY <1>0
    <3> HIDE DEF F
    <3>4. Between(F, h, n, p, q)
      BY <2>1, <2>2, <3>1, <3>2 DEF Between
    <3> QED
      BY <3>3, <3>4, JoinRun
  <2>4. p + n + q = k
    BY <1>0
  <2> QED
    BY <1>12, <2>3, <2>4 DEF HolesOf, Joined
<1>14. Good(t)
  BY <1>9, <1>11, <1>13 DEF Good
<1>15. Marks(s, t, b)
  <2> HIDE DEF b
  <2> QED
    BY <1>2, <1>4, <1>6, <1>9, MarksTrans
<1>16. b \in t.dirty
  BY <1>2, <1>4, <1>6, <1>9 DEF Marks
<1> QED
  BY <1>10, <1>14, <1>15, <1>16 DEF t, v, u, c

\* Headers of block b that the zone has given out.
Inside(R, mm, b) == \A x \in R : x < Limit(mm) /\ H!BlockOf(x) = b

\* The holes that are left without the headers R are indexed.
InListsBut(mm, R) == InLists(mm, MaxRuns(FreeOf(mm) \ R))

\* The run R is in use, and the blocks E are marked.
TakeBits(s, R, E) == SetBits(s, s.m.used \cup R, s.m.reserved \ R, s.dirty \cup E)

\* What t is after s when R was taken out of a hole and its bits are set.
Took(s, t, R, E, b) ==
  Good(t) /\ t.m.used = s.m.used \cup R /\ t.dirty = s.dirty \cup E /\ Marks(s, t, b)

\* Headers that no listed hole has any more are in use.
LEMMA TakenDoes ==
  ASSUME NEW s \in HStates, ZoneOk(s.m), NEW R \in SUBSET H!Headers,
         InListsBut(s.m, R), NEW E \in SUBSET Nat,
         NEW b, Inside(R, s.m, b),
         NEW t, t = TakeBits(s, R, E)
  PROVE  Took(s, t, R, E, b)
<1> DEFINE U == s.m.used \cup R
           V == s.m.reserved \ R
           D == s.dirty \cup E
           F == FreeOf(s.m)
<1>1. U \in SUBSET H!Headers /\ V \in SUBSET H!Headers
  BY HStateFields
<1>a. t = SetBits(s, U, V, D) /\ s \in HStates /\ D \in SUBSET Nat
  BY HStateFields DEF TakeBits
<1> HIDE DEF U, V, D
<1>2. /\ t \in HStates /\ t.m.used = U /\ t.m.reserved = V /\ t.dirty = D
      /\ t.m.next = s.m.next /\ t.m.prev = s.m.prev /\ t.m.holes = s.m.holes
      /\ t.m.mask = s.m.mask /\ t.m.zone = s.m.zone /\ t.m.pages = s.m.pages
  BY <1>1, <1>a, BitsChange
<1> USE DEF U, V, D
<1>3. \A x \in s.m.reserved : x \notin R
  <2> SUFFICES ASSUME NEW x \in s.m.reserved PROVE x \notin R
    OBVIOUS
  <2>1. <<x, 1>> \in MaxRuns(F \ R)
    BY DEF InLists, InListsBut, At
  <2>2. x \in Nat /\ x \in F \ R
    BY <2>1, MaxRunsMember DEF MaxRun, H!Run
  <2> QED
    BY <2>2
<1>4. t.m.reserved = s.m.reserved
  BY <1>2, <1>3
<1>5. Limit(t.m) = Limit(s.m) /\ ZoneOk(t.m)
  <2>1. Limit(t.m) = Limit(s.m)
    BY <1>2 DEF Limit
  <2> QED
    BY <1>2, <2>1 DEF ZoneOk, Inside
<1>6. FreeOf(t.m) = F \ R
  BY <1>2, <1>5 DEF FreeOf
<1>7. InLists(t.m, HolesOf(t.m))
  BY <1>2, <1>4, <1>6 DEF InLists, InListsBut, HolesOf
<1>8. Good(t)
  BY <1>2, <1>5, <1>7 DEF Good
<1>9. Marks(s, t, b)
  BY <1>2, <1>4 DEF Marks, Inside
<1> QED
  BY <1>2, <1>8, <1>9 DEF Took

\* The holes before and behind a run are found by the bits of the headers.
LEMMA Neighbours ==
  ASSUME NEW s, Good(s), NEW h \in H!Headers, NEW n \in 1 .. BlockLen, H!NumOf(h) + n <= BlockLen,
         H!Run(h, n) \subseteq s.m.used
  PROVE  LET c == H!ClearRun(s, h, n)
             p == H!Below(c, h)
             q == H!Above(c, h + n)
         IN  /\ c.m.used = s.m.used \ H!Run(h, n)
             /\ p \in Nat /\ p <= H!NumOf(h)
             /\ IF p = 0 THEN H!NumOf(h) = 0 \/ h - 1 \notin FreeOf(s.m)
                ELSE H!NumOf(h) # 0 /\ MaxRun(FreeOf(s.m), h - p, p)
             /\ q \in Nat /\ H!NumOf(h + n) + q <= BlockLen
             /\ IF q = 0 THEN H!NumOf(h + n) = 0 \/ h + n \notin FreeOf(s.m)
                ELSE H!NumOf(h + n) # 0 /\ MaxRun(FreeOf(s.m), h + n, q)
<1> DEFINE c == H!ClearRun(s, h, n)
           F == FreeOf(s.m)
           p == H!Below(c, h)
           q == H!Above(c, h + n)
<1>0. /\ h \in Nat /\ n \in Nat /\ n >= 1 /\ s \in HStates /\ ZoneOk(s.m) /\ InLists(s.m, HolesOf(s.m))
  BY ZeroNoHead, KHSizes DEF Good
<1>1. \A x \in H!Run(h, n) : x \in H!Headers /\ x < Limit(s.m) /\ x \notin F
  BY <1>0, InsideBlock DEF FreeOf, ZoneOk
<1>2. h \in H!Run(h, n) /\ h + n - 1 \in H!Run(h, n)
  BY <1>0 DEF H!Run
<1>3. c.m.used = s.m.used \ H!Run(h, n) /\ InLists(c.m, HolesOf(s.m))
  <2> DEFINE U == s.m.used \ H!Run(h, n)  V == s.m.reserved \ H!Run(h, n)  D == s.dirty \cup {H!BlockOf(h)}
  <2>1. c = SetBits(s, U, V, D)
    BY <1>0, HStateFields DEF H!ClearRun, SetBits
  <2>2. U \in SUBSET H!Headers /\ V \in SUBSET H!Headers /\ D \in SUBSET Nat
    BY <1>0, HStateFields, BlockFacts
  <2>0. s \in HStates
    BY <1>0
  <2> HIDE DEF c, U, V, D
  <2>3. /\ c.m.used = U /\ c.m.reserved = V /\ c.m.next = s.m.next /\ c.m.prev = s.m.prev
        /\ c.m.holes = s.m.holes /\ c.m.mask = s.m.mask
    <3> DEFINE e == SetBits(s, U, V, D)
    <3>1. /\ e.m.used = U /\ e.m.reserved = V /\ e.m.next = s.m.next /\ e.m.prev = s.m.prev
          /\ e.m.holes = s.m.holes /\ e.m.mask = s.m.mask
      BY <2>0, <2>2, BitsChange
    <3> QED
      BY <2>1, <3>1
  <2>4. ASSUME NEW x \in s.m.reserved PROVE x \notin H!Run(h, n)
    <3>1. <<x, 1>> \in MaxRuns(F)
      BY <1>0 DEF InLists, At, HolesOf
    <3>2. x \in Nat /\ x \in F
      BY <3>1, MaxRunsMember DEF MaxRun, H!Run
    <3> QED
      BY <1>1, <3>2
  <2>5. c.m.reserved = s.m.reserved
    BY <2>3, <2>4 DEF V
  <2> QED
    BY <1>0, <2>3, <2>5 DEF InLists, U
<1> HIDE DEF c
<1>4. /\ p \in Nat /\ p <= H!NumOf(h)
      /\ IF p = 0 THEN H!NumOf(h) = 0 \/ h - 1 \notin F ELSE H!NumOf(h) # 0 /\ MaxRun(F, h - p, p)
  <2>1. \A x \in H!Headers : x < h => (x \in c.m.used <=> x \in s.m.used)
    BY <1>0, <1>3, ZeroNoHead DEF H!Run
  <2> QED
    BY <1>0, <1>1, <1>2, <1>3, <2>1, BelowIs
<1>5. /\ q \in Nat /\ H!NumOf(h + n) + q <= BlockLen
      /\ IF q = 0 THEN H!NumOf(h + n) = 0 \/ h + n \notin F
         ELSE H!NumOf(h + n) # 0 /\ MaxRun(F, h + n, q)
  <2>1. \A x \in H!Headers : x >= h + n => (x \in c.m.used <=> x \in s.m.used)
    BY <1>0, <1>3, ZeroNoHead DEF H!Run
  <2>2. h + n \in Nat /\ (h + n) - 1 = h + n - 1
    BY <1>0
  <2>3. (h + n) - 1 \in H!Headers /\ (h + n) - 1 < Limit(s.m) /\ (h + n) - 1 \notin F
    BY <1>1, <1>2, <2>2
  <2> QED
    BY <1>0, <1>3, <2>1, <2>2, <2>3, AboveIs
<1> QED
  BY <1>3, <1>4, <1>5 DEF c

\* The callers hold what is in use.
LEMMA FreeBlockDoes ==
  ASSUME NEW s, Good(s), NEW h \in H!Headers, NEW n \in 1 .. BlockLen, H!NumOf(h) + n <= BlockLen,
         H!Run(h, n) \subseteq s.m.used
  PROVE  LET t == H!FreeBlock(s, h, n) IN
         /\ Good(t) /\ t.m.used = s.m.used \ H!Run(h, n)
         /\ Marks(s, t, H!BlockOf(h)) /\ H!BlockOf(h) \in t.dirty
<1> DEFINE c == H!ClearRun(s, h, n)
           F == FreeOf(s.m)
           p == H!Below(c, h)
           q == H!Above(c, h + n)
           t == H!FreeBlock(s, h, n)
<1>4. /\ p \in Nat /\ p <= H!NumOf(h) /\ q \in Nat /\ H!NumOf(h + n) + q <= BlockLen
      /\ IF p = 0 THEN H!NumOf(h) = 0 \/ h - 1 \notin F ELSE H!NumOf(h) # 0 /\ MaxRun(F, h - p, p)
      /\ IF q = 0 THEN H!NumOf(h + n) = 0 \/ h + n \notin F
         ELSE H!NumOf(h + n) # 0 /\ MaxRun(F, h + n, q)
  BY Neighbours
<1>6. t = H!IndexHole(H!TakeHole(H!TakeHole(c, h - p, p), h + n, q), h - p, n + p + q)
  BY DEF H!FreeBlock
<1>7. c = H!ClearRun(s, h, n)
  OBVIOUS
<1> HIDE DEF p, q, t, F, c
<1> QED
  <2>1. LET u == H!IndexHole(H!TakeHole(H!TakeHole(H!ClearRun(s, h, n), h - p, p), h + n, q), h - p, n + p + q)
        IN  /\ Good(u) /\ u.m.used = s.m.used \ H!Run(h, n)
            /\ Marks(s, u, H!BlockOf(h)) /\ H!BlockOf(h) \in u.dirty
    BY <1>4, MergeDoes DEF F
  <2>2. /\ Good(t) /\ t.m.used = s.m.used \ H!Run(h, n)
        /\ Marks(s, t, H!BlockOf(h)) /\ H!BlockOf(h) \in t.dirty
    BY <1>6, <1>7, <2>1
  <2> QED
    BY <2>2 DEF t

\* The header before the last one is of the same run, so no hole ends there.
LEMMA FreeLastDoes ==
  ASSUME NEW s, Good(s), NEW h \in H!Headers, H!NumOf(h) # 0, h \in s.m.used, h - 1 \in s.m.used
  PROVE  LET t == H!FreeLast(s, h) IN
         /\ Good(t) /\ t.m.used = s.m.used \ H!Run(h, 1)
         /\ Marks(s, t, H!BlockOf(h)) /\ H!BlockOf(h) \in t.dirty
<1> DEFINE c == H!ClearRun(s, h, 1)
           t == H!FreeLast(s, h)
<1>0. h \in Nat /\ s \in HStates /\ H!NumOf(h) \in 0 .. BlockLen - 1 /\ BlockLen \in Nat
  BY ZeroNoHead, KHSizes, BlockFacts DEF Good
<1>1. H!Run(h, 1) = {h}
  BY <1>0 DEF H!Run
<1>6. 1 \in 1 .. BlockLen /\ H!NumOf(h) + 1 <= BlockLen /\ H!Run(h, 1) \subseteq s.m.used
  BY <1>0, <1>1
<1>2. c.m.used = s.m.used \ H!Run(h, 1) /\ H!Above(c, h + 1) \in Nat
  BY <1>6, Neighbours
<1>3. H!Below(c, h) = 0
  BY <1>0, <1>1, <1>2 DEF H!Below
<1>4. \A x : H!TakeHole(x, h - 0, 0) = x
  BY DEF H!TakeHole
<1>5. t = H!FreeBlock(s, h, 1)
  <2>1. H!FreeLast(s, h) = H!IndexHole(H!TakeHole(c, h + 1, H!Above(c, h + 1)), h, H!Above(c, h + 1) + 1)
    BY DEF H!FreeLast
  <2>2. H!FreeBlock(s, h, 1) =
          H!IndexHole(H!TakeHole(H!TakeHole(c, h - 0, 0), h + 1, H!Above(c, h + 1)), h - 0, 1 + 0 + H!Above(c, h + 1))
    BY <1>3 DEF H!FreeBlock
  <2> QED
    BY <1>0, <1>2, <1>4, <2>1, <2>2
<1> HIDE DEF t, c
<1> QED
  BY <1>5, <1>6, FreeBlockDoes DEF t

\* What an allocation gives: n free headers of a block, which no list holds any more,
\* where U are the headers in use before they are filled.
Granted(s, U, g, n) ==
  /\ g.s \in HStates /\ ZoneOk(g.s.m) /\ g.s.m.used = U
  /\ g.at \in H!Headers /\ H!NumOf(g.at) + n <= BlockLen
  /\ \A x \in H!Run(g.at, n) : x < Limit(g.s.m) /\ x \notin U
  /\ InLists(g.s.m, MaxRuns(FreeOf(g.s.m) \ H!Run(g.at, n)))
  /\ Marks(s, g.s, H!BlockOf(g.at)) /\ H!BlockOf(g.at) \in g.s.dirty

\* The parts of what a caller is given.
LEMMA GivenIs == \A s, h : H!Given(s, h).s = s /\ H!Given(s, h).at = h
BY DEF H!Given

\* The first hole of a list that is not empty.
LEMMA FirstHole ==
  ASSUME NEW s, Good(s), NEW n \in s.m.mask
  PROVE  LET h == s.m.holes[n] IN
         /\ n \in H!Sizes /\ n \in 2 .. BlockLen /\ h \in H!Headers /\ <<h, n>> \in HolesOf(s.m)
         /\ H!NumOf(h) + n <= BlockLen /\ MaxRun(FreeOf(s.m), h, n)
         /\ \A x \in H!Run(h, n) : x \in FreeOf(s.m) /\ x \in H!Headers /\ x < Limit(s.m) /\ x \notin s.m.used
<1> DEFINE h == s.m.holes[n]
           G == HolesOf(s.m)
<1>1. n \in H!Sizes /\ InLists(s.m, G)
  BY HStateFields DEF Good
<1>2. Listed(h, s.m.next, s.m.prev, At(G, n)) /\ At(G, n) # {} /\ H!Zero \notin At(G, n)
  BY <1>1, AtFacts DEF InLists
<1> HIDE DEF h
<1>3. h \in At(G, n)
  BY <1>2, ListFirst
<1>4. h \in H!Headers /\ <<h, n>> \in G
  BY <1>3 DEF At
<1>5. H!NumOf(h) + n <= BlockLen /\ MaxRun(FreeOf(s.m), h, n) /\ \A x \in H!Run(h, n) : x \in FreeOf(s.m)
  BY <1>4, HoleFacts, FreeFacts DEF HolesOf
<1> QED
  BY <1>1, <1>4, <1>5 DEF h, FreeOf, H!Sizes

\* ShiftHole takes the first hole of a size out of its list.
LEMMA ShiftHoleDoes ==
  ASSUME NEW s, Good(s), NEW n \in s.m.mask
  PROVE  LET t == H!ShiftHole(s, n)
             h == s.m.holes[n]
         IN  /\ t \in HStates /\ Same(s, t) /\ InLists(t.m, HolesOf(s.m) \ {<<h, n>>})
             /\ Marks(s, t, H!BlockOf(h)) /\ H!BlockOf(h) \in t.dirty
<1> DEFINE h == s.m.holes[n]
           G == HolesOf(s.m)
           u == H!ShiftList(s, n)
           t == H!ShiftHole(s, n)
<1>1. /\ n \in H!Sizes /\ h \in H!Headers /\ <<h, n>> \in G /\ s \in HStates /\ InLists(s.m, G)
      /\ OnePlace(G)
  BY FirstHole, HolesOnce DEF Good, HolesOf
<1>2. u = H!DeindexHole(s, h, n)
  BY DEF H!DeindexHole
<1>3. t = [u EXCEPT !.dirty = u.dirty \cup {H!BlockOf(h)}]
  BY DEF H!ShiftHole
<1> HIDE DEF h, u, t, G
<1>4. u \in HStates /\ Same(s, u) /\ InLists(u.m, G \ {<<h, n>>}) /\ Marks(s, u, H!BlockOf(h))
  BY <1>1, <1>2, DeindexHoleDoes
<1>5. t.m = u.m /\ t.dirty = u.dirty \cup {H!BlockOf(h)} /\ t \in HStates
  BY <1>1, <1>3, <1>4, BlockFacts, ZeroNoHead DEF HStates
<1>6. Same(s, t) /\ Marks(s, t, H!BlockOf(h))
  BY <1>4, <1>5 DEF Same, Marks
<1> QED
  BY <1>4, <1>5, <1>6 DEF h, t, G

\* A hole that fits is given as it is.
LEMMA FitDoes ==
  ASSUME NEW s, Good(s), NEW n \in s.m.mask
  PROVE  Granted(s, s.m.used, H!Given(H!ShiftHole(s, n), s.m.holes[n]), n)
<1> DEFINE h == s.m.holes[n]
           t == H!ShiftHole(s, n)
           F == FreeOf(s.m)
<1>1. /\ n \in 2 .. BlockLen /\ h \in H!Headers /\ h \in Nat /\ H!NumOf(h) + n <= BlockLen /\ MaxRun(F, h, n)
      /\ \A x \in H!Run(h, n) : x \in F /\ x < Limit(s.m) /\ x \notin s.m.used
  BY FirstHole, ZeroNoHead
<1>2. /\ t \in HStates /\ Same(s, t) /\ InLists(t.m, HolesOf(s.m) \ {<<h, n>>})
      /\ Marks(s, t, H!BlockOf(h)) /\ H!BlockOf(h) \in t.dirty
  BY ShiftHoleDoes
<1> HIDE DEF h, t
<1>3. ZoneOk(t.m) /\ Limit(t.m) = Limit(s.m) /\ FreeOf(t.m) = F /\ t.m.used = s.m.used
  BY <1>2 DEF Same, ZoneOk, Limit, FreeOf, Good
<1>4. MaxRuns(F \ H!Run(h, n)) = HolesOf(s.m) \ {<<h, n>>}
  <2>1. F \in SUBSET Nat /\ n \in Nat \ {0} /\ h <= h /\ h + n <= h + n
    BY <1>1, FreeFacts
  <2>2. MaxRuns(F \ H!Run(h, n)) = CutOut(MaxRuns(F), h, n, h, n)
    BY <1>1, <2>1, CutRun
  <2> QED
    BY <2>2 DEF CutOut, HolesOf
<1>5. Granted(s, s.m.used, H!Given(t, h), n)
  BY <1>1, <1>2, <1>3, <1>4, GivenIs DEF Granted
<1> QED
  BY <1>5 DEF h, t

\* A hole that is longer is split.
LEMMA SplitDoes ==
  ASSUME NEW s, Good(s), NEW hole \in s.m.mask, NEW n \in Nat \ {0}, n < hole
  PROVE  Granted(s, s.m.used, H!Split(s, hole, n), n)
<1> DEFINE h == s.m.holes[hole]
           t == H!ShiftHole(s, hole)
           F == FreeOf(s.m)
           G == HolesOf(s.m)
           J == G \ {<<h, hole>>}
           b == H!BlockOf(h)
           keep == H!IndexHole(t, h, 1)
<1>1. /\ hole \in 2 .. BlockLen /\ h \in H!Headers /\ h \in Nat /\ H!NumOf(h) + hole <= BlockLen
      /\ MaxRun(F, h, hole) /\ <<h, hole>> \in G
      /\ \A x \in H!Run(h, hole) : x \in F /\ x \in H!Headers /\ x < Limit(s.m) /\ x \notin s.m.used
  BY FirstHole, ZeroNoHead
<1>2. /\ t \in HStates /\ Same(s, t) /\ InLists(t.m, J) /\ Marks(s, t, b) /\ b \in t.dirty
  BY ShiftHoleDoes
<1>3. H!Split(s, hole, n) = 
        CASE H!NumOf(h) = 0    -> H!Given(H!IndexHole(t, h + n, hole - n), h)
          [] H!NumOf(h) # 0 /\ hole - 1 = n    -> H!Given(keep, h + 1)
          [] OTHER           -> H!Given(H!IndexHole(keep, h + 1 + n, hole - 1 - n), h + 1)
  BY DEF H!Split, H!IndexHole
<1>4. \A x \in H!Run(h, hole) : H!BlockOf(x) = b
  BY <1>1, InsideBlock, KHSizes
<1> HIDE DEF h, t, b
<1>5. OnePlace(G) /\ OnePlace(J) /\ F \in SUBSET Nat /\ F \subseteq H!Headers
  <2>1. OnePlace(G)
    BY HolesOnce DEF HolesOf
  <2> QED
    BY <2>1, FreeFacts DEF OnePlace
<1>6. \A x \in H!Run(h, hole) : \A k : <<x, k>> \notin J
  <2> SUFFICES ASSUME NEW x \in H!Run(h, hole), NEW k, <<x, k>> \in G, <<x, k>> # <<h, hole>> PROVE FALSE
    OBVIOUS
  <2>1. x \in Nat /\ k \in Nat \ {0} /\ MaxRun(F, x, k)
    BY MaxRunsMember DEF HolesOf
  <2>2. x \in H!Run(x, k)
    BY <2>1 DEF H!Run
  <2>3. hole \in Nat \ {0}
    BY <1>1
  <2>4. x = h /\ k = hole
    BY <1>1, <2>1, <2>2, <2>3, RunsMeet
  <2> QED
    BY <2>4
<1>7. BlockLen \in Nat /\ BlockLen >= 2 /\ n \in Nat /\ n >= 1 /\ H!NumOf(h) \in 0 .. BlockLen - 1
  BY <1>1, KHSizes, BlockFacts
<1>8. ASSUME NEW u \in HStates, Same(t, u), NEW a \in Nat, Marks(t, u, b), h <= a, a + n <= h + hole,
             NEW K, InLists(u.m, K), K = CutOut(G, h, hole, a, n)
      PROVE  Granted(s, s.m.used, H!Given(u, a), n)
  <2>1. MaxRuns(F \ H!Run(a, n)) = K
    <3>1. hole \in Nat \ {0}
      BY <1>1
    <3>2. MaxRuns(F \ H!Run(a, n)) = CutOut(MaxRuns(F), h, hole, a, n)
      BY <1>1, <1>5, <1>8, <3>1, CutRun
    <3> QED
      BY <1>8, <3>2 DEF HolesOf
  <2>2. ZoneOk(u.m) /\ Limit(u.m) = Limit(s.m) /\ FreeOf(u.m) = F /\ u.m.used = s.m.used
    BY <1>2, <1>8 DEF Same, ZoneOk, Limit, FreeOf, Good
  <2>3. \A x \in H!Run(a, n) : x \in H!Run(h, hole)
    BY <1>1, <1>7, <1>8 DEF H!Run
  <2>4. a \in H!Run(a, n)
    BY <1>7 DEF H!Run
  <2>5. H!BlockOf(a) = b /\ a \in H!Headers
    BY <1>1, <1>4, <2>3, <2>4
  <2>6. H!NumOf(a) + n <= BlockLen
    <3>1. a - h \in Nat /\ H!NumOf(h) + (a - h) < BlockLen /\ h + (a - h) = a
      BY <1>1, <1>7, <1>8
    <3>2. H!NumOf(a) = H!NumOf(h) + (a - h)
      BY <1>1, <3>1, NumShift
    <3> QED
      BY <1>1, <1>7, <1>8, <3>2
  <2>7. Marks(s, u, b) /\ b \in u.dirty
    BY <1>2, <1>8, MarksTrans DEF Marks
  <2>8. \A x \in H!Run(a, n) : x < Limit(s.m) /\ x \notin s.m.used
    BY <1>1, <2>3
  <2> HIDE DEF F
  <2> QED
    BY <1>8, <2>1, <2>2, <2>5, <2>6, <2>7, <2>8, GivenIs DEF Granted
<1>9. CASE H!NumOf(h) = 0
  <2> DEFINE a == h + n
             k == hole - n
             u == H!IndexHole(t, a, k)
             K == J \cup {<<a, k>>}
  <2>1. a \in H!Run(h, hole) /\ k \in 1 .. BlockLen /\ a \in H!Headers /\ H!BlockOf(a) = b
    <3>1. a \in H!Run(h, hole) /\ k \in 1 .. BlockLen
      BY <1>1, <1>7 DEF H!Run
    <3> QED
      BY <3>1, <1>1, <1>4
  <2>2. u \in HStates /\ Same(t, u) /\ InLists(u.m, K) /\ Marks(t, u, b)
    <3>1. \A j : <<a, j>> \notin J
      BY <1>6, <2>1
    <3> HIDE DEF a, k, J
    <3> QED
      BY <1>2, <1>5, <2>1, <3>1, IndexHoleDoes
  <2>3. K = CutOut(G, h, hole, h, n)
    <3>1. h + n # h + hole /\ h + hole - (h + n) = k
      BY <1>1, <1>7
    <3> QED
      BY <3>1 DEF CutOut
  <2>4. h <= h /\ h + n <= h + hole
    BY <1>1
  <2> HIDE DEF u, K
  <2>5. Granted(s, s.m.used, H!Given(u, h), n)
    BY <1>1, <1>8, <2>2, <2>3, <2>4
  <2>6. H!Split(s, hole, n) = H!Given(u, h)
    BY <1>3, <1>9 DEF u
  <2> QED
    BY <2>5, <2>6
<1>10. CASE H!NumOf(h) # 0
  <2> DEFINE I == J \cup {<<h, 1>>}
  <2>1. h \in H!Run(h, hole) /\ 1 \in 1 .. BlockLen
    BY <1>1, <1>7 DEF H!Run
  <2>2. keep \in HStates /\ Same(t, keep) /\ InLists(keep.m, I) /\ Marks(t, keep, b)
    <3>1. \A j : <<h, j>> \notin J
      BY <1>6, <2>1
    <3> HIDE DEF J
    <3> QED
      BY <1>1, <1>2, <1>5, <2>1, <3>1, IndexHoleDoes DEF b
  <2> HIDE DEF keep
  <2>3. h + 1 \in Nat /\ h <= h + 1 /\ h + 1 + n <= h + hole /\ (h + 1) - h = 1 /\ h + 1 # h
    BY <1>1
  <2>4. CASE hole - 1 = n
    <3>1. I = CutOut(G, h, hole, h + 1, n)
      <4>1. h + 1 + n = h + hole
        BY <1>1, <2>4
      <4> QED
        BY <2>3, <4>1 DEF CutOut
    <3> HIDE DEF I
    <3>2. Granted(s, s.m.used, H!Given(keep, h + 1), n)
      BY <1>8, <2>2, <2>3, <3>1
    <3>3. H!Split(s, hole, n) = H!Given(keep, h + 1)
      BY <1>3, <1>10, <2>4
    <3> QED
      BY <3>2, <3>3
  <2>5. CASE hole - 1 # n
    <3> DEFINE a == h + 1 + n
               k == hole - 1 - n
               u == H!IndexHole(keep, a, k)
               K == I \cup {<<a, k>>}
    <3>1. a \in H!Run(h, hole) /\ k \in 1 .. BlockLen /\ a # h
      BY <1>1, <1>7, <2>5 DEF H!Run
    <3>2. a \in H!Headers /\ H!BlockOf(a) = b
      BY <3>1, <1>1, <1>4
    <3>3. \A j : <<a, j>> \notin I
      BY <1>6, <3>1
    <3>4. OnePlace(I)
      <4>1. \A j : <<h, j>> \notin J
        BY <1>6, <2>1
      <4> QED
        BY <1>5, <4>1 DEF OnePlace
    <3>5. u \in HStates /\ Same(keep, u) /\ InLists(u.m, K) /\ Marks(keep, u, b)
      <4> HIDE DEF a, k, I
      <4> QED
        BY <2>2, <3>1, <3>2, <3>3, <3>4, IndexHoleDoes
    <3>6. K = CutOut(G, h, hole, h + 1, n)
      <4>1. h + 1 + n # h + hole /\ h + hole - (h + 1 + n) = k
        BY <1>1, <1>7, <2>5
      <4> QED
        BY <2>3, <4>1 DEF CutOut
    <3>7. Same(t, u) /\ Marks(t, u, b)
      <4> HIDE DEF u
      <4> QED
        BY <2>2, <3>5, MarksTrans DEF Same
    <3> HIDE DEF u, K
    <3>8. Granted(s, s.m.used, H!Given(u, h + 1), n)
      BY <1>8, <2>3, <3>5, <3>6, <3>7
    <3>9. H!Split(s, hole, n) = H!Given(u, h + 1)
      BY <1>3, <1>10, <2>5 DEF u
    <3> QED
      BY <3>8, <3>9
  <2> QED
    BY <2>4, <2>5
<1> QED
  BY <1>9, <1>10

\* A whole number of pages.
LEMMA ModOf ==
  ASSUME NEW k \in Nat
  PROVE  (k * H!PageLen) % H!PageLen = 0
<1>1. H!PageLen \in Nat \ {0} /\ 0 \in 0 .. H!PageLen - 1
  BY KHSizes
<1>2. (k * H!PageLen + 0) % H!PageLen = 0
  BY <1>1, ModUnique
<1>3. k * H!PageLen + 0 = k * H!PageLen
  BY <1>1
<1> QED
  BY <1>2, <1>3

\* A multiple of the length of a page, within a page.
LEMMA PageEnd ==
  ASSUME NEW k \in Nat, NEW z \in Nat, k * H!PageLen < z, z <= (k + 1) * H!PageLen
  PROVE  z % H!PageLen = 0 <=> z = (k + 1) * H!PageLen
<1> DEFINE base == k * H!PageLen
<1>1. /\ H!PageLen \in Nat \ {0} /\ base \in Nat /\ (k + 1) * H!PageLen = base + H!PageLen /\ k + 1 \in Nat
  BY KHSizes
<1>2. (base + H!PageLen) % H!PageLen = 0
  BY <1>1, ModOf
<1>3. ASSUME z < base + H!PageLen PROVE z % H!PageLen # 0
  <2>1. z - base \in 0 .. H!PageLen - 1 /\ z = base + (z - base)
    BY <1>1, <1>3
  <2> DEFINE r == z - base
  <2>2. (k * H!PageLen + r) % H!PageLen = r
    <3> HIDE DEF r
    <3> QED
      BY <1>1, <2>1, ModUnique DEF r
  <2>3. r # 0
    BY <1>1
  <2> QED
    BY <2>1, <2>2, <2>3
<1> HIDE DEF base
<1>4. k * H!PageLen = base
  BY DEF base
<1> QED
  BY <1>1, <1>2, <1>3, <1>4

\* A block of PageBlocks fits between its begin and the end of the page.
LEMMA ZoneDoes ==
  ASSUME NEW s, Good(s), ~H!ZoneEmpty(s.m)
  PROVE  LET b == H!ZoneBlock(s.m)
             t == H!AllocFromZone(s)
         IN  /\ b \in H!Headers /\ H!NumOf(b) = 0 /\ b = Limit(s.m)
             /\ t \in HStates /\ ZoneOk(t.m) /\ Limit(t.m) = b + BlockLen /\ t.m.used = s.m.used
             /\ t.m.reserved = s.m.reserved /\ t.m.next = s.m.next /\ t.m.prev = s.m.prev
             /\ t.m.holes = s.m.holes /\ t.m.mask = s.m.mask
             /\ Marks(s, t, b) /\ b \in t.dirty
<1> DEFINE b == H!ZoneBlock(s.m)
           z == b + BlockLen
           t == H!AllocFromZone(s)
           k == IF s.m.zone = H!Zero THEN s.m.pages + 1 ELSE s.m.pages
           zone == IF z % H!PageLen = 0 THEN H!Zero ELSE z
<1>1. /\ s \in HStates /\ s.m \in HeadStates /\ s.dirty \in SUBSET Nat /\ ZoneOk(s.m)
      /\ s.m.zone \in Nat /\ s.m.pages \in 0 .. HeaderPages
  BY HStateFields DEF Good, ZoneOk
<1>2. /\ H!PageLen \in Nat /\ H!PageLen >= BlockLen /\ BlockLen \in Nat /\ BlockLen >= 2
      /\ HeaderPages \in Nat /\ H!Zero = 0
  BY KHSizes DEF H!Zero
<1>3. b = Limit(s.m) /\ H!NumOf(b) = 0 /\ b \in Nat
  BY <1>1, TopFacts, KHSizes DEF H!ZoneBlock, Limit, ZoneOk
<1>4. k \in 1 .. HeaderPages /\ k * H!PageLen <= b /\ b < (k + 1) * H!PageLen
  <2>1. CASE s.m.zone = H!Zero
    <3>1. k = s.m.pages + 1 /\ s.m.pages # HeaderPages /\ b = (s.m.pages + 1) * H!PageLen
      BY <2>1 DEF H!ZoneEmpty, H!ZoneBlock
    <3>2. (k + 1) * H!PageLen = k * H!PageLen + H!PageLen /\ k * H!PageLen \in Nat
      BY <1>1, <1>2, <3>1
    <3> QED
      BY <1>1, <1>2, <3>1, <3>2
  <2>2. CASE s.m.zone # H!Zero
    <3>1. k = s.m.pages /\ b = s.m.zone
      BY <2>2 DEF H!ZoneBlock
    <3>2. k * H!PageLen < b /\ b < (k + 1) * H!PageLen
      BY <1>1, <2>2, <3>1 DEF ZoneOk
    <3>3. k # 0
      <4> SUFFICES ASSUME k = 0 PROVE FALSE
        OBVIOUS
      <4>1. b < H!PageLen
        BY <1>2, <3>2
      <4>2. b >= H!PageLen
        BY <1>1, <1>2, <1>3, TopFacts DEF ZoneOk
      <4> QED
        BY <1>2, <1>3, <4>1, <4>2
    <3> QED
      BY <1>1, <1>2, <1>3, <3>1, <3>2, <3>3
  <2> QED
    BY <2>1, <2>2
<1> HIDE DEF b, k
<1>5. (k + 1) * H!PageLen \in Nat /\ k * H!PageLen \in Nat /\ H!NumOf((k + 1) * H!PageLen) = 0 
      /\ (k + 1) * H!PageLen <= Top /\ Top \in Nat
  <2>1. (k + 1) * H!PageLen \in Nat /\ k * H!PageLen \in Nat /\ k + 1 \in Nat /\ k + 1 <= HeaderPages + 1
    BY <1>2, <1>4
  <2>2. (k + 1) * H!PageLen <= Top
    BY <1>2, <2>1, Mono DEF Top
  <2>3. (k + 1) * H!PageLen = ((k + 1) * PageBlocks) * BlockLen + 0 /\ (k + 1) * PageBlocks \in Nat
    BY KHSizes, <2>1 DEF H!PageLen
  <2>4. H!NumOf(((k + 1) * PageBlocks) * BlockLen + 0) = 0
    <3>1. 0 \in 0 .. BlockLen - 1 /\ BlockLen \in Nat \ {0}
      BY <1>2
    <3> QED
      BY <2>3, <3>1, ModUnique DEF H!NumOf
  <2> QED
    BY <2>1, <2>2, <2>3, <2>4, TopFacts
<1>6. z \in Nat /\ k * H!PageLen < z /\ z <= (k + 1) * H!PageLen /\ H!NumOf(z) = 0 /\ z # H!Zero
  <2>1. b + BlockLen <= (k + 1) * H!PageLen /\ H!NumOf(b + BlockLen) = 0
    BY <1>3, <1>4, <1>5, BlocksApart
  <2> QED
    BY <1>2, <1>3, <1>4, <1>5, <2>1
<1>7. b \in H!Headers
  <2>1. b >= H!PageLen
    BY <1>1, <1>3 DEF ZoneOk
  <2>2. H!Headers = H!PageLen .. Top - 1
    BY TopFacts
  <2> QED
    BY <1>2, <1>3, <1>4, <1>5, <2>1, <2>2
<1>8. /\ t.m = [s.m EXCEPT !.zone = zone, !.pages = k] /\ t.dirty = s.dirty \cup {b}
      /\ t = [m |-> t.m, dirty |-> t.dirty]
  BY DEF H!AllocFromZone, H!State, b, k
<1>9. z % H!PageLen = 0 <=> z = (k + 1) * H!PageLen
  BY <1>4, <1>6, PageEnd
<1>10. zone \in Nat /\ (zone = H!Zero <=> z = (k + 1) * H!PageLen) /\ (zone # H!Zero => zone = z)
  BY <1>2, <1>6, <1>9
<1> HIDE DEF t, zone
<1>11. /\ t.m.used = s.m.used /\ t.m.reserved = s.m.reserved /\ t.m.next = s.m.next
       /\ t.m.prev = s.m.prev /\ t.m.holes = s.m.holes /\ t.m.mask = s.m.mask
       /\ t.m.zone = zone /\ t.m.pages = k /\ t.m \in HeadStates
  <2>1. k \in Nat /\ zone \in Nat /\ s.m \in HeadStates /\ t.m = [s.m EXCEPT !.zone = zone, !.pages = k]
    BY <1>1, <1>2, <1>4, <1>8, <1>10
  <2>2. t.m \in HeadStates
    BY <2>1 DEF HeadStates
  <2> QED
    BY <2>1, <2>2 DEF HeadStates
<1>12. t \in HStates
  BY <1>1, <1>3, <1>8, <1>11 DEF HStates
<1>13. Limit(t.m) = z
  BY <1>10, <1>11 DEF Limit
<1>14. ZoneOk(t.m)
  <2>1. \A x \in t.m.used : x < z
    <3>1. \A x \in s.m.used : x \in Nat /\ x < b
      BY <1>1, <1>3, HStateFields, ZeroNoHead DEF ZoneOk
    <3> QED
      BY <1>2, <1>3, <1>11, <3>1
  <2>2. z \in H!PageLen .. Top
    BY <1>1, <1>2, <1>3, <1>5, <1>6 DEF ZoneOk
  <2>3. k \in 0 .. HeaderPages
    BY <1>2, <1>4
  <2>4. zone # H!Zero => k * H!PageLen < zone /\ zone < (k + 1) * H!PageLen
    BY <1>5, <1>6, <1>10
  <2> QED
    BY <1>6, <1>10, <1>11, <1>13, <2>1, <2>2, <2>3, <2>4 DEF ZoneOk
<1>15. Marks(s, t, b) /\ b \in t.dirty
  BY <1>8, <1>11 DEF Marks
<1> QED
  BY <1>3, <1>7, <1>11, <1>12, <1>13, <1>14, <1>15 DEF t, b

\* When a run can be given to a caller.
LEMMA MakeGranted ==
  ASSUME NEW s, NEW t \in HStates, NEW a \in H!Headers, NEW n, NEW U, ZoneOk(t.m), t.m.used = U,
         H!NumOf(a) + n <= BlockLen, \A x \in H!Run(a, n) : x < Limit(t.m) /\ x \notin U,
         NEW K, InLists(t.m, K), MaxRuns(FreeOf(t.m) \ H!Run(a, n)) = K,
         Marks(s, t, H!BlockOf(a)), H!BlockOf(a) \in t.dirty
  PROVE  Granted(s, U, H!Given(t, a), n)
<1> DEFINE g == H!Given(t, a)
<1>1. g.s = t /\ g.at = a
  BY GivenIs
<1> HIDE DEF g
<1>2. Granted(s, U, g, n)
  BY <1>1 DEF Granted
<1> QED
  BY <1>2 DEF g

\* A new block: its first n headers are given, the others are a hole.
LEMMA FreshBlock ==
  ASSUME NEW s, Good(s), ~H!ZoneEmpty(s.m)
  PROVE  LET b == H!ZoneBlock(s.m)
             t == H!AllocFromZone(s)
         IN  /\ FreeOf(t.m) = FreeOf(s.m) \cup H!Run(b, BlockLen)
             /\ \A x \in H!Run(b, BlockLen) : /\ x \in H!Headers /\ H!BlockOf(x) = b /\ x < Limit(t.m)
                                            /\ x \notin FreeOf(s.m) /\ x \notin s.m.used
             /\ \A n \in 1 .. BlockLen : b + n - 1 \in H!Run(b, BlockLen)
             /\ InLists(t.m, HolesOf(s.m))
<1> DEFINE b == H!ZoneBlock(s.m)
           t == H!AllocFromZone(s)
<1>1. /\ b \in H!Headers /\ H!NumOf(b) = 0 /\ b = Limit(s.m)
      /\ t \in HStates /\ ZoneOk(t.m) /\ Limit(t.m) = b + BlockLen /\ t.m.used = s.m.used
      /\ t.m.reserved = s.m.reserved /\ t.m.next = s.m.next /\ t.m.prev = s.m.prev
      /\ t.m.holes = s.m.holes /\ t.m.mask = s.m.mask
  BY ZoneDoes
<1> HIDE DEF b, t
<1>2. BlockLen \in Nat /\ BlockLen >= 2 /\ b \in Nat /\ BlockLen \in 1 .. BlockLen /\ H!NumOf(b) + BlockLen <= BlockLen
  <2>1. BlockLen \in Nat /\ BlockLen >= 2 /\ b \in Nat
    BY <1>1, KHSizes, ZeroNoHead
  <2> QED
    BY <1>1, <2>1
<1>3. \A x \in H!Run(b, BlockLen) : x \in H!Headers /\ H!BlockOf(x) = H!BlockOf(b)
  BY <1>1, <1>2, InsideBlock
<1>4. H!BlockOf(b) = b
  BY <1>1, <1>2, BlockFacts
<1>5. \A x \in H!Run(b, BlockLen) : x < Limit(t.m) /\ x \notin FreeOf(s.m) /\ x \notin s.m.used
  <2> SUFFICES ASSUME NEW x \in H!Run(b, BlockLen)
               PROVE  x < Limit(t.m) /\ x \notin FreeOf(s.m) /\ x \notin s.m.used
    OBVIOUS
  <2>1. x \in Nat /\ b <= x /\ x < b + BlockLen
    BY <1>2 DEF H!Run
  <2>2. ~(x < Limit(s.m))
    BY <1>1, <1>2, <2>1
  <2>3. \A y \in s.m.used : y < Limit(s.m)
    BY DEF Good, ZoneOk
  <2> QED
    BY <1>1, <2>1, <2>2, <2>3 DEF FreeOf
<1>6. FreeOf(t.m) = FreeOf(s.m) \cup H!Run(b, BlockLen)
  <2>1. ASSUME NEW x \in H!Headers PROVE x < b + BlockLen <=> x < b \/ x \in H!Run(b, BlockLen)
    <3>1. x \in Nat
      BY ZeroNoHead
    <3> QED
      BY <1>2, <3>1 DEF H!Run
  <2> QED
    BY <1>1, <1>3, <1>5, <2>1 DEF FreeOf
<1>7. \A n \in 1 .. BlockLen : b + n - 1 \in H!Run(b, BlockLen)
  BY <1>2 DEF H!Run
<1>8. InLists(t.m, HolesOf(s.m))
  BY <1>1 DEF InLists, Good
<1> QED
  BY <1>3, <1>4, <1>5, <1>6, <1>7, <1>8 DEF b, t

\* A rest of two headers or more is cleared, and nothing that is known of the
\* headers in use and of the lists changes.
LEMMA ClearedDoes ==
  ASSUME NEW s, Good(s), ~H!ZoneEmpty(s.m), NEW rest, rest \subseteq H!Run(H!ZoneBlock(s.m), BlockLen),
         NEW old, old \subseteq rest
  PROVE  LET t == H!AllocFromZone(s)
             e == [t EXCEPT !.m = [t.m EXCEPT
                    !.used = (t.m.used \cup old) \ rest, !.reserved = t.m.reserved \ rest,
                    !.next = [x \in H!Headers |-> IF x \in rest THEN H!Zero ELSE t.m.next[x]],
                    !.prev = [x \in H!Headers |-> IF x \in rest THEN H!Zero ELSE t.m.prev[x]]]]
         IN  e \in HStates /\ Same(t, e) /\ InLists(e.m, HolesOf(s.m)) /\ Marks(t, e, H!ZoneBlock(s.m))
<1> DEFINE b == H!ZoneBlock(s.m)
           t == H!AllocFromZone(s)
           F == FreeOf(s.m)
           G == HolesOf(s.m)
           w == (t.m.used \cup old) \ rest
           r == t.m.reserved \ rest
           nx == [x \in H!Headers |-> IF x \in rest THEN H!Zero ELSE t.m.next[x]]
           pv == [x \in H!Headers |-> IF x \in rest THEN H!Zero ELSE t.m.prev[x]]
           mm == [t.m EXCEPT !.used = w, !.reserved = r, !.next = nx, !.prev = pv]
           e == [t EXCEPT !.m = mm]
<1>1. t \in HStates /\ t.m.used = s.m.used
  BY ZoneDoes
<1>2. /\ \A x \in H!Run(b, BlockLen) : x \in H!Headers /\ H!BlockOf(x) = b /\ x \notin F /\ x \notin s.m.used
      /\ InLists(t.m, G)
  BY FreshBlock
<1>3. rest \subseteq H!Run(b, BlockLen)
  OBVIOUS
<1> HIDE DEF t, b
<1>4. w = t.m.used
  BY <1>1, <1>2, <1>3
<1>5. r \in SUBSET H!Headers /\ nx \in Links /\ pv \in Links /\ t.m \in HeadStates /\ t.dirty \in SUBSET Nat
      /\ t.m.next \in Links /\ t.m.prev \in Links /\ t.m.used \in SUBSET H!Headers
  <2>1. t.m \in HeadStates /\ t.dirty \in SUBSET Nat /\ t.m.reserved \in SUBSET H!Headers
        /\ t.m.next \in Links /\ t.m.prev \in Links /\ t.m.used \in SUBSET H!Headers
    BY <1>1, HStateFields
  <2> QED
    BY <2>1 DEF Links
<1> HIDE DEF w, r, nx, pv
<1>6. mm \in HeadStates
  BY <1>4, <1>5 DEF HeadStates
<1>7. /\ mm.reserved = r /\ mm.next = nx /\ mm.prev = pv /\ mm.holes = t.m.holes
      /\ mm.mask = t.m.mask /\ mm.used = t.m.used /\ mm.zone = t.m.zone /\ mm.pages = t.m.pages
  BY <1>4, <1>5 DEF HeadStates
<1> HIDE DEF mm
<1>8. e.m = mm /\ e.dirty = t.dirty /\ e \in HStates
  BY <1>1, <1>6 DEF HStates
<1> HIDE DEF e
<1>9. \A h, j : <<h, j>> \in G => h \notin rest
  <2> SUFFICES ASSUME NEW h, NEW j, <<h, j>> \in G PROVE h \notin rest
    OBVIOUS
  <2>1. h \in Nat /\ j \in Nat \ {0} /\ MaxRun(F, h, j)
    BY MaxRunsMember DEF HolesOf, F
  <2>2. h \in F
    BY <2>1 DEF MaxRun, H!Run
  <2> QED
    BY <1>2, <1>3, <2>2
<1>10. r = t.m.reserved
  <2>1. t.m.reserved = At(G, 1)
    BY <1>2 DEF InLists
  <2>2. \A x \in t.m.reserved : x \notin rest
    BY <1>9, <2>1 DEF At
  <2> QED
    BY <2>2 DEF r
<1>11. \A x \in H!Headers : x \notin rest => nx[x] = t.m.next[x] /\ pv[x] = t.m.prev[x]
  BY DEF nx, pv
<1>12. ASSUME NEW j \in H!Sizes
       PROVE  Listed(t.m.holes[j], nx, pv, At(G, j))
  <2>1. Listed(t.m.holes[j], t.m.next, t.m.prev, At(G, j))
    BY <1>2 DEF InLists
  <2>2. \A x \in At(G, j) : x \in H!Headers /\ x \notin rest
    BY <1>9 DEF At
  <2>3. \A x \in At(G, j) : nx[x] = t.m.next[x] /\ pv[x] = t.m.prev[x]
    BY <1>11, <2>2
  <2> QED
    BY <2>1, <2>3, ListFrame
<1>13. InLists(e.m, G)
  <2> HIDE DEF G
  <2> QED
    BY <1>2, <1>7, <1>8, <1>10, <1>12 DEF InLists
<1>14. Marks(t, e, b)
  <2>1. \A x \in H!Headers : H!BlockOf(x) = b \/ x \notin rest
    BY <1>2, <1>3
  <2> QED
    BY <1>7, <1>8, <1>10, <1>11, <2>1 DEF Marks
<1>15. Same(t, e)
  BY <1>7, <1>8 DEF Same
<1> QED
  BY <1>8, <1>13, <1>14, <1>15 DEF e, mm, w, r, nx, pv, t, b

\* What stays in use of the old headers of a page when n of a block are granted.
Kept(found, n, old) == IF found \/ n # BlockLen - 1 THEN {} ELSE old

\* What is kept was not in use for the set, nor is it given out.
LEMMA KeptFacts ==
  ASSUME NEW s, Good(s), ~H!ZoneEmpty(s.m), NEW old \in SUBSET {H!ZoneBlock(s.m) + BlockLen - 1}
  PROVE  \A x \in old : x \in H!Headers /\ x \notin s.m.used
<1>1. BlockLen \in 1 .. BlockLen
  BY KHSizes
<1>2. H!ZoneBlock(s.m) + BlockLen - 1 \in H!Run(H!ZoneBlock(s.m), BlockLen)
  BY <1>1, FreshBlock
<1>3. \A x \in H!Run(H!ZoneBlock(s.m), BlockLen) : x \in H!Headers /\ x \notin s.m.used
  BY FreshBlock
<1> QED
  BY <1>2, <1>3

\* Where the one header that is left counts as used, it is in no hole.
LEMMA LeakDoes ==
  ASSUME NEW s, Good(s), ~H!ZoneEmpty(s.m), NEW old, old = {H!ZoneBlock(s.m) + BlockLen - 1}
  PROVE  LET t == H!AllocFromZone(s)
             e == [t EXCEPT !.m = [t.m EXCEPT !.used = t.m.used \cup old]]
         IN  Granted(s, s.m.used \cup old, H!Given(e, H!ZoneBlock(s.m)), BlockLen - 1)
<1> DEFINE b == H!ZoneBlock(s.m)
           t == H!AllocFromZone(s)
           last == b + BlockLen - 1
           e == [t EXCEPT !.m = [t.m EXCEPT !.used = t.m.used \cup old]]
           F == FreeOf(s.m)
           G == HolesOf(s.m)
           n == BlockLen - 1
<1>1. /\ b \in H!Headers /\ H!NumOf(b) = 0 /\ b = Limit(s.m)
      /\ t \in HStates /\ ZoneOk(t.m) /\ Limit(t.m) = b + BlockLen /\ t.m.used = s.m.used
      /\ Marks(s, t, b) /\ b \in t.dirty
  BY ZoneDoes
<1>2. /\ FreeOf(t.m) = F \cup H!Run(b, BlockLen)
      /\ \A x \in H!Run(b, BlockLen) : /\ x \in H!Headers /\ H!BlockOf(x) = b /\ x < Limit(t.m)
                                     /\ x \notin F /\ x \notin s.m.used
      /\ InLists(t.m, G)
  BY FreshBlock
<1> HIDE DEF b, t
<1>3. BlockLen \in Nat /\ BlockLen >= 2 /\ b \in Nat
  BY <1>1, KHSizes, ZeroNoHead
<1>4. /\ last \in H!Run(b, BlockLen) /\ b \in H!Run(b, BlockLen) /\ old = {last}
      /\ \A x : x \in H!Run(b, n) <=> x \in H!Run(b, BlockLen) /\ x # last
  BY <1>3 DEF H!Run, b
<1> HIDE DEF last
<1>5. t.m \in HeadStates /\ t.dirty \in SUBSET Nat /\ t.m.used \in SUBSET H!Headers
  BY <1>1, HStateFields
<1> DEFINE mm == [t.m EXCEPT !.used = t.m.used \cup old]
<1>6. t.m.used \cup old \in SUBSET H!Headers
  BY <1>2, <1>4, <1>5
<1>7. /\ mm \in HeadStates /\ mm.used = t.m.used \cup old /\ mm.reserved = t.m.reserved /\ mm.next = t.m.next
      /\ mm.prev = t.m.prev /\ mm.holes = t.m.holes /\ mm.mask = t.m.mask
      /\ mm.zone = t.m.zone /\ mm.pages = t.m.pages
  BY <1>5, <1>6 DEF HeadStates
<1>8. e = [t EXCEPT !.m = mm]
  OBVIOUS
<1> HIDE DEF mm, e
<1>9. e.m = mm /\ e.dirty = t.dirty /\ e \in HStates
  BY <1>1, <1>7, <1>8 DEF HStates
<1>10. Limit(e.m) = b + BlockLen
  BY <1>1, <1>7, <1>9 DEF Limit
<1>11. ZoneOk(e.m)
  <2>1. \A x \in e.m.used : x < Limit(e.m)
    BY <1>1, <1>2, <1>4, <1>7, <1>9, <1>10 DEF ZoneOk
  <2> QED
    BY <1>1, <1>7, <1>9, <1>10, <2>1 DEF ZoneOk
<1>12. FreeOf(e.m) \ H!Run(b, n) = F
  <2>1. FreeOf(e.m) = FreeOf(t.m) \ old
    BY <1>1, <1>7, <1>9, <1>10 DEF FreeOf
  <2>2. \A x \in F : x \notin H!Run(b, BlockLen)
    BY <1>2
  <2> QED
    BY <1>2, <1>4, <2>1, <2>2
<1>13. InLists(e.m, G)
  <2> HIDE DEF G
  <2> QED
    BY <1>2, <1>7, <1>9 DEF InLists
<1>14. Marks(s, e, b) /\ b \in e.dirty
  <2>1. \A x \in H!Headers : H!BlockOf(x) = b \/ x \notin old
    BY <1>2, <1>4
  <2>2. Marks(t, e, b)
    BY <1>7, <1>9, <2>1 DEF Marks
  <2>3. Marks(s, e, b)
    BY <1>1, <2>2, MarksTrans
  <2> QED
    BY <1>1, <1>9, <2>3
<1>15. H!BlockOf(b) = b /\ H!NumOf(b) + n <= BlockLen
  BY <1>1, <1>2, <1>3, <1>4
<1>16. e.m.used = s.m.used \cup old /\ \A x \in H!Run(b, n) : x < Limit(e.m) /\ x \notin s.m.used \cup old
  BY <1>1, <1>2, <1>4, <1>7, <1>9, <1>10
<1>17. MaxRuns(FreeOf(e.m) \ H!Run(b, n)) = G
  BY <1>12 DEF HolesOf, F
<1> HIDE DEF G, n
<1>18. Granted(s, s.m.used \cup old, H!Given(e, b), n)
  BY <1>1, <1>9, <1>11, <1>13, <1>14, <1>15, <1>16, <1>17, MakeGranted
<1> QED
  BY <1>18 DEF e, t, b, n, mm

\* The beginning of a new block is granted when its rest is made a hole, whatever
\* is done to the rest before (e).
LEMMA RestDoes ==
  ASSUME NEW s, Good(s), ~H!ZoneEmpty(s.m), NEW n \in 1 .. BlockLen - 1, NEW e \in HStates,
         Same(H!AllocFromZone(s), e), InLists(e.m, HolesOf(s.m)),
         Marks(H!AllocFromZone(s), e, H!ZoneBlock(s.m))
  PROVE  Granted(s, s.m.used, H!Given(H!IndexHole(e, H!ZoneBlock(s.m) + n, BlockLen - n), H!ZoneBlock(s.m)), n)
<1> DEFINE b == H!ZoneBlock(s.m)
           t == H!AllocFromZone(s)
           rest == H!Run(b + n, BlockLen - n)
           u == H!IndexHole(e, b + n, BlockLen - n)
           F == FreeOf(s.m)
           G == HolesOf(s.m)
           k == BlockLen - n
<1>2. /\ b \in H!Headers /\ H!NumOf(b) = 0 /\ b = Limit(s.m)
      /\ t \in HStates /\ ZoneOk(t.m) /\ Limit(t.m) = b + BlockLen /\ t.m.used = s.m.used
      /\ Marks(s, t, b) /\ b \in t.dirty
  BY ZoneDoes
<1>3. /\ FreeOf(t.m) = F \cup H!Run(b, BlockLen)
      /\ \A x \in H!Run(b, BlockLen) : /\ x \in H!Headers /\ H!BlockOf(x) = b /\ x < Limit(t.m)
                                     /\ x \notin F /\ x \notin s.m.used
      /\ InLists(t.m, G)
  BY FreshBlock
<1> HIDE DEF b, t, u, F
<1>4. /\ b \in Nat /\ n \in Nat /\ n >= 1 /\ k \in 1 .. BlockLen /\ BlockLen \in Nat
      /\ n + k = BlockLen /\ b + n + k = b + BlockLen /\ k \in Nat \ {0}
  <2>1. b \in Nat /\ BlockLen \in Nat /\ BlockLen >= 2
    BY <1>2, KHSizes, ZeroNoHead
  <2> QED
    BY <2>1
<1> HIDE DEF k
<1>5. /\ rest \subseteq H!Run(b, BlockLen) /\ H!Run(b, n) \subseteq H!Run(b, BlockLen) /\ rest = H!Run(b + n, k)
      /\ b + n \in H!Run(b, BlockLen) /\ b \in H!Run(b, BlockLen)
      /\ (F \cup H!Run(b, BlockLen)) \ H!Run(b, n) = F \cup H!Run(b + n, k)
  <2>1. /\ rest \subseteq H!Run(b, BlockLen) /\ H!Run(b, n) \subseteq H!Run(b, BlockLen) /\ rest = H!Run(b + n, k)
        /\ b + n \in H!Run(b, BlockLen) /\ b \in H!Run(b, BlockLen)
    BY <1>4 DEF H!Run, k
  <2>2. \A x \in H!Run(b, BlockLen) : x \in H!Run(b, n) <=> ~(x \in H!Run(b + n, k))
    BY <1>4 DEF H!Run
  <2>3. \A x \in F : x \notin H!Run(b, n)
    BY <1>3, <2>1
  <2> QED
    BY <2>1, <2>2, <2>3
<1> HIDE DEF rest
<1>6. e \in HStates /\ Same(t, e) /\ InLists(e.m, G) /\ Marks(t, e, b)
  BY DEF t, b
<1>7. \A j : <<b + n, j>> \notin G
  <2> SUFFICES ASSUME NEW j, <<b + n, j>> \in G PROVE FALSE
    OBVIOUS
  <2>1. b + n \in Nat /\ j \in Nat \ {0} /\ MaxRun(F, b + n, j)
    BY MaxRunsMember DEF HolesOf, F
  <2>2. b + n \in F
    BY <2>1 DEF MaxRun, H!Run
  <2> QED
    BY <1>3, <1>5, <2>2
<1>8. /\ u \in HStates /\ Same(e, u) /\ InLists(u.m, G \cup {<<b + n, k>>}) /\ Marks(e, u, b)
  <2>1. b + n \in H!Headers /\ H!BlockOf(b + n) = b
    BY <1>3, <1>5
  <2>2. OnePlace(G)
    BY HolesOnce DEF HolesOf
  <2>3. u = H!IndexHole(e, b + n, k)
    BY DEF u, k
  <2> HIDE DEF G
  <2> QED
    BY <1>4, <1>6, <1>7, <2>1, <2>2, <2>3, IndexHoleDoes
<1>9. ZoneOk(u.m) /\ Limit(u.m) = b + BlockLen /\ FreeOf(u.m) = F \cup H!Run(b, BlockLen) /\ u.m.used = s.m.used
  BY <1>2, <1>3, <1>6, <1>8 DEF Same, ZoneOk, Limit, FreeOf
<1>10. MaxRuns(FreeOf(u.m) \ H!Run(b, n)) = G \cup {<<b + n, k>>}
  <2> DEFINE a == b + n
  <2>1. /\ F \in SUBSET Nat /\ a \in Nat /\ 0 \in Nat /\ 0 <= a
        /\ \A x \in H!Run(a, k) : x \notin F
    <3>1. \A x \in H!Run(a, k) : x \in H!Run(b, BlockLen)
      BY <1>5
    <3> QED
      BY <1>3, <1>4, <3>1, FreeFacts DEF F
  <2>2. a - 1 \notin F
    <3>1. a - 1 \in H!Run(b, BlockLen)
      BY <1>4 DEF H!Run
    <3> QED
      BY <1>3, <3>1
  <2>3. H!NumOf(a + k) = 0
    <3>1. a + k = b + BlockLen
      BY <1>4
    <3> QED
      BY <1>2, <1>4, <3>1, NumShift
  <2>4. \A x \in a + 1 .. a + k - 1 : H!NumOf(x) # 0
    <3> SUFFICES ASSUME NEW x \in a + 1 .. a + k - 1 PROVE H!NumOf(x) # 0
      OBVIOUS
    <3>1. x - b \in 1 .. BlockLen - 1 /\ x - b \in 0 .. BlockLen - 1 /\ b + (x - b) = x
      BY <1>4
    <3>2. H!NumOf(b + (x - b)) = x - b
      BY <1>2, <1>4, <3>1, InBlock
    <3> QED
      BY <1>4, <3>1, <3>2
  <2> HIDE DEF a
  <2>5. MaxRuns(F \cup H!Run(a, k)) = Joined(MaxRuns(F), a, k, 0, 0)
    <3>1. Between(F, a, k, 0, 0)
      BY <2>1, <2>2, <2>3, <2>4 DEF Between
    <3> QED
      BY <1>4, <2>1, <3>1, JoinRun
  <2>6. a - 0 = a /\ 0 + k + 0 = k
    BY <1>4, <2>1
  <2>7. <<a, 0>> \notin MaxRuns(F) /\ <<a + k, 0>> \notin MaxRuns(F)
    BY MaxRunsMember
  <2>8. Joined(MaxRuns(F), a, k, 0, 0) = MaxRuns(F) \cup {<<a, k>>}
    BY <2>6, <2>7 DEF Joined
  <2> QED
    BY <1>5, <1>9, <2>5, <2>8 DEF a, HolesOf, F
<1>11. Marks(s, u, b) /\ b \in u.dirty
  <2>1. Marks(s, u, b)
    BY <1>2, <1>6, <1>8, MarksTrans
  <2> QED
    BY <1>2, <1>6, <1>8, <2>1 DEF Marks
<1>12. H!BlockOf(b) = b /\ H!NumOf(b) + n <= BlockLen /\ b \in H!Headers
  BY <1>2, <1>3, <1>4, <1>5
<1>13. \A x \in H!Run(b, n) : x < Limit(u.m) /\ x \notin s.m.used
  BY <1>2, <1>3, <1>5, <1>9
<1> HIDE DEF G
<1>14. Granted(s, s.m.used, H!Given(u, b), n)
  BY <1>8, <1>9, <1>10, <1>11, <1>12, <1>13, MakeGranted
<1> QED
  BY <1>14 DEF u, b

\* NewBlock grants the beginning of a new block and makes a hole of its rest, where
\* the rest is not one header that is left in use.
LEMMA NewBlockDoes ==
  ASSUME NEW s, Good(s), ~H!ZoneEmpty(s.m), NEW n \in 1 .. BlockLen - 1,
         NEW old \in SUBSET {H!ZoneBlock(s.m) + BlockLen - 1}
  PROVE  Granted(s, s.m.used \cup Kept(FALSE, n, old), H!NewBlock(s, n, old), n)
<1> DEFINE b == H!ZoneBlock(s.m)
           z == H!AllocFromZone(s)
           t == [z EXCEPT !.m = [z.m EXCEPT !.used = z.m.used \cup old]]
           rest == H!Run(b + n, BlockLen - n)
           c == [z EXCEPT !.m = [z.m EXCEPT
                   !.used = (z.m.used \cup old) \ rest, !.reserved = z.m.reserved \ rest,
                   !.next = [x \in H!Headers |-> IF x \in rest THEN H!Zero ELSE z.m.next[x]],
                   !.prev = [x \in H!Headers |-> IF x \in rest THEN H!Zero ELSE z.m.prev[x]]]]
           e == IF BlockLen - n <= 1 THEN t ELSE c
<1>1. /\ z \in HStates /\ z.m \in HeadStates /\ z.m.used = s.m.used /\ InLists(z.m, HolesOf(s.m))
      /\ z = [m |-> z.m, dirty |-> z.dirty]
  BY ZoneDoes, FreshBlock, HStateFields
<1>2. b \in Nat /\ BlockLen \in Nat /\ BlockLen >= 2 /\ n \in Nat /\ n >= 1 /\ n <= BlockLen - 1
  <2>1. b \in H!Headers
    BY ZoneDoes
  <2>2. b \in Nat
    BY <2>1, ZeroNoHead
  <2>3. BlockLen \in Nat /\ BlockLen >= 2
    BY KHSizes
  <2> HIDE DEF b
  <2> QED
    BY <2>2, <2>3
<1>3. /\ rest \subseteq H!Run(b, BlockLen) /\ old \subseteq rest /\ b + n \in rest
      /\ \A x \in rest : x \notin s.m.used
  <2>1. rest \subseteq H!Run(b, BlockLen) /\ b + n \in rest /\ b + BlockLen - 1 \in rest
    BY <1>2 DEF H!Run
  <2>2. \A x \in H!Run(b, BlockLen) : x \notin s.m.used
    BY FreshBlock
  <2> QED
    BY <2>1, <2>2
<1>4. H!NewBlock(s, n, old)
        = H!Given(IF b + n \in e.m.used THEN e ELSE H!IndexHole(e, b + n, BlockLen - n), b)
  BY <1>1 DEF H!NewBlock, HeadStates
<1> HIDE DEF b, z, rest
<1>5. CASE n # BlockLen - 1
  <2>1. e = c /\ Kept(FALSE, n, old) = {}
    BY <1>2, <1>5 DEF Kept
  <2>2. c \in HStates /\ Same(z, c) /\ InLists(c.m, HolesOf(s.m)) /\ Marks(z, c, b)
    BY <1>3, ClearedDoes DEF b, z
  <2> HIDE DEF c, e
  <2>3. b + n \notin e.m.used
    BY <1>1, <1>3, <2>1, <2>2 DEF Same
  <2>4. Granted(s, s.m.used, H!Given(H!IndexHole(c, b + n, BlockLen - n), b), n)
    BY <2>2, RestDoes DEF b, z
  <2>5. s.m.used \cup Kept(FALSE, n, old) = s.m.used
    BY <2>1
  <2>6. H!NewBlock(s, n, old) = H!Given(H!IndexHole(c, b + n, BlockLen - n), b)
    BY <1>4, <2>1, <2>3
  <2> QED
    BY <2>4, <2>5, <2>6
<1>6. CASE n = BlockLen - 1 /\ old = {}
  <2>1. e = t /\ Kept(FALSE, n, old) = {}
    BY <1>2, <1>6 DEF Kept
  <2>2. t = z
    <3>1. z.m.used \cup old = z.m.used
      BY <1>6
    <3>2. [z.m EXCEPT !.used = z.m.used] = z.m
      BY <1>1 DEF HeadStates
    <3> QED
      BY <1>1, <3>1, <3>2
  <2> HIDE DEF t, e
  <2>3. b + n \notin e.m.used
    BY <1>1, <1>3, <2>1, <2>2
  <2>4. Same(z, z) /\ Marks(z, z, b)
    BY DEF Same, Marks
  <2>5. Granted(s, s.m.used, H!Given(H!IndexHole(z, b + n, BlockLen - n), b), n)
    BY <1>1, <2>4, RestDoes DEF b, z
  <2>6. s.m.used \cup Kept(FALSE, n, old) = s.m.used
    BY <2>1
  <2>7. H!NewBlock(s, n, old) = H!Given(H!IndexHole(z, b + n, BlockLen - n), b)
    BY <1>4, <2>1, <2>2, <2>3
  <2> QED
    BY <2>5, <2>6, <2>7
<1>7. CASE n = BlockLen - 1 /\ old # {}
  <2>1. e = t /\ Kept(FALSE, n, old) = old /\ old = {b + BlockLen - 1} /\ b + n = b + BlockLen - 1
    BY <1>2, <1>7 DEF Kept, b
  <2>2. t.m.used = z.m.used \cup old
    BY <1>1 DEF HeadStates
  <2> HIDE DEF e
  <2>3. b + n \in e.m.used
    BY <2>1, <2>2
  <2>4. Granted(s, s.m.used \cup old, H!Given(t, b), BlockLen - 1)
    BY <2>1, LeakDoes DEF b, z
  <2>5. H!NewBlock(s, n, old) = H!Given(t, b)
    BY <1>4, <2>1, <2>3
  <2> QED
    BY <1>7, <2>1, <2>4, <2>5
<1> QED
  BY <1>5, <1>6, <1>7

\* AllocFullBlock grants a block, a hole or a new one.
LEMMA FullBlockDoes ==
  ASSUME NEW s, Good(s), BlockLen \in s.m.mask \/ ~H!ZoneEmpty(s.m)
  PROVE  Granted(s, s.m.used, H!AllocFullBlock(s), BlockLen)
<1>1. CASE BlockLen \in s.m.mask
  BY <1>1, FitDoes DEF H!AllocFullBlock
<1>2. CASE BlockLen \notin s.m.mask
  <2> DEFINE b == H!ZoneBlock(s.m)
             t == H!AllocFromZone(s)
             F == FreeOf(s.m)
  <2>1. ~H!ZoneEmpty(s.m) /\ H!AllocFullBlock(s) = H!Given(t, b)
    BY <1>2 DEF H!AllocFullBlock
  <2>2. /\ b \in H!Headers /\ H!NumOf(b) = 0 /\ b = Limit(s.m)
        /\ t \in HStates /\ ZoneOk(t.m) /\ Limit(t.m) = b + BlockLen /\ t.m.used = s.m.used
        /\ Marks(s, t, b) /\ b \in t.dirty
    BY <2>1, ZoneDoes
  <2>3. /\ FreeOf(t.m) = F \cup H!Run(b, BlockLen)
        /\ \A x \in H!Run(b, BlockLen) : /\ x \in H!Headers /\ H!BlockOf(x) = b /\ x < Limit(t.m)
                                       /\ x \notin F /\ x \notin s.m.used
        /\ \A n \in 1 .. BlockLen : b + n - 1 \in H!Run(b, BlockLen)
        /\ InLists(t.m, HolesOf(s.m))
    BY <2>1, FreshBlock
  <2> HIDE DEF b, t
  <2>4. FreeOf(t.m) \ H!Run(b, BlockLen) = F
    BY <2>3
  <2>5. H!NumOf(b) + BlockLen <= BlockLen /\ H!BlockOf(b) = b
    BY <2>2, KHSizes, BlockFacts, ZeroNoHead
  <2>6. Granted(s, s.m.used, H!Given(t, b), BlockLen)
    BY <2>2, <2>3, <2>4, <2>5, MakeGranted DEF HolesOf
  <2> QED
    BY <2>1, <2>6
<1> QED
  BY <1>1, <1>2

\* AllocOne grants one header.
LEMMA AllocOneDoes ==
  ASSUME NEW s, Good(s), s.m.mask # {} \/ ~H!ZoneEmpty(s.m),
         NEW old \in SUBSET {H!ZoneBlock(s.m) + BlockLen - 1}
  PROVE  Granted(s, s.m.used \cup Kept(s.m.mask # {}, 1, old), H!AllocOne(s, old), 1)
<1>1. s.m.mask \subseteq 2 .. BlockLen /\ s.m.mask \in SUBSET Nat /\ 1 \in Nat \ {0}
  BY HStateFields, KHSizes DEF Good, H!Sizes
<1>2. s.m.mask # {} => s.m.used \cup Kept(s.m.mask # {}, 1, old) = s.m.used
  BY DEF Kept
<1>3. CASE 3 \in s.m.mask
  <2>1. H!AllocOne(s, old) = H!Split(s, 3, 1) /\ 1 < 3 /\ s.m.mask # {}
    BY <1>3 DEF H!AllocOne
  <2>2. Granted(s, s.m.used, H!Split(s, 3, 1), 1)
    BY <1>1, <1>3, <2>1, SplitDoes
  <2> QED
    BY <1>2, <2>1, <2>2
<1>4. CASE 3 \notin s.m.mask /\ s.m.mask # {}
  <2> DEFINE k == H!Smallest(s.m.mask)
  <2>1. k \in s.m.mask
    BY <1>1, <1>4, SmallestIs
  <2>2. H!AllocOne(s, old) = H!Split(s, k, 1)
    BY <1>4 DEF H!AllocOne
  <2> HIDE DEF k
  <2>3. 1 < k
    BY <1>1, <2>1
  <2>4. Granted(s, s.m.used, H!Split(s, k, 1), 1)
    BY <1>1, <2>1, <2>3, SplitDoes
  <2> QED
    BY <1>2, <1>4, <2>2, <2>4
<1>5. CASE s.m.mask = {}
  <2>1. H!AllocOne(s, old) = H!NewBlock(s, 1, old) /\ ~H!ZoneEmpty(s.m) /\ 1 \in 1 .. BlockLen - 1
    BY <1>5, KHSizes DEF H!AllocOne
  <2>2. Granted(s, s.m.used \cup Kept(FALSE, 1, old), H!NewBlock(s, 1, old), 1)
    BY <2>1, NewBlockDoes
  <2>3. Kept(s.m.mask # {}, 1, old) = Kept(FALSE, 1, old)
    BY <1>5 DEF Kept
  <2> QED
    BY <2>1, <2>2, <2>3
<1> QED
  BY <1>3, <1>4, <1>5

\* AllocBlock grants less than a block.
LEMMA AllocBlockDoes ==
  ASSUME NEW s, Good(s), NEW n \in 2 .. BlockLen - 1,
         (\E k \in s.m.mask : k >= n) \/ ~H!ZoneEmpty(s.m),
         NEW old \in SUBSET {H!ZoneBlock(s.m) + BlockLen - 1}
  PROVE  Granted(s, s.m.used \cup Kept(\E k \in s.m.mask : k >= n, n, old), H!AllocBlock(s, n, old), n)
<1> DEFINE fit == {k \in s.m.mask : k >= n}
           found == \E k \in s.m.mask : k >= n
<1>1. fit \in SUBSET Nat /\ n \in Nat \ {0} /\ n \in 1 .. BlockLen - 1
  BY HStateFields, KHSizes DEF Good, H!Sizes
<1>2. found => s.m.used \cup Kept(found, n, old) = s.m.used
  BY DEF Kept
<1>3. found <=> fit # {}
  OBVIOUS
<1>4. CASE fit = {}
  <2>1. H!AllocBlock(s, n, old) = H!NewBlock(s, n, old) /\ ~H!ZoneEmpty(s.m)
    BY <1>4 DEF H!AllocBlock
  <2>2. Granted(s, s.m.used \cup Kept(FALSE, n, old), H!NewBlock(s, n, old), n)
    BY <1>1, <2>1, NewBlockDoes
  <2>3. Kept(found, n, old) = Kept(FALSE, n, old)
    BY <1>3, <1>4 DEF Kept
  <2> QED
    BY <2>1, <2>2, <2>3
<1>5. CASE n \in fit
  <2>1. H!AllocBlock(s, n, old) = H!Given(H!ShiftHole(s, n), s.m.holes[n]) /\ n \in s.m.mask /\ found
    BY <1>3, <1>5 DEF H!AllocBlock
  <2>2. Granted(s, s.m.used, H!Given(H!ShiftHole(s, n), s.m.holes[n]), n)
    BY <2>1, FitDoes
  <2> QED
    BY <1>2, <2>1, <2>2
<1>6. CASE fit # {} /\ n \notin fit
  <2> DEFINE k == H!Smallest(fit)
  <2>1. k \in fit
    BY <1>1, <1>6, SmallestIs
  <2>2. H!AllocBlock(s, n, old) = H!Split(s, k, n) /\ found
    BY <1>3, <1>6 DEF H!AllocBlock
  <2> HIDE DEF k
  <2>3. n < k /\ k \in s.m.mask
    BY <1>1, <1>6, <2>1
  <2>4. Granted(s, s.m.used, H!Split(s, k, n), n)
    BY <1>1, <2>3, SplitDoes
  <2> QED
    BY <1>2, <2>2, <2>4
<1> QED
  BY <1>4, <1>5, <1>6

\* What is given is in use.
Put(s, a, n) == [s EXCEPT !.m.used = @ \cup H!Run(a, n), !.m.reserved = @ \ H!Run(a, n)]

\* A granted run is filled, and all is well again.
LEMMA PutDoes ==
  ASSUME NEW s, Good(s), NEW n \in 1 .. BlockLen, NEW g, NEW U, Granted(s, U, g, n)
  PROVE  LET t == Put(g.s, g.at, n) IN
         /\ Good(t) /\ t.m.used = U \cup H!Run(g.at, n)
         /\ Marks(s, t, H!BlockOf(g.at)) /\ H!BlockOf(g.at) \in t.dirty
<1> DEFINE u == g.s
           a == g.at
           R == H!Run(a, n)
           t == Put(g.s, g.at, n)
<1>1. /\ u \in HStates /\ ZoneOk(u.m) /\ u.m.used = U /\ a \in H!Headers /\ H!NumOf(a) + n <= BlockLen
      /\ \A x \in R : x < Limit(u.m) /\ x \notin U
      /\ InLists(u.m, MaxRuns(FreeOf(u.m) \ R))
      /\ Marks(s, u, H!BlockOf(a)) /\ H!BlockOf(a) \in u.dirty
  BY DEF Granted
<1>0. t = Put(u, a, n)
  OBVIOUS
<1> HIDE DEF u, a, t
<1>2. \A x \in R : x \in H!Headers /\ H!BlockOf(x) = H!BlockOf(a)
  BY <1>1, InsideBlock
<1>3. t = TakeBits(u, R, {})
  BY <1>0, <1>1, HStateFields DEF Put, SetBits, TakeBits
<1>4. u.dirty \in SUBSET Nat /\ R \in SUBSET H!Headers
  BY <1>1, <1>2, HStateFields
<1>5. Good(t) /\ t.m.used = u.m.used \cup R /\ t.dirty = u.dirty \cup {} /\ Marks(u, t, H!BlockOf(a))
  <2>1. Inside(R, u.m, H!BlockOf(a))
    BY <1>1, <1>2 DEF Inside
  <2>2. {} \in SUBSET Nat /\ u \in HStates /\ ZoneOk(u.m) /\ InListsBut(u.m, R)
    BY <1>1 DEF InListsBut
  <2> HIDE DEF R
  <2>3. Took(u, t, R, {}, H!BlockOf(a))
    BY <1>3, <1>4, <2>1, <2>2, TakenDoes
  <2> QED
    BY <2>3 DEF Took
<1>6. Marks(s, t, H!BlockOf(a)) /\ H!BlockOf(a) \in t.dirty
  BY <1>1, <1>5, MarksTrans
<1> QED
  BY <1>1, <1>5, <1>6 DEF t, u, a

\* Write puts a header into use that is in no list of holes.
LEMMA WriteDoes ==
  ASSUME NEW s, Good(s), NEW h \in H!Headers, h \notin s.m.used, h < Limit(s.m),
         NEW u \in HStates, Same(s, u), Marks(s, u, H!BlockOf(h)),
         InLists(u.m, MaxRuns(FreeOf(s.m) \ H!Run(h, 1)))
  PROVE  LET t == H!Write(u, h) IN
         /\ Good(t) /\ t.m.used = s.m.used \cup {h}
         /\ Marks(s, t, H!BlockOf(h)) /\ H!BlockOf(h) \in t.dirty
<1> DEFINE t == H!Write(u, h)
           R == {h}
<1>1. ZoneOk(u.m) /\ Limit(u.m) = Limit(s.m) /\ FreeOf(u.m) = FreeOf(s.m) /\ u.m.used = s.m.used
  BY DEF Same, ZoneOk, Limit, FreeOf, Good
<1>2. H!Run(h, 1) = R /\ h \in Nat /\ H!BlockOf(h) \in Nat /\ u.dirty \in SUBSET Nat
  BY ZeroNoHead, BlockFacts, HStateFields DEF H!Run
<1>3. t = TakeBits(u, R, {H!BlockOf(h)})
  BY HStateFields DEF H!Write, SetBits, TakeBits
<1> HIDE DEF t
<1>4. /\ Good(t) /\ t.m.used = u.m.used \cup R /\ t.dirty = u.dirty \cup {H!BlockOf(h)}
      /\ Marks(u, t, H!BlockOf(h))
  <2>1. InListsBut(u.m, R)
    BY <1>1, <1>2 DEF InListsBut
  <2>2. R \in SUBSET H!Headers /\ Inside(R, u.m, H!BlockOf(h))
    BY <1>1 DEF Inside
  <2> DEFINE E == {H!BlockOf(h)}
             b == H!BlockOf(h)
  <2>3. E \in SUBSET Nat /\ t = TakeBits(u, R, E) /\ Inside(R, u.m, b)
    BY <1>2, <1>3, <2>2
  <2> HIDE DEF R, E, b
  <2>4. Took(u, t, R, E, b)
    BY <1>1, <2>1, <2>2, <2>3, TakenDoes
  <2> QED
    BY <2>4 DEF E, b, Took
<1>5. Marks(s, t, H!BlockOf(h)) /\ H!BlockOf(h) \in t.dirty
  BY <1>2, <1>4, MarksTrans
<1> QED
  BY <1>1, <1>4, <1>5 DEF t

\* Next to a header in use, in its block.
LEMMA NextTo ==
  ASSUME NEW s, Good(s), NEW h \in Nat, H!NumOf(h) # 0, h - 1 \in H!Headers, h - 1 < Limit(s.m)
  PROVE  h \in H!Headers /\ h < Limit(s.m) /\ H!BlockOf(h) = H!BlockOf(h - 1) /\ H!NumOf(h - 1) = H!NumOf(h) - 1
<1> DEFINE g == h - 1
<1>1. g \in Nat /\ h = g + 1 /\ H!NumOf(g) \in 0 .. BlockLen - 1 /\ BlockLen \in Nat /\ BlockLen >= 2
      /\ ZoneOk(s.m) /\ Limit(s.m) \in Nat /\ H!NumOf(Limit(s.m)) = 0 /\ Limit(s.m) <= Top
      /\ g \in H!Headers /\ g < Limit(s.m) /\ Top \in Nat /\ H!PageLen \in Nat
  <2>1. g \in Nat /\ h = g + 1 /\ g \in H!Headers /\ g < Limit(s.m)
    BY ZeroNoHead
  <2>2. ZoneOk(s.m) /\ Limit(s.m) \in Nat /\ H!NumOf(Limit(s.m)) = 0 /\ Limit(s.m) <= Top
        /\ Top \in Nat /\ H!PageLen \in Nat
    BY KHSizes, TopFacts DEF ZoneOk, Good
  <2> QED
    BY <2>1, <2>2, KHSizes, BlockFacts
<1>2. H!NumOf(g) + 1 < BlockLen
  <2> SUFFICES ASSUME H!NumOf(g) + 1 = BlockLen PROVE FALSE
    BY <1>1
  <2>1. H!NumOf(g + 1) = 0
    BY <1>1, NumShift
  <2> QED
    BY <1>1, <2>1
<1>3. H!NumOf(g + 1) = H!NumOf(g) + 1 /\ H!BlockOf(g + 1) = H!BlockOf(g)
  BY <1>1, <1>2, NumShift
<1>4. g + 2 <= Limit(s.m)
  BY <1>1, <1>2, InLimit
<1>5. h \in H!Headers
  BY <1>1, <1>4, TopFacts
<1> QED
  BY <1>1, <1>3, <1>4, <1>5

\* The hole a header is cut from, with what stays of it.
LEMMA CutDoes ==
  ASSUME NEW s, Good(s), NEW start \in H!Headers, NEW n \in H!Sizes, MaxRun(FreeOf(s.m), start, n),
         NEW h \in H!Headers, NEW at \in H!Headers,
         \/ h = start /\ at = start + 1
         \/ h = start + n - 1 /\ at = start
  PROVE  LET u == H!IndexHole(H!DeindexHole(s, start, n), at, n - 1) IN
         /\ u \in HStates /\ Same(s, u) /\ Marks(s, u, H!BlockOf(start))
         /\ InLists(u.m, MaxRuns(FreeOf(s.m) \ H!Run(h, 1)))
<1> DEFINE F == FreeOf(s.m)
           G == HolesOf(s.m)
           J == G \ {<<start, n>>}
           d == H!DeindexHole(s, start, n)
           u == H!IndexHole(d, at, n - 1)
           k == n - 1
<1>1. /\ n \in Nat /\ n >= 2 /\ n <= BlockLen /\ BlockLen \in Nat /\ start \in Nat /\ h \in Nat
      /\ k \in 1 .. BlockLen /\ n \in Nat \ {0}
  BY KHSizes, ZeroNoHead DEF H!Sizes
<1>2. s \in HStates /\ InLists(s.m, G) /\ OnePlace(G) /\ OnePlace(J) /\ F \in SUBSET Nat /\ F \subseteq H!Headers
  <2>1. OnePlace(G)
    BY HolesOnce DEF HolesOf
  <2>2. OnePlace(J)
    BY <2>1 DEF OnePlace
  <2> QED
    BY <2>1, <2>2, FreeFacts DEF Good
<1>3. <<start, n>> \in G
  BY <1>1, MaxRunsMember DEF HolesOf
<1>4. H!NumOf(start) + n <= BlockLen
  BY <1>2, <1>3, HoleFacts DEF HolesOf
<1>5. \A x \in H!Run(start, n) : H!BlockOf(x) = H!BlockOf(start)
  BY <1>1, <1>4, InsideBlock
<1>6. at \in H!Run(start, n)
  BY <1>1 DEF H!Run
<1>7. d \in HStates /\ Same(s, d) /\ InLists(d.m, J) /\ Marks(s, d, H!BlockOf(start))
  <2> HIDE DEF G
  <2> QED
    BY <1>2, <1>3, DeindexHoleDoes
<1> HIDE DEF d
<1>8. \A j : <<at, j>> \notin J
  <2> SUFFICES ASSUME NEW j, <<at, j>> \in G, <<at, j>> # <<start, n>> PROVE FALSE
    OBVIOUS
  <2>1. at \in Nat /\ j \in Nat \ {0} /\ MaxRun(F, at, j)
    BY MaxRunsMember DEF HolesOf
  <2>2. at \in H!Run(at, j)
    BY <2>1 DEF H!Run
  <2>3. at = start /\ j = n
    BY <1>1, <1>6, <2>1, <2>2, RunsMeet
  <2> QED
    BY <2>3
<1>9. u \in HStates /\ Same(d, u) /\ InLists(u.m, J \cup {<<at, k>>}) /\ Marks(d, u, H!BlockOf(at))
  <2> HIDE DEF J, k
  <2>1. LET w == H!IndexHole(d, at, k) IN
        w \in HStates /\ Same(d, w) /\ InLists(w.m, J \cup {<<at, k>>}) /\ Marks(d, w, H!BlockOf(at))
    BY <1>1, <1>2, <1>7, <1>8, IndexHoleDoes
  <2> QED
    BY <2>1 DEF k
<1> HIDE DEF u
<1>10. J \cup {<<at, k>>} = MaxRuns(F \ H!Run(h, 1))
  <2>1. start <= h /\ h + 1 <= start + n /\ 1 \in Nat \ {0}
    BY <1>1
  <2>2. MaxRuns(F \ H!Run(h, 1)) = CutOut(MaxRuns(F), start, n, h, 1)
    BY <1>1, <1>2, <2>1, CutRun
  <2>3. CASE h = start /\ at = start + 1
    <3>1. h = start /\ h + 1 # start + n /\ start + n - (h + 1) = k /\ h + 1 = at
      BY <1>1, <2>3
    <3> QED
      BY <2>2, <3>1 DEF CutOut, HolesOf
  <2>4. CASE h = start + n - 1 /\ at = start
    <3>1. h # start /\ h + 1 = start + n /\ h - start = k
      BY <1>1, <2>4
    <3> QED
      BY <2>2, <2>4, <3>1 DEF CutOut, HolesOf
  <2> QED
    BY <2>3, <2>4
<1>11. Same(s, u) /\ Marks(s, u, H!BlockOf(start))
  BY <1>5, <1>6, <1>7, <1>9, MarksTrans DEF Same
<1> QED
  BY <1>9, <1>10, <1>11 DEF u, d

\* A free header between others in use is a hole of one.
LEMMA OneHole ==
  ASSUME NEW s, Good(s), NEW h \in H!Headers, h \in s.m.reserved, h \notin s.m.used
  PROVE  h < Limit(s.m)
         /\ LET t == H!Write(s, h) IN
            /\ Good(t) /\ t.m.used = s.m.used \cup {h}
            /\ Marks(s, t, H!BlockOf(h)) /\ H!BlockOf(h) \in t.dirty
<1> DEFINE F == FreeOf(s.m)
           G == HolesOf(s.m)
           u == H!TakeHole(s, h, 1)
           t == H!Write(s, h)
<1>1. s \in HStates /\ InLists(s.m, G) /\ OnePlace(G) /\ F \in SUBSET Nat /\ F \subseteq H!Headers /\ h \in Nat
  BY HolesOnce, FreeFacts, ZeroNoHead DEF Good, HolesOf
<1>2. <<h, 1>> \in G
  BY <1>1 DEF InLists, At
<1>3. MaxRun(F, h, 1) /\ h \in F
  <2>1. MaxRun(F, h, 1)
    BY <1>2, MaxRunsMember DEF HolesOf
  <2> QED
    BY <1>1, <2>1 DEF MaxRun, H!Run
<1>4. u \in HStates /\ Same(s, u) /\ InLists(u.m, G \ {<<h, 1>>}) /\ Marks(s, u, H!BlockOf(h))
  <2>1. IF 1 = 0 THEN <<h, 1>> \notin G ELSE h \in H!Headers /\ 1 \in 1 .. BlockLen /\ <<h, 1>> \in G
    BY <1>2, KHSizes
  <2> HIDE DEF G
  <2> QED
    BY <1>1, <2>1, TakeHoleDoes
<1>5. G \ {<<h, 1>>} = MaxRuns(F \ H!Run(h, 1))
  <2>1. 1 \in Nat \ {0} /\ h <= h /\ h + 1 <= h + 1
    BY <1>1
  <2>2. MaxRuns(F \ H!Run(h, 1)) = CutOut(MaxRuns(F), h, 1, h, 1)
    BY <1>1, <1>3, <2>1, CutRun
  <2> QED
    BY <2>2 DEF CutOut, HolesOf
<1>6. t = H!Write(u, h)
  <2>1. u = [s EXCEPT !.m = [s.m EXCEPT !.reserved = s.m.reserved \ {h}]]
    BY DEF H!TakeHole
  <2> DEFINE w == [s.m EXCEPT !.reserved = s.m.reserved \ {h}]
  <2>2. u = [m |-> w, dirty |-> s.dirty]
    BY <1>1, <2>1, HStateFields
  <2>3. /\ w.used = s.m.used /\ w.reserved = s.m.reserved \ {h} /\ w \in HeadStates
    BY <1>1, HStateFields DEF HeadStates
  <2> DEFINE U == s.m.used \cup {h}  V == s.m.reserved \ {h}  D == s.dirty \cup {H!BlockOf(h)}
  <2>4. H!Write(u, h) = [m |-> [w EXCEPT !.used = U, !.reserved = V], dirty |-> D]
    <3>1. u.m = w /\ u.dirty = s.dirty /\ w.used = s.m.used /\ w.reserved \ {h} = V
      BY <2>2, <2>3
    <3>2. H!Write(u, h) = [u EXCEPT !.m = [u.m EXCEPT !.used = u.m.used \cup {h}, !.reserved = u.m.reserved \ {h}],
                                  !.dirty = u.dirty \cup {H!BlockOf(h)}]
      BY <1>4, HStateFields DEF H!Write
    <3>3. H!Write(u, h) = [u EXCEPT !.m = [w EXCEPT !.used = U, !.reserved = V], !.dirty = D]
      BY <3>1, <3>2
    <3> HIDE DEF w, U, V, D, u
    <3> QED
      BY <2>2, <3>3
  <2>5. t = [m |-> [s.m EXCEPT !.used = U, !.reserved = V], dirty |-> D]
    <3>1. s = [m |-> s.m, dirty |-> s.dirty]
      BY <1>1, HStateFields
    <3>2. t = [s EXCEPT !.m = [s.m EXCEPT !.used = U, !.reserved = V], !.dirty = D]
      BY <1>1, HStateFields DEF H!Write
    <3> HIDE DEF U, V, D, t
    <3> QED
      BY <3>1, <3>2
  <2>6. [w EXCEPT !.used = U, !.reserved = V] = [s.m EXCEPT !.used = U, !.reserved = V]
    <3>1. s.m \in HeadStates
      BY <1>1, HStateFields
    <3> HIDE DEF U, V
    <3> QED
      BY <3>1 DEF HeadStates
  <2> QED
    BY <2>4, <2>5, <2>6
<1>7. h < Limit(s.m)
  BY <1>3 DEF FreeOf
<1> HIDE DEF u, t
<1>8. LET v == H!Write(u, h) IN
      /\ Good(v) /\ v.m.used = s.m.used \cup {h}
      /\ Marks(s, v, H!BlockOf(h)) /\ H!BlockOf(h) \in v.dirty
  BY <1>4, <1>5, <1>7, WriteDoes
<1> QED
  BY <1>6, <1>7, <1>8 DEF t

\* A run takes the header behind it.
LEMMA ExpandUpDoes ==
  ASSUME NEW s, Good(s), NEW h \in Nat, H!NumOf(h) # 0, h \notin s.m.used, h - 1 \in s.m.used
  PROVE  LET t == H!ExpandUp(s, h) IN
         /\ h \in H!Headers /\ Good(t) /\ t.m.used = s.m.used \cup {h}
         /\ Marks(s, t, H!BlockOf(h)) /\ H!BlockOf(h) \in t.dirty
<1> DEFINE F == FreeOf(s.m)
           n == H!Above(s, h)
           t == H!ExpandUp(s, h)
<1>1. /\ s \in HStates /\ ZoneOk(s.m) /\ InLists(s.m, HolesOf(s.m)) /\ h - 1 \in H!Headers
      /\ h - 1 < Limit(s.m) /\ h - 1 \notin F
  BY HStateFields DEF Good, ZoneOk, FreeOf
<1>2. h \in H!Headers /\ h < Limit(s.m) /\ h \in F
  BY <1>1, NextTo DEF FreeOf
<1>3. CASE h \in s.m.reserved
  <2>1. t = H!Write(s, h)
    BY <1>3 DEF H!ExpandUp
  <2> QED
    BY <1>2, <1>3, <2>1, OneHole
<1>4. CASE h \notin s.m.reserved
  <2>1. n \in Nat /\ H!NumOf(h) + n <= BlockLen /\ n # 0 /\ MaxRun(F, h, n)
    <3>1. LET q == H!Above(s, h) IN
          /\ q \in Nat /\ H!NumOf(h) + q <= BlockLen
          /\ IF q = 0 THEN H!NumOf(h) = 0 \/ h \notin FreeOf(s.m)
             ELSE H!NumOf(h) # 0 /\ MaxRun(FreeOf(s.m), h, q)
      BY <1>1, AboveIs
    <3> QED
      BY <1>2, <3>1
  <2> HIDE DEF n
  <2>2. n # 1
    <3> SUFFICES ASSUME n = 1 PROVE FALSE
      OBVIOUS
    <3>1. <<h, 1>> \in HolesOf(s.m)
      BY <2>1, MaxRunsMember DEF HolesOf
    <3> QED
      BY <1>1, <1>2, <1>4, <3>1 DEF InLists, At
  <2>3. n \in H!Sizes /\ BlockLen \in Nat /\ H!NumOf(h) \in Nat
    BY <2>1, <2>2, KHSizes, BlockFacts DEF H!Sizes
  <2> DEFINE u == H!IndexHole(H!DeindexHole(s, h, n), h + 1, n - 1)
  <2>4. h + 1 \in H!Headers
    <3>1. h + 1 \in H!Run(h, n) /\ n \in 1 .. BlockLen
      BY <2>1, <2>2, <2>3 DEF H!Run, H!Sizes
    <3> QED
      BY <1>2, <2>1, <3>1, InsideBlock
  <2>5. /\ u \in HStates /\ Same(s, u) /\ Marks(s, u, H!BlockOf(h))
        /\ InLists(u.m, MaxRuns(FreeOf(s.m) \ H!Run(h, 1)))
    BY <1>2, <2>1, <2>3, <2>4, CutDoes
  <2>6. t = H!Write(u, h)
    BY <1>4 DEF H!ExpandUp, n
  <2> HIDE DEF u, t
  <2>7. /\ Good(t) /\ t.m.used = s.m.used \cup {h}
        /\ Marks(s, t, H!BlockOf(h)) /\ H!BlockOf(h) \in t.dirty
    BY <1>2, <2>5, <2>6, WriteDoes
  <2> QED
    BY <1>2, <2>7 DEF t
<1> QED
  BY <1>3, <1>4

\* A run takes the header before it.
LEMMA ExpandDownDoes ==
  ASSUME NEW s, Good(s), NEW h \in Nat, H!NumOf(h + 1) # 0, h \notin s.m.used, h + 1 \in s.m.used
  PROVE  LET t == H!ExpandDown(s, h) IN
         /\ h \in H!Headers /\ H!NumOf(h) = H!NumOf(h + 1) - 1 /\ Good(t) /\ t.m.used = s.m.used \cup {h}
         /\ Marks(s, t, H!BlockOf(h)) /\ H!BlockOf(h) \in t.dirty
<1> DEFINE F == FreeOf(s.m)
           g == h + 1
           n == H!Below(s, g)
           t == H!ExpandDown(s, h)
<1>1. /\ s \in HStates /\ ZoneOk(s.m) /\ InLists(s.m, HolesOf(s.m)) /\ g \in H!Headers
      /\ g < Limit(s.m) /\ g \notin F /\ g \in Nat /\ h = g - 1
  BY HStateFields DEF Good, ZoneOk, FreeOf
<1>2. h \in H!Headers /\ h < Limit(s.m) /\ h \in F /\ H!NumOf(h) = H!NumOf(g) - 1
  <2>1. H!PageLen \in Nat /\ H!NumOf(H!PageLen) = 0 /\ H!Headers = H!PageLen .. Top - 1 /\ Top \in Nat /\ g >= H!PageLen
    BY <1>1, TopFacts, KHSizes
  <2>2. g # H!PageLen
    BY <2>1
  <2>3. h \in H!Headers
    BY <1>1, <2>1, <2>2
  <2>4. h < Limit(s.m)
    BY <1>1, TopFacts DEF ZoneOk
  <2>5. 1 <= H!NumOf(g)
    BY <1>1, BlockFacts
  <2>6. H!NumOf(g - 1) = H!NumOf(g) - 1
    BY <1>1, <2>5, NumShift
  <2> QED
    BY <1>1, <2>3, <2>4, <2>6 DEF FreeOf
<1>3. CASE h \in s.m.reserved
  <2>1. t = H!Write(s, h)
    BY <1>3 DEF H!ExpandDown
  <2> QED
    BY <1>2, <1>3, <2>1, OneHole
<1>4. CASE h \notin s.m.reserved
  <2> DEFINE start == g - n
  <2>0. n \in Nat /\ n <= H!NumOf(g) /\ n # 0 /\ MaxRun(F, start, n)
    <3>1. LET p == H!Below(s, g) IN
          /\ p \in Nat /\ p <= H!NumOf(g)
          /\ IF p = 0 THEN H!NumOf(g) = 0 \/ g - 1 \notin FreeOf(s.m)
             ELSE H!NumOf(g) # 0 /\ MaxRun(FreeOf(s.m), g - p, p)
      BY <1>1, BelowIs
    <3> QED
      BY <1>1, <1>2, <3>1
  <2> HIDE DEF n
  <2>1. start \in Nat /\ H!BlockOf(start) = H!BlockOf(g) /\ h = start + n - 1 /\ start + n = g
        /\ H!NumOf(g) \in 0 .. BlockLen - 1 /\ BlockLen \in Nat
    <3>1. H!NumOf(g) \in 0 .. BlockLen - 1 /\ BlockLen \in Nat /\ g \in Nat
      BY <1>1, KHSizes, BlockFacts
    <3> HIDE DEF g
    <3>2. g - n \in Nat /\ H!BlockOf(g - n) = H!BlockOf(g)
      BY <2>0, <3>1, NumShift
    <3>3. h = g - 1
      BY DEF g
    <3> QED
      BY <2>0, <3>1, <3>2, <3>3
  <2>2. n # 1
    <3> SUFFICES ASSUME n = 1 PROVE FALSE
      OBVIOUS
    <3>1. start = h
      BY <1>1, <2>1
    <3>2. <<h, 1>> \in HolesOf(s.m)
      BY <2>0, <3>1, MaxRunsMember DEF HolesOf
    <3> QED
      BY <1>1, <1>2, <1>4, <3>2 DEF InLists, At
  <2>3. n \in H!Sizes
    BY <2>0, <2>1, <2>2 DEF H!Sizes
  <2>4. start \in H!Headers
    <3>1. start \in F
      BY <2>0, <2>1 DEF MaxRun, H!Run
    <3> QED
      BY <3>1, FreeFacts
  <2>5. H!BlockOf(start) = H!BlockOf(h)
    <3>1. g \in Nat /\ 1 \in Nat /\ 1 <= H!NumOf(g) /\ h = g - 1
      BY <1>1, <2>0, <2>1
    <3> HIDE DEF g
    <3>2. H!BlockOf(g - 1) = H!BlockOf(g)
      BY <3>1, NumShift
    <3> QED
      BY <2>1, <3>1, <3>2
  <2> DEFINE u == H!IndexHole(H!DeindexHole(s, start, n), start, n - 1)
  <2>7. t = H!Write(u, h)
    <3> DEFINE k == H!Below(s, h + 1)
               i == h + 1 - k
    <3>1. t = H!Write(H!IndexHole(H!DeindexHole(s, i, k), i, k - 1), h)
      BY <1>4 DEF H!ExpandDown
    <3>2. k = n
      BY DEF n
    <3>4. i = start
      <4> HIDE DEF k
      <4> QED
        BY <2>0, <3>2
    <3> HIDE DEF k, i, start, t
    <3> QED
      BY <3>1, <3>2, <3>4
  <2> HIDE DEF start, t
  <2>6. /\ u \in HStates /\ Same(s, u) /\ Marks(s, u, H!BlockOf(start))
        /\ InLists(u.m, MaxRuns(FreeOf(s.m) \ H!Run(h, 1)))
    BY <1>2, <2>0, <2>1, <2>3, <2>4, CutDoes
  <2> HIDE DEF u
  <2>8. /\ Good(t) /\ t.m.used = s.m.used \cup {h}
        /\ Marks(s, t, H!BlockOf(h)) /\ H!BlockOf(h) \in t.dirty
    BY <1>2, <2>5, <2>6, <2>7, WriteDoes
  <2> QED
    BY <1>2, <2>8 DEF t
<1> QED
  BY <1>3, <1>4

\* The runs R of the callers and the headers U in use.
RunsSound(U, R) ==
  /\ \A r \in R : r \in H!Headers \X (1 .. BlockLen) /\ H!NumOf(r[1]) + r[2] <= BlockLen
  /\ \A r, q \in R : r # q => H!Run(r[1], r[2]) \cap H!Run(q[1], q[2]) = {}
  /\ U = UNION {H!Run(r[1], r[2]) : r \in R}

\* A header is in use when a run has it.
LEMMA RunsMember ==
  ASSUME NEW U, NEW R, RunsSound(U, R)
  PROVE  \A x : x \in U <=> \E r \in R : x \in H!Run(r[1], r[2])
BY DEF RunsSound

\* A run of headers that were not in use is added.
LEMMA AddRun ==
  ASSUME NEW U, NEW R, RunsSound(U, R), NEW a \in H!Headers, NEW n \in 1 .. BlockLen,
         H!NumOf(a) + n <= BlockLen, \A x \in H!Run(a, n) : x \notin U
  PROVE  RunsSound(U \cup H!Run(a, n), R \cup {<<a, n>>})
<1> DEFINE V == U \cup H!Run(a, n)
           S == R \cup {<<a, n>>}
<1>1. \A x : x \in U <=> \E r \in R : x \in H!Run(r[1], r[2])
  BY RunsMember
<1>2. \A r \in S : r \in H!Headers \X (1 .. BlockLen) /\ H!NumOf(r[1]) + r[2] <= BlockLen
  BY DEF RunsSound
<1>3. ASSUME NEW r \in S, NEW q \in S, r # q, NEW x, x \in H!Run(r[1], r[2]), x \in H!Run(q[1], q[2])
      PROVE  FALSE
  <2>1. CASE r \in R /\ q \in R
    BY <1>3, <2>1 DEF RunsSound
  <2>2. CASE r \in R /\ q = <<a, n>>
    <3>1. q[1] = a /\ q[2] = n
      BY <2>2
    <3> QED
      BY <1>1, <1>3, <2>2, <3>1
  <2>3. CASE q \in R /\ r = <<a, n>>
    <3>1. r[1] = a /\ r[2] = n
      BY <2>3
    <3> QED
      BY <1>1, <1>3, <2>3, <3>1
  <2> QED
    BY <1>3, <2>1, <2>2, <2>3
<1>4. V = UNION {H!Run(r[1], r[2]) : r \in S}
  <2> DEFINE q == <<a, n>>
  <2>1. q[1] = a /\ q[2] = n /\ q \in S
    OBVIOUS
  <2>2. \A x : x \in V <=> \E r \in S : x \in H!Run(r[1], r[2])
    <3> SUFFICES ASSUME NEW x PROVE x \in V <=> \E r \in S : x \in H!Run(r[1], r[2])
      OBVIOUS
    <3>1. ASSUME x \in V PROVE \E r \in S : x \in H!Run(r[1], r[2])
      BY <1>1, <2>1, <3>1
    <3>2. ASSUME NEW r \in S, x \in H!Run(r[1], r[2]) PROVE x \in V
      <4>1. CASE r \in R
        BY <1>1, <3>2, <4>1
      <4>2. CASE r = q
        BY <2>1, <3>2, <4>2
      <4> QED
        BY <4>1, <4>2
    <3> QED
      BY <3>1, <3>2
  <2> HIDE DEF V, S
  <2> QED
    BY <2>2
<1> QED
  <2>1. \A r, q \in S : r # q => H!Run(r[1], r[2]) \cap H!Run(q[1], q[2]) = {}
    BY <1>3
  <2> QED
    BY <1>2, <1>4, <2>1 DEF RunsSound

\* A run is dropped.
LEMMA DropRun ==
  ASSUME NEW U, NEW R, RunsSound(U, R), NEW r \in R
  PROVE  RunsSound(U \ H!Run(r[1], r[2]), R \ {r})
<1> DEFINE V == U \ H!Run(r[1], r[2])
           S == R \ {r}
<1>1. \A x : x \in U <=> \E q \in R : x \in H!Run(q[1], q[2])
  BY RunsMember
<1>2. \A x : x \in V <=> \E q \in S : x \in H!Run(q[1], q[2])
  BY <1>1 DEF RunsSound
<1>3. V = UNION {H!Run(q[1], q[2]) : q \in S}
  <2> HIDE DEF V, S
  <2> QED
    BY <1>2
<1> QED
  BY <1>3 DEF RunsSound

\* A run that a caller has.
LEMMA RunFacts ==
  ASSUME NEW U, NEW R, RunsSound(U, R), NEW r \in R
  PROVE  /\ r[1] \in H!Headers /\ r[2] \in 1 .. BlockLen /\ r = <<r[1], r[2]>> /\ r[1] \in Nat /\ r[2] \in Nat
         /\ H!NumOf(r[1]) \in Nat /\ BlockLen \in Nat
         /\ H!NumOf(r[1]) + r[2] <= BlockLen /\ H!Run(r[1], r[2]) \subseteq U
         /\ \A x \in H!Run(r[1], r[2]) : x \in H!Headers /\ H!BlockOf(x) = H!BlockOf(r[1])
<1>1. r[1] \in H!Headers /\ r[2] \in 1 .. BlockLen /\ r = <<r[1], r[2]>> /\ H!NumOf(r[1]) + r[2] <= BlockLen
  BY DEF RunsSound
<1>2. \A x \in H!Run(r[1], r[2]) : x \in U
  BY RunsMember
<1>5. BlockLen \in Nat /\ r[2] \in Nat
  BY <1>1, KHSizes
<1>3. r[1] \in Nat /\ r[2] \in Nat /\ BlockLen \in Nat /\ H!NumOf(r[1]) \in Nat
  <2>1. \A g \in Nat : H!NumOf(g) \in Nat
    <3> SUFFICES ASSUME NEW g \in Nat PROVE H!NumOf(g) \in Nat
      OBVIOUS
    <3>1. H!NumOf(g) \in 0 .. BlockLen - 1
      BY BlockFacts
    <3> QED
      BY <1>5, <3>1
  <2> QED
    BY <1>1, <1>5, <2>1, ZeroNoHead
<1>4. \A x \in H!Run(r[1], r[2]) : x \in H!Headers /\ H!BlockOf(x) = H!BlockOf(r[1])
  BY <1>1, InsideBlock
<1> QED
  BY <1>1, <1>2, <1>3, <1>4

\* The inductive invariant: every hole that there is, is where holes of its size
\* are kept and nothing else is there, and what is in use is what the callers have
\* and what has leaked.
HeadInv ==
  /\ Good(H!Here)
  /\ leaked \subseteq heads.used /\ RunsSound(heads.used \ leaked, runs)

\* What every operation on the runs does with the memory.
Does(s, b) == Good(s) /\ Marks(H!Here, s, b) /\ b \in s.dirty

\* The parts of Here.
LEMMA HereIs == H!Here.m = heads /\ H!Here.dirty = touched
BY DEF H!Here, H!State

\* An operation on the memory that does what it should keeps it sound, and marks
\* what it changes.
LEMMA BecomesDoes ==
  ASSUME NEW s, H!Becomes(s), NEW b, Does(s, b)
  PROVE  /\ heads' = s.m /\ Good(H!Here)' /\ H!BlocksMarked
<1>1. heads' = s.m /\ touched' = s.dirty
  BY DEF H!Becomes
<1>2. s = [m |-> s.m, dirty |-> s.dirty]
  BY HStateFields DEF Does, Good
<1>3. H!Here' = s
  BY <1>1, <1>2 DEF H!Here, H!State
<1>4. Good(H!Here)'
  BY <1>3 DEF Does, Good
<1>5. H!BlocksMarked
  <2> SUFFICES ASSUME NEW c \in H!Blocks, NEW h \in H!Run(c, BlockLen),
                      \/ (h \in heads.used) # (h \in heads'.used)
                      \/ (h \in heads.reserved) # (h \in heads'.reserved)
                      \/ heads.next[h] # heads'.next[h] \/ heads.prev[h] # heads'.prev[h]
               PROVE  c \in touched'
    BY DEF H!BlocksMarked
  <2>1. c \in H!Headers /\ H!NumOf(c) = 0 /\ c \in Nat
    BY ZeroNoHead DEF H!Blocks
  <2>2. h - c \in 0 .. BlockLen - 1 /\ c + (h - c) = h
    BY <2>1, KHSizes DEF H!Run
  <2>3. H!BlockOf(h) = c
    <3>1. H!BlockOf(c + (h - c)) = c
      BY <2>1, <2>2, InBlock
    <3> QED
      BY <2>2, <3>1
  <2>4. h \in H!Headers
    <3>1. BlockLen \in 1 .. BlockLen /\ H!NumOf(c) + BlockLen <= BlockLen
      BY <2>1, KHSizes
    <3> QED
      BY <2>1, <3>1, InsideBlock
  <2>5. H!BlockOf(h) \in s.dirty \/ H!BlockOf(h) = b
    BY <1>1, <2>4, HereIs DEF Does, Marks
  <2> QED
    BY <1>1, <2>3, <2>5 DEF Does
<1> QED
  BY <1>1, <1>4, <1>5

\* kh_alloc_one, kh_alloc_block and kh_alloc_full_block.
LEMMA AllocStep ==
  ASSUME HeadInv, NEW n \in 1 .. BlockLen, H!Alloc(n)
  PROVE  HeadInv' /\ H!BlocksMarked
<1>1. PICK old \in H!Leftovers :
        /\ H!Take(CASE n = 1        -> H!AllocOne(H!Here, old)
                    [] n = BlockLen -> H!AllocFullBlock(H!Here)
                    [] OTHER        -> H!AllocBlock(H!Here, n, old), n)
        /\ leaked' = IF H!Found(n) \/ n # BlockLen - 1 THEN leaked ELSE leaked \cup old
  BY DEF H!Alloc
<1> DEFINE g == CASE n = 1        -> H!AllocOne(H!Here, old)
                  [] n = BlockLen -> H!AllocFullBlock(H!Here)
                  [] OTHER        -> H!AllocBlock(H!Here, n, old)
           t == Put(g.s, g.at, n)
           K == Kept(H!Found(n), n, old)
           U == heads.used \cup K
<1>0. Good(H!Here) /\ leaked \subseteq heads.used /\ RunsSound(heads.used \ leaked, runs)
      /\ BlockLen \in Nat /\ BlockLen >= 2 /\ H!Here.m.mask \subseteq 2 .. BlockLen
  BY KHSizes, HStateFields DEF HeadInv, Good, H!Sizes
<1>2. /\ H!Take(g, n) /\ (H!Found(n) \/ ~H!ZoneEmpty(heads)) /\ leaked' = leaked \cup K
      /\ old \in SUBSET {H!ZoneBlock(H!Here.m) + BlockLen - 1}
  BY <1>1, HereIs DEF H!Alloc, H!Leftovers, Kept
<1>3. Granted(H!Here, U, g, n)
  <2>1. CASE n = 1
    <3>1. g = H!AllocOne(H!Here, old)
      BY <1>0, <2>1
    <3>2. (H!Here.m.mask # {} <=> H!Found(n)) /\ (H!Here.m.mask # {} \/ ~H!ZoneEmpty(H!Here.m))
      BY <1>2, <2>1, HereIs DEF H!Found
    <3>3. Kept(H!Here.m.mask # {}, 1, old) = K
      BY <2>1, <3>2 DEF Kept
    <3> HIDE DEF g, K
    <3>4. Granted(H!Here, H!Here.m.used \cup Kept(H!Here.m.mask # {}, 1, old), H!AllocOne(H!Here, old), 1)
      BY <1>0, <1>2, <3>2, AllocOneDoes
    <3> QED
      BY <2>1, <3>1, <3>3, <3>4, HereIs
  <2>2. CASE n = BlockLen
    <3>1. n # 1 /\ g = H!AllocFullBlock(H!Here) /\ n # BlockLen - 1
      BY <1>0, <2>2
    <3>2. BlockLen \in H!Here.m.mask \/ ~H!ZoneEmpty(H!Here.m)
      <4>1. H!Found(n) => \E k \in heads.mask : k >= n
        BY <3>1 DEF H!Found
      <4>2. \A k \in heads.mask : k >= n => k = BlockLen
        BY <1>0, <2>2, HereIs
      <4> QED
        BY <1>2, <4>1, <4>2, HereIs
    <3>3. U = H!Here.m.used
      BY <3>1, HereIs DEF Kept
    <3> HIDE DEF g, U
    <3>4. Granted(H!Here, H!Here.m.used, H!AllocFullBlock(H!Here), BlockLen)
      BY <1>0, <3>2, FullBlockDoes
    <3> QED
      BY <2>2, <3>1, <3>3, <3>4
  <2>3. CASE n # 1 /\ n # BlockLen
    <3>1. g = H!AllocBlock(H!Here, n, old) /\ n \in 2 .. BlockLen - 1
      BY <1>0, <2>3
    <3> DEFINE found == \E k \in H!Here.m.mask : k >= n
    <3>2. (found <=> H!Found(n)) /\ (found \/ ~H!ZoneEmpty(H!Here.m))
      BY <1>2, <2>3, HereIs DEF H!Found
    <3>3. Kept(found, n, old) = K
      BY <3>2 DEF Kept
    <3> HIDE DEF g, K
    <3>4. Granted(H!Here, H!Here.m.used \cup Kept(found, n, old), H!AllocBlock(H!Here, n, old), n)
      BY <1>0, <1>2, <3>1, <3>2, AllocBlockDoes
    <3> QED
      BY <3>1, <3>3, <3>4, HereIs
  <2> QED
    BY <2>1, <2>2, <2>3
<1>4. \A x \in K : x \notin heads.used
  <2>1. CASE H!Found(n)
    BY <2>1 DEF Kept
  <2>2. CASE ~H!Found(n)
    BY <1>0, <1>2, <2>2, KeptFacts, HereIs DEF Kept
  <2> QED
    BY <2>1, <2>2
<1> HIDE DEF g, K
<1>5. H!Becomes(t) /\ runs' = runs \cup {<<g.at, n>>}
  BY <1>2 DEF H!Take, Put
<1>6. /\ Good(t) /\ t.m.used = U \cup H!Run(g.at, n)
      /\ Marks(H!Here, t, H!BlockOf(g.at)) /\ H!BlockOf(g.at) \in t.dirty
  BY <1>0, <1>3, PutDoes
<1> HIDE DEF t
<1>7. heads' = t.m /\ Good(H!Here)' /\ H!BlocksMarked
  BY <1>5, <1>6, BecomesDoes DEF Does
<1>8. g.at \in H!Headers /\ H!NumOf(g.at) + n <= BlockLen /\ \A x \in H!Run(g.at, n) : x \notin U
  BY <1>3 DEF Granted
<1>9. /\ leaked' \subseteq heads'.used
      /\ heads'.used \ leaked' = (heads.used \ leaked) \cup H!Run(g.at, n)
  BY <1>0, <1>2, <1>4, <1>6, <1>7, <1>8
<1>10. RunsSound(heads'.used \ leaked', runs')
  <2>1. \A x \in H!Run(g.at, n) : x \notin heads.used \ leaked
    BY <1>8
  <2>2. RunsSound((heads.used \ leaked) \cup H!Run(g.at, n), runs \cup {<<g.at, n>>})
    BY <1>0, <1>8, <2>1, AddRun
  <2> QED
    BY <1>5, <1>9, <2>2
<1> QED
  BY <1>7, <1>9, <1>10 DEF HeadInv

\* kh_free_block.
LEMMA FreeStep ==
  ASSUME HeadInv, NEW r \in runs, H!Free(r)
  PROVE  HeadInv' /\ H!BlocksMarked
<1> DEFINE t == H!FreeBlock(H!Here, r[1], r[2])
<1>0. Good(H!Here) /\ leaked \subseteq heads.used /\ RunsSound(heads.used \ leaked, runs)
  BY DEF HeadInv
<1>1. H!Becomes(t) /\ runs' = runs \ {r} /\ leaked' = leaked
  BY DEF H!Free, H!past
<1>2. r[1] \in H!Headers /\ r[2] \in 1 .. BlockLen /\ H!NumOf(r[1]) + r[2] <= BlockLen /\ H!Run(r[1], r[2]) \subseteq H!Here.m.used
      /\ \A x \in H!Run(r[1], r[2]) : x \notin leaked
  BY <1>0, RunFacts, HereIs
<1>3. /\ Good(t) /\ t.m.used = heads.used \ H!Run(r[1], r[2])
      /\ Marks(H!Here, t, H!BlockOf(r[1])) /\ H!BlockOf(r[1]) \in t.dirty
  BY <1>0, <1>2, FreeBlockDoes, HereIs
<1> HIDE DEF t
<1>4. heads' = t.m /\ Good(H!Here)' /\ H!BlocksMarked
  BY <1>1, <1>3, BecomesDoes DEF Does
<1>5. RunsSound((heads.used \ leaked) \ H!Run(r[1], r[2]), runs \ {r})
  BY <1>0, DropRun
<1>6. /\ heads'.used \ leaked' = (heads.used \ leaked) \ H!Run(r[1], r[2])
      /\ leaked' \subseteq heads'.used
  BY <1>0, <1>1, <1>2, <1>3, <1>4
<1> QED
  BY <1>1, <1>4, <1>5, <1>6 DEF HeadInv

\* A run is exchanged for another one.
LEMMA Exchange ==
  ASSUME HeadInv, NEW r \in runs, NEW t, NEW b, H!Becomes(t), Does(t, b), leaked' = leaked,
         NEW a \in H!Headers, NEW n \in 1 .. BlockLen, H!NumOf(a) + n <= BlockLen,
         runs' = (runs \ {r}) \cup {<<a, n>>},
         t.m.used = (heads.used \ H!Run(r[1], r[2])) \cup H!Run(a, n),
         \A x \in H!Run(a, n) : x \in H!Run(r[1], r[2]) \/ x \notin heads.used
  PROVE  HeadInv' /\ H!BlocksMarked
<1>1. heads' = t.m /\ Good(H!Here)' /\ H!BlocksMarked
  BY BecomesDoes
<1>2. leaked \subseteq heads.used /\ RunsSound(heads.used \ leaked, runs)
  BY DEF HeadInv
<1> DEFINE U == (heads.used \ leaked) \ H!Run(r[1], r[2])
           R == runs \ {r}
<1>3. RunsSound(U, R)
  BY <1>2, DropRun
<1>4. \A x \in H!Run(r[1], r[2]) : x \in heads.used /\ x \notin leaked
  BY <1>2, RunsMember
<1>5. /\ \A x \in H!Run(a, n) : x \notin U
      /\ heads'.used \ leaked' = U \cup H!Run(a, n) /\ runs' = R \cup {<<a, n>>}
      /\ leaked' \subseteq heads'.used
  BY <1>1, <1>2, <1>4
<1> HIDE DEF U, R
<1>6. RunsSound(U \cup H!Run(a, n), R \cup {<<a, n>>})
  BY <1>3, <1>5, AddRun
<1> QED
  BY <1>1, <1>5, <1>6 DEF HeadInv

\* kh_free_last_from_chain.
LEMMA ShrinkStep ==
  ASSUME HeadInv, NEW r \in runs, H!Shrink(r)
  PROVE  HeadInv' /\ H!BlocksMarked
<1> DEFINE h == r[1] + r[2] - 1
           t == H!FreeLast(H!Here, h)
           a == r[1]
           n == r[2] - 1
<1>0. Good(H!Here) /\ leaked \subseteq heads.used /\ RunsSound(heads.used \ leaked, runs)
  BY DEF HeadInv
<1>1. H!Becomes(t) /\ runs' = (runs \ {r}) \cup {<<a, n>>} /\ r[2] > 1 /\ leaked' = leaked
  BY DEF H!Shrink, H!past
<1>2. /\ r[1] \in H!Headers /\ r[2] \in 1 .. BlockLen /\ r[1] \in Nat /\ r[2] \in Nat
      /\ H!NumOf(r[1]) + r[2] <= BlockLen /\ H!Run(r[1], r[2]) \subseteq heads.used
      /\ H!NumOf(r[1]) \in Nat /\ BlockLen \in Nat
      /\ \A x \in H!Run(r[1], r[2]) : x \in H!Headers /\ H!BlockOf(x) = H!BlockOf(r[1])
  BY <1>0, RunFacts
<1>3. BlockLen \in Nat /\ H!NumOf(r[1]) \in Nat
  BY <1>2
<1>4. h \in H!Run(r[1], r[2]) /\ h - 1 \in H!Run(r[1], r[2]) /\ h \in r[1] + 1 .. r[1] + r[2] - 1
  BY <1>1, <1>2 DEF H!Run
<1>5. H!NumOf(h) # 0
  BY <1>2, <1>4, InsideBlock
<1>6. h \in H!Headers /\ h \in H!Here.m.used /\ h - 1 \in H!Here.m.used
  BY <1>2, <1>4, HereIs
<1>8. n \in 1 .. BlockLen /\ H!NumOf(a) + n <= BlockLen /\ h \in Nat /\ a \in H!Headers
  BY <1>1, <1>2, <1>3
<1>9. /\ H!Run(h, 1) = {h} /\ \A x \in H!Run(a, n) : x \in H!Run(r[1], r[2]) 
      /\ \A x \in H!Run(r[1], r[2]) : x # h <=> x \in H!Run(a, n)
  BY <1>1, <1>2, <1>8 DEF H!Run
<1> HIDE DEF h, n, a, t
<1>7. /\ Good(t) /\ t.m.used = heads.used \ H!Run(h, 1)
      /\ Marks(H!Here, t, H!BlockOf(h)) /\ H!BlockOf(h) \in t.dirty
  <2>1. LET u == H!FreeLast(H!Here, h) IN
         /\ Good(u) /\ u.m.used = H!Here.m.used \ H!Run(h, 1)
         /\ Marks(H!Here, u, H!BlockOf(h)) /\ H!BlockOf(h) \in u.dirty
    BY <1>0, <1>5, <1>6, FreeLastDoes
  <2> QED
    BY <2>1, HereIs DEF t
<1>10. t.m.used = (heads.used \ H!Run(r[1], r[2])) \cup H!Run(a, n)
  BY <1>2, <1>4, <1>7, <1>9
<1>11. Does(t, H!BlockOf(h))
  BY <1>7 DEF Does
<1> QED
  BY <1>1, <1>8, <1>9, <1>10, <1>11, Exchange

\* kh_expand_chain_up.
LEMMA GrowUpStep ==
  ASSUME HeadInv, NEW r \in runs, H!GrowUp(r)
  PROVE  HeadInv' /\ H!BlocksMarked
<1> DEFINE h == r[1] + r[2]
           t == H!ExpandUp(H!Here, h)
           a == r[1]
           n == r[2] + 1
<1>0. Good(H!Here) /\ leaked \subseteq heads.used /\ RunsSound(heads.used \ leaked, runs)
  BY DEF HeadInv
<1>1. /\ H!Becomes(t) /\ runs' = (runs \ {r}) \cup {<<a, n>>} /\ r[2] < BlockLen
      /\ H!NumOf(h) # 0 /\ h \notin H!Here.m.used /\ leaked' = leaked
  BY HereIs DEF H!GrowUp, H!past
<1>2. /\ r[1] \in H!Headers /\ r[2] \in 1 .. BlockLen /\ r[1] \in Nat /\ r[2] \in Nat
      /\ H!NumOf(r[1]) + r[2] <= BlockLen /\ H!Run(r[1], r[2]) \subseteq heads.used
      /\ H!NumOf(r[1]) \in Nat /\ BlockLen \in Nat
  BY <1>0, RunFacts
<1>3. BlockLen \in Nat /\ H!NumOf(r[1]) \in Nat /\ h \in Nat
  BY <1>2
<1>4. h - 1 \in H!Here.m.used
  <2>1. h - 1 \in H!Run(r[1], r[2])
    BY <1>2 DEF H!Run
  <2> QED
    BY <1>2, <2>1, HereIs
<1>8. n \in 1 .. BlockLen /\ H!NumOf(a) + n <= BlockLen /\ a \in H!Headers
  <2>1. H!NumOf(r[1]) + r[2] # BlockLen
    BY <1>1, <1>2, <1>3, NumShift
  <2> QED
    BY <1>1, <1>2, <1>3, <2>1
<1>9. \A x : x \in H!Run(a, n) <=> x \in H!Run(r[1], r[2]) \/ x = h
  BY <1>2 DEF H!Run
<1> HIDE DEF h, n, a, t
<1>7. /\ Good(t) /\ t.m.used = heads.used \cup {h}
      /\ Marks(H!Here, t, H!BlockOf(h)) /\ H!BlockOf(h) \in t.dirty
  <2>1. LET u == H!ExpandUp(H!Here, h) IN
         /\ h \in H!Headers /\ Good(u) /\ u.m.used = H!Here.m.used \cup {h}
         /\ Marks(H!Here, u, H!BlockOf(h)) /\ H!BlockOf(h) \in u.dirty
    BY <1>0, <1>1, <1>3, <1>4, ExpandUpDoes
  <2> QED
    BY <2>1, HereIs DEF t
<1>10. t.m.used = (heads.used \ H!Run(r[1], r[2])) \cup H!Run(a, n)
  BY <1>2, <1>7, <1>9
<1>11. Does(t, H!BlockOf(h))
  BY <1>7 DEF Does
<1>12. \A x \in H!Run(a, n) : x \in H!Run(r[1], r[2]) \/ x \notin heads.used
  BY <1>1, <1>9, HereIs
<1> QED
  BY <1>1, <1>8, <1>10, <1>11, <1>12, Exchange

\* kh_expand_chain_down.
LEMMA GrowDownStep ==
  ASSUME HeadInv, NEW r \in runs, H!GrowDown(r)
  PROVE  HeadInv' /\ H!BlocksMarked
<1> DEFINE h == r[1] - 1
           t == H!ExpandDown(H!Here, h)
           a == h
           n == r[2] + 1
<1>0. Good(H!Here) /\ leaked \subseteq heads.used /\ RunsSound(heads.used \ leaked, runs)
  BY DEF HeadInv
<1>1. /\ H!Becomes(t) /\ runs' = (runs \ {r}) \cup {<<a, n>>} /\ r[2] < BlockLen
      /\ H!NumOf(r[1]) # 0 /\ h \notin H!Here.m.used /\ leaked' = leaked
  BY HereIs DEF H!GrowDown, H!past
<1>2. /\ r[1] \in H!Headers /\ r[2] \in 1 .. BlockLen /\ r[1] \in Nat /\ r[2] \in Nat
      /\ H!NumOf(r[1]) + r[2] <= BlockLen /\ H!Run(r[1], r[2]) \subseteq heads.used
      /\ H!NumOf(r[1]) \in Nat /\ BlockLen \in Nat
  BY <1>0, RunFacts
<1>3. BlockLen \in Nat /\ H!NumOf(r[1]) \in Nat /\ h \in Nat /\ h + 1 = r[1]
  <2>1. H!NumOf(r[1]) \in Nat /\ BlockLen \in Nat
    BY <1>2
  <2>2. r[1] # 0
    BY <1>2, ZeroNoHead DEF H!Zero
  <2> QED
    BY <1>2, <2>1, <2>2
<1>4. r[1] \in H!Here.m.used
  <2>1. r[1] \in H!Run(r[1], r[2])
    BY <1>2 DEF H!Run
  <2> QED
    BY <1>2, <2>1, HereIs
<1>9. \A x : x \in H!Run(a, n) <=> x \in H!Run(r[1], r[2]) \/ x = h
  BY <1>2 DEF H!Run
<1>5. n \in 1 .. BlockLen /\ n = r[2] + 1
  BY <1>1, <1>2, <1>3
<1> HIDE DEF h, n, t
<1>7. /\ Good(t) /\ t.m.used = heads.used \cup {h} /\ h \in H!Headers /\ H!NumOf(h) = H!NumOf(r[1]) - 1
      /\ Marks(H!Here, t, H!BlockOf(h)) /\ H!BlockOf(h) \in t.dirty
  <2>1. LET u == H!ExpandDown(H!Here, h) IN
         /\ h \in H!Headers /\ H!NumOf(h) = H!NumOf(h + 1) - 1 /\ Good(u) /\ u.m.used = H!Here.m.used \cup {h}
         /\ Marks(H!Here, u, H!BlockOf(h)) /\ H!BlockOf(h) \in u.dirty
    <3>1. H!NumOf(h + 1) # 0 /\ h + 1 \in H!Here.m.used
      BY <1>1, <1>3, <1>4
    <3> QED
      BY <1>0, <1>1, <1>3, <3>1, ExpandDownDoes
  <2> QED
    BY <1>3, <2>1, HereIs DEF t
<1>8. H!NumOf(a) + n <= BlockLen
  BY <1>2, <1>3, <1>5, <1>7
<1>10. t.m.used = (heads.used \ H!Run(r[1], r[2])) \cup H!Run(a, n)
  BY <1>2, <1>7, <1>9
<1>11. Does(t, H!BlockOf(h))
  BY <1>7 DEF Does
<1>12. \A x \in H!Run(a, n) : x \in H!Run(r[1], r[2]) \/ x \notin heads.used
  BY <1>1, <1>9, HereIs
<1> QED
  BY <1>1, <1>5, <1>7, <1>8, <1>10, <1>11, <1>12, Exchange

\* cp_flush.
LEMMA FlushStep ==
  ASSUME HeadInv, H!Flush
  PROVE  HeadInv'
<1>1. H!Here' = [m |-> heads, dirty |-> {}] /\ H!Here = [m |-> heads, dirty |-> touched]
      /\ heads' = heads /\ runs' = runs /\ leaked' = leaked
  BY DEF H!Flush, H!Here, H!State, H!past
<1>2. Good(H!Here')
  BY <1>1 DEF HeadInv, Good, HStates
<1> QED
  BY <1>1, <1>2 DEF HeadInv, Good

\* A new set has no headers.
LEMMA InitHolds == H!Init => HeadInv
<1> SUFFICES ASSUME H!Init PROVE HeadInv
  OBVIOUS
<1>1. /\ heads.used = {} /\ heads.reserved = {} /\ heads.holes = [n \in H!Sizes |-> H!Zero] /\ heads.mask = {}
      /\ heads.zone = H!Zero /\ heads.pages = 0 /\ runs = {} /\ touched = {} /\ leaked = {}
  BY DEF H!Init
<1>2. heads \in HeadStates
  <2>1. [h \in H!Headers |-> H!Zero] \in Links /\ [n \in H!Sizes |-> H!Zero] \in [H!Sizes -> H!Headers \cup {H!Zero}] /\ H!Zero \in Nat
    BY DEF Links, H!Zero
  <2> QED
    BY <2>1 DEF H!Init, HeadStates
<1>3. H!Here \in HStates /\ H!Here.m = heads
  BY <1>1, <1>2, HereIs DEF H!Here, H!State, HStates
<1>4. Limit(heads) = H!PageLen
  <2>1. H!PageLen \in Nat /\ (0 + 1) * H!PageLen = H!PageLen
    BY KHSizes
  <2> QED
    BY <1>1, <2>1 DEF Limit
<1>5. ZoneOk(heads)
  BY <1>1, <1>4, TopFacts, KHSizes DEF ZoneOk, H!Zero
<1>6. FreeOf(heads) = {}
  <2>1. H!Headers = H!PageLen .. Top - 1 /\ H!PageLen \in Nat /\ Top \in Nat
    BY TopFacts, KHSizes
  <2> QED
    BY <1>4, <2>1 DEF FreeOf
<1>7. HolesOf(heads) = {}
  <2>1. \A r \in Nat \X (Nat \ {0}) : ~MaxRun({}, r[1], r[2])
    <3> SUFFICES ASSUME NEW r \in Nat \X (Nat \ {0}) PROVE ~MaxRun({}, r[1], r[2])
      OBVIOUS
    <3>1. r[1] \in H!Run(r[1], r[2])
      BY DEF H!Run
    <3> QED
      BY <3>1 DEF MaxRun
  <2> QED
    BY <1>6, <2>1 DEF HolesOf, MaxRuns
<1>8. \A n : At({}, n) = {}
  BY DEF At
<1>9. Listed(H!Zero, heads.next, heads.prev, {})
  <2> DEFINE L == <<>>
  <2>1. L \in Seq({}) /\ Len(L) = 0
    OBVIOUS
  <2>2. InOrder(L, 0, {}) /\ Chained(L, 0, H!Zero, heads.next, heads.prev)
    BY DEF InOrder, Chained
  <2>3. 0 \in Nat
    OBVIOUS
  <2> HIDE DEF L
  <2> QED
    BY <2>1, <2>2, <2>3, Zenon DEF Listed
<1>10. InLists(heads, {})
  BY <1>1, <1>8, <1>9 DEF InLists
<1>11. Good(H!Here)
  BY <1>3, <1>5, <1>7, <1>10 DEF Good
<1>12. leaked \subseteq heads.used /\ RunsSound(heads.used \ leaked, runs)
  BY <1>1 DEF RunsSound
<1> QED
  BY <1>11, <1>12 DEF HeadInv

\* Every step keeps the invariant and marks what it changes.
LEMMA StepHolds == HeadInv /\ [H!Next]_H!vars => HeadInv' /\ H!BlocksMarked
<1> SUFFICES ASSUME HeadInv, [H!Next]_H!vars PROVE HeadInv' /\ H!BlocksMarked
  OBVIOUS
<1>0. heads' = heads => H!BlocksMarked
  BY DEF H!BlocksMarked
<1>1. CASE UNCHANGED H!vars
  <2>1. HeadInv'
    BY <1>1 DEF H!vars, H!past, HeadInv, H!Here, H!State, Good
  <2> QED
    BY <1>0, <1>1, <2>1 DEF H!vars
<1>2. ASSUME NEW n \in 1 .. BlockLen, H!Alloc(n) PROVE HeadInv' /\ H!BlocksMarked
  BY <1>2, AllocStep
<1>3. ASSUME NEW n \in 1 .. BlockLen, H!AllocFails(n) PROVE HeadInv' /\ H!BlocksMarked
  BY <1>1, <1>3 DEF H!AllocFails
<1>4. ASSUME NEW r \in runs, H!Free(r) PROVE HeadInv' /\ H!BlocksMarked
  BY <1>4, FreeStep
<1>5. ASSUME NEW r \in runs, H!Shrink(r) PROVE HeadInv' /\ H!BlocksMarked
  BY <1>5, ShrinkStep
<1>6. ASSUME NEW r \in runs, H!GrowUp(r) PROVE HeadInv' /\ H!BlocksMarked
  BY <1>6, GrowUpStep
<1>7. ASSUME NEW r \in runs, H!GrowDown(r) PROVE HeadInv' /\ H!BlocksMarked
  BY <1>7, GrowDownStep
<1>8. ASSUME H!Flush PROVE HeadInv' /\ H!BlocksMarked
  <2>1. HeadInv'
    BY <1>8, FlushStep
  <2> QED
    BY <1>0, <1>8, <2>1 DEF H!Flush
<1> QED
  BY <1>1, <1>2, <1>3, <1>4, <1>5, <1>6, <1>7, <1>8 DEF H!Next

\* The invariant says that runs are apart.
LEMMA RunsApartHolds == HeadInv => H!RunsApart
<1> SUFFICES ASSUME HeadInv PROVE H!RunsApart
  OBVIOUS
<1>1. leaked \subseteq heads.used /\ RunsSound(heads.used \ leaked, runs)
  BY DEF HeadInv
<1> QED
  BY <1>1 DEF RunsSound, H!RunsApart

\* No list is longer than there are headers.
LEMMA ListFits ==
  ASSUME NEW L, NEW k \in Nat, NEW S \in SUBSET H!Headers, L \in Seq(S), Len(L) = k, InOrder(L, k, S)
  PROVE  Cardinality(H!Headers) \in Nat /\ k <= Cardinality(H!Headers)
<1>1. IsFiniteSet(H!Headers)
  BY TopFacts, KHSizes, FS_Interval
<1>2. L \in [1 .. k -> H!Headers]
  BY DEF InOrder
<1>3. L \in Injection(1 .. k, H!Headers)
  BY <1>2 DEF InOrder, Injection, IsInjective
<1>4. Cardinality(1 .. k) = k
  BY FS_Interval
<1>5. Cardinality(1 .. k) <= Cardinality(H!Headers)
  BY <1>1, <1>3, FS_Injection
<1> QED
  BY <1>1, <1>4, <1>5, FS_CardinalityType

\* The cardinality in KeyHeads is the one of FiniteSets.
LEMMA SameCount == \A S : H!Cardinality(S) = Cardinality(S)
BY DEF H!Cardinality, Cardinality

\* The first k members of a list, as walked.
LEMMA WalkIs ==
  ASSUME NEW n \in H!Sizes, NEW S \in SUBSET H!Headers, Listed(heads.holes[n], heads.next, heads.prev, S)
  PROVE  \E k \in Nat : /\ H!ListOf(n) \in Seq(S) /\ Len(H!ListOf(n)) = k /\ InOrder(H!ListOf(n), k, S)
                        /\ Chained(H!ListOf(n), k, heads.holes[n], heads.next, heads.prev)
<1> DEFINE first == heads.holes[n]
           C == H!Cardinality(H!Headers)
<1>1. PICK k \in Nat, L \in Seq(S) : Len(L) = k /\ InOrder(L, k, S) /\ Chained(L, k, first, heads.next, heads.prev)
  BY DEF Listed
<1>2. C \in Nat /\ k <= C
  BY <1>1, ListFits, SameCount
<1>3. H!Zero \notin S
  BY ZeroNoHead
<1> DEFINE WalkStep(f, i) == 
             IF i = 0 THEN IF heads.holes[n] = H!Zero THEN <<>> ELSE <<heads.holes[n]>>
             ELSE LET w == f[i - 1] IN
                  IF w = <<>> \/ heads.next[w[Len(w)]] = H!Zero \/ Len(w) < i THEN w
                  ELSE Append(w, heads.next[w[Len(w)]])
           Walking(f) == [i \in 0 .. C |-> WalkStep(f, i)]
           walk == CHOOSE f : f = Walking(f)
           upto(i) == IF i < k THEN i + 1 ELSE k
           W == [i \in 0 .. C |-> SubSeq(L, 1, upto(i))]
<1>4. H!ListOf(n) = walk[C]
  BY DEF H!ListOf
<1>5. \A i \in 0 .. C : /\ upto(i) \in 0 .. k
                        /\ SubSeq(L, 1, upto(i)) \in Seq(S) /\ Len(SubSeq(L, 1, upto(i))) = upto(i)
                        /\ \A j \in 1 .. upto(i) : SubSeq(L, 1, upto(i))[j] = L[j]
  BY <1>1, <1>2
<1>6. ASSUME NEW f, NEW i \in 0 .. C, i # 0 => f[i - 1] = W[i - 1]
      PROVE  WalkStep(f, i) = W[i]
  <2>0. W[i] = SubSeq(L, 1, upto(i))
    OBVIOUS
  <2>1. CASE i = 0
    <3>1. CASE k = 0
      <4>1. first = H!Zero
        BY <1>1, <3>1 DEF Chained
      <4>2. SubSeq(L, 1, 0) = <<>>
        BY <1>1
      <4>3. W[i] = <<>>
        BY <2>0, <2>1, <3>1, <4>2
      <4> QED
        BY <2>1, <4>1, <4>3
    <3>2. CASE k # 0
      <4>1. first = L[1] /\ L[1] \in S
        BY <1>1, <3>2 DEF Chained, InOrder
      <4>2. first # H!Zero
        BY <1>3, <4>1
      <4>3. SubSeq(L, 1, 1) = <<L[1]>>
        <5> DEFINE q == SubSeq(L, 1, 1)
        <5>1. 0 \in 0 .. C /\ upto(0) = 1
          BY <1>2, <3>2
        <5>2. q \in Seq(S) /\ Len(q) = 1 /\ \A j \in 1 .. 1 : q[j] = L[j]
          BY <1>5, <5>1
        <5> HIDE DEF q
        <5>3. q = <<L[1]>>
          BY <5>2
        <5> QED
          BY <5>3 DEF q
      <4>4. W[i] = <<L[1]>>
        BY <2>0, <2>1, <3>2, <4>3
      <4>5. WalkStep(f, i) = <<first>>
        BY <2>1, <4>2
      <4> QED
        BY <4>1, <4>4, <4>5
    <3> QED
      BY <3>1, <3>2
  <2>2. CASE i # 0
    <3> DEFINE w == f[i - 1]
    <3>1. i - 1 \in 0 .. C /\ i \in Nat
      BY <1>2, <2>2
    <3>2. w = SubSeq(L, 1, upto(i - 1)) /\ Len(w) = upto(i - 1) /\ \A j \in 1 .. upto(i - 1) : w[j] = L[j]
      <4>1. w = W[i - 1]
        BY <1>6, <2>2
      <4>2. W[i - 1] = SubSeq(L, 1, upto(i - 1))
        BY <3>1
      <4> HIDE DEF W, upto, w
      <4> QED
        BY <1>5, <3>1, <4>1, <4>2
    <3>3. WalkStep(f, i) = IF w = <<>> \/ heads.next[w[Len(w)]] = H!Zero \/ Len(w) < i THEN w
                       ELSE Append(w, heads.next[w[Len(w)]])
      BY <2>2
    <3> HIDE DEF w, WalkStep, W
    <3>4. CASE k = 0
      <4>1. upto(i - 1) = 0 /\ upto(i) = 0
        BY <3>1, <3>4
      <4>2. SubSeq(L, 1, 0) = <<>>
        BY <1>1
      <4> HIDE DEF upto
      <4> QED
        BY <2>0, <3>2, <3>3, <4>1, <4>2
    <3>5. CASE k # 0 /\ i >= k
      <4>1. upto(i - 1) = k /\ upto(i) = k
        BY <3>1, <3>5
      <4>2. w[Len(w)] = L[k] /\ heads.next[L[k]] = H!Zero
        BY <1>1, <3>2, <3>5, <4>1 DEF Chained
      <4> HIDE DEF upto
      <4> QED
        BY <2>0, <3>2, <3>3, <4>1, <4>2
    <3>6. CASE k # 0 /\ i < k
      <4>1. upto(i - 1) = i /\ upto(i) = i + 1
        BY <3>1, <3>6
      <4>2. Len(w) = i /\ w = SubSeq(L, 1, i)
        BY <3>2, <4>1
      <4>3. w[Len(w)] = L[i] /\ heads.next[L[i]] = L[i + 1] /\ L[i + 1] \in S
        BY <1>1, <2>2, <3>1, <3>2, <3>6, <4>1, <4>2 DEF Chained, InOrder
      <4>4. L[i + 1] # H!Zero /\ w # <<>>
        <5>1. L[i + 1] # H!Zero
          BY <1>3, <4>3
        <5>2. Len(<<>>) = 0
          OBVIOUS
        <5>3. w # <<>>
          <6> SUFFICES ASSUME w = <<>> PROVE FALSE
            OBVIOUS
          <6>1. Len(w) = 0
            BY <5>2
          <6> QED
            BY <2>2, <4>2, <6>1
        <5> QED
          BY <5>1, <5>3
      <4>5. WalkStep(f, i) = Append(w, L[i + 1])
        <5>1. heads.next[w[Len(w)]] = L[i + 1]
          BY <4>3
        <5>2. ~ (w = <<>> \/ heads.next[w[Len(w)]] = H!Zero \/ Len(w) < i)
          BY <3>1, <4>2, <4>4, <5>1
        <5> QED
          BY <3>3, <5>1, <5>2
      <4>6. SubSeq(L, 1, i + 1) = Append(SubSeq(L, 1, i), L[i + 1])
        BY <1>1, <3>1, <3>6
      <4> HIDE DEF upto
      <4> QED
        BY <2>0, <4>1, <4>2, <4>5, <4>6
    <3> QED
      BY <1>1, <3>1, <3>4, <3>5, <3>6
  <2> QED
    BY <2>1, <2>2
<1>7. W = Walking(W)
  <2>1. \A i \in 0 .. C : WalkStep(W, i) = W[i]
    <3> HIDE DEF WalkStep, W
    <3> QED
      BY <1>6
  <2> HIDE DEF WalkStep
  <2> QED
    BY <2>1
<1>8. walk = Walking(walk)
  <2> HIDE DEF W, Walking
  <2> QED
    BY <1>7
<1> HIDE DEF walk
<1>9. \A i \in 0 .. C : walk[i] = WalkStep(walk, i)
  <2> HIDE DEF WalkStep
  <2> QED
    BY <1>8
<1>10. \A i \in 0 .. C : walk[i] = W[i]
  <2> DEFINE Bad == {i \in 0 .. C : walk[i] # W[i]}
  <2> SUFFICES ASSUME Bad # {} PROVE FALSE
    OBVIOUS
  <2>1. Bad \in SUBSET Nat
    BY <1>2
  <2> HIDE DEF Bad
  <2>2. PICK i \in Bad : \A j \in Bad : i <= j
    BY <2>1, MinExists
  <2>3. i \in 0 .. C /\ walk[i] # W[i]
    BY <2>2 DEF Bad
  <2>4. i # 0 => walk[i - 1] = W[i - 1]
    <3> SUFFICES ASSUME i # 0, walk[i - 1] # W[i - 1] PROVE FALSE
      OBVIOUS
    <3>1. i - 1 \in 0 .. C
      BY <1>2, <2>3
    <3>2. i - 1 \in Bad
      <4> HIDE DEF W
      <4> QED
        BY <3>1 DEF Bad
    <3> QED
      BY <2>2, <2>3, <3>2
  <2> HIDE DEF WalkStep, W
  <2>5. WalkStep(walk, i) = W[i]
    BY <1>6, <2>3, <2>4
  <2> QED
    BY <1>9, <2>3, <2>5
<1>11. walk[C] = L
  <2>1. C \in 0 .. C /\ upto(C) = k
    BY <1>2
  <2>2. walk[C] = SubSeq(L, 1, k)
    BY <1>10, <2>1
  <2>3. SubSeq(L, 1, k) = L
    BY <1>1
  <2> QED
    BY <2>2, <2>3
<1> QED
  BY <1>1, <1>4, <1>11

\* The holes, by what is in use on both sides.
LEMMA HolesAre ==
  ASSUME HeadInv, NEW n \in 1 .. BlockLen
  PROVE  H!Holes(n) = At(HolesOf(heads), n)
<1> DEFINE F == FreeOf(heads)
<1>0. /\ ZoneOk(heads) /\ heads.used \subseteq H!Headers /\ F \subseteq H!Headers /\ F \in SUBSET Nat
      /\ \A x \in heads.used : x < Limit(heads)
  BY HereIs, HStateFields, FreeFacts DEF HeadInv, Good, ZoneOk
<1>1. /\ H!Cut = {x \in H!Headers : x < Limit(heads)} /\ \A x : H!Free1(x) <=> x \in F
  BY DEF H!Cut, Limit, H!Free1, FreeOf
<1>2. /\ n \in Nat \ {0} /\ BlockLen \in Nat /\ BlockLen >= 2 /\ Limit(heads) \in Nat /\ H!NumOf(Limit(heads)) = 0
      /\ Limit(heads) <= Top /\ Top \in Nat /\ H!Headers = H!PageLen .. Top - 1 /\ H!PageLen \in Nat
  BY <1>0, KHSizes, TopFacts DEF ZoneOk
<1>3. ASSUME NEW h \in H!Headers, H!NumOf(h) + n <= BlockLen, h < Limit(heads)
      PROVE  /\ h \in Nat /\ H!NumOf(h) \in 0 .. BlockLen - 1
             /\ H!NumOf(h + n) = 0 <=> H!NumOf(h) + n = BlockLen
             /\ H!NumOf(h) # 0 => h - 1 \in H!Headers /\ h - 1 < Limit(heads)
             /\ H!NumOf(h) + n # BlockLen => h + n \in H!Headers /\ h + n < Limit(heads)
  <2>1. h \in Nat /\ H!NumOf(h) \in 0 .. BlockLen - 1
    BY <1>3, ZeroNoHead, BlockFacts
  <2>2. H!NumOf(h) + n = BlockLen => H!NumOf(h + n) = 0
    BY <1>2, <2>1, NumShift
  <2>3. H!NumOf(h) + n # BlockLen => H!NumOf(h + n) # 0
    <3> SUFFICES ASSUME H!NumOf(h) + n # BlockLen PROVE H!NumOf(h + n) # 0
      OBVIOUS
    <3>1. H!NumOf(h) + n < BlockLen
      BY <1>2, <1>3, <2>1
    <3>2. H!NumOf(h + n) = H!NumOf(h) + n
      BY <1>2, <2>1, <3>1, NumShift
    <3> QED
      BY <1>2, <2>1, <3>2
  <2>4. H!NumOf(h) # 0 => h - 1 \in H!Headers /\ h - 1 < Limit(heads)
    <3> SUFFICES ASSUME H!NumOf(h) # 0 PROVE h - 1 \in H!Headers /\ h - 1 < Limit(heads)
      OBVIOUS
    <3>1. H!NumOf(H!PageLen) = 0
      BY TopFacts
    <3>2. h # H!PageLen
      BY <3>1
    <3> QED
      BY <1>2, <1>3, <2>1, <3>2
  <2>5. H!NumOf(h) + n # BlockLen => h + n \in H!Headers /\ h + n < Limit(heads)
    <3> SUFFICES ASSUME H!NumOf(h) + n # BlockLen PROVE h + n \in H!Headers /\ h + n < Limit(heads)
      OBVIOUS
    <3>1. n + 1 \in Nat /\ H!NumOf(h) + (n + 1) <= BlockLen
      BY <1>2, <1>3, <2>1
    <3>2. h + (n + 1) <= Limit(heads)
      BY <1>2, <1>3, <2>1, <3>1, InLimit
    <3> QED
      BY <1>2, <1>3, <2>1, <3>2
  <2> QED
    BY <2>1, <2>2, <2>3, <2>4, <2>5
<1>4. ASSUME NEW h \in H!Holes(n) PROVE h \in At(HolesOf(heads), n)
  <2>1. /\ h \in H!Headers /\ h < Limit(heads) /\ H!NumOf(h) + n <= BlockLen /\ \A x \in H!Run(h, n) : x \in F
        /\ H!NumOf(h) = 0 \/ h - 1 \in heads.used
        /\ H!NumOf(h) + n = BlockLen \/ h + n \in heads.used
    BY <1>1 DEF H!Holes, H!IsHole
  <2>2. \A x \in h + 1 .. h + n - 1 : H!NumOf(x) # 0
    BY <2>1, InsideBlock
  <2>3. h \in Nat /\ (H!NumOf(h) + n = BlockLen => H!NumOf(h + n) = 0)
    BY <1>3, <2>1
  <2>4. \A x \in heads.used : x \notin F
    BY DEF FreeOf
  <2>5. MaxRun(F, h, n)
    BY <2>1, <2>2, <2>3, <2>4 DEF MaxRun
  <2>6. <<h, n>> \in HolesOf(heads)
    BY <1>2, <2>3, <2>5, MaxRunsMember DEF HolesOf
  <2> QED
    BY <2>1, <2>6 DEF At
<1>5. ASSUME NEW h \in At(HolesOf(heads), n) PROVE h \in H!Holes(n)
  <2>1. h \in H!Headers /\ <<h, n>> \in MaxRuns(F)
    BY DEF At, HolesOf
  <2>2. H!NumOf(h) + n <= BlockLen /\ MaxRun(F, h, n) /\ \A x \in H!Run(h, n) : x \in F
    BY <1>0, <2>1, HoleFacts
  <2>3. h \in H!Run(h, n)
    BY <1>2, <2>1, ZeroNoHead DEF H!Run
  <2>4. h \in F /\ h < Limit(heads)
    BY <2>2, <2>3 DEF FreeOf
  <2>5. H!NumOf(h) = 0 \/ h - 1 \in heads.used
    <3> SUFFICES ASSUME H!NumOf(h) # 0 PROVE h - 1 \in heads.used
      OBVIOUS
    <3>1. h - 1 \notin F
      BY <2>2 DEF MaxRun
    <3>2. h - 1 \in H!Headers /\ h - 1 < Limit(heads)
      BY <1>3, <2>1, <2>2, <2>4
    <3> QED
      BY <3>1, <3>2 DEF FreeOf
  <2>6. H!NumOf(h) + n = BlockLen \/ h + n \in heads.used
    <3> SUFFICES ASSUME H!NumOf(h) + n # BlockLen PROVE h + n \in heads.used
      OBVIOUS
    <3>1. H!NumOf(h + n) # 0 /\ h + n \in H!Headers /\ h + n < Limit(heads)
      BY <1>3, <2>1, <2>2, <2>4
    <3>2. h + n \notin F
      BY <2>2, <3>1 DEF MaxRun
    <3> QED
      BY <3>1, <3>2 DEF FreeOf
  <2>7. H!IsHole(h, n)
    BY <1>1, <2>2, <2>5, <2>6 DEF H!IsHole
  <2> QED
    BY <1>1, <2>1, <2>4, <2>7 DEF H!Holes
<1> QED
  BY <1>4, <1>5

\* The invariant says that the lists have the holes.
LEMMA HolesIndexedHolds == HeadInv => H!HolesIndexed
<1> SUFFICES ASSUME HeadInv PROVE H!HolesIndexed
  OBVIOUS
<1> DEFINE G == HolesOf(heads)
<1>1. InLists(heads, G)
  BY HereIs DEF HeadInv, Good
<1>2. heads.reserved = H!Holes(1)
  <2>1. 1 \in 1 .. BlockLen
    BY KHSizes
  <2> QED
    BY <1>1, <2>1, HolesAre DEF InLists
<1>3. ASSUME NEW n \in H!Sizes
      PROVE  LET l == H!ListOf(n) IN
             /\ (n \in heads.mask) = (l # <<>>)
             /\ H!ToSet(l) = H!Holes(n) /\ H!IsInjective(l)
             /\ \A i \in 2 .. Len(l) : heads.prev[l[i]] = l[i - 1]
  <2> DEFINE l == H!ListOf(n)
             S == At(G, n)
  <2>1. Listed(heads.holes[n], heads.next, heads.prev, S) /\ (n \in heads.mask <=> S # {})
    BY <1>1 DEF InLists
  <2>2. S \in SUBSET H!Headers
    BY AtFacts
  <2> HIDE DEF S, l
  <2>3. PICK k \in Nat : l \in Seq(S) /\ Len(l) = k /\ InOrder(l, k, S) /\ Chained(l, k, heads.holes[n], heads.next, heads.prev)
    BY <2>1, <2>2, WalkIs DEF l
  <2>4. DOMAIN l = 1 .. k
    BY <2>3
  <2>5. H!ToSet(l) = S /\ H!IsInjective(l)
    BY <2>3, <2>4 DEF H!ToSet, H!IsInjective, InOrder
  <2>6. S # {} <=> l # <<>>
    BY <2>3, <2>4, <2>5 DEF H!ToSet
  <2>7. \A i \in 2 .. Len(l) : heads.prev[l[i]] = l[i - 1]
    BY <2>3 DEF Chained
  <2>8. S = H!Holes(n)
    <3>1. n \in 1 .. BlockLen
      BY KHSizes DEF H!Sizes
    <3> QED
      BY <3>1, HolesAre DEF S
  <2>9. (n \in heads.mask) = (l # <<>>)
    BY <2>1, <2>6
  <2> QED
    BY <2>5, <2>7, <2>8, <2>9 DEF l
<1> QED
  BY <1>2, <1>3 DEF H!HolesIndexed

\* A call of Memory is one of KeyHeads, or changes no header.
LEMMA HeaderSteps == MemNext => [H!Next]_H!vars
<1> SUFFICES ASSUME MemNext PROVE [H!Next]_H!vars
  OBVIOUS
<1>1. CASE Calls /\ UNCHANGED headers
  BY <1>1 DEF headers, H!vars, H!past
<1>2. CASE HeaderCall
  <2>1. CASE H!Next
    BY <2>1
  <2>2. CASE H!Alloc(BlockLen) \/ \E r \in runs : H!Free(r)
    <3>1. BlockLen \in 1 .. BlockLen
      BY KHSizes
    <3> QED
      BY <2>2, <3>1 DEF H!Next
  <2> QED
    BY <1>2, <2>1, <2>2 DEF HeaderCall
<1> QED
  BY <1>1, <1>2 DEF MemNext

\* The invariant, from step to step.
LEMMA HeadInvHolds ==
  /\ MemInit => HeadInv
  /\ HeadInv /\ [MemNext]_memory => HeadInv' /\ H!BlocksMarked
<1>1. MemInit => HeadInv
  BY InitHolds DEF MemInit
<1>2. HeadInv /\ [MemNext]_memory => HeadInv' /\ H!BlocksMarked
  <2>1. UNCHANGED memory => UNCHANGED H!vars
    BY DEF memory, headers, H!vars, H!past
  <2> QED
    BY <2>1, HeaderSteps, StepHolds
<1> QED
  BY <1>1, <1>2

\* No header is given to two callers, no run crosses a block, and every hole of
\* headers is in the list of its size once, or is reserved where it has one header,
\* and nothing else is, for blocks and pages of every size and in every order of
\* the calls (kh_alloc_*, kh_free_*, kh_expand_chain_*).  One header can be lost,
\* and no other is: the last one of a block all of whose others were the first run
\* there, on a page that was another's before (_mark_kh_hole_empty); it is in no
\* list and is given to nobody.
THEOREM HeadersSoundHolds == MemSpec => []HeadersSound
<1>1. HeadInv => HeadersSound
  BY RunsApartHolds, HolesIndexedHolds DEF HeadersSound
<1> QED
  BY <1>1, HeadInvHolds, PTL DEF MemSpec

\* Every call marks the blocks whose bits or links it changes, also those of other
\* blocks' holes in the same list, before a flush and after: the part of
\* ChangesMarked that is about key headers.
THEOREM HeadersMarked == MemSpec => [][H!BlocksMarked]_memory
<1> QED
  BY HeadInvHolds, PTL DEF MemSpec
=============================================================================
