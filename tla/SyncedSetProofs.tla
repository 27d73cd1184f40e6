--------------------------- MODULE SyncedSetProofs ---------------------------
(***************************************************************************)
(* Theorems about SyncedSet, for any set of disk pages, any number of      *)
(* processes and any number of operations, deaths and failures.            *)
(***************************************************************************)
EXTENDS SyncedSet, TLAPS

-----------------------------------------------------------------------------
(* Types *)

\* The links lead from page to page of one chain.
Inside(c, q) == q = NoPage \/ <<c, q>> \in Pages

LinksInside ==
  /\ \A c \in Chains : Inside(c, first[c])
  /\ \A p \in Pages : Inside(p[1], next[p])

Syncing == {"flush", "head", "write", "last", "revert", "rhead", "read", "runs", "downgrade"}

TypeInv == TypeOK /\ LinksInside /\ (pc \in Syncing => after # "out")

LEMMA HeadUnit == Head \in Units
BY UnitsAssumption

LEMMA PageFacts ==
  /\ \A u \in Units : u[1] \in Chains /\ PageOf(u) \in Pages /\ PageOf(u)[1] = u[1]
  /\ \A p \in Pages : p[1] \in Chains /\ p[2] \in Nat /\ p = <<p[1], p[2]>>
<1>1. \A u \in Units : u[1] \in Chains /\ u[2] \in Nat
  BY UnitsAssumption
<1> QED
  BY <1>1 DEF PageOf, Pages

LEMMA TypeInit == ASSUME Init PROVE TypeInv
<1>1. [u \in Units |-> 0] \in Contents
  BY UnitsAssumption DEF Contents
<1>2. TypeOK
  <2>1. setup \in Setups /\ {mem, disk, good, saved} \subseteq Contents /\ {wip, diskWip, lost} \subseteq BOOLEAN
    BY <1>1 DEF Init
  <2>2. first \in [Chains -> Nat \cup {NoPage}] /\ next \in [Pages -> Nat \cup {NoPage}]
    BY DEF Init
  <2>3. workpg \in Pages \cup (Chains \X {NoPage})
    BY DEF Init, Chains
  <2>4. ops \in 0..MaxOps /\ crashes \in 0..MaxCrashes /\ fails \in 0..MaxFails /\ owner \notin Procs
    BY UnitsAssumption DEF Init
  <2>5. ReadingOK
    <3>1. 0 \in 0..Bits /\ 0 \in Nat
      BY UnitsAssumption
    <3> QED
      BY <3>1 DEF Init, ReadingOK
  <2> QED
    BY <2>1, <2>2, <2>3, <2>4, <2>5 DEF Init, TypeOK
<1>3. LinksInside
  BY PageFacts DEF Init, LinksInside, Inside
<1> QED
  BY <1>2, <1>3 DEF TypeInv, Init, Syncing

LEMMA CopyContents ==
  ASSUME NEW a \in Contents, NEW b \in Contents, NEW us
  PROVE  Copy(a, b, us) \in Contents
BY DEF Copy, Contents

LEMMA TypeMark ==
  ASSUME TypeInv, NEW u \in Units, Mark(u)
  PROVE  /\ dirty' \subseteq Units
         /\ first' \in [Chains -> Nat \cup {NoPage}] /\ next' \in [Pages -> Nat \cup {NoPage}]
         /\ LinksInside'
<1>1. CASE UNCHANGED <<first, next>>
  BY <1>1 DEF Mark, marks, TypeInv, TypeOK, LinksInside, Inside
<1>2. CASE Link(PageOf(u))
  <2>1. PageOf(u) \in Pages /\ PageOf(u)[1] \in Chains /\ PageOf(u)[2] \in Nat
        /\ PageOf(u) = <<PageOf(u)[1], PageOf(u)[2]>>
    BY PageFacts
  <2> DEFINE p == PageOf(u)
  <2> HIDE DEF p
  <2>2. /\ p \in Pages /\ p[1] \in Chains /\ p[2] \in Nat /\ p = <<p[1], p[2]>>
        /\ next' = [next EXCEPT ![p] = first[p[1]]] /\ first' = [first EXCEPT ![p[1]] = p[2]]
    BY <1>2, <2>1 DEF Link, p
  <2>3. /\ first' \in [Chains -> Nat \cup {NoPage}] /\ next' \in [Pages -> Nat \cup {NoPage}]
    BY <2>2 DEF TypeInv, TypeOK
  <2>4. LinksInside'
    BY <2>2, PageFacts DEF TypeInv, TypeOK, LinksInside, Inside
  <2> QED
    BY <2>3, <2>4 DEF Mark, marks, TypeInv, TypeOK
<1> QED
  BY <1>1, <1>2 DEF Mark, marks

LEMMA TypePass ==
  ASSUME TypeInv, workpg[2] # NoPage, PassPage
  PROVE  /\ dirty' \subseteq Units /\ UNCHANGED next
         /\ first' \in [Chains -> Nat \cup {NoPage}]
         /\ workpg' \in Pages \cup (Chains \X {NoPage})
         /\ LinksInside'
<1>1. workpg \in Pages /\ workpg[1] \in Chains
  BY PageFacts DEF TypeInv, TypeOK
<1>2. workpg' \in Pages \cup (Chains \X {NoPage})
  BY <1>1 DEF PassPage, TypeInv, LinksInside, Inside
<1>3. first' \in [Chains -> Nat \cup {NoPage}] /\ \A c \in Chains : first'[c] \in {first[c], NoPage}
  BY <1>1 DEF PassPage, TypeInv, TypeOK
<1> QED
  BY <1>2, <1>3 DEF PassPage, TypeInv, TypeOK, LinksInside, Inside

\* Steps that leave contents and marks alone.
LEMMA TypeIdle ==
  ASSUME TypeInv, UNCHANGED <<setup, mem, disk, dirty, first, next, crashes, fails>>,
         {wip, diskWip, lost}' \subseteq BOOLEAN, corrupted' \in 0..2,
         {good, saved}' \subseteq {mem, good, saved},
         todo' \subseteq Units, late' \subseteq Units, ops' \in 0..MaxOps,
         workpg' \in Pages \cup (Chains \X {NoPage}),
         owner' \in Procs \cup {Nobody, Dead}, owner' \in Procs <=> pc' # "out",
         checked' \subseteq Procs,
         pc' \in {"out", "held", "op", "leave", "locked"} \cup Syncing,
         after' \in {"out", "held", "leave", "locked"}, pc' \in Syncing => after' # "out", ReadingOK'
  PROVE  TypeInv'
<1>1. TypeOK'
  BY DEF TypeInv, TypeOK, Syncing
<1> QED
  BY <1>1 DEF TypeInv, LinksInside, Inside

LEMMA TypeMutex ==
  ASSUME TypeInv, UNCHANGED <<setup, reading>>,
         NEW p \in Procs, Check(p) \/ Lock(p) \/ InheritByLock(p) \/ InheritByTry(p)
  PROVE  TypeInv'
<1> USE DEF TypeInv, TypeOK
<1>r. ReadingOK'
  BY DEF ReadingOK, reading
<1> USE <1>r
<1>1. CASE Check(p)
  BY <1>1, TypeIdle DEF Check, content, marks, work, states, counts, ghosts, Syncing
<1>2. ASSUME NEW at \in {"held", "leave", "flush", "revert"}, NEW then \in {"out", "held", "locked"},
             Hold(p, at, then), at \in Syncing => then # "out", corrupted' \in {corrupted, 1}
      PROVE  TypeInv'
  BY <1>2, TypeIdle, UnitsAssumption DEF Hold, content, marks, work, counts, ghosts, Syncing
<1> QED
  BY <1>1, <1>2 DEF Lock, InheritByLock, InheritByTry, Inherit, Syncing

LEMMA TypeOperation ==
  ASSUME TypeInv, UNCHANGED <<setup, reading>>,
         \/ Leave \/ Begin \/ NoOperation \/ MarkLate \/ Done \/ Failed
         \/ \E u \in Units : Change(u) \/ ChangeUnmarked(u)
  PROVE  TypeInv'
<1> USE DEF TypeInv, TypeOK
<1>r. ReadingOK'
  BY DEF ReadingOK, reading
<1> USE <1>r
<1>1. CASE Leave
  BY <1>1, TypeIdle, UnitsAssumption DEF Leave, content, marks, work, states, counts, ghosts, Syncing, Chains
<1>2. CASE Begin \/ NoOperation \/ Done \/ Failed
  <2>1. /\ UNCHANGED <<mem, disk, wip, diskWip, dirty, first, next, crashes, fails, workpg, corrupted, lost>>
        /\ UNCHANGED <<owner, checked>> /\ good' \in {good, mem} /\ saved' = saved
        /\ pc \in {"held", "op"} /\ pc' \in {"op", "leave", "flush", "revert"}
        /\ after' \in {after, "leave"} /\ (pc' \in Syncing => after' = "leave")
        /\ ops' \in 0..MaxOps /\ todo' \subseteq Units /\ late' = late
    BY <1>2, UnitsAssumption
       DEF Begin, NoOperation, Done, Failed, Owner, content, marks, work, states, counts, ghosts, Syncing
  <2> QED
    BY <2>1, TypeIdle DEF Syncing
<1>3. CASE MarkLate
  <2>1. PICK u \in Units : Mark(u)
    BY <1>3 DEF MarkLate
  <2> QED
    BY <1>3, <2>1, TypeMark DEF MarkLate, Owner, content, states, counts, ghosts
<1>4. ASSUME NEW u \in Units, Change(u) \/ ChangeUnmarked(u)
      PROVE  TypeInv'
  <2>1. mem' \in Contents /\ todo' \subseteq Units
    BY <1>4, HeadUnit DEF Change, ChangeUnmarked, Store, Contents
  <2>2. CASE Change(u)
    BY <2>1, <2>2, TypeMark DEF Change, Owner, states, counts, ghosts
  <2>3. CASE ChangeUnmarked(u)
    BY <2>1, <2>3 DEF ChangeUnmarked, Owner, marks, states, counts, ghosts, LinksInside, Inside
  <2> QED
    BY <1>4, <2>2, <2>3
<1> QED
  BY <1>1, <1>2, <1>3, <1>4

LEMMA TypeFlush ==
  ASSUME TypeInv, UNCHANGED <<setup, reading>>,
         \/ FlushBegin \/ FlushHead \/ FlushPage \/ FlushNextChain \/ FlushClean \/ FlushLast
         \/ FlushHeadFails \/ FlushPageFails \/ FlushLastFails
  PROVE  TypeInv'
<1> USE DEF TypeInv, TypeOK
<1>r. ReadingOK'
  BY DEF ReadingOK, reading
<1> USE <1>r
<1>1. CASE FlushBegin \/ FlushNextChain \/ FlushClean
  <2>1. /\ UNCHANGED <<mem, disk, diskWip, dirty, first, next, ops, crashes, fails, corrupted, lost>>
        /\ UNCHANGED <<owner, checked, after, todo, late, good>> /\ wip' \in {wip, TRUE, FALSE}
        /\ saved' \in {good, saved} /\ pc \in Syncing /\ pc' \in {pc, after, "head", "last"}
        /\ workpg' \in Pages \cup (Chains \X {NoPage})
    <3> USE DEF Owner, Goto, content, marks, work, states, counts, ghosts, Syncing
    <3>1. CASE FlushBegin
      BY <3>1 DEF FlushBegin
    <3>2. CASE FlushNextChain
      BY <3>2 DEF FlushNextChain, LinksInside, Inside, Chains
    <3>3. CASE FlushClean
      BY <3>3 DEF FlushClean
    <3> QED
      BY <1>1, <3>1, <3>2, <3>3
  <2> QED
    BY ZenonT(30), <2>1, TypeIdle DEF Syncing
<1>2. CASE FlushHead
  <2>1. disk' \in Contents
    BY <1>2, CopyContents DEF FlushHead
  <2>2. workpg' \in Pages \cup (Chains \X {NoPage})
    BY <1>2 DEF FlushHead, LinksInside, Inside, Chains
  <2> QED
    BY <1>2, <2>1, <2>2 DEF FlushHead, Owner, Goto, work, states, counts, ghosts, Syncing, LinksInside, Inside
<1>3. CASE FlushPage
  <2>1. disk' \in Contents
    BY <1>3, CopyContents DEF FlushPage
  <2> QED
    BY <1>3, <2>1, TypePass DEF FlushPage, Owner, work, states, counts, ghosts
<1>4. CASE FlushLast
  <2>1. disk' \in Contents
    BY <1>4, CopyContents DEF FlushLast
  <2> QED
    BY <1>4, <2>1 DEF FlushLast, Owner, Goto, marks, work, states, counts, ghosts, Syncing, LinksInside, Inside
<1>f. SyncFailed => pc' = "leave" /\ fails' \in 0..MaxFails /\ UNCHANGED after
  BY UnitsAssumption DEF SyncFailed
<1>5. CASE FlushHeadFails
  BY <1>5, <1>f DEF FlushHeadFails, Owner, content, marks, work, states, counts, ghosts, Syncing,
              LinksInside, Inside
<1>6. CASE FlushPageFails
  <2>1. disk' \in Contents
    BY <1>6, CopyContents DEF FlushPageFails
  <2>2. workpg \in Pages /\ workpg[1] \in Chains /\ workpg[2] \in Nat /\ workpg = <<workpg[1], workpg[2]>>
    BY <1>6, PageFacts DEF FlushPageFails
  <2>3. first' \in [Chains -> Nat \cup {NoPage}] /\ LinksInside'
    BY <1>6, <2>2 DEF FlushPageFails, LinksInside, Inside
  <2> QED
    BY <1>6, <1>f, <2>1, <2>3 DEF FlushPageFails, Owner, work, states, ghosts, Syncing
<1>7. CASE FlushLastFails
  BY <1>7, <1>f, TypeMark, HeadUnit
     DEF FlushLastFails, Owner, content, work, states, ghosts, Syncing
<1> QED
  BY <1>1, <1>2, <1>3, <1>4, <1>5, <1>6, <1>7

LEMMA TypeRevert ==
  ASSUME TypeInv, UNCHANGED <<setup, reading>>,
         RevertBegin \/ RevertHead \/ RevertNextChain \/ RevertEnd
         \/ RevertFails \/ Downgrade
  PROVE  TypeInv'
<1> USE DEF TypeInv, TypeOK
<1>r. ReadingOK'
  BY DEF ReadingOK, reading
<1> USE <1>r
<1>1. CASE RevertBegin \/ RevertNextChain \/ RevertEnd \/ Downgrade
  <2>1. /\ UNCHANGED <<mem, disk, wip, diskWip, dirty, first, next, ops, crashes, fails, lost>>
        /\ UNCHANGED <<owner, checked, after, todo, late, saved>> /\ corrupted' \in {corrupted, 1}
        /\ good' \in {good, saved} /\ pc \in Syncing /\ pc' \in {pc, after, "rhead", "leave"}
        /\ workpg' \in Pages \cup (Chains \X {NoPage})
    BY <1>1 DEF RevertBegin, RevertNextChain, RevertEnd, Downgrade, Owner, Goto, content, marks, work,
                states, counts, ghosts, Syncing, LinksInside, Inside, Chains
  <2> QED
    BY <2>1, TypeIdle DEF Syncing
<1>2. CASE RevertHead
  <2>1. mem' \in Contents
    BY <1>2, CopyContents DEF RevertHead
  <2>2. workpg' \in Pages \cup (Chains \X {NoPage})
    BY <1>2 DEF RevertHead, LinksInside, Inside, Chains
  <2> QED
    BY <1>2, <2>1, <2>2 DEF RevertHead, Owner, Goto, work, states, counts, ghosts, Syncing, LinksInside, Inside
<1>4. CASE RevertFails
  BY <1>4, UnitsAssumption DEF RevertFails, Owner, content, marks, work, states, ghosts, Syncing, LinksInside, Inside
<1> QED
  BY <1>1, <1>2, <1>4

LEMMA TypeDeath == ASSUME TypeInv, UNCHANGED <<setup, reading>>, Crash \/ Reload PROVE TypeInv'
<1> USE DEF TypeInv, TypeOK
<1>r. ReadingOK'
  BY DEF ReadingOK, reading
<1> USE <1>r
<1>1. CASE Crash
  <2>1. disk' \in Contents
    BY <1>1, CopyContents DEF Crash
  <2>2. workpg' \in Chains \X {NoPage} /\ owner' = Dead /\ Dead \notin Procs /\ crashes' \in 0..MaxCrashes
    BY <1>1, UnitsAssumption DEF Crash, Chains
  <2> QED
    BY <1>1, <2>1, <2>2 DEF Crash, marks, states, ghosts, Syncing, LinksInside, Inside
<1>2. CASE Reload
  <2>1. owner' \notin Procs /\ owner' \in {Nobody, Dead} /\ pc = "out"
    BY <1>2, UnitsAssumption DEF Reload
  <2>2. /\ mem' \in Contents /\ good' \in Contents /\ {wip, diskWip, lost}' \subseteq BOOLEAN
        /\ dirty' \subseteq Units /\ corrupted' \in 0..2 /\ checked' \subseteq Procs
    <3>1. CASE diskWip
      BY <1>2, <3>1 DEF Reload
    <3>2. CASE ~diskWip
      <4>1. mem' = disk /\ good' = saved /\ dirty' = {} /\ corrupted' = 0 /\ checked' = {}
        BY <1>2, <3>2 DEF Reload
      <4>2. wip' = FALSE /\ diskWip' = diskWip /\ lost' = lost
        BY <1>2, <3>2 DEF Reload
      <4>3. {wip, diskWip, lost}' \subseteq BOOLEAN
        BY <4>2
      <4> QED
        BY <4>1, <4>3
    <3> QED
      BY <3>1, <3>2
  <2>3. first' \in [Chains -> Nat \cup {NoPage}] /\ UNCHANGED next /\ \A c \in Chains : first'[c] \in {first[c], NoPage}
    BY <1>2 DEF Reload
  <2>4. LinksInside'
    BY <2>3 DEF LinksInside, Inside
  <2> QED
    BY <1>2, <2>1, <2>2, <2>3, <2>4 DEF Reload, work, counts, Syncing
<1> QED
  BY <1>1, <1>2

-----------------------------------------------------------------------------
(* The runs of a page that is read back *)

\* What cp_revert knows of the page it reads back, where no revert has met a
\* page with more than two runs: a run is read where it is as long as nothing
\* but one run has been shifted out, and then no more than one is left.
RunsRight ==
  LET bits == BitsOf(workpg) IN
  /\ ~Scattered(bits)
  /\ gone = 0 => pos = 0
  /\ gone > 0 => \E a \in Starts(bits) : a < gone
  /\ pos = gone \/ \E a, b \in Starts(bits) : a < b /\ b < gone
  /\ \A u \in Mask(workpg) : u[3] < gone => mem[u] = disk[u]

RunInv ==
  /\ late # {} => pc = "op"
  /\ pc = "runs" =>
       /\ workpg[2] # NoPage
       /\ mask = {b \in BitsOf(workpg) : b >= gone}
       /\ gone = 0 \/ gone \notin BitsOf(workpg)
       /\ ~misread => RunsRight

LEMMA BitsInPage == ASSUME TypeInv, NEW p PROVE BitsOf(p) \subseteq 0..(Bits - 1)
BY UnitsAssumption DEF TypeInv, TypeOK, BitsOf, Mask

\* Wherever a run is read, what it leaves in memory are contents.
LEMMA RunContents ==
  ASSUME TypeInv, RevertRun \/ RevertBehind
  PROVE  mem' \in Contents
<1> USE DEF TypeInv, TypeOK
<1>1. CASE RevertRun
  BY <1>1, CopyContents DEF RevertRun
<1>2. CASE RevertBehind
  <2>1. PICK stt, len : ReadBehind(stt, len)
    BY <1>2 DEF RevertBehind
  <2>2. CASE workpg[1] = "index"
    BY <2>1, <2>2, CopyContents DEF ReadBehind
  <2>3. CASE workpg[1] # "index"
    <3>0. PICK us \in SUBSET OtherData : \E what \in [us -> 0..ops] :
            mem' = [u \in Units |-> IF u \in us THEN what[u] ELSE Copy(mem, disk, InPage(stt, len))[u]]
      BY <2>1, <2>3 DEF ReadBehind
    <3>1. PICK what \in [us -> 0..ops] :
            mem' = [u \in Units |-> IF u \in us THEN what[u] ELSE Copy(mem, disk, InPage(stt, len))[u]]
      BY <3>0
    <3>2. Copy(mem, disk, InPage(stt, len)) \in Contents
      BY CopyContents
    <3>3. 0..ops \subseteq 0..MaxOps
      BY UnitsAssumption
    <3> QED
      BY <3>1, <3>2, <3>3 DEF Contents
  <2> QED
    BY <2>2, <2>3
<1> QED
  BY <1>1, <1>2

LEMMA TypeRun ==
  ASSUME TypeInv, NEW b \in mask, NEW len \in 1..Bits, FirstRun(b, len), PassRun(b, len), b >= gone
  PROVE  ReadingOK'
<1>1. /\ b \in Nat /\ len \in Nat /\ Bits \in Nat /\ gone \in Nat /\ pos \in Nat /\ len >= 1
      /\ mask \subseteq 0..(Bits - 1)
  BY UnitsAssumption DEF TypeInv, TypeOK, ReadingOK
<1>2. b + len - 1 \in 0..(Bits - 1)
  BY <1>1 DEF FirstRun
<1>3. gone' \in 0..Bits /\ pos' \in Nat /\ mask' \subseteq 0..(Bits - 1)
  BY <1>1, <1>2 DEF PassRun, Start
<1> QED
  BY <1>3 DEF ReadingOK, PassRun, TypeInv, TypeOK

LEMMA TypeRead ==
  ASSUME TypeInv, RunInv, UNCHANGED setup, ReadStep
  PROVE  TypeInv'
<1> USE DEF TypeInv, TypeOK
<1>r. pc = "runs" => workpg[2] # NoPage /\ \A b \in mask : b >= gone
  BY DEF RunInv
<1>b. Bits \in Nat /\ 0 \in 0..Bits /\ 0 \in Nat
  BY UnitsAssumption
<1>1. CASE RevertPage
  <2>1. ReadingOK'
    BY <1>1, <1>b, BitsInPage DEF RevertPage, ReadingOK
  <2> QED
    BY <1>1, <2>1, TypeIdle DEF RevertPage, Owner, Goto, content, marks, work, states, counts, ghosts, Syncing
<1>2. CASE RevertRun \/ RevertBehind
  <2>1. ReadingOK'
    BY <1>2, <1>r, TypeRun DEF RevertRun, RevertBehind
  <2>2. mem' \in Contents
    BY <1>2, RunContents
  <2>3. /\ UNCHANGED <<disk, wip, diskWip, marks, pc, after, workpg, work, states, counts, ghosts>>
        /\ Owner
    BY <1>2 DEF RevertRun, RevertBehind
  <2> QED
    BY <2>1, <2>2, <2>3 DEF Owner, marks, work, states, counts, ghosts, LinksInside, Inside
<1>3. CASE RevertPageEnd
  <2>1. ReadingOK'
    BY <1>3, <1>b DEF RevertPageEnd, ReadingOK
  <2>2. workpg[2] # NoPage
    BY <1>3, <1>r DEF RevertPageEnd
  <2> QED
    BY <1>3, <2>1, <2>2, TypePass DEF RevertPageEnd, Owner, Goto, content, work, states, counts, ghosts, Syncing
<1> QED
  BY <1>1, <1>2, <1>3 DEF ReadStep

LEMMA TypeNext == ASSUME TypeInv, RunInv, [Next]_vars PROVE TypeInv'
<1>1. CASE UNCHANGED vars
  BY <1>1 DEF vars, content, marks, mutex, work, states, counts, ghosts, reading, TypeInv, TypeOK, ReadingOK,
              LinksInside, Inside
<1>2. CASE Next
  BY <1>2, TypeMutex, TypeOperation, TypeFlush, TypeRevert, TypeDeath, TypeRead DEF Next, Step, OwnerStep
<1> QED
  BY <1>1, <1>2

\* A run that is shifted out begins at a bit that is a start, and the next one
\* behind it.
LEMMA RunIsNext ==
  ASSUME TypeInv, RunInv, pc = "runs", NEW b \in mask, NEW len \in 1..Bits, FirstRun(b, len)
  PROVE  /\ gone \in Nat /\ b \in Nat /\ len \in Nat /\ pos \in Nat /\ len >= 1 /\ gone <= b
         /\ b \in Starts(BitsOf(workpg))
         /\ mask \ (b..(b + len - 1)) = {x \in BitsOf(workpg) : x >= b + len}
         /\ b + len \notin BitsOf(workpg) /\ b + len <= Bits
<1>1. /\ mask = {x \in BitsOf(workpg) : x >= gone} /\ (gone = 0 \/ gone \notin BitsOf(workpg))
      /\ BitsOf(workpg) \subseteq 0..(Bits - 1) /\ Bits \in Nat
  BY BitsInPage, UnitsAssumption DEF RunInv
<1>2. gone \in Nat /\ b \in Nat /\ len \in Nat /\ pos \in Nat /\ len >= 1 /\ gone <= b
  BY <1>1, UnitsAssumption DEF TypeInv, TypeOK, ReadingOK
<1>3. (\A c \in mask : b <= c) /\ b..(b + len - 1) \subseteq mask /\ (b + len) \notin mask
  BY DEF FirstRun
<1> HIDE DEF BitsOf
<1>4. b \in Starts(BitsOf(workpg))
  <2>1. b - 1 \notin BitsOf(workpg)
    BY <1>1, <1>2, <1>3
  <2> QED
    BY <1>1, <2>1 DEF Starts
<1>5. b + len \notin BitsOf(workpg)
  BY <1>1, <1>2, <1>3
<1>6. b + len - 1 \in 0..(Bits - 1)
  <2>1. b + len - 1 \in b..(b + len - 1)
    BY <1>2
  <2>2. b + len - 1 \in mask
    BY <1>3, <2>1
  <2> QED
    BY <1>1, <2>2
<1>7. mask \ (b..(b + len - 1)) = {x \in BitsOf(workpg) : x >= b + len}
  BY <1>1, <1>2, <1>3
<1> QED
  BY <1>1, <1>2, <1>4, <1>5, <1>6, <1>7

\* Where no page has more than two runs, nor is marked as a whole, a run is read
\* where it is.
LEMMA RunInPlace ==
  ASSUME TypeInv, RunInv, pc = "runs", ~misread,
         NEW b \in mask, NEW len \in 1..Bits, FirstRun(b, len)
  PROVE  Start(b) = b /\ b + len <= Bits /\ len # Bits
<1> DEFINE bits == BitsOf(workpg)
<1>1. /\ gone \in Nat /\ b \in Nat /\ len \in Nat /\ pos \in Nat /\ len >= 1 /\ gone <= b
      /\ b \in Starts(bits) /\ b + len <= Bits
  BY RunIsNext
<1>2. RunsRight
  BY DEF RunInv
<1>3. ~Scattered(bits) /\ (pos = gone \/ \E a, c \in Starts(bits) : a < c /\ c < gone)
  BY <1>2 DEF RunsRight
<1>4. bits \subseteq 0..(Bits - 1) /\ b..(b + len - 1) \subseteq bits /\ Bits \in Nat
  BY BitsInPage, UnitsAssumption DEF FirstRun, RunInv
<1> HIDE DEF bits
<1>5. pos = gone
  <2> SUFFICES ASSUME NEW a \in Starts(bits), NEW c \in Starts(bits), a < c, c < gone PROVE FALSE
    BY <1>3
  <2>1. a \in Nat /\ c \in Nat
    BY <1>4 DEF Starts
  <2>2. c < b
    BY <1>1, <2>1
  <2> QED
    BY <1>1, <1>3, <2>2 DEF Scattered
<1>6. len # Bits
  <2> SUFFICES ASSUME len = Bits PROVE FALSE
    OBVIOUS
  <2>1. b = 0
    BY <1>1, <1>4
  <2>2. 0..(Bits - 1) = b..(b + len - 1)
    BY <1>1, <2>1
  <2>3. bits = 0..(Bits - 1)
    BY <1>4, <2>2
  <2> QED
    BY <1>3, <2>3 DEF Scattered
<1> QED
  BY <1>1, <1>5, <1>6 DEF Start

LEMMA NothingBehind == ASSUME TypeInv, RunInv, ~misread PROVE ~RevertBehind
<1> SUFFICES ASSUME RevertBehind PROVE FALSE
  OBVIOUS
<1>1. PICK b \in mask, len \in 1..Bits : FirstRun(b, len) /\ (Start(b) + len > Bits \/ len = Bits)
  BY DEF RevertBehind
<1>2. Start(b) = b /\ b + len <= Bits /\ len # Bits
  BY <1>1, RunInPlace DEF RevertBehind
<1>3. b \in Nat /\ len \in Nat /\ Bits \in Nat
  BY <1>1, RunIsNext, UnitsAssumption DEF RevertBehind
<1> QED
  BY <1>1, <1>2, <1>3

\* At the end of the page all that is marked is read back.
LEMMA PageBack ==
  ASSUME TypeInv, RunInv, ~misread, RevertPageEnd
  PROVE  \A u \in Mask(workpg) : mem[u] = disk[u]
<1>1. pc = "runs" /\ mask = {}
  BY DEF RevertPageEnd
<1>2. (\A x \in BitsOf(workpg) : ~(x >= gone)) /\ RunsRight
  BY <1>1 DEF RunInv
<1>3. gone \in Nat /\ BitsOf(workpg) \subseteq Nat
  BY BitsInPage, UnitsAssumption DEF TypeInv, TypeOK, ReadingOK
<1>4. \A u \in Mask(workpg) : u[3] \in BitsOf(workpg)
  BY DEF BitsOf
<1>5. \A u \in Mask(workpg) : u[3] < gone
  BY <1>2, <1>3, <1>4
<1> QED
  BY <1>2, <1>5 DEF RunsRight

LEMMA MisreadStays == ASSUME [Next]_vars PROVE setup' = setup /\ (~misread' => ~misread)
<1>1. setup' = setup
  BY DEF Next, vars
<1>2. CASE RevertPage
  <2>1. misread' = (misread \/ Scattered(BitsOf(workpg)))
    BY <1>2 DEF RevertPage
  <2>2. ~misread' => ~misread
    BY Zenon, <2>1
  <2> QED
    BY <1>1, <2>2
<1>3. CASE RevertRun \/ RevertBehind \/ RevertPageEnd
  <2>1. misread' = misread
    BY <1>3 DEF RevertRun, RevertBehind, RevertPageEnd, PassRun
  <2> QED
    BY <1>1, <2>1
<1>4. CASE UNCHANGED reading
  BY <1>1, <1>4 DEF reading
<1> QED
  BY <1>2, <1>3, <1>4 DEF Next, ReadStep, vars

LEMMA RunInit == ASSUME Init PROVE RunInv
BY DEF Init, RunInv

\* A run that is read where it is.
LEMMA RunRead ==
  ASSUME TypeInv, RunInv, RevertRun, ~misread
  PROVE  RunsRight'
<1> DEFINE bits == BitsOf(workpg)
<1>1. PICK b \in mask, len \in 1..Bits :
        FirstRun(b, len) /\ mem' = Copy(mem, disk, InPage(Start(b), len)) /\ PassRun(b, len)
  BY DEF RevertRun
<1>2. /\ gone \in Nat /\ b \in Nat /\ len \in Nat /\ pos \in Nat /\ len >= 1 /\ gone <= b
      /\ b \in Starts(bits) /\ Start(b) = b
  BY <1>1, RunIsNext, RunInPlace DEF RevertRun
<1>3. bits \subseteq 0..(Bits - 1) /\ Bits \in Nat
  BY BitsInPage, UnitsAssumption
<1>4. /\ ~Scattered(bits) /\ (gone = 0 => pos = 0) /\ (gone > 0 => \E a \in Starts(bits) : a < gone)
      /\ \A u \in Mask(workpg) : u[3] < gone => mem[u] = disk[u]
      /\ mask = {x \in bits : x >= gone}
  BY DEF RunInv, RunsRight, RevertRun
<1>5. gone' = b + len /\ pos' = pos + b + len
  BY <1>1, <1>2 DEF PassRun
<1>6. UNCHANGED <<workpg, dirty, disk>>
  BY DEF RevertRun, marks
<1>7. \A u : u \in Mask(workpg)' <=> u \in Mask(workpg)
  BY <1>6 DEF Mask
<1>8. BitsOf(workpg)' = bits
  BY <1>6 DEF BitsOf, Mask
<1>9. ASSUME NEW u \in Mask(workpg), u[3] < gone' PROVE mem'[u] = disk'[u]
  <2>1. u \in Units /\ PageOf(u) = workpg /\ u[3] \in bits
    BY <1>9 DEF Mask, BitsOf, TypeInv, TypeOK
  <2>2. mem'[u] = IF u \in InPage(b, len) THEN disk[u] ELSE mem[u]
    BY <1>1, <1>2, <2>1 DEF Copy
  <2>3. u[3] \in mask \/ u[3] < gone
    BY <1>2, <1>3, <1>4, <2>1
  <2>4. CASE u[3] < gone
    BY <1>4, <1>6, <1>9, <2>2, <2>4
  <2>5. CASE u[3] \in mask
    <3>1. b <= u[3]
      BY <1>1, <2>5 DEF FirstRun
    <3>2. u[3] \in b..(b + len - 1)
      BY <1>2, <1>3, <1>5, <1>9, <2>1, <3>1
    <3> QED
      BY <1>6, <2>1, <2>2, <3>2 DEF InPage
  <2> QED
    BY <2>3, <2>4, <2>5
<1> HIDE DEF bits
<1>10. \E a \in Starts(bits) : a < gone'
  BY <1>2, <1>5
<1>11. pos' = gone' \/ \E a, c \in Starts(bits) : a < c /\ c < gone'
  <2>1. CASE gone = 0
    BY <1>2, <1>4, <1>5, <2>1
  <2>2. CASE gone > 0
    <3>1. PICK a \in Starts(bits) : a < gone
      BY <1>4, <2>2
    <3>2. a \in Nat
      BY <1>3 DEF Starts
    <3>3. a < b /\ b < gone'
      BY <1>2, <1>5, <3>1, <3>2
    <3> QED
      BY <1>2, <3>3
  <2> QED
    BY <1>2, <2>1, <2>2
<1>12. gone' # 0
  BY <1>2, <1>5
<1> QED
  BY <1>4, <1>7, <1>8, <1>9, <1>10, <1>11, <1>12 DEF RunsRight, Scattered

\* Steps that do not read pages back.
LEMMA RunIdle ==
  ASSUME TypeInv, RunInv, Step, UNCHANGED reading
  PROVE  RunInv'
<1>1. late' # {} => pc' = "op"
  <2>1. CASE \E p \in Procs : Check(p)
    BY <2>1 DEF Check, RunInv, work
  <2>2. CASE \E p \in Procs : Lock(p) \/ InheritByLock(p) \/ InheritByTry(p)
    <3>1. UNCHANGED late /\ owner \notin Procs
      BY <2>2, UnitsAssumption DEF Lock, InheritByLock, InheritByTry, Inherit, Hold, work
    <3> QED
      BY <3>1 DEF RunInv, TypeInv, TypeOK
  <2>3. CASE \/ Leave \/ Begin \/ NoOperation \/ MarkLate \/ Done \/ Failed
             \/ \E u \in Units : Change(u) \/ ChangeUnmarked(u)
    BY <2>3 DEF Leave, Begin, NoOperation, MarkLate, Done, Failed, Change, ChangeUnmarked, Owner, work, RunInv
  <2>4. CASE Crash
    BY <2>4 DEF Crash
  <2>5. CASE Reload
    BY <2>5, UnitsAssumption DEF Reload, work, RunInv
  <2>6. CASE \/ FlushBegin \/ FlushHead \/ FlushPage \/ FlushNextChain \/ FlushClean \/ FlushLast
             \/ FlushHeadFails \/ FlushPageFails \/ FlushLastFails
             \/ RevertBegin \/ RevertHead \/ RevertNextChain \/ RevertEnd \/ RevertFails \/ Downgrade
    <3>1. pc # "op" /\ UNCHANGED late
      BY <2>6 DEF FlushBegin, FlushHead, FlushPage, FlushNextChain, FlushClean, FlushLast, FlushHeadFails,
           FlushPageFails, FlushLastFails, RevertBegin, RevertHead, RevertNextChain, RevertEnd, RevertFails,
           Downgrade, work
    <3> QED
      BY <3>1 DEF RunInv
  <2> QED
    BY <2>1, <2>2, <2>3, <2>4, <2>5, <2>6 DEF Step, OwnerStep
<1>2. pc' = "runs" => UNCHANGED <<mem, disk, dirty, pc, workpg>>
  <2>1. CASE \E p \in Procs : Check(p)
    BY <2>1 DEF Check, content, marks
  <2>2. CASE \/ \E p \in Procs : Lock(p) \/ InheritByLock(p) \/ InheritByTry(p)
             \/ Leave \/ Begin \/ NoOperation \/ Done \/ Failed \/ Crash \/ Reload
             \/ \E u \in Units : Change(u) \/ ChangeUnmarked(u)
    BY <2>2, UnitsAssumption
       DEF Lock, InheritByLock, InheritByTry, Inherit, Hold, Leave, Begin, NoOperation, Done, Failed, Crash,
           Reload, Change, ChangeUnmarked, TypeInv, TypeOK
  <2>3. CASE MarkLate
    BY <2>3 DEF MarkLate, RunInv
  <2>4. CASE \/ FlushBegin \/ FlushHead \/ FlushPage \/ FlushNextChain \/ FlushClean \/ FlushLast
             \/ FlushHeadFails \/ FlushPageFails \/ FlushLastFails
             \/ RevertBegin \/ RevertHead \/ RevertNextChain \/ RevertEnd \/ RevertFails \/ Downgrade
    <3>1. after # "runs"
      BY DEF TypeInv, TypeOK
    <3> QED
      BY <2>4, <3>1 DEF FlushBegin, FlushHead, FlushPage, FlushNextChain, FlushClean, FlushLast, FlushHeadFails,
           FlushPageFails, FlushLastFails, SyncFailed, RevertBegin, RevertHead, RevertNextChain, RevertEnd,
           RevertFails, Downgrade, Goto
  <2> QED
    BY <2>1, <2>2, <2>3, <2>4 DEF Step, OwnerStep
<1>3. CASE pc' = "runs"
  <2>1. UNCHANGED <<mem, disk, dirty, pc, workpg, mask, gone, pos, misread>>
    BY <1>2, <1>3 DEF reading
  <2>2. (BitsOf(workpg)' = BitsOf(workpg)) /\ (Mask(workpg)' = Mask(workpg))
    BY <2>1 DEF BitsOf, Mask
  <2>3. RunsRight' <=> RunsRight
    BY <2>1, <2>2 DEF RunsRight
  <2> QED
    BY <1>1, <2>1, <2>2, <2>3 DEF RunInv
<1>4. CASE pc' # "runs"
  BY <1>1, <1>4 DEF RunInv
<1> QED
  BY <1>3, <1>4

LEMMA RunNext == ASSUME TypeInv, RunInv, [Next]_vars PROVE RunInv'
<1>1. CASE UNCHANGED vars
  <2>1. UNCHANGED <<mem, disk, dirty, pc, workpg, late, mask, gone, pos, misread>>
    BY <1>1 DEF vars, content, marks, mutex, work, reading
  <2>2. (BitsOf(workpg)' = BitsOf(workpg)) /\ (Mask(workpg)' = Mask(workpg))
    BY <2>1 DEF BitsOf, Mask
  <2>3. RunsRight' <=> RunsRight
    BY <2>1, <2>2 DEF RunsRight
  <2> QED
    BY <2>1, <2>2, <2>3 DEF RunInv
<1>2. CASE Step /\ UNCHANGED <<setup, reading>>
  BY <1>2, RunIdle
<1>3. CASE RevertPage
  <2>1. /\ UNCHANGED <<mem, disk, dirty, workpg, late>> /\ pc = "read" /\ pc' = "runs" /\ workpg[2] # NoPage
        /\ mask' = BitsOf(workpg) /\ gone' = 0 /\ pos' = 0
        /\ misread' = (misread \/ Scattered(BitsOf(workpg)))
    BY <1>3 DEF RevertPage, Goto, content, marks, work
  <2>2. (BitsOf(workpg)' = BitsOf(workpg)) /\ (Mask(workpg)' = Mask(workpg))
    BY <2>1 DEF BitsOf, Mask
  <2>3. BitsOf(workpg) \subseteq Nat
    BY BitsInPage, UnitsAssumption
  <2>4. \A u \in Mask(workpg) : u[3] \in BitsOf(workpg)
    BY DEF BitsOf
  <2>5. ~misread' => RunsRight'
    <3>1. ~misread' => ~Scattered(BitsOf(workpg))
      BY Zenon, <2>1
    <3>2. ~Scattered(BitsOf(workpg)) <=> ~Scattered(BitsOf(workpg))'
      BY <2>2 DEF Scattered
    <3>3. \A u \in Mask(workpg)' : ~(u[3] < gone')
      BY <2>1, <2>2, <2>3, <2>4
    <3> QED
      BY <2>1, <3>1, <3>2, <3>3 DEF RunsRight
  <2>6. mask' = {x \in BitsOf(workpg)' : x >= gone'}
    BY <2>1, <2>2, <2>3
  <2> QED
    BY <2>1, <2>5, <2>6 DEF RunInv
<1>4. CASE RevertRun \/ RevertBehind
  <2>1. PICK b \in mask, len \in 1..Bits : FirstRun(b, len) /\ PassRun(b, len)
    BY <1>4 DEF RevertRun, RevertBehind
  <2>2. UNCHANGED <<dirty, workpg, late, pc, misread>> /\ pc = "runs" /\ workpg[2] # NoPage /\ late = {}
    BY <1>4, <2>1 DEF RevertRun, RevertBehind, marks, work, PassRun, RunInv
  <2>3. BitsOf(workpg)' = BitsOf(workpg)
    BY <2>2 DEF BitsOf, Mask
  <2>4. mask' = {x \in BitsOf(workpg) : x >= gone'} /\ gone' \notin BitsOf(workpg)
    BY <2>1, <2>2, RunIsNext DEF PassRun
  <2>5. ~misread' => RunsRight'
    BY <1>4, <2>2, RunRead, NothingBehind
  <2> QED
    BY <2>2, <2>3, <2>4, <2>5 DEF RunInv
<1>5. CASE RevertPageEnd
  <2>1. pc = "runs" /\ pc' = "read" /\ UNCHANGED late
    BY <1>5 DEF RevertPageEnd, Goto, work
  <2> QED
    BY <2>1 DEF RunInv
<1> QED
  BY <1>1, <1>2, <1>3, <1>4, <1>5 DEF Next, ReadStep

\* The types, and with them: only a process that has the mutex is anywhere in
\* the code, and a walk along dirty_chain meets only pages of its chain.
THEOREM TypeCorrect == Spec => []TypeOK
<1>1. Init => TypeInv /\ RunInv
  BY TypeInit, RunInit
<1>2. TypeInv /\ RunInv /\ [Next]_vars => TypeInv' /\ RunInv'
  BY TypeNext, RunNext
<1>3. TypeInv => TypeOK
  BY DEF TypeInv
<1> QED
  BY <1>1, <1>2, <1>3, PTL DEF Spec

-----------------------------------------------------------------------------
(* Pages without a mark *)

\* A disk page that is not marked is the same in memory and on disk.
UnmarkedSame == \A u \in Units \ (dirty \cup {Head}) : mem[u] = disk[u]

\* What makes that inductive in a safe set: contents are functions on the
\* units, and no page is changed and not marked yet.
CleanInv ==
  /\ mem \in [Units -> Nat] /\ disk \in [Units -> Nat]
  /\ dirty \subseteq Units /\ todo \subseteq Units /\ late = {} /\ ops \in Nat
  /\ UnmarkedSame

\* Copying marked units and clearing their marks leaves memory and disk the
\* same where nothing is marked, in both directions.
LEMMA CopySame ==
  ASSUME CleanInv, NEW us \in SUBSET Units
  PROVE  /\ Copy(disk, mem, us) \in [Units -> Nat]
         /\ Copy(mem, disk, us) \in [Units -> Nat]
         /\ \A u \in Units \ ((dirty \ us) \cup {Head}) :
              /\ mem[u] = Copy(disk, mem, us)[u]
              /\ Copy(mem, disk, us)[u] = disk[u]
BY DEF CleanInv, UnmarkedSame, Copy

LEMMA MaskUnits == ASSUME CleanInv, NEW p PROVE Mask(p) \subseteq Units /\ Mask(p) \subseteq dirty
BY DEF CleanInv, Mask

LEMMA WrittenUnits == ASSUME CleanInv, NEW us \in Written PROVE us \subseteq Units /\ us \subseteq dirty
BY MaskUnits DEF Written

LEMMA CleanInit == ASSUME Init PROVE CleanInv
BY DEF Init, CleanInv, UnmarkedSame

\* Steps that touch neither the contents nor the marks.
LEMMA CleanIdle ==
  ASSUME CleanInv, UNCHANGED <<mem, disk, dirty, late>>, ops' \in Nat, todo' \subseteq Units
  PROVE  CleanInv'
BY DEF CleanInv, UnmarkedSame

LEMMA CleanMutex ==
  ASSUME CleanInv, NEW p \in Procs, Check(p) \/ Lock(p) \/ InheritByLock(p) \/ InheritByTry(p)
  PROVE  CleanInv'
<1>1. UNCHANGED <<mem, disk, dirty, late, ops, todo>>
  BY DEF Check, Lock, InheritByLock, InheritByTry, Inherit, Hold, content, marks, work, counts
<1> QED
  BY <1>1, CleanIdle DEF CleanInv

LEMMA CleanOperation ==
  ASSUME CleanInv, setup = "safe",
         \/ Leave \/ Begin \/ NoOperation \/ MarkLate \/ Done \/ Failed
         \/ \E u \in Units : Change(u) \/ ChangeUnmarked(u)
  PROVE  CleanInv'
<1>1. CASE Leave \/ NoOperation \/ Done \/ Failed
  <2>1. UNCHANGED <<mem, disk, dirty, late, ops>> /\ todo' \in {todo, {}}
    BY <1>1 DEF Leave, NoOperation, Done, Failed, content, marks, work, counts
  <2> QED
    BY <2>1, CleanIdle DEF CleanInv
<1>2. CASE Begin
  <2>1. UNCHANGED <<mem, disk, dirty, late>> /\ ops' = ops + 1 /\ todo' \subseteq Units
    BY <1>2, UnitsAssumption DEF Begin, content, marks
  <2> QED
    BY <2>1, CleanIdle DEF CleanInv
<1>3. CASE MarkLate
  BY <1>3 DEF MarkLate, CleanInv
<1>4. CASE \E u \in Units : Change(u) \/ ChangeUnmarked(u)
  <2>1. PICK u \in Units : Change(u)
    BY <1>4 DEF ChangeUnmarked, LateMarks
  <2>2. /\ dirty' = dirty \cup {u} /\ mem' = [mem EXCEPT ![u] = ops, ![Head] = ops]
        /\ todo' = todo \ {u} /\ UNCHANGED <<disk, late, ops>>
    BY <2>1 DEF Change, Mark, Store, counts, Persistent
  <2>3. mem' \in [Units -> Nat]
    BY <2>2, HeadUnit DEF CleanInv
  <2>4. \A v \in Units \ (dirty' \cup {Head}) : mem'[v] = disk'[v]
    BY <2>2 DEF CleanInv, UnmarkedSame
  <2> QED
    BY <2>2, <2>3, <2>4 DEF CleanInv, UnmarkedSame
<1> QED
  BY <1>1, <1>2, <1>3, <1>4

LEMMA CleanFlush ==
  ASSUME CleanInv, setup = "safe",
         \/ FlushBegin \/ FlushHead \/ FlushPage \/ FlushNextChain \/ FlushClean \/ FlushLast
         \/ FlushHeadFails \/ FlushPageFails \/ FlushLastFails
  PROVE  CleanInv'
<1>1. CASE FlushBegin \/ FlushNextChain \/ FlushClean \/ FlushHeadFails
  <2>1. UNCHANGED <<mem, disk, dirty, late, ops, todo>>
    BY <1>1 DEF FlushBegin, FlushNextChain, FlushClean, FlushHeadFails, content, marks, work, counts
  <2> QED
    BY <2>1, CleanIdle DEF CleanInv
<1>2. CASE FlushHead \/ FlushLast
  <2>1. /\ disk' = Copy(disk, mem, {Head}) /\ dirty' \in {dirty, dirty \ {Head}}
        /\ UNCHANGED <<mem, late, ops, todo>>
    BY <1>2 DEF FlushHead, FlushLast, marks, work, counts
  <2> QED
    BY <2>1, CopySame, HeadUnit DEF CleanInv, UnmarkedSame
<1>3. CASE FlushPage
  <2>1. /\ disk' = Copy(disk, mem, Mask(workpg)) /\ dirty' = dirty \ Mask(workpg)
        /\ UNCHANGED <<mem, late, ops, todo>>
    BY <1>3 DEF FlushPage, PassPage, work, counts
  <2> QED
    BY <2>1, CopySame, MaskUnits DEF CleanInv, UnmarkedSame
<1>4. CASE FlushPageFails
  <2>1. PICK us \in Written : disk' = Copy(disk, mem, us)
    BY <1>4 DEF FlushPageFails
  <2>2. UNCHANGED <<mem, dirty, late, ops, todo>>
    BY <1>4 DEF FlushPageFails, work
  <2> QED
    BY <2>1, <2>2, CopySame, WrittenUnits DEF CleanInv, UnmarkedSame
<1>5. CASE FlushLastFails
  <2>1. dirty' = dirty \cup {Head} /\ UNCHANGED <<mem, disk, late, ops, todo>>
    BY <1>5 DEF FlushLastFails, Mark, Persistent, content, work
  <2> QED
    BY <2>1, HeadUnit DEF CleanInv, UnmarkedSame
<1> QED
  BY <1>1, <1>2, <1>3, <1>4, <1>5

LEMMA CleanRevert ==
  ASSUME CleanInv,
         RevertBegin \/ RevertHead \/ RevertNextChain \/ RevertEnd
         \/ RevertFails \/ Downgrade
  PROVE  CleanInv'
<1>1. CASE RevertBegin \/ RevertNextChain \/ RevertEnd \/ RevertFails \/ Downgrade
  <2>1. UNCHANGED <<mem, disk, dirty, late, ops, todo>>
    BY <1>1 DEF RevertBegin, RevertNextChain, RevertEnd, RevertFails, Downgrade, content, marks, work, counts
  <2> QED
    BY <2>1, CleanIdle DEF CleanInv
<1>2. CASE RevertHead
  <2>1. /\ mem' = Copy(mem, disk, {Head}) /\ dirty' = dirty \ {Head}
        /\ UNCHANGED <<disk, late, ops, todo>>
    BY <1>2 DEF RevertHead, work, counts
  <2> QED
    BY <2>1, CopySame, HeadUnit DEF CleanInv, UnmarkedSame
<1> QED
  BY <1>1, <1>2

\* Reading back what is not changed changes nothing.
LEMMA CleanRead ==
  ASSUME TypeInv, RunInv, CleanInv, ReadStep, ~misread
  PROVE  CleanInv'
<1>1. CASE RevertPage
  <2>1. UNCHANGED <<mem, disk, dirty, late, ops, todo>>
    BY <1>1 DEF RevertPage, content, marks, work, counts
  <2> QED
    BY <2>1, CleanIdle DEF CleanInv
<1>2. CASE RevertRun
  <2>1. PICK us : mem' = Copy(mem, disk, us)
    BY <1>2 DEF RevertRun
  <2>2. UNCHANGED <<disk, dirty, late, ops, todo>>
    BY <1>2 DEF RevertRun, marks, work, counts
  <2> QED
    BY <2>1, <2>2 DEF CleanInv, UnmarkedSame, Copy
<1>3. CASE RevertPageEnd
  <2>1. dirty' = dirty \ Mask(workpg) /\ UNCHANGED <<mem, disk, late, ops, todo>>
    BY <1>3 DEF RevertPageEnd, PassPage, content, work, counts
  <2>2. \A u \in Mask(workpg) : mem[u] = disk[u]
    BY <1>3, PageBack
  <2> QED
    BY <2>1, <2>2 DEF CleanInv, UnmarkedSame
<1> QED
  BY <1>1, <1>2, <1>3, NothingBehind DEF ReadStep

LEMMA CleanDeath == ASSUME CleanInv, Crash \/ Reload PROVE CleanInv'
<1>1. CASE Crash
  <2>1. PICK us \in Written : disk' = Copy(disk, mem, us)
    BY <1>1 DEF Crash
  <2>2. UNCHANGED <<mem, dirty, ops>> /\ late' = {} /\ todo' = {}
    BY <1>1 DEF Crash, marks
  <2> QED
    BY <2>1, <2>2, CopySame, WrittenUnits DEF CleanInv, UnmarkedSame
<1>2. CASE Reload
  <2>1. UNCHANGED <<disk, ops, todo, late>> /\ (UNCHANGED <<mem, dirty>> \/ (mem' = disk /\ dirty' = {}))
    BY <1>2 DEF Reload, counts, work
  <2> QED
    BY <2>1 DEF CleanInv, UnmarkedSame
<1> QED
  BY <1>1, <1>2

LEMMA CleanStep ==
  ASSUME CleanInv, setup = "safe", Step
  PROVE  CleanInv'
BY CleanMutex, CleanOperation, CleanFlush, CleanRevert, CleanDeath DEF Step, OwnerStep

\* The invariant is about safe sets, and a set stays what it is; what has been
\* read at the wrong place stays wrong.
LEMMA CleanNext ==
  ASSUME TypeInv, RunInv, setup = "safe" /\ ~misread => CleanInv, [Next]_vars
  PROVE  (setup = "safe" /\ ~misread => CleanInv)'
<1>1. setup' = setup /\ (~misread' => ~misread)
  BY MisreadStays
<1>2. CASE UNCHANGED vars
  BY <1>1, <1>2, CleanIdle DEF vars, content, marks, work, counts, CleanInv
<1>3. CASE Step
  BY <1>1, <1>3, CleanStep
<1>4. CASE ReadStep
  BY <1>1, <1>4, CleanRead
<1> QED
  BY <1>2, <1>3, <1>4 DEF Next

\* In a set of which pages are marked with the change, a disk page without a
\* mark is the same in memory and on disk, whatever fails and whoever dies, as
\* long as no revert has met a page with more than two runs of marked disk pages
\* or with nothing but marked ones (cp_flush, cp_revert).
THEOREM CleanSameHolds == Spec => []CleanSame
<1>1. Init => TypeInv /\ RunInv /\ (setup = "safe" /\ ~misread => CleanInv)
  BY TypeInit, RunInit, CleanInit
<1>2. /\ TypeInv /\ RunInv /\ (setup = "safe" /\ ~misread => CleanInv) /\ [Next]_vars
      => TypeInv' /\ RunInv' /\ (setup = "safe" /\ ~misread => CleanInv)'
  BY TypeNext, RunNext, CleanNext
<1>3. (setup = "safe" /\ ~misread => CleanInv) => CleanSame
  BY DEF CleanInv, CleanSame, UnmarkedSame
<1> QED
  BY <1>1, <1>2, <1>3, PTL DEF Spec

-----------------------------------------------------------------------------
(* The chains of dirty pages *)

\* Links that lead from page to page of one chain.
Linked(f) == \A p \in Pages : f[p] # NoPage => <<p[1], f[p]>> \in Pages

LEMMA NextLinked == ASSUME LinksInside PROVE Linked(next)
BY DEF LinksInside, Inside, Linked

LEMMA ReachFirst ==
  ASSUME NEW f, NEW c, NEW q, q # NoPage, <<c, q>> \in Pages
  PROVE  <<c, q>> \in Reach(f, c, q)
BY DEF Reach

LEMMA ReachNext ==
  ASSUME NEW f, Linked(f), NEW c, NEW q, NEW p \in Reach(f, c, q), f[p] # NoPage
  PROVE  <<p[1], f[p]>> \in Reach(f, c, q)
<1>1. p \in Pages /\ <<p[1], f[p]>> \in Pages
  BY DEF Reach, Linked
<1> QED
  BY <1>1 DEF Reach

\* What a walk reaches is in every set of pages with its first page that the
\* links do not leave.
LEMMA ReachWithin ==
  ASSUME NEW f, NEW c, NEW q, NEW S \in SUBSET Pages,
         q # NoPage => <<c, q>> \in S,
         \A r \in S : f[r] # NoPage => <<r[1], f[r]>> \in S
  PROVE  Reach(f, c, q) \subseteq S
BY DEF Reach

\* A walk from nowhere reaches nothing.
LEMMA ReachNone == ASSUME NEW f, NEW c PROVE Reach(f, c, NoPage) = {}
<1> DEFINE S == {}
<1>1. S \in SUBSET Pages /\ \A r \in S : f[r] # NoPage => <<r[1], f[r]>> \in S
  OBVIOUS
<1> HIDE DEF S
<1>2. Reach(f, c, NoPage) \subseteq S
  BY <1>1, ReachWithin
<1> QED
  BY <1>2 DEF S

LEMMA ReachPages == ASSUME NEW f, NEW c, NEW q PROVE Reach(f, c, q) \subseteq Pages
BY DEF Reach

\* A walk stays in its chain.
LEMMA ReachChain ==
  ASSUME NEW f, Linked(f), NEW c \in Chains, NEW q, q # NoPage => <<c, q>> \in Pages
  PROVE  \A p \in Reach(f, c, q) : p[1] = c
<1> DEFINE S == {p \in Pages : p[1] = c}
<1>1. \A r \in S : f[r] # NoPage => <<r[1], f[r]>> \in S
  BY DEF Linked
<1>2. q # NoPage => <<c, q>> \in S
  OBVIOUS
<1> HIDE DEF S
<1>3. S \in SUBSET Pages
  BY DEF S
<1>4. Reach(f, c, q) \subseteq S
  BY <1>1, <1>2, <1>3, ReachWithin
<1> QED
  BY <1>4 DEF S

\* Behind the page that a walk is at are the pages it has still to reach.
LEMMA ReachStep ==
  ASSUME NEW f, Linked(f), NEW c, NEW q, q # NoPage, <<c, q>> \in Pages
  PROVE  Reach(f, c, q) \subseteq {<<c, q>>} \cup Reach(f, c, f[<<c, q>>])
<1> DEFINE S == {<<c, q>>} \cup Reach(f, c, f[<<c, q>>])
<1>1. S \in SUBSET Pages
  BY ReachPages
<1>2. ASSUME NEW r \in S, f[r] # NoPage PROVE <<r[1], f[r]>> \in S
  <2>1. CASE r = <<c, q>>
    <3>1. <<c, f[r]>> \in Pages
      BY <1>2, <2>1 DEF Linked
    <3> QED
      BY <1>2, <2>1, <3>1, ReachFirst
  <2>2. CASE r \in Reach(f, c, f[<<c, q>>])
    BY <1>2, <2>2, ReachNext
  <2> QED
    BY <1>2, <2>1, <2>2
<1>3. <<c, q>> \in S
  OBVIOUS
<1> HIDE DEF S
<1>4. Reach(f, c, q) \subseteq S
  BY <1>1, <1>2, <1>3, ReachWithin
<1> QED
  BY <1>4 DEF S

\* A page that a walk does not reach may get another link.
LEMMA ReachKept ==
  ASSUME NEW f \in [Pages -> Nat \cup {NoPage}], NEW g \in [Pages -> Nat \cup {NoPage}],
         Linked(f), Linked(g), NEW c, NEW q, q # NoPage => <<c, q>> \in Pages,
         \A r \in Reach(f, c, q) : g[r] = f[r]
  PROVE  Reach(g, c, q) = Reach(f, c, q)
<1>1. Reach(g, c, q) \subseteq Reach(f, c, q)
  <2>1. Reach(f, c, q) \in SUBSET Pages
    BY ReachPages
  <2>2. \A r \in Reach(f, c, q) : g[r] # NoPage => <<r[1], g[r]>> \in Reach(f, c, q)
    BY ReachNext
  <2>3. q # NoPage => <<c, q>> \in Reach(f, c, q)
    BY ReachFirst
  <2> QED
    BY <2>1, <2>2, <2>3, ReachWithin
<1>2. Reach(f, c, q) \subseteq Reach(g, c, q)
  <2> DEFINE S == Reach(f, c, q) \cap Reach(g, c, q)
  <2>1. S \in SUBSET Pages
    BY ReachPages
  <2>2. \A r \in S : f[r] # NoPage => <<r[1], f[r]>> \in S
    BY ReachNext
  <2>3. q # NoPage => <<c, q>> \in S
    BY ReachFirst
  <2> HIDE DEF S
  <2>4. Reach(f, c, q) \subseteq S
    BY <2>1, <2>2, <2>3, ReachWithin
  <2> QED
    BY <2>4 DEF S
<1> QED
  BY <1>1, <1>2

\* Where nothing is left to be synced.
Idle == pc \in {"held", "leave", "locked"} \/ owner = Nobody

AllChained == \A u \in dirty : PageOf(u) \in Chained(u[1])

\* While an operation marks pages, no page is in a chain without a mask: a page
\* that is linked anew is not there yet.
NoStale == \A c \in Chains : \A p \in Chained(c) : Mask(p) # {}

\* What has a mark is still before the walk, or in the chain it has not begun.
WalkSound ==
  /\ \A u \in dirty : u[1] = workpg[1] => PageOf(u) \in Reach(next, workpg[1], workpg[2])
  /\ workpg[1] = "pages" => first["index"] = NoPage
  /\ workpg[2] = NoPage => first[workpg[1]] = NoPage

\* What makes MarksChained inductive.
ChainInv ==
  /\ late # {} => pc = "op"
  /\ fails = 0 =>
       /\ AllChained /\ pc # "downgrade"
       /\ Idle \/ ~Persistent \/ pc = "last" => NothingDirty
       /\ pc \in {"head", "rhead"} => ~NothingDirty
       /\ pc = "op" => NoStale
       /\ pc \in {"write", "read", "runs"} => WalkSound

LEMMA ChainedPrime ==
  /\ \A c : Chained(c)' = Reach(next', c, first'[c])
  /\ \A c, q : Reach(next, c, q)' = Reach(next', c, q)
BY DEF Chained, Reach

LEMMA ChainedIn ==
  ASSUME TypeInv, NEW c \in Chains
  PROVE  Chained(c) \subseteq Pages /\ \A p \in Chained(c) : p[1] = c
BY NextLinked, ReachPages, ReachChain DEF TypeInv, LinksInside, Inside, Chained

\* Chains without a beginning: nothing is marked.
LEMMA NothingLeft ==
  ASSUME TypeInv, NothingDirty
  PROVE  /\ AllChained => dirty = {}
         /\ NoStale
<1>1. \A c \in Chains : Chained(c) = {}
  BY ReachNone DEF NothingDirty, Chained
<1>2. \A u \in dirty : u[1] \in Chains
  BY PageFacts DEF TypeInv, TypeOK
<1> QED
  BY <1>1, <1>2 DEF AllChained, NoStale

LEMMA MarksSame ==
  ASSUME UNCHANGED <<dirty, first, next>>
  PROVE  /\ AllChained' <=> AllChained
         /\ NoStale' <=> NoStale
         /\ NothingDirty' <=> NothingDirty
<1>1. \A c : Chained(c)' = Chained(c)
  BY ChainedPrime DEF Chained
<1> QED
  BY <1>1 DEF AllChained, NoStale, NothingDirty, Mask

\* A chain is not touched when its pages keep their links.
LEMMA ReachSame ==
  ASSUME TypeInv, TypeInv', NEW c \in Chains, \A r \in Chained(c) : next'[r] = next[r]
  PROVE  Reach(next', c, first[c]) = Chained(c)
<1>1. Linked(next) /\ Linked(next')
  BY NextLinked DEF TypeInv, LinksInside, Inside, Linked
<1>2. next \in [Pages -> Nat \cup {NoPage}] /\ next' \in [Pages -> Nat \cup {NoPage}]
  BY DEF TypeInv, TypeOK
<1>3. first[c] # NoPage => <<c, first[c]>> \in Pages
  BY DEF TypeInv, LinksInside, Inside
<1>4. \A r \in Reach(next, c, first[c]) : next'[r] = next[r]
  BY DEF Chained
<1>5. Reach(next', c, first[c]) = Reach(next, c, first[c])
  BY <1>1, <1>2, <1>3, <1>4, ReachKept
<1> QED
  BY <1>5 DEF Chained

\* A page whose mask was empty comes before the pages of its chain, and no
\* other chain changes.
LEMMA LinkChained ==
  ASSUME TypeInv, TypeInv', NEW p \in Pages, Link(p), \A c \in Chains : p \notin Chained(c)
  PROVE  \A c \in Chains : Chained(c)' = Chained(c) \cup (IF c = p[1] THEN {p} ELSE {})
<1>1. /\ p[1] \in Chains /\ p[2] \in Nat /\ p = <<p[1], p[2]>>
      /\ next' = [next EXCEPT ![p] = first[p[1]]] /\ first' = [first EXCEPT ![p[1]] = p[2]]
  BY PageFacts DEF Link
<1>2. /\ next \in [Pages -> Nat \cup {NoPage}] /\ next' \in [Pages -> Nat \cup {NoPage}]
      /\ Linked(next) /\ Linked(next') /\ NoPage \notin Nat
      /\ \A c \in Chains : first[c] # NoPage => <<c, first[c]>> \in Pages
  <2>1. Linked(next')
    BY DEF TypeInv, LinksInside, Inside, Linked
  <2> QED
    BY <2>1, NextLinked, UnitsAssumption DEF TypeInv, TypeOK, LinksInside, Inside
<1>3. ASSUME NEW c \in Chains PROVE Reach(next', c, first[c]) = Chained(c)
  <2>1. \A r \in Chained(c) : next'[r] = next[r]
    BY <1>1, <1>2, ReachPages DEF Chained
  <2> QED
    BY <2>1, ReachSame
<1>4. ASSUME NEW c \in Chains
      PROVE  Reach(next', c, first'[c]) = Chained(c) \cup (IF c = p[1] THEN {p} ELSE {})
  <2>1. CASE c # p[1]
    <3>1. first'[c] = first[c]
      BY <1>1, <2>1 DEF TypeInv, TypeOK
    <3> QED
      BY <1>3, <2>1, <3>1
  <2>2. CASE c = p[1]
    <3>1. first'[c] = p[2] /\ next'[p] = first[c] /\ <<c, p[2]>> = p /\ p[2] # NoPage
      BY <1>1, <1>2, <2>2 DEF TypeInv, TypeOK
    <3>2. Reach(next', c, p[2]) \subseteq {p} \cup Reach(next', c, first[c])
      BY <1>2, <3>1, ReachStep
    <3>3. p \in Reach(next', c, p[2])
      BY <3>1, ReachFirst
    <3>4. Reach(next', c, first[c]) \subseteq Reach(next', c, p[2])
      <4>1. first[c] # NoPage => <<c, first[c]>> \in Reach(next', c, p[2])
        BY <1>2, <2>2, <3>1, <3>3, ReachNext
      <4>2. \A r \in Reach(next', c, p[2]) :
              next'[r] # NoPage => <<r[1], next'[r]>> \in Reach(next', c, p[2])
        BY <1>2, ReachNext
      <4>3. Reach(next', c, p[2]) \in SUBSET Pages
        BY ReachPages
      <4> QED
        BY <4>1, <4>2, <4>3, ReachWithin
    <3> QED
      BY <1>3, <2>2, <3>1, <3>2, <3>3, <3>4
  <2> QED
    BY <2>1, <2>2
<1> QED
  BY <1>4, ChainedPrime

LEMMA MarkChained ==
  ASSUME TypeInv, TypeInv', AllChained, NoStale, NEW u \in Units, Mark(u), Persistent
  PROVE  AllChained' /\ NoStale'
<1>1. PageOf(u) \in Pages /\ PageOf(u)[1] = u[1] /\ u[1] \in Chains /\ dirty' = dirty \cup {u}
  BY PageFacts DEF Mark
<1>2. \A v \in dirty : v \in Units /\ PageOf(v) \in Pages /\ PageOf(v)[1] = v[1] /\ v[1] \in Chains
  BY PageFacts DEF TypeInv, TypeOK
<1>3. \A p : Mask(p) \subseteq Mask(p)'
  BY <1>1 DEF Mask
<1>4. u \in Mask(PageOf(u))'
  BY <1>1 DEF Mask
<1>5. CASE Mask(PageOf(u)) # {}
  <2>1. UNCHANGED <<first, next>>
    BY <1>5 DEF Mark
  <2>2. \A c : Chained(c)' = Chained(c)
    BY <2>1, ChainedPrime DEF Chained
  <2>3. PageOf(u) \in Chained(u[1])
    BY <1>1, <1>2, <1>5 DEF Mask, AllChained
  <2> QED
    BY <1>1, <1>3, <2>2, <2>3 DEF AllChained, NoStale
<1>6. CASE Mask(PageOf(u)) = {}
  <2>1. Link(PageOf(u))
    BY <1>6 DEF Mark
  <2>2. \A c \in Chains : PageOf(u) \notin Chained(c)
    BY <1>6 DEF NoStale
  <2>3. \A c \in Chains : Chained(c)' = Chained(c) \cup (IF c = u[1] THEN {PageOf(u)} ELSE {})
    BY <1>1, <2>1, <2>2, LinkChained
  <2>4. AllChained'
    BY <1>1, <1>2, <2>3 DEF AllChained
  <2>5. NoStale'
    BY <1>3, <1>4, <2>3 DEF NoStale
  <2> QED
    BY <2>4, <2>5
<1> QED
  BY <1>5, <1>6

LEMMA ChainInit == ASSUME Init PROVE ChainInv
<1>1. TypeInv /\ NothingDirty /\ pc = "out" /\ late = {} /\ dirty = {}
  BY TypeInit DEF Init, NothingDirty
<1> QED
  BY <1>1 DEF ChainInv, AllChained

\* Steps that leave the marks alone.
LEMMA ChainIdle ==
  ASSUME TypeInv, ChainInv, UNCHANGED <<setup, dirty, first, next>>,
         fails' \in {fails, fails + 1}, late' # {} => pc' = "op",
         fails' = 0 /\ ChainInv =>
           /\ pc' # "downgrade"
           /\ Idle' \/ pc' = "last" => NothingDirty
           /\ pc' \in {"head", "rhead"} => ~NothingDirty
           /\ pc' = "op" => NoStale
           /\ pc' \in {"write", "read", "runs"} => WalkSound'
  PROVE  ChainInv'
<1>1. fails' = 0 => fails = 0
  BY DEF TypeInv, TypeOK
<1>2. ~Persistent' => ~Persistent
  BY DEF Persistent
<1> QED
  BY <1>1, <1>2, MarksSame DEF ChainInv

LEMMA ChainMutex ==
  ASSUME TypeInv, ChainInv, UNCHANGED setup,
         NEW p \in Procs, Check(p) \/ Lock(p) \/ InheritByLock(p) \/ InheritByTry(p)
  PROVE  ChainInv'
<1>1. CASE Check(p)
  <2>1. UNCHANGED <<dirty, first, next, fails, late, pc, owner, workpg>>
    BY <1>1 DEF Check, marks, work, counts
  <2>2. WalkSound <=> WalkSound'
    BY <2>1, ChainedPrime DEF WalkSound
  <2> QED
    BY <2>1, <2>2, ChainIdle DEF ChainInv, Idle
<1>2. CASE Lock(p) \/ InheritByLock(p) \/ InheritByTry(p)
  <2>1. /\ UNCHANGED <<dirty, first, next, fails, late>> /\ owner' = p /\ owner \notin Procs
        /\ pc' \in {"held", "leave", "flush", "revert"}
        /\ pc' \in {"held", "leave"} => owner = Nobody \/ ~Persistent
    BY <1>2, UnitsAssumption DEF Lock, InheritByLock, InheritByTry, Inherit, Hold, marks, work, counts
  <2>2. p # Nobody /\ late = {}
    BY <2>1, UnitsAssumption DEF ChainInv, TypeInv, TypeOK
  <2> QED
    BY <2>1, <2>2, ChainIdle DEF ChainInv, Idle
<1> QED
  BY <1>1, <1>2

LEMMA ChainOperation ==
  ASSUME TypeInv, TypeInv', ChainInv, UNCHANGED setup,
         \/ Leave \/ Begin \/ NoOperation \/ MarkLate \/ Done \/ Failed
         \/ \E u \in Units : Change(u) \/ ChangeUnmarked(u)
  PROVE  ChainInv'
<1>1. pc # "out" => owner \in Procs /\ owner # Nobody
  BY UnitsAssumption DEF TypeInv, TypeOK
<1>2. CASE Leave
  <2>1. /\ UNCHANGED <<dirty, first, next, fails, late>> /\ pc = "leave" /\ pc' = "out"
    BY <1>2 DEF Leave, marks, work, counts
  <2> QED
    BY <2>1, ChainIdle DEF ChainInv, Idle
<1>3. CASE Begin \/ NoOperation
  <2>1. /\ UNCHANGED <<dirty, first, next, fails, late, owner>> /\ pc = "held" /\ pc' \in {"op", "leave"}
    BY <1>3 DEF Begin, NoOperation, Owner, marks, work, counts
  <2>2. fails = 0 => NothingDirty
    BY <2>1 DEF ChainInv, Idle
  <2> QED
    BY <1>1, <2>1, <2>2, NothingLeft, ChainIdle DEF ChainInv, Idle
<1>4. CASE Done \/ Failed
  <2>1. /\ UNCHANGED <<dirty, first, next, fails, owner>> /\ pc = "op" /\ late = {} /\ late' = {}
        /\ pc' \in {"flush", "revert", "leave"} /\ (pc' = "leave" => ~Persistent)
    BY <1>4 DEF Done, Failed, Owner, marks, work, counts
  <2> QED
    BY <1>1, <2>1, ChainIdle DEF ChainInv, Idle
<1>5. ASSUME NEW u \in Units, Mark(u), UNCHANGED <<owner, fails, pc>>, pc = "op"
      PROVE  ChainInv'
  <2>1. Persistent' <=> Persistent
    BY DEF Persistent
  <2>2. CASE Persistent
    <3>1. fails = 0 => AllChained' /\ NoStale'
      BY <1>5, <2>2, MarkChained DEF ChainInv
    <3> QED
      BY <1>1, <1>5, <2>1, <2>2, <3>1 DEF ChainInv, Idle
  <2>3. CASE ~Persistent
    BY <1>1, <1>5, <2>3, ChainIdle DEF Mark, marks, ChainInv, Idle
  <2> QED
    BY <2>2, <2>3
<1>6. CASE MarkLate
  <2>1. PICK u \in late : Mark(u)
    BY <1>6 DEF MarkLate
  <2>2. u \in Units /\ pc = "op" /\ UNCHANGED <<owner, fails, pc>>
    BY <1>6, <2>1 DEF MarkLate, Owner, counts, ChainInv, TypeInv, TypeOK
  <2> QED
    BY <1>5, <2>1, <2>2
<1>7. ASSUME NEW u \in Units, Change(u) PROVE ChainInv'
  BY <1>5, <1>7 DEF Change, Owner, counts
<1>8. ASSUME NEW u \in Units, ChangeUnmarked(u) PROVE ChainInv'
  <2>1. UNCHANGED <<dirty, first, next, fails, owner, pc>> /\ pc = "op"
    BY <1>8 DEF ChangeUnmarked, Owner, marks, counts
  <2> QED
    BY <1>1, <2>1, ChainIdle DEF ChainInv, Idle
<1> QED
  BY <1>2, <1>3, <1>4, <1>6, <1>7, <1>8

\* A walk goes on to the next page: what has a mark is behind it.
LEMMA ChainPass ==
  ASSUME TypeInv, TypeInv', AllChained, WalkSound, workpg[2] # NoPage, PassPage
  PROVE  AllChained' /\ WalkSound'
<1> DEFINE c == workpg[1]
           q == next[workpg]
<1>1. workpg \in Pages /\ c \in Chains /\ workpg = <<c, workpg[2]>>
  BY PageFacts DEF TypeInv, TypeOK
<1>2. /\ workpg' = <<c, q>> /\ dirty' = dirty \ Mask(workpg) /\ UNCHANGED next
      /\ first' = IF q = NoPage THEN [first EXCEPT ![c] = NoPage] ELSE first
  BY DEF PassPage
<1>3. \A u \in dirty : u[1] \in Chains
  BY PageFacts DEF TypeInv, TypeOK
<1> HIDE DEF c, q
<1>4. ASSUME NEW u \in dirty', u[1] = c PROVE PageOf(u) \in Reach(next, c, q)
  <2>1. PageOf(u) \in Reach(next, c, workpg[2]) /\ PageOf(u) # workpg
    BY <1>2, <1>4 DEF WalkSound, Mask, c
  <2>2. Reach(next, c, workpg[2]) \subseteq {workpg} \cup Reach(next, c, q)
    BY <1>1, ReachStep, NextLinked DEF TypeInv, q
  <2> QED
    BY <2>1, <2>2
<1>5. q = NoPage => \A u \in dirty' : u[1] # c
  BY <1>4, ReachNone
<1>6. \A d \in Chains : (d # c \/ q # NoPage) => Chained(d)' = Chained(d)
  BY <1>1, <1>2, ChainedPrime DEF Chained, TypeInv, TypeOK
<1>7. AllChained'
  BY <1>2, <1>3, <1>5, <1>6 DEF AllChained
<1>8. WalkSound'
  <2>1. \A u \in dirty' : u[1] = workpg'[1] => PageOf(u) \in Reach(next', workpg'[1], workpg'[2])
    BY <1>2, <1>4
  <2>2. workpg'[1] = "pages" => first'["index"] = NoPage
    BY <1>2 DEF WalkSound, c, TypeInv, TypeOK, Chains
  <2>3. workpg'[2] = NoPage => first'[workpg'[1]] = NoPage
    BY <1>1, <1>2 DEF TypeInv, TypeOK
  <2> QED
    BY <2>1, <2>2, <2>3, ChainedPrime DEF WalkSound
<1> QED
  BY <1>7, <1>8

\* A walk over both chains is at its end.
LEMMA WalkDone ==
  ASSUME TypeInv, WalkSound, workpg = <<"pages", NoPage>>
  PROVE  NothingDirty
BY DEF WalkSound, NothingDirty, TypeInv, TypeOK, Chains

LEMMA ChainSync ==
  ASSUME TypeInv, TypeInv', RunInv, ChainInv, UNCHANGED setup,
         \/ FlushBegin \/ FlushHead \/ FlushPage \/ FlushNextChain \/ FlushClean \/ FlushLast
         \/ FlushHeadFails \/ FlushPageFails \/ FlushLastFails
         \/ RevertBegin \/ RevertHead \/ RevertNextChain \/ RevertEnd
         \/ RevertFails \/ Downgrade \/ ReadStep
  PROVE  ChainInv'
<1>1. /\ pc \in Syncing /\ owner \in Procs /\ owner # Nobody /\ UNCHANGED <<owner, late>> /\ late = {}
  <2>1. pc \in Syncing /\ UNCHANGED <<owner, late>>
    BY DEF FlushBegin, FlushHead, FlushPage, FlushNextChain, FlushClean, FlushLast, FlushHeadFails,
           FlushPageFails, FlushLastFails, RevertBegin, RevertHead, RevertNextChain, RevertEnd,
           RevertFails, Downgrade, ReadStep, RevertPage, RevertRun, RevertBehind, RevertPageEnd, Owner, work, Syncing
  <2> QED
    BY <2>1, UnitsAssumption DEF TypeInv, TypeOK, ChainInv, Syncing
<1>2. after \in {"held", "leave", "locked"}
  BY <1>1 DEF TypeInv, TypeOK
<1>3. CASE FlushBegin \/ RevertBegin
  <2>1. /\ UNCHANGED <<dirty, first, next, fails>> /\ pc \in {"flush", "revert"}
        /\ IF NothingDirty THEN pc' = after ELSE pc' \in {"head", "rhead"}
    BY <1>3 DEF FlushBegin, RevertBegin, Goto, marks, counts
  <2> QED
    BY <1>1, <1>2, <2>1, ChainIdle DEF ChainInv, Idle
<1>4. CASE FlushHead \/ RevertHead
  <2>1. /\ UNCHANGED <<first, next, fails>> /\ dirty' \subseteq dirty /\ pc' \in {"write", "read"}
        /\ workpg' = <<"index", first["index"]>> /\ pc \in {"head", "rhead"}
    BY <1>4 DEF FlushHead, RevertHead, Goto, counts
  <2>2. \A c : Chained(c)' = Chained(c)
    BY <2>1, ChainedPrime DEF Chained
  <2>3. AllChained => AllChained' /\ WalkSound'
    BY <2>1, <2>2 DEF AllChained, WalkSound, Chained
  <2> QED
    BY <1>1, <2>1, <2>3 DEF ChainInv, Idle, Persistent, NothingDirty
<1>5. CASE FlushPage \/ RevertPageEnd
  <2>1. /\ PassPage /\ workpg[2] # NoPage /\ UNCHANGED fails /\ pc \in {"write", "runs"}
        /\ pc' \in {"write", "read"}
    BY <1>5 DEF FlushPage, RevertPageEnd, Goto, counts, RunInv
  <2>2. fails = 0 => AllChained' /\ WalkSound'
    BY <2>1, ChainPass DEF ChainInv
  <2>3. fails = 0 /\ ~Persistent => NothingDirty'
    BY <2>1 DEF ChainInv, PassPage, NothingDirty, Chains
  <2> QED
    BY <1>1, <2>1, <2>2, <2>3 DEF ChainInv, Idle, Persistent
<1>6. CASE FlushNextChain \/ RevertNextChain
  <2>1. /\ UNCHANGED <<dirty, first, next, fails, pc>> /\ pc \in {"write", "read"}
        /\ workpg = <<"index", NoPage>> /\ workpg' = <<"pages", first["pages"]>>
    BY <1>6 DEF FlushNextChain, RevertNextChain, marks, counts
  <2>2. AllChained /\ WalkSound => WalkSound'
    BY <2>1, ChainedPrime DEF AllChained, WalkSound, Chained
  <2> QED
    BY <1>1, <2>1, <2>2, ChainIdle DEF ChainInv, Idle
<1>7. CASE FlushClean \/ RevertEnd
  <2>1. /\ UNCHANGED <<dirty, first, next, fails>> /\ pc \in {"write", "read"} /\ pc' \in {"last", after}
        /\ workpg = <<"pages", NoPage>>
    BY <1>7 DEF FlushClean, RevertEnd, Goto, marks, counts
  <2> QED
    BY <1>1, <1>2, <2>1, WalkDone, ChainIdle DEF ChainInv, Idle
<1>8. CASE FlushLast
  <2>1. UNCHANGED <<dirty, first, next, fails>> /\ pc = "last" /\ pc' = after
    BY <1>8 DEF FlushLast, Goto, marks, counts
  <2> QED
    BY <1>1, <1>2, <2>1, ChainIdle DEF ChainInv, Idle
<1>9. CASE FlushHeadFails \/ FlushPageFails \/ FlushLastFails \/ RevertFails
  <2>1. fails' = fails + 1
    BY <1>9 DEF FlushHeadFails, FlushPageFails, FlushLastFails, RevertFails, SyncFailed
  <2> QED
    BY <1>1, <2>1 DEF ChainInv, TypeInv, TypeOK
<1>10. CASE Downgrade
  <2>1. pc = "downgrade" /\ UNCHANGED fails
    BY <1>10 DEF Downgrade, counts
  <2> QED
    BY <1>1, <2>1 DEF ChainInv
<1>11. CASE RevertPage \/ RevertRun \/ RevertBehind
  <2>1. /\ UNCHANGED <<dirty, first, next, fails, workpg>> /\ pc \in {"read", "runs"} /\ pc' = "runs"
    BY <1>11 DEF RevertPage, RevertRun, RevertBehind, Goto, marks, counts
  <2>2. WalkSound <=> WalkSound'
    BY <2>1, ChainedPrime DEF WalkSound
  <2> QED
    BY <1>1, <2>1, <2>2, ChainIdle DEF ChainInv, Idle
<1> QED
  BY <1>3, <1>4, <1>5, <1>6, <1>7, <1>8, <1>9, <1>10, <1>11 DEF ReadStep

LEMMA ChainDeath ==
  ASSUME TypeInv, ChainInv, UNCHANGED setup, Crash \/ Reload
  PROVE  ChainInv'
<1>1. CASE Crash
  <2>1. UNCHANGED <<dirty, first, next, fails>> /\ late' = {} /\ pc' = "out" /\ owner' = Dead
    BY <1>1 DEF Crash, marks
  <2>2. Dead # Nobody
    BY UnitsAssumption
  <2> QED
    BY <2>1, <2>2, ChainIdle DEF ChainInv, Idle
<1>2. CASE Reload
  <2>1. pc = "out" /\ UNCHANGED <<pc, late, fails, next>>
    BY <1>2, UnitsAssumption DEF Reload, TypeInv, TypeOK, work, counts
  <2>2. CASE diskWip
    <3>1. UNCHANGED <<dirty, first, owner>>
      BY <1>2, <2>2 DEF Reload
    <3> QED
      BY <2>1, <3>1, ChainIdle DEF ChainInv, Idle
  <2>3. CASE ~diskWip
    <3>1. dirty' = {} /\ NothingDirty'
      BY <1>2, <2>3 DEF Reload, NothingDirty
    <3> QED
      BY <2>1, <3>1 DEF ChainInv, AllChained
  <2> QED
    BY <2>2, <2>3
<1> QED
  BY <1>1, <1>2

LEMMA ChainNext == ASSUME TypeInv, RunInv, ChainInv, [Next]_vars PROVE ChainInv'
<1>1. TypeInv'
  BY TypeNext
<1>2. CASE UNCHANGED vars
  <2>1. UNCHANGED <<setup, dirty, first, next, fails, late, pc, owner, workpg>>
    BY <1>2 DEF vars, marks, mutex, work, counts
  <2>2. WalkSound <=> WalkSound'
    BY <2>1, ChainedPrime DEF WalkSound
  <2> QED
    BY <2>1, <2>2, ChainIdle DEF ChainInv, Idle
<1>3. CASE Next
  BY <1>1, <1>3, ChainMutex, ChainOperation, ChainSync, ChainDeath DEF Next, Step, OwnerStep
<1> QED
  BY <1>2, <1>3

\* As long as no write has failed, a page with a mark is in its chain, whoever
\* dies wherever it is: a flush or a revert that walks dirty_chain meets every
\* page that was changed (_mark_index_dirty, cp_flush, cp_revert).
THEOREM MarksChainedHolds == Spec => []MarksChained
<1>1. Init => TypeInv /\ RunInv /\ ChainInv
  BY TypeInit, RunInit, ChainInit
<1>2. TypeInv /\ RunInv /\ ChainInv /\ [Next]_vars => TypeInv' /\ RunInv' /\ ChainInv'
  BY TypeNext, RunNext, ChainNext
<1>3. ChainInv => MarksChained
  BY DEF ChainInv, AllChained, MarksChained
<1> QED
  BY <1>1, <1>2, <1>3, PTL DEF Spec

-----------------------------------------------------------------------------
(* No half operations *)

\* What makes MemSound inductive.  The copy is the content that was synced last
\* unless it says that it is being written; the memory is the content of the
\* last operation while it is written; and wip tells a process that finds its
\* owner dead which of the two it can rely on.
HalfParts ==
  /\ ~diskWip => disk = saved
  /\ Idle => mem = disk /\ good = mem /\ saved = mem
  /\ NothingDirty => mem[Head] = disk[Head]
  /\ pc = "op" => disk = saved /\ good = saved
  /\ pc \in {"write", "read", "runs", "last"} => mem[Head] = disk[Head]
  /\ pc \in {"flush", "head", "write", "last"} => mem = good
  /\ pc \in {"revert", "rhead", "read", "runs"} => disk = saved
  /\ pc \in {"head", "write"} => wip
  /\ pc \in {"write", "last"} => diskWip
  /\ pc = "last" => ~wip /\ saved = good
  /\ crashes = 0 => owner # Dead /\ (wip => pc \in {"head", "write"}) /\ (diskWip => pc \in {"write", "last"})
  /\ owner = Dead => (wip => mem = good) /\ (~wip => disk = saved)

HalfInv == setup = "safe" /\ ~misread /\ fails = 0 /\ crashes <= 1 => HalfParts

\* A set without a copy is marked as corrupted once an owner has died.
MemoryInv ==
  setup = "memory" =>
    /\ pc \in {"out", "held", "op", "leave"}
    /\ Idle => mem = good \/ corrupted # 0

AllInv ==
  TypeInv /\ RunInv /\ ChainInv /\ (setup = "safe" /\ ~misread => CleanInv) /\ HalfInv /\ MemoryInv

\* Where nothing is marked the memory is the copy.
LEMMA AllSame ==
  ASSUME TypeInv, CleanInv, AllChained, NothingDirty, mem[Head] = disk[Head]
  PROVE  mem = disk
<1>1. dirty = {}
  BY NothingLeft
<1>2. \A u \in Units : mem[u] = disk[u]
  BY <1>1 DEF CleanInv, UnmarkedSame
<1> QED
  BY <1>2 DEF CleanInv

LEMMA NothingLeftNext ==
  ASSUME TypeInv', AllChained', NothingDirty'
  PROVE  dirty' = {}
<1>1. \A c \in Chains : Chained(c)' = {}
  BY ReachNone, ChainedPrime DEF NothingDirty
<1>2. \A u \in dirty' : u[1] \in Chains
  BY PageFacts DEF TypeInv, TypeOK
<1> QED
  BY <1>1, <1>2 DEF AllChained

LEMMA HalfInit == ASSUME Init PROVE HalfInv /\ MemoryInv
BY UnitsAssumption DEF Init, HalfInv, HalfParts, MemoryInv

\* The assumptions of the lemmas below: a step of a safe set in which nothing
\* has failed and one owner at most has died.
HalfStep ==
  /\ TypeInv /\ TypeInv' /\ RunInv /\ ChainInv /\ ChainInv' /\ CleanInv /\ CleanInv' /\ HalfParts
  /\ ~misread /\ ~misread' /\ setup = "safe" /\ setup' = "safe" /\ fails = 0 /\ fails' = 0 /\ crashes <= 1 /\ crashes' <= 1

LEMMA HalfMutex ==
  ASSUME HalfStep, NEW p \in Procs, Check(p) \/ Lock(p) \/ InheritByLock(p) \/ InheritByTry(p)
  PROVE  HalfParts'
<1> USE DEF HalfStep
<1>1. UNCHANGED <<mem, disk, wip, diskWip, first, good, saved, crashes>>
  BY DEF Check, Lock, InheritByLock, InheritByTry, Inherit, Hold, content, marks, counts, ghosts
<1>2. NothingDirty' <=> NothingDirty
  BY <1>1 DEF NothingDirty
<1>3. CASE Check(p)
  BY <1>1, <1>2, <1>3 DEF Check, HalfParts, Idle
<1>4. CASE Lock(p)
  <2>1. owner = Nobody /\ owner' = p /\ pc' = "held" /\ p # Dead
    BY <1>4, UnitsAssumption DEF Lock, Hold
  <2>2. wip => crashes # 0
    BY <2>1, UnitsAssumption DEF HalfParts, TypeInv, TypeOK
  <2>3. diskWip => crashes # 0
    BY <2>1, UnitsAssumption DEF HalfParts, TypeInv, TypeOK
  <2> QED
    BY <1>1, <1>2, <2>1, <2>2, <2>3 DEF HalfParts, Idle
<1>5. CASE InheritByLock(p) \/ InheritByTry(p)
  <2>1. owner = Dead /\ owner' = p /\ p \notin {Dead, Nobody} /\ pc' = IF wip THEN "flush" ELSE "revert"
    BY <1>5, UnitsAssumption DEF InheritByLock, InheritByTry, Inherit, Hold, Persistent
  <2>2. crashes # 0
    BY <2>1 DEF HalfParts
  <2> QED
    BY <1>1, <1>2, <2>1, <2>2 DEF HalfParts, Idle
<1> QED
  BY <1>3, <1>4, <1>5

LEMMA HalfOperation ==
  ASSUME HalfStep,
         \/ Leave \/ Begin \/ NoOperation \/ MarkLate \/ Done \/ Failed
         \/ \E u \in Units : Change(u) \/ ChangeUnmarked(u)
  PROVE  HalfParts'
<1> USE DEF HalfStep
<1>1. UNCHANGED <<disk, wip, diskWip, saved, crashes>>
  BY DEF Leave, Begin, NoOperation, MarkLate, Done, Failed, Change, ChangeUnmarked, content, counts, ghosts
<1>2. pc # "out" => owner \in Procs /\ owner \notin {Nobody, Dead}
  BY UnitsAssumption DEF TypeInv, TypeOK
<1>3. CASE Leave \/ Begin \/ NoOperation \/ Failed
  <2>1. UNCHANGED <<mem, good, first>>
    BY <1>3 DEF Leave, Begin, NoOperation, Failed, content, marks, ghosts
  <2>2. NothingDirty' <=> NothingDirty
    BY <2>1 DEF NothingDirty
  <2>3. CASE Leave
    <3>1. pc = "leave" /\ pc' = "out" /\ owner' = Nobody /\ Nobody # Dead
      BY <2>3, UnitsAssumption DEF Leave
    <3> QED
      BY <1>1, <2>1, <2>2, <3>1 DEF HalfParts, Idle
  <2>4. CASE Begin \/ NoOperation
    <3>1. pc = "held" /\ pc' \in {"op", "leave"} /\ UNCHANGED owner
      BY <2>4 DEF Begin, NoOperation, Owner
    <3> QED
      BY <1>1, <1>2, <2>1, <2>2, <3>1 DEF HalfParts, Idle
  <2>5. CASE Failed
    <3>1. pc = "op" /\ pc' = "revert" /\ UNCHANGED owner
      BY <2>5 DEF Failed, Owner
    <3> QED
      BY <1>1, <1>2, <2>1, <2>2, <3>1 DEF HalfParts, Idle
  <2> QED
    BY <1>3, <2>3, <2>4, <2>5
<1>4. CASE Done
  <2>1. pc = "op" /\ pc' = "flush" /\ good' = mem /\ mem' = mem /\ UNCHANGED <<first, owner>>
    BY <1>4 DEF Done, Owner, content, marks, Persistent
  <2>2. NothingDirty' <=> NothingDirty
    BY <2>1 DEF NothingDirty
  <2> QED
    BY <1>1, <1>2, <2>1, <2>2 DEF HalfParts, Idle
<1>5. ASSUME NEW u \in Units, Change(u) PROVE HalfParts'
  <2>1. pc = "op" /\ UNCHANGED <<pc, owner, good>> /\ dirty' # {}
    BY <1>5 DEF Change, Owner, Mark, Persistent, ghosts
  <2>2. ~NothingDirty'
    <3>1. TypeInv' /\ AllChained'
      BY DEF ChainInv
    <3>2. NothingDirty' => dirty' = {}
      BY <3>1, NothingLeftNext
    <3> QED
      BY <2>1, <3>2
  <2> QED
    BY <1>1, <1>2, <2>1, <2>2 DEF HalfParts, Idle
<1>6. ~MarkLate /\ \A u \in Units : ~ChangeUnmarked(u)
  BY DEF MarkLate, ChangeUnmarked, LateMarks, CleanInv
<1> QED
  BY <1>3, <1>4, <1>5, <1>6

LEMMA CopyHead ==
  ASSUME NEW a \in [Units -> Nat], NEW b \in [Units -> Nat], NEW us
  PROVE  /\ Copy(a, b, us)[Head] \in {a[Head], b[Head]}
         /\ Head \in us => Copy(a, b, us)[Head] = b[Head]
         /\ a[Head] = b[Head] => Copy(a, b, {Head}) = a
         /\ Copy(a, b, {}) = a
BY HeadUnit DEF Copy

LEMMA HalfFlush ==
  ASSUME HalfStep,
         \/ FlushBegin \/ FlushHead \/ FlushPage \/ FlushNextChain \/ FlushClean \/ FlushLast
         \/ FlushHeadFails \/ FlushPageFails \/ FlushLastFails
  PROVE  HalfParts'
<1> USE DEF HalfStep
<1>1. UNCHANGED <<mem, good, crashes, owner, after>>
  BY DEF FlushBegin, FlushHead, FlushPage, FlushNextChain, FlushClean, FlushLast, FlushHeadFails,
         FlushPageFails, FlushLastFails, SyncFailed, Goto, Owner, content, counts, ghosts
<1>2. pc \in Syncing => owner \in Procs /\ owner \notin {Nobody, Dead} /\ after \in {"held", "leave", "locked"}
  BY UnitsAssumption DEF TypeInv, TypeOK, Syncing
<1>3. mem \in [Units -> Nat] /\ disk \in [Units -> Nat]
  BY DEF CleanInv
<1>4. CASE FlushBegin
  <2>1. /\ pc = "flush" /\ UNCHANGED <<disk, diskWip, first>>
        /\ IF NothingDirty THEN pc' = after /\ saved' = good /\ wip' = wip
                           ELSE pc' = "head" /\ wip' = TRUE /\ saved' = saved
    BY <1>4 DEF FlushBegin, Goto, marks
  <2>2. NothingDirty' <=> NothingDirty
    BY <2>1 DEF NothingDirty
  <2>3. NothingDirty => mem = disk
    BY AllSame DEF HalfParts, ChainInv
  <2> QED
    BY <1>1, <1>2, <2>1, <2>2, <2>3 DEF HalfParts, Idle, Syncing
<1>5. CASE FlushHead
  <2>1. /\ pc = "head" /\ pc' = "write" /\ disk' = Copy(disk, mem, {Head}) /\ diskWip' = wip
        /\ UNCHANGED <<wip, saved>>
    BY <1>5 DEF FlushHead, Goto, ghosts
  <2>2. disk'[Head] = mem[Head]
    BY <1>3, <2>1, CopyHead
  <2> QED
    BY <1>1, <1>2, <2>1, <2>2 DEF HalfParts, Idle, Syncing
<1>6. CASE FlushPage
  <2>1. /\ pc = "write" /\ disk' = Copy(disk, mem, Mask(workpg)) /\ UNCHANGED <<pc, wip, diskWip, saved>>
    BY <1>6 DEF FlushPage, ghosts
  <2>2. disk'[Head] = mem[Head]
    BY <1>3, <2>1, CopyHead DEF HalfParts
  <2> QED
    BY <1>1, <1>2, <2>1, <2>2 DEF HalfParts, Idle, Syncing
<1>7. CASE FlushNextChain
  <2>1. pc = "write" /\ UNCHANGED <<disk, pc, wip, diskWip, saved, first>>
    BY <1>7 DEF FlushNextChain, content, marks, ghosts
  <2> QED
    BY <1>1, <1>2, <2>1 DEF HalfParts, Idle, Syncing, NothingDirty
<1>8. CASE FlushClean
  <2>1. pc = "write" /\ pc' = "last" /\ wip' = FALSE /\ saved' = good /\ UNCHANGED <<disk, diskWip, first>>
    BY <1>8 DEF FlushClean, Goto, marks
  <2> QED
    BY <1>1, <1>2, <2>1 DEF HalfParts, Idle, Syncing, NothingDirty
<1>9. CASE FlushLast
  <2>1. /\ pc = "last" /\ pc' = after /\ disk' = Copy(disk, mem, {Head}) /\ diskWip' = wip
        /\ UNCHANGED <<wip, saved, first>>
    BY <1>9 DEF FlushLast, Goto, marks, ghosts
  <2>2. mem = disk
    BY <2>1, AllSame DEF HalfParts, ChainInv
  <2>3. disk' = disk
    BY <1>3, <2>1, <2>2, CopyHead
  <2> QED
    BY <1>1, <1>2, <2>1, <2>2, <2>3 DEF HalfParts, Idle, Syncing, NothingDirty
<1>10. ~(FlushHeadFails \/ FlushPageFails \/ FlushLastFails)
  BY DEF FlushHeadFails, FlushPageFails, FlushLastFails, SyncFailed
<1> QED
  BY <1>4, <1>5, <1>6, <1>7, <1>8, <1>9, <1>10

LEMMA HalfRevert ==
  ASSUME HalfStep,
         RevertBegin \/ RevertHead \/ RevertNextChain \/ RevertEnd
         \/ RevertFails \/ Downgrade \/ ReadStep
  PROVE  HalfParts'
<1> USE DEF HalfStep
<1>1. ~RevertFails /\ ~Downgrade
  BY DEF RevertFails, Downgrade, ChainInv
<1>2. UNCHANGED <<disk, diskWip, saved, crashes, owner, after>>
  BY <1>1, NothingBehind
     DEF RevertBegin, RevertHead, RevertNextChain, RevertEnd, ReadStep, RevertPage, RevertRun, RevertPageEnd,
         Goto, Owner, content, counts, ghosts
<1>3. pc \in Syncing => owner \in Procs /\ owner \notin {Nobody, Dead} /\ after \in {"held", "leave", "locked"}
  BY UnitsAssumption DEF TypeInv, TypeOK, Syncing
<1>4. mem \in [Units -> Nat] /\ disk \in [Units -> Nat]
  BY DEF CleanInv
<1>5. CASE RevertBegin
  <2>1. /\ pc = "revert" /\ UNCHANGED <<mem, wip, first>>
        /\ IF NothingDirty THEN pc' = after /\ good' = saved ELSE pc' = "rhead" /\ good' = good
    BY <1>5 DEF RevertBegin, Goto, content, marks
  <2>2. NothingDirty' <=> NothingDirty
    BY <2>1 DEF NothingDirty
  <2>3. NothingDirty => mem = disk
    BY AllSame DEF HalfParts, ChainInv
  <2> QED
    BY <1>2, <1>3, <2>1, <2>2, <2>3 DEF HalfParts, Idle, Syncing
<1>6. CASE RevertHead
  <2>1. /\ pc = "rhead" /\ pc' = "read" /\ mem' = Copy(mem, disk, {Head}) /\ wip' = diskWip /\ good' = good
    BY <1>6 DEF RevertHead, Goto, ghosts
  <2>2. mem'[Head] = disk[Head]
    BY <1>4, <2>1, CopyHead
  <2> QED
    BY <1>2, <1>3, <2>1, <2>2 DEF HalfParts, Idle, Syncing
<1>7. CASE RevertRun
  <2>0. PICK us : mem' = Copy(mem, disk, us)
    BY <1>7 DEF RevertRun
  <2>1. /\ pc = "runs" /\ mem' = Copy(mem, disk, us) /\ UNCHANGED <<pc, wip, good>>
    BY <1>7, <2>0 DEF RevertRun, ghosts
  <2>2. mem'[Head] = disk[Head]
    BY <1>4, <2>1, CopyHead DEF HalfParts
  <2> QED
    BY <1>2, <1>3, <2>1, <2>2 DEF HalfParts, Idle, Syncing
<1>8. CASE RevertNextChain
  <2>1. pc = "read" /\ UNCHANGED <<mem, pc, wip, good, first>>
    BY <1>8 DEF RevertNextChain, content, marks, ghosts
  <2> QED
    BY <1>2, <1>3, <2>1 DEF HalfParts, Idle, Syncing, NothingDirty
<1>9. CASE RevertEnd
  <2>1. /\ pc = "read" /\ pc' = after /\ good' = saved /\ workpg = <<"pages", NoPage>>
        /\ UNCHANGED <<mem, wip, first>>
    BY <1>9 DEF RevertEnd, Goto, content, marks
  <2>2. mem = disk
    BY <2>1, WalkDone, AllSame DEF HalfParts, ChainInv
  <2> QED
    BY <1>2, <1>3, <2>1, <2>2 DEF HalfParts, Idle, Syncing, NothingDirty
<1>10. CASE RevertPage \/ RevertPageEnd
  <2>1. pc \in {"read", "runs"} /\ pc' \in {"read", "runs"} /\ UNCHANGED <<mem, wip, good>>
    BY <1>10 DEF RevertPage, RevertPageEnd, Goto, content, ghosts
  <2> QED
    BY <1>2, <1>3, <2>1 DEF HalfParts, Idle, Syncing
<1> QED
  BY <1>1, <1>5, <1>6, <1>7, <1>8, <1>9, <1>10, NothingBehind DEF ReadStep

LEMMA HalfDeath == ASSUME HalfStep, Crash \/ Reload PROVE HalfParts'
<1> USE DEF HalfStep
<1>1. mem \in [Units -> Nat] /\ disk \in [Units -> Nat] /\ Dead # Nobody
  BY UnitsAssumption DEF CleanInv
<1>2. CASE Crash
  <2>1. /\ owner \in Procs /\ owner' = Dead /\ pc' = "out" /\ crashes' = crashes + 1 /\ crashes = 0
        /\ UNCHANGED <<mem, wip, diskWip, first, good, saved>>
    BY <1>2 DEF Crash, marks, ghosts, TypeInv, TypeOK
  <2>2. PICK us \in Written : disk' = Copy(disk, mem, us)
    BY <1>2 DEF Crash
  <2>3. pc # "write" => disk' = disk
    BY <1>1, <2>2, CopyHead DEF Written
  <2>4. mem[Head] = disk[Head] => mem[Head] = disk'[Head]
    BY <1>1, <2>2, CopyHead
  <2>5. wip => mem = good
    BY <2>1 DEF HalfParts
  <2>6. ~wip => disk' = saved
    <3>1. CASE pc = "last"
      <4>1. mem = disk
        BY <3>1, AllSame DEF HalfParts, ChainInv
      <4> QED
        BY <2>3, <3>1, <4>1 DEF HalfParts
    <3>2. CASE pc # "last"
      BY <2>1, <2>3, <3>2 DEF HalfParts
    <3> QED
      BY <3>1, <3>2
  <2>7. ~diskWip => disk' = saved
    BY <2>3 DEF HalfParts
  <2> QED
    BY <1>1, <2>1, <2>4, <2>5, <2>6, <2>7 DEF HalfParts, Idle, NothingDirty
<1>3. CASE Reload
  <2>1. pc = "out" /\ UNCHANGED <<pc, disk, diskWip, crashes, saved>>
    BY <1>3, UnitsAssumption DEF Reload, TypeInv, TypeOK, counts
  <2>2. CASE diskWip
    <3>1. UNCHANGED <<mem, wip, first, owner, good>>
      BY <1>3, <2>2 DEF Reload
    <3> QED
      BY <2>1, <3>1 DEF HalfParts, Idle, NothingDirty
  <2>3. CASE ~diskWip
    <3>1. mem' = disk /\ good' = saved /\ wip' = FALSE /\ owner' = Nobody
      BY <1>3, <2>3 DEF Reload
    <3> QED
      BY <1>1, <2>1, <2>3, <3>1 DEF HalfParts, Idle
  <2> QED
    BY <2>2, <2>3
<1> QED
  BY <1>2, <1>3

LEMMA MemoryNext ==
  ASSUME TypeInv, MemoryInv, [Next]_vars
  PROVE  MemoryInv'
<1>1. setup' = setup
  BY DEF Next, ReadStep, vars
<1>2. CASE setup # "memory"
  BY <1>1, <1>2 DEF MemoryInv
<1>3. CASE setup = "memory" /\ Next
  <2>1. pc # "out" => owner \in Procs /\ owner # Nobody
    BY UnitsAssumption DEF TypeInv, TypeOK
  <2>2. CASE \E p \in Procs : Check(p) \/ Lock(p) \/ InheritByLock(p) \/ InheritByTry(p)
    <3>1. PICK p \in Procs : Check(p) \/ Lock(p) \/ InheritByLock(p) \/ InheritByTry(p)
      BY <2>2
    <3>2. UNCHANGED <<mem, good>> /\ p # Nobody
      BY <3>1, UnitsAssumption
         DEF Check, Lock, InheritByLock, InheritByTry, Inherit, Hold, content, ghosts
    <3>3. CASE Check(p)
      BY <1>1, <1>3, <3>2, <3>3 DEF Check, states, MemoryInv, Idle
    <3>4. CASE Lock(p)
      BY <1>1, <1>3, <3>2, <3>4 DEF Lock, Hold, MemoryInv, Idle
    <3>5. CASE InheritByLock(p) \/ InheritByTry(p)
      BY <1>1, <1>3, <3>2, <3>5 DEF InheritByLock, InheritByTry, Inherit, Hold, Persistent, MemoryInv
    <3> QED
      BY <3>1, <3>3, <3>4, <3>5
  <2>3. CASE Leave \/ Begin \/ NoOperation \/ Done
    <3>1. UNCHANGED <<mem, corrupted>>
      BY <2>3 DEF Leave, Begin, NoOperation, Done, content, states
    <3> QED
      BY <1>1, <1>3, <2>1, <2>3, <3>1
         DEF Leave, Begin, NoOperation, Done, Owner, Persistent, ghosts, MemoryInv, Idle
  <2>4. CASE MarkLate \/ \E u \in Units : Change(u) \/ ChangeUnmarked(u)
    <3>1. UNCHANGED <<pc, owner, corrupted, good>> /\ (pc = "op" \/ mem' = mem)
      BY <2>4 DEF MarkLate, Change, ChangeUnmarked, Owner, content, states, ghosts
    <3> QED
      BY <1>1, <1>3, <2>1, <3>1 DEF MemoryInv, Idle
  <2>5. CASE Crash
    BY <1>1, <1>3, <2>5, UnitsAssumption DEF Crash, MemoryInv, Idle
  <2>6. ~Failed /\ ~Reload
    BY <1>3 DEF Failed, Reload, Persistent
  <2>7. ~(\/ FlushBegin \/ FlushHead \/ FlushPage \/ FlushNextChain \/ FlushClean \/ FlushLast
          \/ FlushHeadFails \/ FlushPageFails \/ FlushLastFails
          \/ RevertBegin \/ RevertHead \/ RevertNextChain \/ RevertEnd
          \/ RevertFails \/ Downgrade \/ ReadStep)
    BY <1>3 DEF MemoryInv, FlushBegin, FlushHead, FlushPage, FlushNextChain, FlushClean, FlushLast,
         FlushHeadFails, FlushPageFails, FlushLastFails, RevertBegin, RevertHead,
         RevertNextChain, RevertEnd, RevertFails, Downgrade, ReadStep, RevertPage, RevertRun, RevertBehind,
         RevertPageEnd
  <2> QED
    BY <1>3, <2>2, <2>3, <2>4, <2>5, <2>6, <2>7 DEF Next, Step, OwnerStep
<1>4. CASE UNCHANGED vars
  BY <1>1, <1>4 DEF vars, content, mutex, states, ghosts, MemoryInv, Idle
<1> QED
  BY <1>2, <1>3, <1>4

LEMMA HalfNext == ASSUME AllInv, [Next]_vars PROVE AllInv'
<1>1. /\ TypeInv' /\ RunInv' /\ ChainInv' /\ MemoryInv' /\ (setup = "safe" /\ ~misread => CleanInv)'
      /\ setup' = setup /\ (~misread' => ~misread)
  <2>1. TypeInv' /\ RunInv' /\ ChainInv' /\ MemoryInv' /\ (setup = "safe" /\ ~misread => CleanInv)'
    BY TypeNext, RunNext, ChainNext, MemoryNext, CleanNext DEF AllInv
  <2>2. setup' = setup /\ (~misread' => ~misread)
    BY MisreadStays
  <2> QED
    BY <2>1, <2>2
<1>2. HalfInv'
  <2> SUFFICES ASSUME setup' = "safe", ~misread', fails' = 0, crashes' <= 1 PROVE HalfParts'
    BY DEF HalfInv
  <2>1. fails = 0 /\ crashes <= 1
    <3>1. CASE UNCHANGED vars
      BY <3>1 DEF vars, counts
    <3>2. CASE Next
      <4>1. fails' \in {fails, fails + 1} /\ crashes' \in {crashes, crashes + 1}
        BY <3>2 DEF Next, Step, OwnerStep, Check, Lock, InheritByLock, InheritByTry, Inherit, Hold, Leave,
             Begin, NoOperation, MarkLate, Done, Failed, Change, ChangeUnmarked, FlushBegin, FlushHead,
             FlushPage, FlushNextChain, FlushClean, FlushLast, FlushHeadFails, FlushPageFails,
             FlushLastFails, SyncFailed, RevertBegin, RevertHead, RevertNextChain, RevertEnd,
             RevertFails, Downgrade, ReadStep, RevertPage, RevertRun, RevertBehind, RevertPageEnd,
             Crash, Reload, counts
      <4> QED
        BY <4>1 DEF AllInv, TypeInv, TypeOK
    <3> QED
      BY <3>1, <3>2
  <2>2. HalfStep
    BY <1>1, <2>1 DEF HalfStep, AllInv, HalfInv
  <2>3. CASE UNCHANGED vars
    BY <2>2, <2>3 DEF HalfStep, vars, content, marks, mutex, counts, ghosts, HalfParts, Idle, NothingDirty
  <2>4. CASE Next
    BY <2>2, <2>4, HalfMutex, HalfOperation, HalfFlush, HalfRevert, HalfDeath DEF Next, Step, OwnerStep
  <2> QED
    BY <2>3, <2>4
<1> QED
  BY <1>1, <1>2 DEF AllInv

\* In a safe set in which every write and read succeeds, no revert meets a page
\* with more than two runs of marked disk pages, and one owner at most dies, whoever gets the mutex finds the set as the last operation that was
\* done left it or as it was synced last; in a set without a copy, half an
\* operation is marked when the mutex is given back.  For any set of pages, any
\* operations and any point of death (_common_mutexLock, cp_flush, idx_revert).
THEOREM NeverHalfHolds == Spec => []NeverHalf
<1>1. Init => AllInv
  BY TypeInit, RunInit, ChainInit, CleanInit, HalfInit DEF AllInv
<1>2. AllInv /\ [Next]_vars => AllInv'
  BY HalfNext
<1>3. AllInv => NeverHalf
  <2> SUFFICES ASSUME AllInv PROVE NeverHalf
    OBVIOUS
  <2>1. MemSound
    BY DEF AllInv, HalfInv, HalfParts, Idle, MemSound
  <2>2. TornKnown
    <3>1. setup \in {"safe", "late", "memory"}
      BY UnitsAssumption DEF AllInv, TypeInv, TypeOK
    <3> QED
      BY <3>1 DEF AllInv, HalfInv, HalfParts, MemoryInv, Idle, TornKnown
  <2> QED
    BY <2>1, <2>2 DEF NeverHalf
<1> QED
  BY <1>1, <1>2, <1>3, PTL DEF Spec

-----------------------------------------------------------------------------
(* The copy on disk, when writes fail *)

\* A page that a flush has passed may stay in a chain without a mask, when a
\* later one can not be written; when it is marked again the chain closes to a
\* ring.  A walk along it never ends.
EndlessFrom(c, q) == q # NoPage /\ \A p \in Reach(next, c, q) : next[p] # NoPage

\* A walk that ends has met every page with a mark.
Met(c) ==
  \/ \A u \in dirty : u[1] = c => PageOf(u) \in Chained(c)
  \/ EndlessFrom(c, first[c])

Ahead ==
  /\ \/ \A u \in dirty : u[1] = workpg[1] => PageOf(u) \in Reach(next, workpg[1], workpg[2])
     \/ EndlessFrom(workpg[1], workpg[2])
  /\ workpg[1] = "pages" => first["index"] = NoPage
  /\ workpg[2] = NoPage => first[workpg[1]] = NoPage

EndsInv ==
  /\ late # {} => pc = "op"
  /\ \A c \in Chains : Met(c)
  /\ pc \in {"head", "rhead"} => ~NothingDirty
  /\ pc = "last" => NothingDirty
  /\ pc \in {"write", "read", "runs"} => Ahead

LEMMA FirstIn == ASSUME TypeInv, NEW c \in Chains PROVE first[c] # NoPage => <<c, first[c]>> \in Pages
BY DEF TypeInv, LinksInside, Inside

LEMMA MetPrime ==
  /\ \A c, q : EndlessFrom(c, q)' <=> q' # NoPage /\ \A p \in Reach(next', c, q') : next'[p] # NoPage
  /\ \A c : Met(c)' <=> \/ \A u \in dirty' : u[1] = c => PageOf(u) \in Chained(c)'
                        \/ EndlessFrom(c, first[c])'
BY DEF EndlessFrom, Met, Reach, Chained

LEMMA MetNothing ==
  ASSUME TypeInv, \A c \in Chains : Met(c), NothingDirty
  PROVE  dirty = {}
<1>1. \A c \in Chains : Chained(c) = {} /\ ~EndlessFrom(c, first[c])
  BY ReachNone DEF NothingDirty, Chained, EndlessFrom
<1>2. \A u \in dirty : u[1] \in Chains
  BY PageFacts DEF TypeInv, TypeOK
<1> QED
  BY <1>1, <1>2 DEF Met

\* A page that is linked again although it is in its chain closes a ring: what
\* is behind it is cut off.
LEMMA LinkRing ==
  ASSUME TypeInv, TypeInv', NEW c \in Chains, NEW p \in Chained(c), Link(p)
  PROVE  EndlessFrom(c, first[c])'
<1>1. p \in Pages /\ p[1] = c /\ p[2] \in Nat /\ p = <<c, p[2]>>
  BY ChainedIn, PageFacts
<1>2. /\ next' = [next EXCEPT ![p] = first[c]] /\ first' = [first EXCEPT ![c] = p[2]]
      /\ next \in [Pages -> Nat \cup {NoPage}] /\ first \in [Chains -> Nat \cup {NoPage}]
      /\ Linked(next) /\ NoPage \notin Nat
  BY <1>1, NextLinked, UnitsAssumption DEF Link, TypeInv, TypeOK
<1>3. first[c] # NoPage /\ <<c, first[c]>> \in Pages
  BY ReachNone, FirstIn DEF Chained
\* The pages from which p is reached.
<1> DEFINE S == {x \in Chained(c) : p \in Reach(next, c, x[2])}
<1>4. \A x \in Chained(c) : x \in Pages /\ x[2] \in Nat /\ x = <<c, x[2]>>
  BY ChainedIn, PageFacts
<1>5. S \in SUBSET Pages
  BY <1>4
<1>6. p \in S
  BY <1>1, <1>2, ReachFirst
<1>7. <<c, first[c]>> \in S
  BY <1>2, <1>3, ReachFirst DEF Chained
<1>8. ASSUME NEW x \in S PROVE next'[x] # NoPage /\ <<x[1], next'[x]>> \in S
  <2>1. CASE x = p
    BY <1>1, <1>2, <1>3, <1>7, <2>1
  <2>2. CASE x # p
    <3>1. x \in Pages /\ x[2] \in Nat /\ x = <<c, x[2]>> /\ x[1] = c /\ next'[x] = next[x]
      BY <1>2, <1>4, <2>2
    <3>2. Reach(next, c, x[2]) \subseteq {x} \cup Reach(next, c, next[x])
      BY <1>2, <3>1, ReachStep
    <3>3. p \in Reach(next, c, next[x])
      BY <1>8, <2>2, <3>2
    <3>4. next[x] # NoPage
      BY <3>3, ReachNone
    <3>5. <<c, next[x]>> \in Chained(c)
      BY <1>2, <3>1, <3>4, ReachNext DEF Chained
    <3> QED
      BY <3>1, <3>3, <3>4, <3>5
  <2> QED
    BY <2>1, <2>2
<1> HIDE DEF S
<1>9. Reach(next', c, first'[c]) \subseteq S
  <2>1. first'[c] = p[2]
    BY <1>2
  <2> QED
    BY <1>1, <1>5, <1>6, <1>8, <2>1, ReachWithin
<1>10. first'[c] # NoPage
  BY <1>1, <1>2
<1> QED
  BY <1>8, <1>9, <1>10, MetPrime

\* A chain is not touched when a page that is not in it is linked to another.
LEMMA OtherMet ==
  ASSUME TypeInv, TypeInv', NEW c \in Chains, Met(c), NEW p \in Pages, p \notin Chained(c), p[1] # c,
         next' = [next EXCEPT ![p] = first[p[1]]], first' = [first EXCEPT ![p[1]] = p[2]],
         \A u \in dirty' : u[1] = c => u \in dirty
  PROVE  Met(c)'
<1>1. first'[c] = first[c] /\ \A r \in Chained(c) : next'[r] = next[r]
  BY ChainedIn DEF TypeInv, TypeOK
<1>2. Reach(next', c, first[c]) = Chained(c)
  BY <1>1, ReachSame
<1>3. Chained(c)' = Chained(c)
  BY <1>1, <1>2, ChainedPrime DEF Chained
<1>4. EndlessFrom(c, first[c]) => EndlessFrom(c, first[c])'
  BY <1>1, <1>2, MetPrime DEF EndlessFrom, Chained
<1> QED
  BY <1>3, <1>4, MetPrime DEF Met

LEMMA MarkMet ==
  ASSUME TypeInv, TypeInv', \A c \in Chains : Met(c), NEW u \in Units, Mark(u), Persistent
  PROVE  (\A c \in Chains : Met(c)') /\ ~NothingDirty'
<1>1. PageOf(u) \in Pages /\ PageOf(u)[1] = u[1] /\ u[1] \in Chains /\ dirty' = dirty \cup {u}
  BY PageFacts DEF Mark
<1>2. \A v \in dirty : v \in Units /\ PageOf(v) \in Pages /\ PageOf(v)[1] = v[1] /\ v[1] \in Chains
  BY PageFacts DEF TypeInv, TypeOK
<1>3. CASE Mask(PageOf(u)) # {}
  <2>1. UNCHANGED <<first, next>>
    BY <1>3 DEF Mark
  <2>2. \A c : Chained(c)' = Chained(c) /\ (EndlessFrom(c, first[c])' <=> EndlessFrom(c, first[c]))
    BY <2>1, ChainedPrime, MetPrime DEF Chained, EndlessFrom
  <2>3. PICK v \in dirty : PageOf(v) = PageOf(u) /\ v[1] = u[1]
    BY <1>1, <1>2, <1>3 DEF Mask
  <2>4. \A c \in Chains : Met(c)'
    BY <1>1, <2>2, <2>3, MetPrime DEF Met
  <2>5. ~NothingDirty
    BY <2>3, MetNothing
  <2> QED
    BY <2>1, <2>4, <2>5 DEF NothingDirty
<1>4. CASE Mask(PageOf(u)) = {}
  <2> DEFINE p == PageOf(u)
  <2>1. Link(p)
    BY <1>4 DEF Mark
  <2> HIDE DEF p
  <2>2. /\ p \in Pages /\ p[1] = u[1] /\ p[1] \in Chains /\ p[2] \in Nat /\ NoPage \notin Nat
        /\ next' = [next EXCEPT ![p] = first[p[1]]] /\ first' = [first EXCEPT ![p[1]] = p[2]]
    BY <1>1, <2>1, PageFacts, UnitsAssumption DEF Link, p
  <2>3. ~NothingDirty'
    BY <2>2 DEF NothingDirty, TypeInv, TypeOK
  <2>4. CASE p \in Chained(u[1])
    <3>1. Met(u[1])'
      BY <1>1, <2>1, <2>4, LinkRing, MetPrime
    <3>2. ASSUME NEW c \in Chains, c # u[1] PROVE Met(c)'
      <4>1. p \notin Chained(c)
        BY <2>2, <3>2, ChainedIn
      <4> QED
        BY <1>1, <2>2, <3>2, <4>1, OtherMet
    <3> QED
      BY <2>3, <3>1, <3>2
  <2>5. CASE p \notin Chained(u[1])
    <3>1. \A c \in Chains : p \notin Chained(c)
      BY <2>2, <2>5, ChainedIn
    <3>2. ASSUME NEW c \in Chains, c # u[1] PROVE Met(c)'
      BY <1>1, <2>2, <3>1, <3>2, OtherMet
    <3>3. Chained(u[1])' = Chained(u[1]) \cup {p}
      BY <1>1, <2>1, <2>2, <3>1, LinkChained
    <3>4. Met(u[1])'
      <4>1. CASE \A v \in dirty : v[1] = u[1] => PageOf(v) \in Chained(u[1])
        BY <1>1, <3>3, <4>1, MetPrime DEF p
      <4>2. CASE EndlessFrom(u[1], first[u[1]])
        <5>1. \A r \in Chained(u[1]) \cup {p} : next'[r] # NoPage
          BY <2>2, <4>2, ChainedIn, <1>1 DEF EndlessFrom, Chained, TypeInv, TypeOK
        <5>2. first'[u[1]] # NoPage
          BY <2>2 DEF TypeInv, TypeOK
        <5> QED
          BY <3>3, <5>1, <5>2, MetPrime, ChainedPrime
      <4> QED
        BY <1>1, <4>1, <4>2 DEF Met
    <3> QED
      BY <2>3, <3>2, <3>4
  <2> QED
    BY <2>4, <2>5
<1> QED
  BY <1>3, <1>4

LEMMA EndsInit == ASSUME Init PROVE EndsInv
<1>1. late = {} /\ dirty = {} /\ pc = "out"
  BY DEF Init
<1> QED
  BY <1>1 DEF EndsInv, Met

\* Steps that leave the marks alone.
LEMMA EndsIdle ==
  ASSUME EndsInv, UNCHANGED <<dirty, first, next>>,
         late' # {} => pc' = "op",
         pc' \in {"head", "rhead"} => ~NothingDirty,
         pc' = "last" => NothingDirty,
         pc' \in {"write", "read", "runs"} => Ahead'
  PROVE  EndsInv'
<1>1. \A c : Chained(c)' = Chained(c) /\ (EndlessFrom(c, first[c])' <=> EndlessFrom(c, first[c]))
  BY ChainedPrime, MetPrime DEF Chained, EndlessFrom
<1>2. \A c : Met(c)' <=> Met(c)
  BY <1>1, MetPrime DEF Met
<1> QED
  BY <1>2 DEF EndsInv, NothingDirty

\* A walk that stays where it is, along the same links.
LEMMA AheadPrime ==
  Ahead' <=>
    /\ \/ \A u \in dirty' : u[1] = workpg'[1] => PageOf(u) \in Reach(next', workpg'[1], workpg'[2])
       \/ workpg'[2] # NoPage /\ \A p \in Reach(next', workpg'[1], workpg'[2]) : next'[p] # NoPage
    /\ workpg'[1] = "pages" => first'["index"] = NoPage
    /\ workpg'[2] = NoPage => first'[workpg'[1]] = NoPage
BY DEF Ahead, EndlessFrom, Reach

LEMMA EndsPass ==
  ASSUME TypeInv, TypeInv', \A c \in Chains : Met(c), Ahead, workpg[2] # NoPage, PassPage
  PROVE  (\A c \in Chains : Met(c)') /\ Ahead'
<1> DEFINE c == workpg[1]
           q == next[workpg]
<1>1. workpg \in Pages /\ c \in Chains /\ workpg = <<c, workpg[2]>>
  BY PageFacts DEF TypeInv, TypeOK
<1>2. /\ workpg' = <<c, q>> /\ dirty' = dirty \ Mask(workpg) /\ UNCHANGED next
      /\ first' = IF q = NoPage THEN [first EXCEPT ![c] = NoPage] ELSE first
  BY DEF PassPage
<1>3. Linked(next)
  BY NextLinked DEF TypeInv
<1>4. workpg \in Reach(next, c, workpg[2])
  BY <1>1, ReachFirst
<1>5. /\ Reach(next, c, workpg[2]) \subseteq {workpg} \cup Reach(next, c, q)
      /\ q # NoPage => Reach(next, c, q) \subseteq Reach(next, c, workpg[2])
  <2>1. Reach(next, c, workpg[2]) \subseteq {workpg} \cup Reach(next, c, q)
    BY <1>1, <1>3, ReachStep
  <2>2. ASSUME q # NoPage PROVE Reach(next, c, q) \subseteq Reach(next, c, workpg[2])
    <3>1. <<c, q>> \in Reach(next, c, workpg[2])
      BY <1>3, <1>4, <2>2, ReachNext
    <3>2. \A r \in Reach(next, c, workpg[2]) : next[r] # NoPage => <<r[1], next[r]>> \in Reach(next, c, workpg[2])
      BY <1>3, ReachNext
    <3>3. Reach(next, c, workpg[2]) \in SUBSET Pages
      BY ReachPages
    <3> QED
      BY <3>1, <3>2, <3>3, ReachWithin
  <2> QED
    BY <2>1, <2>2
<1>6. \/ \A u \in dirty' : u[1] = c => PageOf(u) \in Reach(next, c, q)
      \/ q # NoPage /\ \A p \in Reach(next, c, q) : next[p] # NoPage
  <2>1. CASE \A u \in dirty : u[1] = c => PageOf(u) \in Reach(next, c, workpg[2])
    <3>1. \A u \in dirty' : u \in dirty /\ PageOf(u) # workpg
      BY <1>2 DEF Mask
    <3> QED
      BY <1>5, <2>1, <3>1
  <2>2. CASE EndlessFrom(c, workpg[2])
    BY <1>4, <1>5, <2>2 DEF EndlessFrom
  <2> QED
    BY <2>1, <2>2 DEF Ahead
<1>7. q = NoPage => \A u \in dirty' : u[1] # c
  BY <1>6, ReachNone
<1> HIDE DEF c, q
<1>8. \A d \in Chains : (d # c \/ q # NoPage) => first'[d] = first[d]
  BY <1>2 DEF TypeInv, TypeOK
<1>9. ASSUME NEW d \in Chains PROVE Met(d)'
  <2>1. CASE d # c \/ q # NoPage
    <3>1. /\ Chained(d)' = Chained(d) /\ (EndlessFrom(d, first[d])' <=> EndlessFrom(d, first[d]))
      BY <1>2, <1>8, <2>1, ChainedPrime, MetPrime DEF Chained, EndlessFrom
    <3> QED
      BY <1>2, <3>1, MetPrime DEF Met
  <2>2. CASE d = c /\ q = NoPage
    BY <1>7, <2>2, MetPrime
  <2> QED
    BY <2>1, <2>2
<1>10. Ahead'
  <2>1. workpg'[1] = "pages" => first'["index"] = NoPage
    BY <1>2 DEF Ahead, c, TypeInv, TypeOK, Chains
  <2>2. workpg'[2] = NoPage => first'[workpg'[1]] = NoPage
    BY <1>1, <1>2 DEF TypeInv, TypeOK
  <2>3. workpg'[1] = c /\ workpg'[2] = q /\ next' = next
    BY <1>2
  <2> QED
    BY <1>6, <2>1, <2>2, <2>3, AheadPrime
<1> QED
  BY <1>9, <1>10

LEMMA EndsDone ==
  ASSUME TypeInv, Ahead, workpg = <<"pages", NoPage>>
  PROVE  NothingDirty
BY DEF Ahead, NothingDirty, TypeInv, TypeOK, Chains

LEMMA EndsMutexOperation ==
  ASSUME TypeInv, TypeInv', EndsInv, UNCHANGED setup,
         \/ \E p \in Procs : Check(p) \/ Lock(p) \/ InheritByLock(p) \/ InheritByTry(p)
         \/ Leave \/ Begin \/ NoOperation \/ MarkLate \/ Done \/ Failed
         \/ \E u \in Units : Change(u) \/ ChangeUnmarked(u)
         \/ Crash \/ Reload
  PROVE  EndsInv'
<1>1. CASE \E p \in Procs : Check(p)
  <2>1. UNCHANGED <<dirty, first, next, late, pc, workpg>>
    BY <1>1 DEF Check, marks, work
  <2>2. Ahead' <=> Ahead
    BY <2>1, AheadPrime DEF Ahead, EndlessFrom
  <2> QED
    BY <2>1, <2>2, EndsIdle DEF EndsInv
<1>2. CASE \E p \in Procs : Lock(p) \/ InheritByLock(p) \/ InheritByTry(p)
  <2>1. /\ UNCHANGED <<dirty, first, next, late>> /\ pc' \in {"held", "leave", "flush", "revert"}
        /\ owner \in {Nobody, Dead}
    BY <1>2 DEF Lock, InheritByLock, InheritByTry, Inherit, Hold, marks, work
  <2>2. late = {}
    BY <2>1, UnitsAssumption DEF EndsInv, TypeInv, TypeOK
  <2> QED
    BY <2>1, <2>2, EndsIdle
<1>3. CASE Leave \/ Begin \/ NoOperation \/ Done \/ Failed \/ Crash
  <2>1. /\ UNCHANGED <<dirty, first, next>> /\ late' \in {late, {}}
        /\ pc' \in {"out", "op", "leave", "flush", "revert"} /\ (pc = "op" => late' = {})
    BY <1>3 DEF Leave, Begin, NoOperation, Done, Failed, Crash, marks, work
  <2> QED
    BY <2>1, EndsIdle DEF EndsInv
<1>4. ASSUME NEW u \in Units, Mark(u), pc = "op", UNCHANGED pc PROVE EndsInv'
  <2>1. CASE Persistent
    BY <1>4, <2>1, MarkMet DEF EndsInv
  <2>2. CASE ~Persistent
    BY <1>4, <2>2, EndsIdle DEF Mark, marks
  <2> QED
    BY <2>1, <2>2
<1>5. CASE MarkLate
  <2>1. PICK u \in late : Mark(u)
    BY <1>5 DEF MarkLate
  <2>2. u \in Units /\ pc = "op" /\ UNCHANGED pc
    BY <1>5, <2>1 DEF MarkLate, EndsInv, TypeInv, TypeOK
  <2> QED
    BY <1>4, <2>1, <2>2
<1>6. ASSUME NEW u \in Units, Change(u) \/ ChangeUnmarked(u) PROVE EndsInv'
  <2>1. CASE Change(u)
    BY <1>4, <2>1 DEF Change
  <2>2. CASE ChangeUnmarked(u)
    BY <2>2, EndsIdle DEF ChangeUnmarked, marks
  <2> QED
    BY <1>6, <2>1, <2>2
<1>7. CASE Reload
  <2>1. pc = "out" /\ UNCHANGED <<pc, late, next>>
    BY <1>7, UnitsAssumption DEF Reload, TypeInv, TypeOK, work
  <2>2. CASE diskWip
    <3>1. UNCHANGED <<dirty, first>>
      BY <1>7, <2>2 DEF Reload
    <3> QED
      BY <2>1, <3>1, EndsIdle DEF EndsInv
  <2>3. CASE ~diskWip
    <3>1. dirty' = {}
      BY <1>7, <2>3 DEF Reload
    <3> QED
      BY <2>1, <3>1, MetPrime DEF EndsInv
  <2> QED
    BY <2>2, <2>3
<1> QED
  BY <1>1, <1>2, <1>3, <1>5, <1>6, <1>7

LEMMA EndsSync ==
  ASSUME TypeInv, TypeInv', RunInv, EndsInv, UNCHANGED setup,
         \/ FlushBegin \/ FlushHead \/ FlushPage \/ FlushNextChain \/ FlushClean \/ FlushLast
         \/ FlushHeadFails \/ FlushPageFails \/ FlushLastFails
         \/ RevertBegin \/ RevertHead \/ RevertNextChain \/ RevertEnd
         \/ RevertFails \/ Downgrade \/ ReadStep
  PROVE  EndsInv'
<1>1. pc \in Syncing /\ late' = {} /\ after \in {"held", "leave", "locked"}
  <2>1. pc \in Syncing /\ UNCHANGED late
    BY DEF FlushBegin, FlushHead, FlushPage, FlushNextChain, FlushClean, FlushLast, FlushHeadFails,
           FlushPageFails, FlushLastFails, RevertBegin, RevertHead, RevertNextChain, RevertEnd,
           RevertFails, Downgrade, ReadStep, RevertPage, RevertRun, RevertBehind, RevertPageEnd, work, Syncing
  <2> QED
    BY <2>1 DEF TypeInv, TypeOK, EndsInv, Syncing
<1>2. CASE \/ FlushBegin \/ RevertBegin \/ FlushClean \/ RevertEnd \/ FlushLast
           \/ FlushHeadFails \/ RevertFails \/ Downgrade
  <2>1. /\ UNCHANGED <<dirty, first, next>>
        /\ \/ pc' \in {after, "leave", "downgrade"}
           \/ pc' \in {"head", "rhead"} /\ ~NothingDirty
           \/ pc' = "last" /\ pc = "write" /\ workpg = <<"pages", NoPage>>
    BY <1>2 DEF FlushBegin, RevertBegin, FlushClean, RevertEnd, FlushLast, FlushHeadFails, SyncFailed,
                RevertFails, Downgrade, Goto, marks
  <2>2. pc' = "last" => NothingDirty
    BY <1>1, <2>1, EndsDone DEF EndsInv
  <2> QED
    BY <1>1, <2>1, <2>2, EndsIdle DEF EndsInv
<1>3. CASE FlushHead \/ RevertHead
  <2>1. /\ UNCHANGED <<first, next>> /\ dirty' \subseteq dirty /\ pc' \in {"write", "read"}
        /\ workpg' = <<"index", first["index"]>>
    BY <1>3 DEF FlushHead, RevertHead, Goto
  <2>2. \A c : Chained(c)' = Chained(c) /\ (EndlessFrom(c, first[c])' <=> EndlessFrom(c, first[c]))
    BY <2>1, ChainedPrime, MetPrime DEF Chained, EndlessFrom
  <2>3. \A c \in Chains : Met(c)'
    BY <2>1, <2>2, MetPrime DEF EndsInv, Met
  <2>4. Ahead'
    BY <2>1, AheadPrime DEF EndsInv, Met, EndlessFrom, Chained, Chains
  <2> QED
    BY <1>1, <2>1, <2>3, <2>4 DEF EndsInv
<1>4. CASE FlushPage \/ RevertPageEnd
  <2>1. PassPage /\ workpg[2] # NoPage /\ pc \in {"write", "runs"} /\ pc' \in {"write", "read"}
    BY <1>4 DEF FlushPage, RevertPageEnd, Goto, RunInv
  <2> QED
    BY <1>1, <2>1, EndsPass DEF EndsInv
<1>5. CASE FlushNextChain \/ RevertNextChain
  <2>1. /\ UNCHANGED <<dirty, first, next, pc>> /\ pc \in {"write", "read"}
        /\ workpg = <<"index", NoPage>> /\ workpg' = <<"pages", first["pages"]>>
    BY <1>5 DEF FlushNextChain, RevertNextChain, marks
  <2>2. Ahead'
    BY <2>1, AheadPrime DEF EndsInv, Ahead, Met, EndlessFrom, Chained, Chains
  <2> QED
    BY <1>1, <2>1, <2>2, EndsIdle DEF EndsInv
<1>6. CASE FlushPageFails
  <2>c. PICK c \in Chains : c = workpg[1]
    BY <1>6, PageFacts DEF FlushPageFails, TypeInv, TypeOK
  <2>1. /\ pc = "write" /\ pc' = "leave" /\ UNCHANGED <<dirty, next>> /\ workpg[2] # NoPage
        /\ first' = [first EXCEPT ![c] = workpg[2]]
    BY <1>6, <2>c DEF FlushPageFails, SyncFailed
  <2>2. first'[c] = workpg[2] /\ \A d \in Chains \ {c} : first'[d] = first[d]
    BY <2>1 DEF TypeInv, TypeOK
  <2>3. Chained(c)' = Reach(next, c, workpg[2])
    BY <2>1, <2>2, ChainedPrime
  <2>4. \/ \A u \in dirty : u[1] = c => PageOf(u) \in Reach(next, c, workpg[2])
        \/ \A p \in Reach(next, c, workpg[2]) : next[p] # NoPage
    BY <2>1, <2>c DEF EndsInv, Ahead, EndlessFrom
  <2>5. EndlessFrom(c, first[c])' <=> \A p \in Reach(next, c, workpg[2]) : next[p] # NoPage
    BY <2>1, <2>2, MetPrime
  <2>6. ASSUME NEW d \in Chains PROVE Met(d)'
    <3>1. CASE d = c
      BY <2>1, <2>3, <2>4, <2>5, <3>1, MetPrime
    <3>2. CASE d # c
      <4>1. first'[d] = first[d]
        BY <2>2, <3>2
      <4>2. Chained(d)' = Chained(d) /\ (EndlessFrom(d, first[d])' <=> EndlessFrom(d, first[d]))
        BY <2>1, <4>1, ChainedPrime, MetPrime DEF Chained, EndlessFrom
      <4> QED
        BY <2>1, <4>2, MetPrime DEF EndsInv, Met
    <3> QED
      BY <3>1, <3>2
  <2> QED
    BY <1>1, <2>1, <2>6 DEF EndsInv
<1>7. CASE FlushLastFails
  <2>1. Mark(Head) /\ pc' = "leave"
    BY <1>7 DEF FlushLastFails, SyncFailed
  <2>2. CASE Persistent
    BY <1>1, <2>1, <2>2, MarkMet, HeadUnit DEF EndsInv
  <2>3. CASE ~Persistent
    BY <1>1, <2>1, <2>3, EndsIdle DEF Mark, marks
  <2> QED
    BY <2>2, <2>3
<1>8. CASE RevertPage \/ RevertRun \/ RevertBehind
  <2>1. UNCHANGED <<dirty, first, next, workpg>> /\ pc \in {"read", "runs"} /\ pc' = "runs"
    BY <1>8 DEF RevertPage, RevertRun, RevertBehind, Goto, marks
  <2>2. Ahead' <=> Ahead
    BY <2>1, AheadPrime DEF Ahead, EndlessFrom
  <2> QED
    BY <1>1, <2>1, <2>2, EndsIdle DEF EndsInv
<1> QED
  BY <1>2, <1>3, <1>4, <1>5, <1>6, <1>7, <1>8 DEF ReadStep

LEMMA EndsNext == ASSUME TypeInv, RunInv, EndsInv, [Next]_vars PROVE EndsInv'
<1>1. TypeInv'
  BY TypeNext
<1>2. CASE UNCHANGED vars
  <2>1. UNCHANGED <<dirty, first, next, late, pc, workpg>>
    BY <1>2 DEF vars, marks, mutex, work
  <2>2. Ahead' <=> Ahead
    BY <2>1, AheadPrime DEF Ahead, EndlessFrom
  <2> QED
    BY <2>1, <2>2, EndsIdle DEF EndsInv
<1>3. CASE Next
  BY <1>1, <1>3, EndsMutexOperation, EndsSync DEF Next, Step, OwnerStep
<1> QED
  BY <1>2, <1>3

\* What makes DiskSound inductive while no owner dies.  A page that is neither
\* marked nor about to be is the same in memory and on disk; the head is it too
\* when nothing is marked, and while the pages are walked.
DiskParts ==
  /\ ~diskWip => disk = saved
  /\ \A u \in Units \ (dirty \cup late \cup {Head}) : mem[u] = disk[u]
  /\ late = {} /\ NothingDirty => mem[Head] = disk[Head]
  /\ pc \in {"write", "read", "runs", "last"} => mem[Head] = disk[Head]
  /\ pc \in {"flush", "head", "write", "last"} => mem = good
  /\ pc = "head" => wip
  /\ pc \in {"write", "last"} => diskWip
  /\ pc = "last" => ~wip /\ saved = good
  /\ owner # Dead
  /\ \A u, v \in late : u = v

DiskInv == Persistent /\ ~misread /\ crashes = 0 => DiskParts

DiskStep ==
  /\ TypeInv /\ TypeInv' /\ RunInv /\ EndsInv /\ EndsInv' /\ DiskParts
  /\ ~misread /\ Persistent /\ setup' = setup /\ crashes = 0 /\ crashes' = 0

LEMMA DiskInit == ASSUME Init PROVE DiskParts
BY UnitsAssumption DEF Init, DiskParts

LEMMA DiskSame ==
  ASSUME DiskStep, NothingDirty, late = {}
  PROVE  mem = disk
<1>1. dirty = {}
  BY MetNothing DEF DiskStep, EndsInv
<1>2. mem \in [Units -> 0..MaxOps] /\ disk \in [Units -> 0..MaxOps]
  BY DEF DiskStep, TypeInv, TypeOK, Contents
<1>3. \A u \in Units : mem[u] = disk[u]
  BY <1>1 DEF DiskStep, DiskParts
<1> QED
  BY <1>2, <1>3

LEMMA DiskContents == ASSUME TypeInv PROVE mem \in [Units -> Nat] /\ disk \in [Units -> Nat]
<1>1. 0..MaxOps \subseteq Nat
  BY UnitsAssumption
<1>2. mem \in [Units -> 0..MaxOps] /\ disk \in [Units -> 0..MaxOps]
  BY DEF TypeInv, TypeOK, Contents
<1> QED
  BY <1>1, <1>2

LEMMA DiskCopy ==
  ASSUME TypeInv, NEW us, NEW u \in Units
  PROVE  /\ Copy(disk, mem, us)[u] = IF u \in us THEN mem[u] ELSE disk[u]
         /\ Copy(mem, disk, us)[u] = IF u \in us THEN disk[u] ELSE mem[u]
BY DEF Copy

LEMMA DiskOperation ==
  ASSUME DiskStep,
         \/ \E p \in Procs : Check(p) \/ Lock(p) \/ InheritByLock(p) \/ InheritByTry(p)
         \/ Leave \/ Begin \/ NoOperation \/ MarkLate \/ Done \/ Failed
         \/ \E u \in Units : Change(u) \/ ChangeUnmarked(u)
         \/ Crash \/ Reload
  PROVE  DiskParts'
<1> USE DEF DiskStep
<1>d. Nobody # Dead /\ \A p \in Procs : p # Dead
  BY UnitsAssumption
<1>o. pc # "out" => owner # Dead
  BY UnitsAssumption DEF TypeInv, TypeOK
<1>1. ~Crash /\ \A p \in Procs : ~(InheritByLock(p) \/ InheritByTry(p))
  BY DEF Crash, InheritByLock, InheritByTry, Inherit, DiskParts
<1>2. CASE \/ \E p \in Procs : Check(p) \/ Lock(p)
           \/ Leave \/ Begin \/ NoOperation \/ Done \/ Failed
  <2>1. /\ UNCHANGED <<mem, disk, wip, diskWip, dirty, first, saved, late>>
        /\ owner' \in {owner, Nobody} \cup Procs
    BY <1>2 DEF Check, Lock, Hold, Leave, Begin, NoOperation, Done, Failed, Owner, content, marks, work, ghosts
  <2>2. \/ pc' = pc /\ good' = good
        \/ pc' \in {"out", "held", "op", "leave", "revert"}
        \/ pc' = "flush" /\ good' = mem
    <3>1. CASE \E p \in Procs : Check(p) \/ Lock(p)
      BY <3>1 DEF Check, Lock, Hold, ghosts
    <3>2. CASE Leave \/ Begin \/ NoOperation \/ Done \/ Failed
      BY <3>2 DEF Leave, Begin, NoOperation, Done, Failed
    <3> QED
      BY <1>2, <3>1, <3>2
  <2>3. NothingDirty' <=> NothingDirty
    BY <2>1 DEF NothingDirty
  <2> QED
    BY <1>d, <2>1, <2>2, <2>3 DEF DiskParts
<1>3. ASSUME NEW u \in Units, Mark(u), UNCHANGED <<disk, diskWip, saved, pc, owner>>, pc = "op",
             \A v \in Units \ {u, Head} : mem'[v] = mem[v],
             late' \in {late, late \ {u}}
      PROVE  DiskParts'
  <2>1. ~NothingDirty' /\ dirty' = dirty \cup {u}
    BY <1>3, MarkMet DEF EndsInv, Mark
  <2> QED
    BY <1>3, <2>1 DEF DiskParts
<1>4. CASE MarkLate
  <2>1. PICK u \in late : Mark(u)
    BY <1>4 DEF MarkLate
  <2>2. u \in Units /\ pc = "op" /\ UNCHANGED <<mem, disk, diskWip, saved, pc, owner>> /\ late' = {}
    BY <1>4, <2>1 DEF MarkLate, EndsInv, TypeInv, TypeOK, Owner, content, ghosts
  <2>3. late = {u}
    BY <2>1 DEF DiskParts
  <2> QED
    BY <1>3, <2>1, <2>2, <2>3
<1>5. ASSUME NEW u \in Units, Change(u) PROVE DiskParts'
  <2>1. \A v \in Units \ {u, Head} : mem'[v] = mem[v]
    BY <1>5 DEF Change, Store, TypeInv, TypeOK, Contents
  <2> QED
    BY <1>3, <1>5, <2>1 DEF Change, Owner, ghosts
<1>6. ASSUME NEW u \in Units, ChangeUnmarked(u) PROVE DiskParts'
  <2>1. \A v \in Units \ {u, Head} : mem'[v] = mem[v]
    BY <1>6 DEF ChangeUnmarked, Store, TypeInv, TypeOK, Contents
  <2>2. /\ UNCHANGED <<disk, diskWip, saved, pc, owner, dirty, first>> /\ pc = "op"
        /\ late = {} /\ late' = {u}
    BY <1>6 DEF ChangeUnmarked, Owner, marks, ghosts
  <2> QED
    BY <2>1, <2>2 DEF DiskParts
<1>7. CASE Reload
  <2>1. pc = "out" /\ UNCHANGED <<pc, disk, diskWip, saved, late>>
    BY <1>7, UnitsAssumption DEF Reload, TypeInv, TypeOK, work
  <2>2. CASE diskWip
    <3>1. UNCHANGED <<mem, dirty, first, owner>>
      BY <1>7, <2>2 DEF Reload
    <3> QED
      BY <2>1, <3>1 DEF DiskParts, NothingDirty
  <2>3. CASE ~diskWip
    <3>1. mem' = disk /\ owner' = Nobody
      BY <1>7, <2>3 DEF Reload
    <3> QED
      BY <1>d, <2>1, <2>3, <3>1 DEF DiskParts
  <2> QED
    BY <2>2, <2>3
<1> QED
  BY <1>1, <1>2, <1>4, <1>5, <1>6, <1>7

LEMMA DiskSync ==
  ASSUME DiskStep,
         \/ FlushBegin \/ FlushHead \/ FlushPage \/ FlushNextChain \/ FlushClean \/ FlushLast
         \/ FlushHeadFails \/ FlushPageFails \/ FlushLastFails
         \/ RevertBegin \/ RevertHead \/ RevertNextChain \/ RevertEnd
         \/ RevertFails \/ Downgrade \/ ReadStep
  PROVE  DiskParts'
<1> USE DEF DiskStep
<1>1. /\ pc \in Syncing /\ late = {} /\ late' = {} /\ after \in {"held", "leave", "locked"}
      /\ UNCHANGED owner /\ Head \in Units
  <2>1. pc \in Syncing /\ UNCHANGED <<late, owner>>
    BY DEF FlushBegin, FlushHead, FlushPage, FlushNextChain, FlushClean, FlushLast, FlushHeadFails,
           FlushPageFails, FlushLastFails, RevertBegin, RevertHead, RevertNextChain, RevertEnd,
           RevertFails, Downgrade, ReadStep, RevertPage, RevertRun, RevertBehind, RevertPageEnd, Owner, work, Syncing
  <2> QED
    BY <2>1, HeadUnit DEF TypeInv, TypeOK, EndsInv, Syncing
<1>2. CASE FlushBegin
  <2>1. /\ UNCHANGED <<mem, disk, diskWip, dirty, first, good>> /\ pc = "flush"
        /\ IF NothingDirty THEN pc' = after /\ saved' = good
                           ELSE pc' = "head" /\ wip' = TRUE /\ saved' = saved
    BY <1>2 DEF FlushBegin, Goto, marks
  <2>2. NothingDirty => mem = disk
    BY <1>1, DiskSame
  <2> QED
    BY <1>1, <2>1, <2>2 DEF DiskParts, NothingDirty
<1>3. CASE FlushHead
  <2>1. /\ UNCHANGED <<mem, wip, first, good, saved>> /\ pc = "head" /\ pc' = "write"
        /\ disk' = Copy(disk, mem, {Head}) /\ diskWip' = wip /\ dirty' = dirty \ {Head}
    BY <1>3 DEF FlushHead, Goto, ghosts
  <2>2. \A u \in Units : disk'[u] = IF u \in {Head} THEN mem[u] ELSE disk[u]
    BY <2>1, DiskCopy
  <2> QED
    BY <1>1, <2>1, <2>2 DEF DiskParts
<1>4. CASE FlushPage
  <2>1. /\ UNCHANGED <<mem, wip, diskWip, pc, good, saved>> /\ pc = "write"
        /\ disk' = Copy(disk, mem, Mask(workpg)) /\ dirty' = dirty \ Mask(workpg)
    BY <1>4 DEF FlushPage, PassPage, ghosts
  <2>2. \A u \in Units : disk'[u] = IF u \in Mask(workpg) THEN mem[u] ELSE disk[u]
    BY <2>1, DiskCopy
  <2> QED
    BY <1>1, <2>1, <2>2 DEF DiskParts
<1>5. CASE FlushNextChain \/ RevertNextChain
  <2>1. UNCHANGED <<mem, disk, wip, diskWip, dirty, first, good, saved, pc>>
    BY <1>5 DEF FlushNextChain, RevertNextChain, content, marks, ghosts
  <2> QED
    BY <1>1, <2>1 DEF DiskParts, NothingDirty
<1>6. CASE FlushClean
  <2>1. /\ UNCHANGED <<mem, disk, diskWip, dirty, first, good>> /\ pc = "write" /\ pc' = "last"
        /\ wip' = FALSE /\ saved' = good
    BY <1>6 DEF FlushClean, Goto, marks
  <2> QED
    BY <1>1, <2>1 DEF DiskParts
<1>7. CASE FlushLast
  <2>1. /\ UNCHANGED <<mem, wip, dirty, first, good, saved>> /\ pc = "last" /\ pc' = after
        /\ disk' = Copy(disk, mem, {Head}) /\ diskWip' = wip
    BY <1>7 DEF FlushLast, Goto, marks, ghosts
  <2>2. mem = disk
    BY <1>1, <2>1, DiskSame DEF EndsInv
  <2>3. disk' = disk
    BY <2>1, <2>2, CopyHead, DiskContents
  <2> QED
    BY <1>1, <2>1, <2>2, <2>3 DEF DiskParts
<1>8. CASE FlushHeadFails \/ RevertFails \/ Downgrade
  <2>1. UNCHANGED <<mem, disk, diskWip, dirty, first, saved>> /\ pc' \in {"leave", "downgrade"}
    BY <1>8 DEF FlushHeadFails, RevertFails, SyncFailed, Downgrade, Goto, content, marks, ghosts
  <2> QED
    BY <1>1, <2>1 DEF DiskParts, NothingDirty
<1>9. CASE FlushPageFails
  <2>1. UNCHANGED <<mem, diskWip, dirty, saved>> /\ pc = "write" /\ pc' = "leave"
    BY <1>9 DEF FlushPageFails, SyncFailed, ghosts
  <2>2. PICK us \in Written : disk' = Copy(disk, mem, us)
    BY <1>9 DEF FlushPageFails
  <2>3. \A u \in Units : disk'[u] = IF u \in us THEN mem[u] ELSE disk[u]
    BY <2>2, DiskCopy
  <2> QED
    BY <1>1, <2>1, <2>3 DEF DiskParts
<1>10. CASE FlushLastFails
  <2>1. UNCHANGED <<mem, disk, diskWip, saved>> /\ pc = "last" /\ pc' = "leave" /\ dirty' = dirty \cup {Head}
    BY <1>10 DEF FlushLastFails, SyncFailed, Mark, content, ghosts
  <2> QED
    BY <1>1, <2>1 DEF DiskParts
<1>11. CASE RevertBegin
  <2>1. UNCHANGED <<mem, disk, diskWip, dirty, first, saved>> /\ pc' \in {after, "rhead"}
    BY <1>11 DEF RevertBegin, Goto, content, marks
  <2> QED
    BY <1>1, <2>1 DEF DiskParts, NothingDirty
<1>12. CASE RevertHead
  <2>1. /\ UNCHANGED <<disk, diskWip, saved>> /\ pc' = "read"
        /\ mem' = Copy(mem, disk, {Head}) /\ dirty' = dirty \ {Head}
    BY <1>12 DEF RevertHead, Goto, ghosts
  <2>2. \A u \in Units : mem'[u] = IF u \in {Head} THEN disk[u] ELSE mem[u]
    BY <2>1, DiskCopy
  <2> QED
    BY <1>1, <2>1, <2>2 DEF DiskParts
<1>13. CASE RevertRun
  <2>1. /\ UNCHANGED <<disk, diskWip, dirty, first, saved, pc>> /\ pc = "runs"
    BY <1>13 DEF RevertRun, marks, ghosts
  <2>2. PICK us : mem' = Copy(mem, disk, us)
    BY <1>13 DEF RevertRun
  <2>3. \A u \in Units : mem'[u] = IF u \in us THEN disk[u] ELSE mem[u]
    BY <2>2, DiskCopy
  <2> QED
    BY <1>1, <2>1, <2>3 DEF DiskParts
<1>14. CASE RevertEnd
  <2>1. UNCHANGED <<mem, disk, diskWip, dirty, first, saved>> /\ pc' = after /\ pc = "read"
    BY <1>14 DEF RevertEnd, Goto, content, marks
  <2> QED
    BY <1>1, <2>1 DEF DiskParts, NothingDirty
<1>15. CASE RevertPage
  <2>1. UNCHANGED <<mem, disk, diskWip, dirty, first, saved>> /\ pc' = "runs" /\ pc = "read"
    BY <1>15 DEF RevertPage, Goto, content, marks, ghosts
  <2> QED
    BY <1>1, <2>1 DEF DiskParts, NothingDirty
<1>16. CASE RevertPageEnd
  <2>1. UNCHANGED <<mem, disk, diskWip, saved>> /\ pc' = "read" /\ pc = "runs" /\ dirty' = dirty \ Mask(workpg)
    BY <1>16 DEF RevertPageEnd, PassPage, Goto, content, ghosts
  <2>2. \A u \in Mask(workpg) : mem[u] = disk[u]
    BY <1>16, PageBack
  <2> QED
    BY <1>1, <2>1, <2>2 DEF DiskParts
<1> QED
  BY <1>2, <1>3, <1>4, <1>5, <1>6, <1>7, <1>8, <1>9, <1>10, <1>11, <1>12, <1>13, <1>14, <1>15, <1>16,
     NothingBehind DEF ReadStep

LEMMA DiskNext ==
  ASSUME TypeInv, RunInv, EndsInv, DiskInv, [Next]_vars
  PROVE  DiskInv'
<1>1. TypeInv' /\ EndsInv' /\ setup' = setup /\ (~misread' => ~misread)
  <2>1. TypeInv' /\ EndsInv'
    BY TypeNext, EndsNext
  <2>2. setup' = setup /\ (~misread' => ~misread)
    BY MisreadStays
  <2> QED
    BY <2>1, <2>2
<1> SUFFICES ASSUME Persistent', ~misread', crashes' = 0 PROVE DiskParts'
  BY DEF DiskInv
<1>2. Persistent /\ crashes = 0
  <2>1. Persistent
    BY <1>1 DEF Persistent
  <2>2. CASE UNCHANGED vars
    BY <2>1, <2>2 DEF vars, counts
  <2>3. CASE Next
    <3>1. crashes' \in {crashes, crashes + 1}
      BY <2>3 DEF Next, Step, OwnerStep, Check, Lock, InheritByLock, InheritByTry, Inherit, Hold, Leave,
           Begin, NoOperation, MarkLate, Done, Failed, Change, ChangeUnmarked, FlushBegin, FlushHead,
           FlushPage, FlushNextChain, FlushClean, FlushLast, FlushHeadFails, FlushPageFails,
           FlushLastFails, SyncFailed, RevertBegin, RevertHead, RevertNextChain, RevertEnd,
           RevertFails, Downgrade, ReadStep, RevertPage, RevertRun, RevertBehind, RevertPageEnd,
           Crash, Reload, counts
    <3> QED
      BY <2>1, <3>1 DEF TypeInv, TypeOK
  <2> QED
    BY <2>2, <2>3
<1>3. DiskStep
  BY <1>1, <1>2 DEF DiskStep, DiskInv
<1>4. CASE UNCHANGED vars
  BY <1>3, <1>4 DEF DiskStep, vars, content, marks, mutex, work, ghosts, DiskParts, NothingDirty
<1>5. CASE Next
  BY <1>3, <1>5, DiskOperation, DiskSync DEF Next, Step, OwnerStep
<1> QED
  BY <1>4, <1>5

\* A copy on disk that does not say it is being written is the content that was
\* synced last, as long as no revert has met a page with more than two runs of
\* marked disk pages or with nothing but marked ones: after any failures of writes and reads as long as no owner dies,
\* and after a death in a safe set when none fails (cp_flush, _link_set).
THEOREM DiskSoundHolds == Spec => []DiskSound
<1>1. Init => AllInv /\ EndsInv /\ DiskInv
  BY TypeInit, RunInit, ChainInit, CleanInit, HalfInit, EndsInit, DiskInit DEF AllInv, DiskInv
<1>2. AllInv /\ EndsInv /\ DiskInv /\ [Next]_vars => AllInv' /\ EndsInv' /\ DiskInv'
  BY HalfNext, EndsNext, DiskNext DEF AllInv
<1>3. AllInv /\ DiskInv => DiskSound
  BY DEF AllInv, HalfInv, HalfParts, DiskInv, DiskParts, DiskSound
<1> QED
  BY <1>1, <1>2, <1>3, PTL DEF Spec
=============================================================================
