--------------------------- MODULE SetLinksProofs ---------------------------
(***************************************************************************)
(* Proofs about SetLinks, for any processes, makers, jobs and nodes:       *)
(* nobody works on a deleted set, nobody is left on a set that lost its    *)
(* name without being told, and who links undisturbed has one whole set.   *)
(*                                                                         *)
(* None of the three says anything while names change, so none is          *)
(* inductive; Inv says what holds meanwhile.  Its parts, in the order in   *)
(* which they are proved, each step of the program for each of them:       *)
(*   TypeOK, PlaceInv, NodeInv   what a process holds where it is, and     *)
(*             that a node that has not been made is held by nobody        *)
(*   JobInv    one creation or unload at a time, and until it changes      *)
(*             names all who link do so undisturbed                        *)
(*   LockInv   who works or unloads has the mutex of an unmarked set:      *)
(*             NoLateWork                                                  *)
(*   ShareInv  a share without data is behind the flock of who fills it    *)
(*   NewInv    which names a creation has changed so far                   *)
(*   FileInv, GoneInv   the two files have the data of one set             *)
(*   OpenInv   the index share that a linker has opened still has the      *)
(*             name, unless the linker has been disturbed                  *)
(*   FillInv   who fills a share is alone with it, no creation or unload   *)
(*             is changing names, and the file is that of the set          *)
(*   ToldInv   whose set one is linked to: the one that has the name, one  *)
(*             that is marked, or the one that a job is about to mark      *)
(*   MetInv    all undisturbed links see the same parts                    *)
(*   DataInv   the parts that have the names hold the data of one set      *)
(* For each kind of step a lemma (LinkStartFacts ..) says what it does;    *)
(* a frame lemma for each part says when a step cannot disturb it.         *)
(***************************************************************************)
EXTENDS SetLinksInv, TLAPS

\* Who unloads has the set that has the name.
LEMMA Holder ==
  ASSUME TypeOK, PlaceInv, JobInv, LockInv, ToldInv, NEW p \in Procs, pc[p] \in Dropping
  PROVE  Index(p) = Cur /\ Cur # 0 /\ Cur \in Nodes
<1>1. aim[p] \in JobAims /\ Index(p) # 0 /\ Index(p) \in Nodes /\ Index(p) \notin dead /\ pc[p] \notin Opening /\ ~met[p]
  BY InNodes DEF JobInv, PlaceInv, PlaceOk, LockInv, Dropping, JobAims, Opening
<1>2. \A q \in Procs : pc[q] \notin After \cup Dropped
  BY <1>1, Renamers DEF JobInv, Making, After, Dropping, Dropped
<1> QED
  BY <1>1, <1>2 DEF ToldInv, ToldUnmet

\* A change of names begins with everybody who links having met it.
LEMMA MovesFrame ==
  ASSUME TypeOK, PlaceInv, ShareInv, NEW q \in Procs, Index(q)' = Index(q), durable' = durable,
         \A n \in Nodes : Data(n) # 0 => Data(n)' = Data(n), new'[q] = new[q]
  PROVE  MovesAway(q)' <=> MovesAway(q)
BY InNodes DEF MovesAway, ShareInv, ShareOk, Lasts, Data

MetAll == \A o \in Procs : pc'[o] \in Opening => met'[o]
SameChanging == \A o \in Procs : Changing(o)' => Changing(o)

\* No step begins to change names without that everybody who links meets it.
LEMMA ChangingStep ==
  ASSUME TypeOK, PlaceInv, JobInv, FileInv, FillInv, ShareInv, [Next]_vars
  PROVE  MetAll \/ SameChanging
<1>1. ASSUME NEW p \in Procs, LinkStart(p) PROVE MetAll \/ SameChanging
  <2>1. \A n \in Nodes : Data(n) # 0 => Data(n)' = Data(n)
    BY <1>1, LinkStartFacts DEF Data
  <2>2. \A q \in Procs : q # p => (MovesAway(q)' <=> MovesAway(q))
    <3> SUFFICES ASSUME NEW q \in Procs, q # p PROVE MovesAway(q)' <=> MovesAway(q)
      OBVIOUS
    <3>1. Index(q)' = Index(q) /\ durable' = durable /\ new'[q] = new[q]
      BY <1>1, LinkStartFacts DEF Index, Others
    <3> QED
      BY <2>1, <3>1, MovesFrame
  <2>3. \A q \in Procs : q # p => (Changing(q)' => Changing(q))
    BY <1>1, <2>2, LinkStartFacts DEF Changing, Others
  <2>4. ~Changing(p)' \/ Changing(p)
    BY <1>1, LinkStartFacts DEF Changing, Becomes, Ended, Locked, Attaching, After,
       Dropped, PlaceInv, PlaceOk
  <2> QED
    BY <2>3, <2>4 DEF SameChanging
<1>2. ASSUME NEW p \in Procs, OpenIndex(p) PROVE MetAll \/ SameChanging
  <2>1. \A n \in Nodes : Data(n) # 0 => Data(n)' = Data(n)
    BY <1>2, OpenIndexFacts DEF Data
  <2>2. \A q \in Procs : q # p => (MovesAway(q)' <=> MovesAway(q))
    <3> SUFFICES ASSUME NEW q \in Procs, q # p PROVE MovesAway(q)' <=> MovesAway(q)
      OBVIOUS
    <3>1. Index(q)' = Index(q) /\ durable' = durable /\ new'[q] = new[q]
      BY <1>2, OpenIndexFacts DEF Index, Others
    <3> QED
      BY <2>1, <3>1, MovesFrame
  <2>3. \A q \in Procs : q # p => (Changing(q)' => Changing(q))
    BY <1>2, <2>2, OpenIndexFacts DEF Changing, Others
  <2>4. ~Changing(p)' \/ Changing(p)
    BY <1>2, OpenIndexFacts DEF Changing, Becomes, Ended, Locked, Attaching, After,
       Dropped, PlaceInv, PlaceOk
  <2> QED
    BY <2>3, <2>4 DEF SameChanging
<1>3. ASSUME NEW p \in Procs, LockIndex(p) PROVE MetAll \/ SameChanging
  <2>1. \A n \in Nodes : Data(n) # 0 => Data(n)' = Data(n)
    BY <1>3, LockIndexFacts DEF Data
  <2>2. \A q \in Procs : q # p => (MovesAway(q)' <=> MovesAway(q))
    <3> SUFFICES ASSUME NEW q \in Procs, q # p PROVE MovesAway(q)' <=> MovesAway(q)
      OBVIOUS
    <3>1. Index(q)' = Index(q) /\ durable' = durable /\ new'[q] = new[q]
      BY <1>3, LockIndexFacts DEF Index, Others
    <3> QED
      BY <2>1, <3>1, MovesFrame
  <2>3. \A q \in Procs : q # p => (Changing(q)' => Changing(q))
    BY <1>3, <2>2, LockIndexFacts DEF Changing, Others
  <2>4. ~Changing(p)' \/ Changing(p)
    BY <1>3, LockIndexFacts DEF Changing, Becomes, Ended, Locked, Attaching, After,
       Dropped, PlaceInv, PlaceOk
  <2> QED
    BY <2>3, <2>4 DEF SameChanging
<1>4. ASSUME NEW p \in Procs, Attach(p) PROVE MetAll \/ SameChanging
  <2>1. \A n \in Nodes : Data(n) # 0 => Data(n)' = Data(n)
    BY <1>4, AttachFacts DEF Data
  <2>2. \A q \in Procs : q # p => (MovesAway(q)' <=> MovesAway(q))
    <3> SUFFICES ASSUME NEW q \in Procs, q # p PROVE MovesAway(q)' <=> MovesAway(q)
      OBVIOUS
    <3>1. Index(q)' = Index(q) /\ durable' = durable /\ new'[q] = new[q]
      BY <1>4, AttachFacts DEF Index, Others
    <3> QED
      BY <2>1, <3>1, MovesFrame
  <2>3. \A q \in Procs : q # p => (Changing(q)' => Changing(q))
    BY <1>4, <2>2, AttachFacts DEF Changing, Others
  <2>4. ~Changing(p)' \/ Changing(p)
    BY <1>4, AttachFacts DEF Changing, Becomes, Ended, Locked, Attaching, After,
       Dropped, PlaceInv, PlaceOk
  <2> QED
    BY <2>3, <2>4 DEF SameChanging
<1>5. ASSUME NEW p \in Procs, FillIndex(p) PROVE MetAll \/ SameChanging
  <2>1. \A n \in Nodes : Data(n) # 0 => Data(n)' = Data(n)
    <3>1. Data(Share(p)) = 0
      BY <1>5, FillIndexFacts DEF ShareInv, ShareOk
    <3> QED
      BY <1>5, <3>1, FillIndexFacts DEF Only, Data
  <2>2. \A q \in Procs : q # p => (MovesAway(q)' <=> MovesAway(q))
    <3> SUFFICES ASSUME NEW q \in Procs, q # p PROVE MovesAway(q)' <=> MovesAway(q)
      OBVIOUS
    <3>1. Index(q)' = Index(q) /\ durable' = durable /\ new'[q] = new[q]
      BY <1>5, FillIndexFacts DEF Index, Others
    <3> QED
      BY <2>1, <3>1, MovesFrame
  <2>3. \A q \in Procs : q # p => (Changing(q)' => Changing(q))
    BY <1>5, <2>2, FillIndexFacts DEF Changing, Others
  <2>4. ~Changing(p)' \/ Changing(p)
    BY <1>5, FillIndexFacts DEF Changing, Becomes, Ended, Locked, Attaching, After,
       Dropped, PlaceInv, PlaceOk
  <2> QED
    BY <2>3, <2>4 DEF SameChanging
<1>6. ASSUME NEW p \in Procs, FillPages(p) PROVE MetAll \/ SameChanging
  <2>1. \A n \in Nodes : Data(n) # 0 => Data(n)' = Data(n)
    BY <1>6, FillPagesFacts, PartNames DEF Data
  <2>2. \A q \in Procs : q # p => (MovesAway(q)' <=> MovesAway(q))
    <3> SUFFICES ASSUME NEW q \in Procs, q # p PROVE MovesAway(q)' <=> MovesAway(q)
      OBVIOUS
    <3>1. Index(q)' = Index(q) /\ durable' = durable /\ new'[q] = new[q]
      BY <1>6, FillPagesFacts DEF Index, Others
    <3> QED
      BY <2>1, <3>1, MovesFrame
  <2>3. \A q \in Procs : q # p => (Changing(q)' => Changing(q))
    BY <1>6, <2>2, FillPagesFacts DEF Changing, Others
  <2>4. ~Changing(p)' \/ Changing(p)
    BY <1>6, FillPagesFacts DEF Changing, Becomes, Ended, Locked, Attaching, After,
       Dropped, PlaceInv, PlaceOk
  <2> QED
    BY <2>3, <2>4 DEF SameChanging
<1>7. ASSUME NEW p \in Procs, FillPagesFile(p) PROVE MetAll \/ SameChanging
  <2>1. \A n \in Nodes : Data(n) # 0 => Data(n)' = Data(n)
    BY <1>7, FillPagesFileFacts, PartNames DEF Data
  <2>2. \A q \in Procs : q # p => (MovesAway(q)' <=> MovesAway(q))
    <3> SUFFICES ASSUME NEW q \in Procs, q # p PROVE MovesAway(q)' <=> MovesAway(q)
      OBVIOUS
    <3>1. Index(q)' = Index(q) /\ durable' = durable /\ new'[q] = new[q]
      BY <1>7, FillPagesFileFacts DEF Index, Others
    <3> QED
      BY <2>1, <3>1, MovesFrame
  <2>3. \A q \in Procs : q # p => (Changing(q)' => Changing(q))
    BY <1>7, <2>2, FillPagesFileFacts DEF Changing, Others
  <2>4. ~Changing(p)' \/ Changing(p)
    BY <1>7, FillPagesFileFacts DEF Changing, Becomes, Ended, Locked, Attaching, After,
       Dropped, PlaceInv, PlaceOk
  <2> QED
    BY <2>3, <2>4 DEF SameChanging
<1>8. ASSUME NEW p \in Procs, CallStart(p) PROVE MetAll \/ SameChanging
  <2>1. \A n \in Nodes : Data(n) # 0 => Data(n)' = Data(n)
    BY <1>8, CallStartFacts DEF Data
  <2>2. \A q \in Procs : q # p => (MovesAway(q)' <=> MovesAway(q))
    <3> SUFFICES ASSUME NEW q \in Procs, q # p PROVE MovesAway(q)' <=> MovesAway(q)
      OBVIOUS
    <3>1. Index(q)' = Index(q) /\ durable' = durable /\ new'[q] = new[q]
      BY <1>8, CallStartFacts DEF Index, Others
    <3> QED
      BY <2>1, <3>1, MovesFrame
  <2>3. \A q \in Procs : q # p => (Changing(q)' => Changing(q))
    BY <1>8, <2>2, CallStartFacts DEF Changing, Others
  <2>4. ~Changing(p)' \/ Changing(p)
    BY <1>8, CallStartFacts DEF Changing, Becomes, Ended, Locked, Attaching, After,
       Dropped, PlaceInv, PlaceOk
  <2> QED
    BY <2>3, <2>4 DEF SameChanging
<1>9. ASSUME NEW p \in Procs, CheckBad(p) PROVE MetAll \/ SameChanging
  <2>1. \A n \in Nodes : Data(n) # 0 => Data(n)' = Data(n)
    BY <1>9, CheckBadFacts DEF Data
  <2>2. \A q \in Procs : q # p => (MovesAway(q)' <=> MovesAway(q))
    <3> SUFFICES ASSUME NEW q \in Procs, q # p PROVE MovesAway(q)' <=> MovesAway(q)
      OBVIOUS
    <3>1. Index(q)' = Index(q) /\ durable' = durable /\ new'[q] = new[q]
      BY <1>9, CheckBadFacts DEF Index, Others
    <3> QED
      BY <2>1, <3>1, MovesFrame
  <2>3. \A q \in Procs : q # p => (Changing(q)' => Changing(q))
    BY <1>9, <2>2, CheckBadFacts DEF Changing, Others
  <2>4. ~Changing(p)' \/ Changing(p)
    BY <1>9, CheckBadFacts DEF Changing, Becomes, Ended, Locked, Attaching, After,
       Dropped, PlaceInv, PlaceOk
  <2> QED
    BY <2>3, <2>4 DEF SameChanging
<1>10. ASSUME NEW p \in Procs, MutexLock(p) PROVE MetAll \/ SameChanging
  <2>1. \A n \in Nodes : Data(n) # 0 => Data(n)' = Data(n)
    BY <1>10, MutexLockFacts DEF Data
  <2>2. \A q \in Procs : q # p => (MovesAway(q)' <=> MovesAway(q))
    <3> SUFFICES ASSUME NEW q \in Procs, q # p PROVE MovesAway(q)' <=> MovesAway(q)
      OBVIOUS
    <3>1. Index(q)' = Index(q) /\ durable' = durable /\ new'[q] = new[q]
      BY <1>10, MutexLockFacts DEF Index, Others
    <3> QED
      BY <2>1, <3>1, MovesFrame
  <2>3. \A q \in Procs : q # p => (Changing(q)' => Changing(q))
    BY <1>10, <2>2, MutexLockFacts DEF Changing, Others
  <2>4. ~Changing(p)' \/ Changing(p)
    BY <1>10, MutexLockFacts DEF Changing, Becomes, Ended, Locked, Attaching, After,
       Dropped, PlaceInv, PlaceOk
  <2> QED
    BY <2>3, <2>4 DEF SameChanging
<1>11. ASSUME NEW p \in Procs, CallEnd(p) PROVE MetAll \/ SameChanging
  <2>1. \A n \in Nodes : Data(n) # 0 => Data(n)' = Data(n)
    BY <1>11, CallEndFacts DEF Data
  <2>2. \A q \in Procs : q # p => (MovesAway(q)' <=> MovesAway(q))
    <3> SUFFICES ASSUME NEW q \in Procs, q # p PROVE MovesAway(q)' <=> MovesAway(q)
      OBVIOUS
    <3>1. Index(q)' = Index(q) /\ durable' = durable /\ new'[q] = new[q]
      BY <1>11, CallEndFacts DEF Index, Others
    <3> QED
      BY <2>1, <3>1, MovesFrame
  <2>3. \A q \in Procs : q # p => (Changing(q)' => Changing(q))
    BY <1>11, <2>2, CallEndFacts DEF Changing, Others
  <2>4. ~Changing(p)' \/ Changing(p)
    BY <1>11, CallEndFacts DEF Changing, Becomes, Ended, Locked, Attaching, After,
       Dropped, PlaceInv, PlaceOk
  <2> QED
    BY <2>3, <2>4 DEF SameChanging
<1>12. ASSUME NEW p \in Procs, Unlink(p) PROVE MetAll \/ SameChanging
  <2>1. \A n \in Nodes : Data(n) # 0 => Data(n)' = Data(n)
    BY <1>12, UnlinkFacts DEF Data
  <2>2. \A q \in Procs : q # p => (MovesAway(q)' <=> MovesAway(q))
    <3> SUFFICES ASSUME NEW q \in Procs, q # p PROVE MovesAway(q)' <=> MovesAway(q)
      OBVIOUS
    <3>1. Index(q)' = Index(q) /\ durable' = durable /\ new'[q] = new[q]
      BY <1>12, UnlinkFacts DEF Index, Others
    <3> QED
      BY <2>1, <3>1, MovesFrame
  <2>3. \A q \in Procs : q # p => (Changing(q)' => Changing(q))
    BY <1>12, <2>2, UnlinkFacts DEF Changing, Others
  <2>4. ~Changing(p)' \/ Changing(p)
    BY <1>12, UnlinkFacts DEF Changing, Becomes, Ended, Locked, Attaching, After,
       Dropped, PlaceInv, PlaceOk
  <2> QED
    BY <2>3, <2>4 DEF SameChanging
<1>13. ASSUME NEW p \in Procs, CreateStart(p) PROVE MetAll \/ SameChanging
  <2>1. \A n \in Nodes : Data(n) # 0 => Data(n)' = Data(n)
    BY <1>13, CreateStartFacts DEF Data
  <2>2. \A q \in Procs : q # p => (MovesAway(q)' <=> MovesAway(q))
    <3> SUFFICES ASSUME NEW q \in Procs, q # p PROVE MovesAway(q)' <=> MovesAway(q)
      OBVIOUS
    <3>1. Index(q)' = Index(q) /\ durable' = durable /\ new'[q] = new[q]
      BY <1>13, CreateStartFacts DEF Index, Others
    <3> QED
      BY <2>1, <3>1, MovesFrame
  <2>3. \A q \in Procs : q # p => (Changing(q)' => Changing(q))
    BY <1>13, <2>2, CreateStartFacts DEF Changing, Others
  <2>4. ~Changing(p)' \/ Changing(p)
    BY <1>13, CreateStartFacts DEF Changing, Becomes, Ended, Locked, Attaching, After,
       Dropped, PlaceInv, PlaceOk
  <2> QED
    BY <2>3, <2>4 DEF SameChanging
<1>14. ASSUME NEW p \in Procs, CreateParts(p) PROVE MetAll \/ SameChanging
  <2>1. \A q \in Procs : q # p => ~Changing(q)
    BY <1>14, CreatePartsFacts, Renamers, PlaceNames DEF JobInv, Making, Before,
       Changing, After, Dropped
  <2>2. ~Changing(p)'
    BY <1>14, CreatePartsFacts DEF Changing, Becomes, After, Dropped
  <2>3. \A q \in Procs : q # p => ~Changing(q)'
    <3> SUFFICES ASSUME NEW q \in Procs, q # p PROVE ~Changing(q)'
      OBVIOUS
    <3>1. aim[q] \notin JobAims
      BY <1>14, CreatePartsFacts, Renamers DEF JobInv, Making, Before
    <3>2. pc[q] \notin Renaming
      BY <3>1, Renamers
    <3>3. pc'[q] \notin Renaming
      BY <1>14, <3>2, CreatePartsFacts DEF Others
    <3> QED
      BY <3>3, PlaceNames DEF Changing, After, Dropped
  <2> QED
    BY <2>2, <2>3 DEF SameChanging
<1>15. ASSUME NEW p \in Procs, CreateRefused(p) PROVE MetAll \/ SameChanging
  <2>1. \A n \in Nodes : Data(n) # 0 => Data(n)' = Data(n)
    BY <1>15, CreateRefusedFacts DEF Data
  <2>2. \A q \in Procs : q # p => (MovesAway(q)' <=> MovesAway(q))
    <3> SUFFICES ASSUME NEW q \in Procs, q # p PROVE MovesAway(q)' <=> MovesAway(q)
      OBVIOUS
    <3>1. Index(q)' = Index(q) /\ durable' = durable /\ new'[q] = new[q]
      BY <1>15, CreateRefusedFacts DEF Index, Others
    <3> QED
      BY <2>1, <3>1, MovesFrame
  <2>3. \A q \in Procs : q # p => (Changing(q)' => Changing(q))
    BY <1>15, <2>2, CreateRefusedFacts DEF Changing, Others
  <2>4. ~Changing(p)' \/ Changing(p)
    BY <1>15, CreateRefusedFacts DEF Changing, Becomes, Ended, Locked, Attaching, After,
       Dropped, PlaceInv, PlaceOk
  <2> QED
    BY <2>3, <2>4 DEF SameChanging
<1>16. ASSUME NEW p \in Procs, LoadEnds(p) PROVE MetAll \/ SameChanging
  <2>1. \A q \in Procs : MovesAway(q)' <=> MovesAway(q)
    BY <1>16, LoadEndsFacts DEF MovesAway, Index, Lasts, Others
  <2> QED
    BY <1>16, <2>1, LoadEndsFacts DEF SameChanging, Changing, Others, Becomes, After,
       Dropped
<1>17. ASSUME NEW p \in Procs, MoveAway(p) PROVE MetAll \/ SameChanging
  BY <1>17, MoveAwayFacts, PlaceNames DEF MetAll, Disturbs, Others, Becomes, Opening
<1>18. ASSUME NEW p \in Procs, Rename(p) PROVE MetAll \/ SameChanging
  BY <1>18, RenameFacts, PlaceNames DEF MetAll, Disturbs, Others, Becomes, Opening
<1>19. ASSUME NEW p \in Procs, Retire(p) PROVE MetAll \/ SameChanging
  <2>1. \A n \in Nodes : Data(n) # 0 => Data(n)' = Data(n)
    BY <1>19, RetireFacts DEF Data
  <2>2. \A q \in Procs : q # p => (MovesAway(q)' <=> MovesAway(q))
    <3> SUFFICES ASSUME NEW q \in Procs, q # p PROVE MovesAway(q)' <=> MovesAway(q)
      OBVIOUS
    <3>1. Index(q)' = Index(q) /\ durable' = durable /\ new'[q] = new[q]
      BY <1>19, RetireFacts DEF Index, Others
    <3> QED
      BY <2>1, <3>1, MovesFrame
  <2>3. \A q \in Procs : q # p => (Changing(q)' => Changing(q))
    BY <1>19, <2>2, RetireFacts DEF Changing, Others
  <2>4. ~Changing(p)' \/ Changing(p)
    BY <1>19, RetireFacts DEF Changing, Becomes, Ended, Locked, Attaching, After,
       Dropped, PlaceInv, PlaceOk
  <2> QED
    BY <2>3, <2>4 DEF SameChanging
<1>20. ASSUME NEW p \in Procs, Finish(p) PROVE MetAll \/ SameChanging
  <2>1. \A q \in Procs : q # p => ~Changing(q)
    BY <1>20, FinishFacts, Renamers, PlaceNames DEF JobInv, Making, Before, Changing,
       After, Dropped
  <2>2. ~Changing(p)'
    BY <1>20, FinishFacts DEF Changing, Becomes, After, Dropped
  <2>3. \A q \in Procs : q # p => ~Changing(q)'
    <3> SUFFICES ASSUME NEW q \in Procs, q # p PROVE ~Changing(q)'
      OBVIOUS
    <3>1. aim[q] \notin JobAims
      BY <1>20, FinishFacts, Renamers DEF JobInv, Making, Before
    <3>2. pc[q] \notin Renaming
      BY <3>1, Renamers
    <3>3. pc'[q] \notin Renaming
      BY <1>20, <3>2, FinishFacts DEF Others
    <3> QED
      BY <3>3, PlaceNames DEF Changing, After, Dropped
  <2> QED
    BY <2>2, <2>3 DEF SameChanging
<1>21. ASSUME NEW p \in Procs, LoadFails(p) PROVE MetAll \/ SameChanging
  <2>1. \A q \in Procs : q # p => ~Changing(q)
    BY <1>21, LoadFailsFacts, Renamers, PlaceNames DEF JobInv, Making, Before, Changing,
       After, Dropped
  <2>2. ~Changing(p)'
    BY <1>21, LoadFailsFacts DEF Changing, Becomes, After, Dropped
  <2>3. \A q \in Procs : q # p => ~Changing(q)'
    <3> SUFFICES ASSUME NEW q \in Procs, q # p PROVE ~Changing(q)'
      OBVIOUS
    <3>1. aim[q] \notin JobAims
      BY <1>21, LoadFailsFacts, Renamers DEF JobInv, Making, Before
    <3>2. pc[q] \notin Renaming
      BY <3>1, Renamers
    <3>3. pc'[q] \notin Renaming
      BY <1>21, <3>2, LoadFailsFacts DEF Others
    <3> QED
      BY <3>3, PlaceNames DEF Changing, After, Dropped
  <2> QED
    BY <2>2, <2>3 DEF SameChanging
<1>22. ASSUME NEW p \in Procs, LoadDies(p) PROVE MetAll \/ SameChanging
  <2>1. \A q \in Procs : q # p => ~Changing(q)
    BY <1>22, LoadDiesFacts, Renamers, PlaceNames DEF JobInv, Making, Before, Changing,
       After, Dropped
  <2>2. ~Changing(p)'
    BY <1>22, LoadDiesFacts DEF Changing, Becomes, After, Dropped
  <2>3. \A q \in Procs : q # p => ~Changing(q)'
    <3> SUFFICES ASSUME NEW q \in Procs, q # p PROVE ~Changing(q)'
      OBVIOUS
    <3>1. aim[q] \notin JobAims
      BY <1>22, LoadDiesFacts, Renamers DEF JobInv, Making, Before
    <3>2. pc[q] \notin Renaming
      BY <3>1, Renamers
    <3>3. pc'[q] \notin Renaming
      BY <1>22, <3>2, LoadDiesFacts DEF Others
    <3> QED
      BY <3>3, PlaceNames DEF Changing, After, Dropped
  <2> QED
    BY <2>2, <2>3 DEF SameChanging
<1>23. ASSUME NEW p \in Procs, UnloadStart(p) PROVE MetAll \/ SameChanging
  <2>1. \A n \in Nodes : Data(n) # 0 => Data(n)' = Data(n)
    BY <1>23, UnloadStartFacts DEF Data
  <2>2. \A q \in Procs : q # p => (MovesAway(q)' <=> MovesAway(q))
    <3> SUFFICES ASSUME NEW q \in Procs, q # p PROVE MovesAway(q)' <=> MovesAway(q)
      OBVIOUS
    <3>1. Index(q)' = Index(q) /\ durable' = durable /\ new'[q] = new[q]
      BY <1>23, UnloadStartFacts DEF Index, Others
    <3> QED
      BY <2>1, <3>1, MovesFrame
  <2>3. \A q \in Procs : q # p => (Changing(q)' => Changing(q))
    BY <1>23, <2>2, UnloadStartFacts DEF Changing, Others
  <2>4. ~Changing(p)' \/ Changing(p)
    BY <1>23, UnloadStartFacts DEF Changing, Becomes, Ended, Locked, Attaching, After,
       Dropped, PlaceInv, PlaceOk
  <2> QED
    BY <2>3, <2>4 DEF SameChanging
<1>24. ASSUME NEW p \in Procs, Drop(p) PROVE MetAll \/ SameChanging
  BY <1>24, DropFacts, PlaceNames DEF MetAll, Disturbs, Others, Becomes, Opening
<1>25. ASSUME NEW p \in Procs, MarkDeleted(p) PROVE MetAll \/ SameChanging
  <2>1. \A n \in Nodes : Data(n) # 0 => Data(n)' = Data(n)
    BY <1>25, MarkDeletedFacts DEF Data
  <2>2. \A q \in Procs : q # p => (MovesAway(q)' <=> MovesAway(q))
    <3> SUFFICES ASSUME NEW q \in Procs, q # p PROVE MovesAway(q)' <=> MovesAway(q)
      OBVIOUS
    <3>1. Index(q)' = Index(q) /\ durable' = durable /\ new'[q] = new[q]
      BY <1>25, MarkDeletedFacts DEF Index, Others
    <3> QED
      BY <2>1, <3>1, MovesFrame
  <2>3. \A q \in Procs : q # p => (Changing(q)' => Changing(q))
    BY <1>25, <2>2, MarkDeletedFacts DEF Changing, Others
  <2>4. ~Changing(p)' \/ Changing(p)
    BY <1>25, MarkDeletedFacts DEF Changing, Becomes, Ended, Locked, Attaching, After,
       Dropped, PlaceInv, PlaceOk
  <2> QED
    BY <2>3, <2>4 DEF SameChanging
<1>26. CASE UNCHANGED vars
  BY <1>26 DEF vars, SameChanging, Changing, MovesAway, Index, Lasts
<1> QED
  BY <1>1, <1>2, <1>3, <1>4, <1>5, <1>6, <1>7, <1>8, <1>9, <1>10, <1>11, <1>12, <1>13,
     <1>14, <1>15, <1>16, <1>17, <1>18, <1>19, <1>20, <1>21, <1>22, <1>23, <1>24, <1>25,
     <1>26 DEF Next, Steps, Starts, Links, Calls, Creates, Unloads

\* Which share those have who link.
LEMMA OpenStep ==
  ASSUME TypeOK, PlaceInv, JobInv, LockInv, FileInv, FillInv, ShareInv, ToldInv, OpenInv, [Next]_vars
  PROVE  OpenInv'
<1>1. ASSUME NEW p \in Procs, LinkStart(p) PROVE OpenInv'
  <2>1. /\ \A o \in Procs : pc'[o] \in Opened =>
          pc[o] \in Opened /\ Share(o)' = Share(o)
        /\ Cur' = Cur
    BY <1>1, LinkStartFacts, PartNames DEF Others, Share, Becomes, Ended, NameMoves,
       Opened, Opening, Attaching, Locked, Cur, Gives
  <2>2. \A q \in Procs : aim'[q] \in JobAims =>
          /\ aim[q] \in JobAims /\ (pc'[q] \in Dropped => pc[q] \in Dropped) /\ Index(q)' = Index(q)
          /\ pc[q] \in After \cup Dropped \cup {"finish"} => pc'[q] \in After \cup Dropped \cup {"finish"}
    BY <1>1, LinkStartFacts DEF Becomes, Ended, Others, JobAims, After, Dropped, Locked,
       Attaching, Index, PlaceInv, PlaceOk
  <2>a. OpenJob'
    <3> HIDE DEF Cur, Share, Index
    <3> QED
      BY <2>1, <2>2 DEF OpenInv, OpenJob
  <2>b. OpenLate'
    <3> HIDE DEF Cur, Share
    <3> QED
      BY <2>1 DEF OpenInv, OpenLate
  <2>c. OpenUnmet'
    <3>1. MetAll \/ SameChanging
      BY ChangingStep
    <3>2. ASSUME NEW o \in Procs, pc'[o] \in Opening, ~met'[o]
          PROVE  \/ pc[o] \in Opening /\ ~met[o]
                 \/ o = p /\ pc'[p] \notin Opened /\ \A q \in Procs : q # p => pc[q] \notin Renaming
      BY <1>1, <3>2, LinkStartFacts, PlaceNames DEF Others, Becomes, Ended, Marked,
         Forgets, Opening, Opened
    <3> HIDE DEF Changing, Cur, Share
    <3>3. (\A q \in Procs : q # p =>
            pc[q] \notin Renaming) => \A q \in Procs : ~Changing(q)
      BY <1>1, LinkStartFacts, Renamers, PlaceNames
    <3> QED
      BY <2>1, <3>1, <3>2, <3>3 DEF OpenInv, OpenUnmet, SameChanging, MetAll, Opened
  <2> QED
    BY <2>a, <2>b, <2>c DEF OpenInv
<1>2. ASSUME NEW p \in Procs, OpenIndex(p) PROVE OpenInv'
  <2>1. \A o \in Procs : o # p =>
          Share(o)' = Share(o) /\ (pc'[o] \in Opened => pc[o] \in Opened /\ Share(o) # 0)
    BY <1>2, OpenIndexFacts, InNodes DEF Others, Share
  <2>2. Share(p)' = Cur' /\ (Cur' = Cur \/ Cur = 0)
    BY <1>2, OpenIndexFacts DEF Share, Cur, Gives
  <2>3. \A q \in Procs : aim'[q] = aim[q] /\ Index(q)' = Index(q) /\ pc'[p] = "flock"
          /\ (pc'[q] = pc[q] \/ q = p)
    BY <1>2, OpenIndexFacts DEF Others, Becomes, Index
  <2>4. pc[p] = "open" /\ met' = met /\ pc'[p] \in Opening
    BY <1>2, OpenIndexFacts DEF Becomes, Opening
  <2>a. OpenJob'
    <3>1. ASSUME NEW q \in Procs, NEW o \in Procs, pc'[o] \in Opened, aim'[q] \in JobAims
        PROVE  /\ pc'[q] \notin After \cup Dropped \cup {"finish"} => Share(o)' = Cur'
               /\ pc'[q] \in Dropped => Share(o)' \in {Cur', Index(q)'}
      <4>1. CASE o = p
        BY <2>2, <4>1
      <4>2. CASE o # p
        <5>1. /\ pc[q] \notin After \cup Dropped \cup {"finish"} => Share(o) = Cur
              /\ pc[q] \in Dropped => Share(o) \in {Cur, Index(q)}
          BY <2>1, <2>3, <3>1, <4>2 DEF OpenInv, OpenJob
        <5>2. /\ pc'[q] \notin After \cup Dropped \cup {"finish"} =>
                pc[q] \notin After \cup Dropped \cup {"finish"}
              /\ pc'[q] \in Dropped => pc[q] \in Dropped
          BY <2>3, <2>4 DEF After, Dropped
        <5> HIDE DEF Cur, Share, Index
        <5> QED
          BY <2>1, <2>2, <2>3, <3>1, <4>2, <5>1, <5>2
      <4> QED
        BY <4>1, <4>2
    <3> QED
      BY <3>1 DEF OpenJob
  <2>b. OpenLate'
    <3> HIDE DEF Cur, Share
    <3>0. SUFFICES ASSUME NEW o \in Procs, NEW q \in Procs, pc'[o] \in Opened, pc'[q] \in Opened,
                          Share(o)' # Cur', Share(q)' # Cur'
                   PROVE  Share(o)' = Share(q)'
      BY DEF OpenLate
    <3>1. o # p /\ q # p
      BY <2>2, <3>0
    <3>2. CASE Cur' = Cur
      BY <2>1, <3>0, <3>1, <3>2 DEF OpenInv, OpenLate
    <3>3. CASE Cur = 0
      BY <2>1, <3>0, <3>1, <3>3 DEF OpenInv, OpenLate
    <3> QED
      BY <2>2, <3>2, <3>3
  <2>c. OpenUnmet'
    <3>1. MetAll \/ SameChanging
      BY ChangingStep
    <3>2. ASSUME NEW o \in Procs, pc'[o] \in Opening, ~met'[o]
          PROVE  pc[o] \in Opening /\ ~met[o]
      BY <2>3, <2>4, <3>2 DEF Opening
    <3>3. ASSUME NEW o \in Procs, pc'[o] \in Opened, ~met'[o]
          PROVE  Share(o)' = Cur'
      <4>1. pc'[o] \in Opening
        BY <3>3 DEF Opened
      <4>2. o # p => pc[o] \in Opened /\ Share(o) = Cur
        BY <2>1, <3>3, <3>2, <4>1 DEF OpenInv, OpenUnmet
      <4> QED
        BY <2>1, <2>2, <3>3, <4>2
    <3> HIDE DEF Changing
    <3> QED
      BY <3>1, <3>2, <3>3 DEF OpenInv, OpenUnmet, SameChanging, MetAll, Opened
  <2> QED
    BY <2>a, <2>b, <2>c DEF OpenInv
<1>3. ASSUME NEW p \in Procs, LockIndex(p) PROVE OpenInv'
  <2>1. /\ \A o \in Procs : pc'[o] \in Opened =>
          pc[o] \in Opened /\ Share(o)' = Share(o)
        /\ Cur' = Cur
    BY <1>3, LockIndexFacts, PartNames DEF Others, Share, Becomes, Ended, NameMoves,
       Opened, Opening, Attaching, Locked, Cur, Gives
  <2>2. \A q \in Procs : aim'[q] \in JobAims =>
          /\ aim[q] \in JobAims /\ (pc'[q] \in Dropped => pc[q] \in Dropped) /\ Index(q)' = Index(q)
          /\ pc[q] \in After \cup Dropped \cup {"finish"} => pc'[q] \in After \cup Dropped \cup {"finish"}
    BY <1>3, LockIndexFacts DEF Becomes, Ended, Others, JobAims, After, Dropped, Locked,
       Attaching, Index, PlaceInv, PlaceOk
  <2>a. OpenJob'
    <3> HIDE DEF Cur, Share, Index
    <3> QED
      BY <2>1, <2>2 DEF OpenInv, OpenJob
  <2>b. OpenLate'
    <3> HIDE DEF Cur, Share
    <3> QED
      BY <2>1 DEF OpenInv, OpenLate
  <2>c. OpenUnmet'
    <3>1. MetAll \/ SameChanging
      BY ChangingStep
    <3>2. ASSUME NEW o \in Procs, pc'[o] \in Opening, ~met'[o]
          PROVE  pc[o] \in Opening /\ ~met[o]
      BY <1>3, <3>2, LockIndexFacts, PlaceNames DEF Others, Becomes, Ended, Marked,
         Forgets, Opening, Attaching, Locked
    <3> HIDE DEF Changing, Cur, Share
    <3> QED
      BY <2>1, <3>1, <3>2 DEF OpenInv, OpenUnmet, SameChanging, MetAll, Opened
  <2> QED
    BY <2>a, <2>b, <2>c DEF OpenInv
<1>4. ASSUME NEW p \in Procs, Attach(p) PROVE OpenInv'
  <2>1. /\ \A o \in Procs : pc'[o] \in Opened =>
          pc[o] \in Opened /\ Share(o)' = Share(o)
        /\ Cur' = Cur
    BY <1>4, AttachFacts, PartNames DEF Others, Share, Becomes, Ended, NameMoves,
       Opened, Opening, Attaching, Locked, Cur, Gives
  <2>2. \A q \in Procs : aim'[q] \in JobAims =>
          /\ aim[q] \in JobAims /\ (pc'[q] \in Dropped => pc[q] \in Dropped) /\ (pc'[q] \in Dropped => Index(q)' = Index(q))
          /\ pc[q] \in After \cup Dropped \cup {"finish"} => pc'[q] \in After \cup Dropped \cup {"finish"}
    BY <1>4, AttachFacts DEF Becomes, Ended, Others, JobAims, After, Dropped, Locked,
       Attaching, Index, PlaceInv, PlaceOk
  <2>a. OpenJob'
    <3> HIDE DEF Cur, Share, Index
    <3> QED
      BY <2>1, <2>2 DEF OpenInv, OpenJob
  <2>b. OpenLate'
    <3> HIDE DEF Cur, Share
    <3> QED
      BY <2>1 DEF OpenInv, OpenLate
  <2>c. OpenUnmet'
    <3>1. MetAll \/ SameChanging
      BY ChangingStep
    <3>2. ASSUME NEW o \in Procs, pc'[o] \in Opening, ~met'[o]
          PROVE  pc[o] \in Opening /\ ~met[o]
      BY <1>4, <3>2, AttachFacts, PlaceNames DEF Others, Becomes, Ended, Marked,
         Forgets, Opening, Attaching, Locked
    <3> HIDE DEF Changing, Cur, Share
    <3> QED
      BY <2>1, <3>1, <3>2 DEF OpenInv, OpenUnmet, SameChanging, MetAll, Opened
  <2> QED
    BY <2>a, <2>b, <2>c DEF OpenInv
<1>5. ASSUME NEW p \in Procs, FillIndex(p) PROVE OpenInv'
  <2>1. /\ \A o \in Procs : pc'[o] \in Opened =>
          pc[o] \in Opened /\ Share(o)' = Share(o)
        /\ Cur' = Cur
    BY <1>5, FillIndexFacts, PartNames DEF Others, Share, Becomes, Ended, NameMoves,
       Opened, Opening, Attaching, Locked, Cur, Gives
  <2>2. \A q \in Procs : aim'[q] \in JobAims =>
          /\ aim[q] \in JobAims /\ (pc'[q] \in Dropped => pc[q] \in Dropped) /\ Index(q)' = Index(q)
          /\ pc[q] \in After \cup Dropped \cup {"finish"} => pc'[q] \in After \cup Dropped \cup {"finish"}
    BY <1>5, FillIndexFacts DEF Becomes, Ended, Others, JobAims, After, Dropped, Locked,
       Attaching, Index, PlaceInv, PlaceOk
  <2>a. OpenJob'
    <3> HIDE DEF Cur, Share, Index
    <3> QED
      BY <2>1, <2>2 DEF OpenInv, OpenJob
  <2>b. OpenLate'
    <3> HIDE DEF Cur, Share
    <3> QED
      BY <2>1 DEF OpenInv, OpenLate
  <2>c. OpenUnmet'
    <3>1. MetAll \/ SameChanging
      BY ChangingStep
    <3>2. ASSUME NEW o \in Procs, pc'[o] \in Opening, ~met'[o]
          PROVE  pc[o] \in Opening /\ ~met[o]
      BY <1>5, <3>2, FillIndexFacts, PlaceNames DEF Others, Becomes, Ended, Marked,
         Forgets, Opening, Attaching, Locked
    <3> HIDE DEF Changing, Cur, Share
    <3> QED
      BY <2>1, <3>1, <3>2 DEF OpenInv, OpenUnmet, SameChanging, MetAll, Opened
  <2> QED
    BY <2>a, <2>b, <2>c DEF OpenInv
<1>6. ASSUME NEW p \in Procs, FillPages(p) PROVE OpenInv'
  <2>1. /\ \A o \in Procs : pc'[o] \in Opened =>
          pc[o] \in Opened /\ Share(o)' = Share(o)
        /\ Cur' = Cur
    BY <1>6, FillPagesFacts, PartNames DEF Others, Share, Becomes, Ended, NameMoves,
       Opened, Opening, Attaching, Locked, Cur, Gives
  <2>2. \A q \in Procs : aim'[q] \in JobAims =>
          /\ aim[q] \in JobAims /\ (pc'[q] \in Dropped => pc[q] \in Dropped) /\ Index(q)' = Index(q)
          /\ pc[q] \in After \cup Dropped \cup {"finish"} => pc'[q] \in After \cup Dropped \cup {"finish"}
    BY <1>6, FillPagesFacts DEF Becomes, Ended, Others, JobAims, After, Dropped, Locked,
       Attaching, Index, PlaceInv, PlaceOk
  <2>a. OpenJob'
    <3> HIDE DEF Cur, Share, Index
    <3> QED
      BY <2>1, <2>2 DEF OpenInv, OpenJob
  <2>b. OpenLate'
    <3> HIDE DEF Cur, Share
    <3> QED
      BY <2>1 DEF OpenInv, OpenLate
  <2>c. OpenUnmet'
    <3>1. MetAll \/ SameChanging
      BY ChangingStep
    <3>2. ASSUME NEW o \in Procs, pc'[o] \in Opening, ~met'[o]
          PROVE  pc[o] \in Opening /\ ~met[o]
      BY <1>6, <3>2, FillPagesFacts, PlaceNames DEF Others, Becomes, Ended, Marked,
         Forgets, Opening, Attaching, Locked
    <3> HIDE DEF Changing, Cur, Share
    <3> QED
      BY <2>1, <3>1, <3>2 DEF OpenInv, OpenUnmet, SameChanging, MetAll, Opened
  <2> QED
    BY <2>a, <2>b, <2>c DEF OpenInv
<1>7. ASSUME NEW p \in Procs, FillPagesFile(p) PROVE OpenInv'
  <2>1. /\ \A o \in Procs : pc'[o] \in Opened =>
          pc[o] \in Opened /\ Share(o)' = Share(o)
        /\ Cur' = Cur
    BY <1>7, FillPagesFileFacts, PartNames DEF Others, Share, Becomes, Ended, NameMoves,
       Opened, Opening, Attaching, Locked, Cur, Gives
  <2>2. \A q \in Procs : aim'[q] \in JobAims =>
          /\ aim[q] \in JobAims /\ (pc'[q] \in Dropped => pc[q] \in Dropped) /\ (pc'[q] \in Dropped => Index(q)' = Index(q))
          /\ pc[q] \in After \cup Dropped \cup {"finish"} => pc'[q] \in After \cup Dropped \cup {"finish"}
    BY <1>7, FillPagesFileFacts DEF Becomes, Ended, Others, JobAims, After, Dropped,
       Locked, Attaching, Index, PlaceInv, PlaceOk
  <2>a. OpenJob'
    <3> HIDE DEF Cur, Share, Index
    <3> QED
      BY <2>1, <2>2 DEF OpenInv, OpenJob
  <2>b. OpenLate'
    <3> HIDE DEF Cur, Share
    <3> QED
      BY <2>1 DEF OpenInv, OpenLate
  <2>c. OpenUnmet'
    <3>1. MetAll \/ SameChanging
      BY ChangingStep
    <3>2. ASSUME NEW o \in Procs, pc'[o] \in Opening, ~met'[o]
          PROVE  pc[o] \in Opening /\ ~met[o]
      BY <1>7, <3>2, FillPagesFileFacts, PlaceNames DEF Others, Becomes, Ended, Marked,
         Forgets, Opening, Attaching, Locked
    <3> HIDE DEF Changing, Cur, Share
    <3> QED
      BY <2>1, <3>1, <3>2 DEF OpenInv, OpenUnmet, SameChanging, MetAll, Opened
  <2> QED
    BY <2>a, <2>b, <2>c DEF OpenInv
<1>8. ASSUME NEW p \in Procs, CallStart(p) PROVE OpenInv'
  <2>1. /\ \A o \in Procs : pc'[o] \in Opened =>
          pc[o] \in Opened /\ Share(o)' = Share(o)
        /\ Cur' = Cur
    BY <1>8, CallStartFacts, PartNames DEF Others, Share, Becomes, Ended, NameMoves,
       Opened, Opening, Attaching, Locked, Cur, Gives
  <2>2. \A q \in Procs : aim'[q] \in JobAims =>
          /\ aim[q] \in JobAims /\ (pc'[q] \in Dropped => pc[q] \in Dropped) /\ Index(q)' = Index(q)
          /\ pc[q] \in After \cup Dropped \cup {"finish"} => pc'[q] \in After \cup Dropped \cup {"finish"}
    BY <1>8, CallStartFacts DEF Becomes, Ended, Others, JobAims, After, Dropped, Locked,
       Attaching, Index, PlaceInv, PlaceOk
  <2>a. OpenJob'
    <3> HIDE DEF Cur, Share, Index
    <3> QED
      BY <2>1, <2>2 DEF OpenInv, OpenJob
  <2>b. OpenLate'
    <3> HIDE DEF Cur, Share
    <3> QED
      BY <2>1 DEF OpenInv, OpenLate
  <2>c. OpenUnmet'
    <3>1. MetAll \/ SameChanging
      BY ChangingStep
    <3>2. ASSUME NEW o \in Procs, pc'[o] \in Opening, ~met'[o]
          PROVE  pc[o] \in Opening /\ ~met[o]
      BY <1>8, <3>2, CallStartFacts, PlaceNames DEF Others, Becomes, Ended, Marked,
         Forgets, Opening, Attaching, Locked
    <3> HIDE DEF Changing, Cur, Share
    <3> QED
      BY <2>1, <3>1, <3>2 DEF OpenInv, OpenUnmet, SameChanging, MetAll, Opened
  <2> QED
    BY <2>a, <2>b, <2>c DEF OpenInv
<1>9. ASSUME NEW p \in Procs, CheckBad(p) PROVE OpenInv'
  <2>1. /\ \A o \in Procs : pc'[o] \in Opened =>
          pc[o] \in Opened /\ Share(o)' = Share(o)
        /\ Cur' = Cur
    BY <1>9, CheckBadFacts, PartNames DEF Others, Share, Becomes, Ended, NameMoves,
       Opened, Opening, Attaching, Locked, Cur, Gives
  <2>2. \A q \in Procs : aim'[q] \in JobAims =>
          /\ aim[q] \in JobAims /\ (pc'[q] \in Dropped => pc[q] \in Dropped) /\ Index(q)' = Index(q)
          /\ pc[q] \in After \cup Dropped \cup {"finish"} => pc'[q] \in After \cup Dropped \cup {"finish"}
    BY <1>9, CheckBadFacts DEF Becomes, Ended, Others, JobAims, After, Dropped, Locked,
       Attaching, Index, PlaceInv, PlaceOk
  <2>a. OpenJob'
    <3> HIDE DEF Cur, Share, Index
    <3> QED
      BY <2>1, <2>2 DEF OpenInv, OpenJob
  <2>b. OpenLate'
    <3> HIDE DEF Cur, Share
    <3> QED
      BY <2>1 DEF OpenInv, OpenLate
  <2>c. OpenUnmet'
    <3>1. MetAll \/ SameChanging
      BY ChangingStep
    <3>2. ASSUME NEW o \in Procs, pc'[o] \in Opening, ~met'[o]
          PROVE  \/ pc[o] \in Opening /\ ~met[o]
                 \/ o = p /\ pc'[p] \notin Opened /\ \A q \in Procs : q # p => pc[q] \notin Renaming
      BY <1>9, <3>2, CheckBadFacts, PlaceNames DEF Others, Becomes, Ended, Marked,
         Forgets, Opening, Opened
    <3> HIDE DEF Changing, Cur, Share
    <3>3. (\A q \in Procs : q # p =>
            pc[q] \notin Renaming) => \A q \in Procs : ~Changing(q)
      BY <1>9, CheckBadFacts, Renamers, PlaceNames
    <3> QED
      BY <2>1, <3>1, <3>2, <3>3 DEF OpenInv, OpenUnmet, SameChanging, MetAll, Opened
  <2> QED
    BY <2>a, <2>b, <2>c DEF OpenInv
<1>10. ASSUME NEW p \in Procs, MutexLock(p) PROVE OpenInv'
  <2>1. /\ \A o \in Procs : pc'[o] \in Opened =>
          pc[o] \in Opened /\ Share(o)' = Share(o)
        /\ Cur' = Cur
    BY <1>10, MutexLockFacts, PartNames DEF Others, Share, Becomes, Ended, NameMoves,
       Opened, Opening, Attaching, Locked, Cur, Gives
  <2>2. \A q \in Procs : aim'[q] \in JobAims =>
          /\ aim[q] \in JobAims /\ (pc'[q] \in Dropped => pc[q] \in Dropped) /\ Index(q)' = Index(q)
          /\ pc[q] \in After \cup Dropped \cup {"finish"} => pc'[q] \in After \cup Dropped \cup {"finish"}
    BY <1>10, MutexLockFacts DEF Becomes, Ended, Others, JobAims, After, Dropped,
       Locked, Attaching, Index, PlaceInv, PlaceOk
  <2>a. OpenJob'
    <3> HIDE DEF Cur, Share, Index
    <3> QED
      BY <2>1, <2>2 DEF OpenInv, OpenJob
  <2>b. OpenLate'
    <3> HIDE DEF Cur, Share
    <3> QED
      BY <2>1 DEF OpenInv, OpenLate
  <2>c. OpenUnmet'
    <3>1. MetAll \/ SameChanging
      BY ChangingStep
    <3>2. ASSUME NEW o \in Procs, pc'[o] \in Opening, ~met'[o]
          PROVE  pc[o] \in Opening /\ ~met[o]
      BY <1>10, <3>2, MutexLockFacts, PlaceNames DEF Others, Becomes, Ended, Marked,
         Forgets, Opening, Attaching, Locked
    <3> HIDE DEF Changing, Cur, Share
    <3> QED
      BY <2>1, <3>1, <3>2 DEF OpenInv, OpenUnmet, SameChanging, MetAll, Opened
  <2> QED
    BY <2>a, <2>b, <2>c DEF OpenInv
<1>11. ASSUME NEW p \in Procs, CallEnd(p) PROVE OpenInv'
  <2>1. /\ \A o \in Procs : pc'[o] \in Opened =>
          pc[o] \in Opened /\ Share(o)' = Share(o)
        /\ Cur' = Cur
    BY <1>11, CallEndFacts, PartNames DEF Others, Share, Becomes, Ended, NameMoves,
       Opened, Opening, Attaching, Locked, Cur, Gives
  <2>2. \A q \in Procs : aim'[q] \in JobAims =>
          /\ aim[q] \in JobAims /\ (pc'[q] \in Dropped => pc[q] \in Dropped) /\ Index(q)' = Index(q)
          /\ pc[q] \in After \cup Dropped \cup {"finish"} => pc'[q] \in After \cup Dropped \cup {"finish"}
    BY <1>11, CallEndFacts DEF Becomes, Ended, Others, JobAims, After, Dropped, Locked,
       Attaching, Index, PlaceInv, PlaceOk
  <2>a. OpenJob'
    <3> HIDE DEF Cur, Share, Index
    <3> QED
      BY <2>1, <2>2 DEF OpenInv, OpenJob
  <2>b. OpenLate'
    <3> HIDE DEF Cur, Share
    <3> QED
      BY <2>1 DEF OpenInv, OpenLate
  <2>c. OpenUnmet'
    <3>1. MetAll \/ SameChanging
      BY ChangingStep
    <3>2. ASSUME NEW o \in Procs, pc'[o] \in Opening, ~met'[o]
          PROVE  pc[o] \in Opening /\ ~met[o]
      BY <1>11, <3>2, CallEndFacts, PlaceNames DEF Others, Becomes, Ended, Marked,
         Forgets, Opening, Attaching, Locked
    <3> HIDE DEF Changing, Cur, Share
    <3> QED
      BY <2>1, <3>1, <3>2 DEF OpenInv, OpenUnmet, SameChanging, MetAll, Opened
  <2> QED
    BY <2>a, <2>b, <2>c DEF OpenInv
<1>12. ASSUME NEW p \in Procs, Unlink(p) PROVE OpenInv'
  <2>1. /\ \A o \in Procs : pc'[o] \in Opened =>
          pc[o] \in Opened /\ Share(o)' = Share(o)
        /\ Cur' = Cur
    BY <1>12, UnlinkFacts, PartNames DEF Others, Share, Becomes, Ended, NameMoves,
       Opened, Opening, Attaching, Locked, Cur, Gives
  <2>2. \A q \in Procs : aim'[q] \in JobAims =>
          /\ aim[q] \in JobAims /\ (pc'[q] \in Dropped => pc[q] \in Dropped) /\ Index(q)' = Index(q)
          /\ pc[q] \in After \cup Dropped \cup {"finish"} => pc'[q] \in After \cup Dropped \cup {"finish"}
    BY <1>12, UnlinkFacts DEF Becomes, Ended, Others, JobAims, After, Dropped, Locked,
       Attaching, Index, PlaceInv, PlaceOk
  <2>a. OpenJob'
    <3> HIDE DEF Cur, Share, Index
    <3> QED
      BY <2>1, <2>2 DEF OpenInv, OpenJob
  <2>b. OpenLate'
    <3> HIDE DEF Cur, Share
    <3> QED
      BY <2>1 DEF OpenInv, OpenLate
  <2>c. OpenUnmet'
    <3>1. MetAll \/ SameChanging
      BY ChangingStep
    <3>2. ASSUME NEW o \in Procs, pc'[o] \in Opening, ~met'[o]
          PROVE  pc[o] \in Opening /\ ~met[o]
      BY <1>12, <3>2, UnlinkFacts, PlaceNames DEF Others, Becomes, Ended, Marked,
         Forgets, Opening, Attaching, Locked
    <3> HIDE DEF Changing, Cur, Share
    <3> QED
      BY <2>1, <3>1, <3>2 DEF OpenInv, OpenUnmet, SameChanging, MetAll, Opened
  <2> QED
    BY <2>a, <2>b, <2>c DEF OpenInv
<1>13. ASSUME NEW p \in Procs, CreateStart(p) PROVE OpenInv'
  <2>1. /\ \A o \in Procs : pc'[o] \in Opened =>
          pc[o] \in Opened /\ Share(o)' = Share(o)
        /\ Cur' = Cur
    BY <1>13, CreateStartFacts, PartNames DEF Others, Share, Becomes, Ended, NameMoves,
       Opened, Opening, Attaching, Locked, Cur, Gives
  <2>2. \A o \in Procs : pc[o] \in Opened => Share(o) = Cur
    BY <1>13, CreateStartFacts DEF OpenInv, OpenUnmet, Opened, Opening
  <2>3. \A q \in Procs : aim'[q] \in JobAims => pc'[q] \notin Dropped
    BY <1>13, CreateStartFacts DEF Becomes, Others, JobAims, Dropped
  <2>a. OpenJob'
    BY <2>1, <2>2, <2>3 DEF OpenJob
  <2>b. OpenLate'
    <3> HIDE DEF Cur, Share
    <3> QED
      BY <2>1 DEF OpenInv, OpenLate
  <2>c. OpenUnmet'
    <3>1. MetAll \/ SameChanging
      BY ChangingStep
    <3>2. ASSUME NEW o \in Procs, pc'[o] \in Opening, ~met'[o]
          PROVE  \/ pc[o] \in Opening /\ ~met[o]
                 \/ o = p /\ pc'[p] \notin Opened /\ \A q \in Procs : q # p => pc[q] \notin Renaming
      BY <1>13, <3>2, CreateStartFacts, PlaceNames DEF Others, Becomes, Ended, Marked,
         Forgets, Opening, Opened
    <3> HIDE DEF Changing, Cur, Share
    <3>3. (\A q \in Procs : q # p =>
            pc[q] \notin Renaming) => \A q \in Procs : ~Changing(q)
      BY <1>13, CreateStartFacts, Renamers, PlaceNames
    <3> QED
      BY <2>1, <3>1, <3>2, <3>3 DEF OpenInv, OpenUnmet, SameChanging, MetAll, Opened
  <2> QED
    BY <2>a, <2>b, <2>c DEF OpenInv
<1>14. ASSUME NEW p \in Procs, CreateParts(p) PROVE OpenInv'
  <2>1. /\ \A o \in Procs : pc'[o] \in Opened =>
          pc[o] \in Opened /\ Share(o)' = Share(o)
        /\ Cur' = Cur
    BY <1>14, CreatePartsFacts, PartNames DEF Others, Share, Becomes, Ended, NameMoves,
       Opened, Opening, Attaching, Locked, Cur, Gives
  <2>2. \A q \in Procs : aim'[q] \in JobAims =>
          /\ aim[q] \in JobAims /\ (pc'[q] \in Dropped => pc[q] \in Dropped) /\ Index(q)' = Index(q)
          /\ pc[q] \in After \cup Dropped \cup {"finish"} => pc'[q] \in After \cup Dropped \cup {"finish"}
    BY <1>14, CreatePartsFacts DEF Becomes, Ended, Others, JobAims, After, Dropped,
       Locked, Attaching, Index, PlaceInv, PlaceOk
  <2>a. OpenJob'
    <3> HIDE DEF Cur, Share, Index
    <3> QED
      BY <2>1, <2>2 DEF OpenInv, OpenJob
  <2>b. OpenLate'
    <3> HIDE DEF Cur, Share
    <3> QED
      BY <2>1 DEF OpenInv, OpenLate
  <2>c. OpenUnmet'
    <3>1. MetAll \/ SameChanging
      BY ChangingStep
    <3>2. ASSUME NEW o \in Procs, pc'[o] \in Opening, ~met'[o]
          PROVE  pc[o] \in Opening /\ ~met[o]
      BY <1>14, <3>2, CreatePartsFacts, PlaceNames DEF Others, Becomes, Ended, Marked,
         Forgets, Opening, Attaching, Locked
    <3> HIDE DEF Changing, Cur, Share
    <3> QED
      BY <2>1, <3>1, <3>2 DEF OpenInv, OpenUnmet, SameChanging, MetAll, Opened
  <2> QED
    BY <2>a, <2>b, <2>c DEF OpenInv
<1>15. ASSUME NEW p \in Procs, CreateRefused(p) PROVE OpenInv'
  <2>1. /\ \A o \in Procs : pc'[o] \in Opened =>
          pc[o] \in Opened /\ Share(o)' = Share(o)
        /\ Cur' = Cur
    BY <1>15, CreateRefusedFacts, PartNames DEF Others, Share, Becomes, Ended,
       NameMoves, Opened, Opening, Attaching, Locked, Cur, Gives
  <2>2. \A q \in Procs : aim'[q] \in JobAims =>
          /\ aim[q] \in JobAims /\ (pc'[q] \in Dropped => pc[q] \in Dropped) /\ Index(q)' = Index(q)
          /\ pc[q] \in After \cup Dropped \cup {"finish"} => pc'[q] \in After \cup Dropped \cup {"finish"}
    BY <1>15, CreateRefusedFacts DEF Becomes, Ended, Others, JobAims, After, Dropped,
       Locked, Attaching, Index, PlaceInv, PlaceOk
  <2>a. OpenJob'
    <3> HIDE DEF Cur, Share, Index
    <3> QED
      BY <2>1, <2>2 DEF OpenInv, OpenJob
  <2>b. OpenLate'
    <3> HIDE DEF Cur, Share
    <3> QED
      BY <2>1 DEF OpenInv, OpenLate
  <2>c. OpenUnmet'
    <3>1. MetAll \/ SameChanging
      BY ChangingStep
    <3>2. ASSUME NEW o \in Procs, pc'[o] \in Opening, ~met'[o]
          PROVE  pc[o] \in Opening /\ ~met[o]
      BY <1>15, <3>2, CreateRefusedFacts, PlaceNames DEF Others, Becomes, Ended, Marked,
         Forgets, Opening, Attaching, Locked
    <3> HIDE DEF Changing, Cur, Share
    <3> QED
      BY <2>1, <3>1, <3>2 DEF OpenInv, OpenUnmet, SameChanging, MetAll, Opened
  <2> QED
    BY <2>a, <2>b, <2>c DEF OpenInv
<1>16. ASSUME NEW p \in Procs, LoadEnds(p) PROVE OpenInv'
  <2>1. /\ \A o \in Procs : pc'[o] \in Opened =>
          pc[o] \in Opened /\ Share(o)' = Share(o)
        /\ Cur' = Cur
    BY <1>16, LoadEndsFacts, PartNames DEF Others, Share, Becomes, Ended, NameMoves,
       Opened, Opening, Attaching, Locked, Cur, Gives
  <2>2. \A q \in Procs : aim'[q] \in JobAims =>
          /\ aim[q] \in JobAims /\ (pc'[q] \in Dropped => pc[q] \in Dropped) /\ Index(q)' = Index(q)
          /\ pc[q] \in After \cup Dropped \cup {"finish"} => pc'[q] \in After \cup Dropped \cup {"finish"}
    BY <1>16, LoadEndsFacts DEF Becomes, Ended, Others, JobAims, After, Dropped, Locked,
       Attaching, Index, PlaceInv, PlaceOk
  <2>a. OpenJob'
    <3> HIDE DEF Cur, Share, Index
    <3> QED
      BY <2>1, <2>2 DEF OpenInv, OpenJob
  <2>b. OpenLate'
    <3> HIDE DEF Cur, Share
    <3> QED
      BY <2>1 DEF OpenInv, OpenLate
  <2>c. OpenUnmet'
    <3>1. MetAll \/ SameChanging
      BY ChangingStep
    <3>2. ASSUME NEW o \in Procs, pc'[o] \in Opening, ~met'[o]
          PROVE  pc[o] \in Opening /\ ~met[o]
      BY <1>16, <3>2, LoadEndsFacts, PlaceNames DEF Others, Becomes, Ended, Marked,
         Forgets, Opening, Attaching, Locked
    <3> HIDE DEF Changing, Cur, Share
    <3> QED
      BY <2>1, <3>1, <3>2 DEF OpenInv, OpenUnmet, SameChanging, MetAll, Opened
  <2> QED
    BY <2>a, <2>b, <2>c DEF OpenInv
<1>17. ASSUME NEW p \in Procs, MoveAway(p) PROVE OpenInv'
  <2>1. /\ \A o \in Procs : pc'[o] \in Opened =>
          pc[o] \in Opened /\ Share(o)' = Share(o)
        /\ Cur' = Cur
    BY <1>17, MoveAwayFacts, PartNames DEF Others, Share, Becomes, Ended, NameMoves,
       Opened, Opening, Attaching, Locked, Cur, Gives
  <2>2. \A q \in Procs : aim'[q] \in JobAims =>
          /\ aim[q] \in JobAims /\ (pc'[q] \in Dropped => pc[q] \in Dropped) /\ Index(q)' = Index(q)
          /\ pc[q] \in After \cup Dropped \cup {"finish"} => pc'[q] \in After \cup Dropped \cup {"finish"}
    BY <1>17, MoveAwayFacts DEF Becomes, Ended, Others, JobAims, After, Dropped, Locked,
       Attaching, Index, PlaceInv, PlaceOk
  <2>a. OpenJob'
    <3> HIDE DEF Cur, Share, Index
    <3> QED
      BY <2>1, <2>2 DEF OpenInv, OpenJob
  <2>b. OpenLate'
    <3> HIDE DEF Cur, Share
    <3> QED
      BY <2>1 DEF OpenInv, OpenLate
  <2>c. OpenUnmet'
    BY <1>17, MoveAwayFacts, PlaceNames DEF OpenUnmet, Disturbs, Others, Becomes,
       Opening, Opened
  <2> QED
    BY <2>a, <2>b, <2>c DEF OpenInv
<1>18. ASSUME NEW p \in Procs, Rename(p) PROVE OpenInv'
  <2>1. \A o \in Procs : Share(o)' = Share(o) /\ (pc'[o] \in Opened => pc[o] \in Opened)
    BY <1>18, RenameFacts, PlaceNames DEF Others, Share, Becomes, Opened, Opening
  <2>2. /\ aim[p] \in JobAims /\ \A q \in Procs : q # p => aim'[q] \notin JobAims
        /\ aim'[p] = aim[p] /\ Index(p)' = Index(p)
    BY <1>18, RenameFacts, Renamers, PlaceNames DEF JobInv, Others, Becomes, Index
  <2>3. pc[p] # "move_index" => Cur' = Cur
    BY <1>18, RenameFacts, PartNames DEF NameMoves, Cur, Gives
  <2>4. \A o \in Procs : pc[p] = "move_index" /\ pc[o] \in Opened => Share(o) = Cur
    BY <2>2 DEF OpenInv, OpenJob, After, Dropped
  <2>a. OpenJob'
    <3>1. ASSUME NEW o \in Procs, pc'[o] \in Opened
        PROVE  /\ pc'[p] \notin After \cup Dropped \cup {"finish"} => Share(o)' = Cur'
               /\ pc'[p] \in Dropped => Share(o)' \in {Cur', Index(p)'}
      BY <1>18, <2>1, <2>2, <2>3, <2>4, <3>1, RenameFacts DEF OpenInv, OpenJob, Becomes,
         After, Dropped
    <3> QED
      BY <2>2, <3>1 DEF OpenJob
  <2>b. OpenLate'
    BY <2>1, <2>3, <2>4 DEF OpenInv, OpenLate
  <2>c. OpenUnmet'
    BY <1>18, RenameFacts, PlaceNames DEF OpenUnmet, Disturbs, Others, Becomes, Opening,
       Opened
  <2> QED
    BY <2>a, <2>b, <2>c DEF OpenInv
<1>19. ASSUME NEW p \in Procs, Retire(p) PROVE OpenInv'
  <2>1. /\ \A o \in Procs : pc'[o] \in Opened =>
          pc[o] \in Opened /\ Share(o)' = Share(o)
        /\ Cur' = Cur
    BY <1>19, RetireFacts, PartNames DEF Others, Share, Becomes, Ended, NameMoves,
       Opened, Opening, Attaching, Locked, Cur, Gives
  <2>2. \A q \in Procs : aim'[q] \in JobAims =>
          /\ aim[q] \in JobAims /\ (pc'[q] \in Dropped => pc[q] \in Dropped) /\ Index(q)' = Index(q)
          /\ pc[q] \in After \cup Dropped \cup {"finish"} => pc'[q] \in After \cup Dropped \cup {"finish"}
    BY <1>19, RetireFacts DEF Becomes, Ended, Others, JobAims, After, Dropped, Locked,
       Attaching, Index, PlaceInv, PlaceOk
  <2>a. OpenJob'
    <3> HIDE DEF Cur, Share, Index
    <3> QED
      BY <2>1, <2>2 DEF OpenInv, OpenJob
  <2>b. OpenLate'
    <3> HIDE DEF Cur, Share
    <3> QED
      BY <2>1 DEF OpenInv, OpenLate
  <2>c. OpenUnmet'
    <3>1. MetAll \/ SameChanging
      BY ChangingStep
    <3>2. ASSUME NEW o \in Procs, pc'[o] \in Opening, ~met'[o]
          PROVE  pc[o] \in Opening /\ ~met[o]
      BY <1>19, <3>2, RetireFacts, PlaceNames DEF Others, Becomes, Ended, Marked,
         Forgets, Opening, Attaching, Locked
    <3> HIDE DEF Changing, Cur, Share
    <3> QED
      BY <2>1, <3>1, <3>2 DEF OpenInv, OpenUnmet, SameChanging, MetAll, Opened
  <2> QED
    BY <2>a, <2>b, <2>c DEF OpenInv
<1>20. ASSUME NEW p \in Procs, Finish(p) PROVE OpenInv'
  <2>1. /\ \A o \in Procs : pc'[o] \in Opened =>
          pc[o] \in Opened /\ Share(o)' = Share(o)
        /\ Cur' = Cur
    BY <1>20, FinishFacts, PartNames DEF Others, Share, Becomes, Ended, NameMoves,
       Opened, Opening, Attaching, Locked, Cur, Gives
  <2>2. \A q \in Procs : aim'[q] \in JobAims =>
          /\ aim[q] \in JobAims /\ (pc'[q] \in Dropped => pc[q] \in Dropped) /\ Index(q)' = Index(q)
          /\ pc[q] \in After \cup Dropped \cup {"finish"} => pc'[q] \in After \cup Dropped \cup {"finish"}
    BY <1>20, FinishFacts DEF Becomes, Ended, Others, JobAims, After, Dropped, Locked,
       Attaching, Index, PlaceInv, PlaceOk
  <2>a. OpenJob'
    <3> HIDE DEF Cur, Share, Index
    <3> QED
      BY <2>1, <2>2 DEF OpenInv, OpenJob
  <2>b. OpenLate'
    <3> HIDE DEF Cur, Share
    <3> QED
      BY <2>1 DEF OpenInv, OpenLate
  <2>c. OpenUnmet'
    <3>1. MetAll \/ SameChanging
      BY ChangingStep
    <3>2. ASSUME NEW o \in Procs, pc'[o] \in Opening, ~met'[o]
          PROVE  pc[o] \in Opening /\ ~met[o]
      BY <1>20, <3>2, FinishFacts, PlaceNames DEF Others, Becomes, Ended, Marked,
         Forgets, Opening, Attaching, Locked
    <3> HIDE DEF Changing, Cur, Share
    <3> QED
      BY <2>1, <3>1, <3>2 DEF OpenInv, OpenUnmet, SameChanging, MetAll, Opened
  <2> QED
    BY <2>a, <2>b, <2>c DEF OpenInv
<1>21. ASSUME NEW p \in Procs, LoadFails(p) PROVE OpenInv'
  <2>1. /\ \A o \in Procs : pc'[o] \in Opened =>
          pc[o] \in Opened /\ Share(o)' = Share(o)
        /\ Cur' = Cur
    BY <1>21, LoadFailsFacts, PartNames DEF Others, Share, Becomes, Ended, NameMoves,
       Opened, Opening, Attaching, Locked, Cur, Gives
  <2>2. \A q \in Procs : aim'[q] \in JobAims =>
          /\ aim[q] \in JobAims /\ (pc'[q] \in Dropped => pc[q] \in Dropped) /\ Index(q)' = Index(q)
          /\ pc[q] \in After \cup Dropped \cup {"finish"} => pc'[q] \in After \cup Dropped \cup {"finish"}
    BY <1>21, LoadFailsFacts DEF Becomes, Ended, Others, JobAims, After, Dropped,
       Locked, Attaching, Index, PlaceInv, PlaceOk
  <2>a. OpenJob'
    <3> HIDE DEF Cur, Share, Index
    <3> QED
      BY <2>1, <2>2 DEF OpenInv, OpenJob
  <2>b. OpenLate'
    <3> HIDE DEF Cur, Share
    <3> QED
      BY <2>1 DEF OpenInv, OpenLate
  <2>c. OpenUnmet'
    <3>1. MetAll \/ SameChanging
      BY ChangingStep
    <3>2. ASSUME NEW o \in Procs, pc'[o] \in Opening, ~met'[o]
          PROVE  pc[o] \in Opening /\ ~met[o]
      BY <1>21, <3>2, LoadFailsFacts, PlaceNames DEF Others, Becomes, Ended, Marked,
         Forgets, Opening, Attaching, Locked
    <3> HIDE DEF Changing, Cur, Share
    <3> QED
      BY <2>1, <3>1, <3>2 DEF OpenInv, OpenUnmet, SameChanging, MetAll, Opened
  <2> QED
    BY <2>a, <2>b, <2>c DEF OpenInv
<1>22. ASSUME NEW p \in Procs, LoadDies(p) PROVE OpenInv'
  <2>1. /\ \A o \in Procs : pc'[o] \in Opened =>
          pc[o] \in Opened /\ Share(o)' = Share(o)
        /\ Cur' = Cur
    BY <1>22, LoadDiesFacts, PartNames DEF Others, Share, Becomes, Ended, NameMoves,
       Opened, Opening, Attaching, Locked, Cur, Gives
  <2>2. \A q \in Procs : aim'[q] \in JobAims =>
          /\ aim[q] \in JobAims /\ (pc'[q] \in Dropped => pc[q] \in Dropped) /\ Index(q)' = Index(q)
          /\ pc[q] \in After \cup Dropped \cup {"finish"} => pc'[q] \in After \cup Dropped \cup {"finish"}
    BY <1>22, LoadDiesFacts DEF Becomes, Ended, Others, JobAims, After, Dropped, Locked,
       Attaching, Index, PlaceInv, PlaceOk
  <2>a. OpenJob'
    <3> HIDE DEF Cur, Share, Index
    <3> QED
      BY <2>1, <2>2 DEF OpenInv, OpenJob
  <2>b. OpenLate'
    <3> HIDE DEF Cur, Share
    <3> QED
      BY <2>1 DEF OpenInv, OpenLate
  <2>c. OpenUnmet'
    <3>1. MetAll \/ SameChanging
      BY ChangingStep
    <3>2. ASSUME NEW o \in Procs, pc'[o] \in Opening, ~met'[o]
          PROVE  pc[o] \in Opening /\ ~met[o]
      BY <1>22, <3>2, LoadDiesFacts, PlaceNames DEF Others, Becomes, Ended, Marked,
         Forgets, Opening, Attaching, Locked
    <3> HIDE DEF Changing, Cur, Share
    <3> QED
      BY <2>1, <3>1, <3>2 DEF OpenInv, OpenUnmet, SameChanging, MetAll, Opened
  <2> QED
    BY <2>a, <2>b, <2>c DEF OpenInv
<1>23. ASSUME NEW p \in Procs, UnloadStart(p) PROVE OpenInv'
  <2>1. /\ \A o \in Procs : pc'[o] \in Opened =>
          pc[o] \in Opened /\ Share(o)' = Share(o)
        /\ Cur' = Cur
    BY <1>23, UnloadStartFacts, PartNames DEF Others, Share, Becomes, Ended, NameMoves,
       Opened, Opening, Attaching, Locked, Cur, Gives
  <2>2. \A o \in Procs : pc[o] \in Opened => Share(o) = Cur
    BY <1>23, UnloadStartFacts DEF OpenInv, OpenUnmet, Opened, Opening
  <2>3. \A q \in Procs : aim'[q] \in JobAims => pc'[q] \notin Dropped
    BY <1>23, UnloadStartFacts DEF Becomes, Others, JobAims, Dropped
  <2>a. OpenJob'
    BY <2>1, <2>2, <2>3 DEF OpenJob
  <2>b. OpenLate'
    <3> HIDE DEF Cur, Share
    <3> QED
      BY <2>1 DEF OpenInv, OpenLate
  <2>c. OpenUnmet'
    <3>1. MetAll \/ SameChanging
      BY ChangingStep
    <3>2. ASSUME NEW o \in Procs, pc'[o] \in Opening, ~met'[o]
          PROVE  pc[o] \in Opening /\ ~met[o]
      BY <1>23, <3>2, UnloadStartFacts, PlaceNames DEF Others, Becomes, Ended, Marked,
         Forgets, Opening, Attaching, Locked
    <3> HIDE DEF Changing, Cur, Share
    <3> QED
      BY <2>1, <3>1, <3>2 DEF OpenInv, OpenUnmet, SameChanging, MetAll, Opened
  <2> QED
    BY <2>a, <2>b, <2>c DEF OpenInv
<1>24. ASSUME NEW p \in Procs, Drop(p) PROVE OpenInv'
  <2>1. \A o \in Procs : Share(o)' = Share(o) /\ (pc'[o] \in Opened => pc[o] \in Opened)
    BY <1>24, DropFacts, PlaceNames DEF Others, Share, Becomes, Opened, Opening
  <2>2. /\ aim[p] \in JobAims /\ \A q \in Procs : q # p => aim'[q] \notin JobAims
        /\ aim'[p] = aim[p] /\ Index(p)' = Index(p)
    BY <1>24, DropFacts, Renamers, PlaceNames DEF JobInv, Others, Becomes, Index
  <2>3. pc[p] # "drop_index" => Cur' = Cur
    BY <1>24, DropFacts, PartNames DEF NameMoves, Cur, Gives
  <2>4. \A o \in Procs : pc[p] = "drop_index" /\ pc[o] \in Opened => Share(o) = Cur
    BY <2>2 DEF OpenInv, OpenJob, After, Dropped
  <2>a. OpenJob'
    <3>1. ASSUME NEW o \in Procs, pc'[o] \in Opened
        PROVE  /\ pc'[p] \notin After \cup Dropped \cup {"finish"} => Share(o)' = Cur'
               /\ pc'[p] \in Dropped => Share(o)' \in {Cur', Index(p)'}
      <4>1. pc[p] = "drop_index" => Index(p) = Cur
        BY Holder DEF Dropping
      <4> HIDE DEF Cur, Index, Share
      <4> QED
        BY <1>24, <2>1, <2>2, <2>3, <2>4, <3>1, <4>1, DropFacts DEF OpenInv, OpenJob,
           Becomes, After, Dropped
    <3> QED
      BY <2>2, <3>1 DEF OpenJob
  <2>b. OpenLate'
    BY <2>1, <2>3, <2>4 DEF OpenInv, OpenLate
  <2>c. OpenUnmet'
    BY <1>24, DropFacts, PlaceNames DEF OpenUnmet, Disturbs, Others, Becomes, Opening,
       Opened
  <2> QED
    BY <2>a, <2>b, <2>c DEF OpenInv
<1>25. ASSUME NEW p \in Procs, MarkDeleted(p) PROVE OpenInv'
  <2>1. /\ \A o \in Procs : pc'[o] \in Opened =>
          pc[o] \in Opened /\ Share(o)' = Share(o)
        /\ Cur' = Cur
    BY <1>25, MarkDeletedFacts, PartNames DEF Others, Share, Becomes, Ended, NameMoves,
       Opened, Opening, Attaching, Locked, Cur, Gives
  <2>2. \A q \in Procs : aim'[q] \in JobAims =>
          /\ aim[q] \in JobAims /\ (pc'[q] \in Dropped => pc[q] \in Dropped) /\ Index(q)' = Index(q)
          /\ pc[q] \in After \cup Dropped \cup {"finish"} => pc'[q] \in After \cup Dropped \cup {"finish"}
    BY <1>25, MarkDeletedFacts DEF Becomes, Ended, Others, JobAims, After, Dropped,
       Locked, Attaching, Index, PlaceInv, PlaceOk
  <2>a. OpenJob'
    <3> HIDE DEF Cur, Share, Index
    <3> QED
      BY <2>1, <2>2 DEF OpenInv, OpenJob
  <2>b. OpenLate'
    <3> HIDE DEF Cur, Share
    <3> QED
      BY <2>1 DEF OpenInv, OpenLate
  <2>c. OpenUnmet'
    <3>1. MetAll \/ SameChanging
      BY ChangingStep
    <3>2. ASSUME NEW o \in Procs, pc'[o] \in Opening, ~met'[o]
          PROVE  pc[o] \in Opening /\ ~met[o]
      BY <1>25, <3>2, MarkDeletedFacts, PlaceNames DEF Others, Becomes, Ended, Marked,
         Forgets, Opening, Attaching, Locked
    <3> HIDE DEF Changing, Cur, Share
    <3> QED
      BY <2>1, <3>1, <3>2 DEF OpenInv, OpenUnmet, SameChanging, MetAll, Opened
  <2> QED
    BY <2>a, <2>b, <2>c DEF OpenInv
<1>26. CASE UNCHANGED vars
  <2>1. SameChanging
    BY <1>26 DEF vars, SameChanging, Changing, MovesAway, Index, Lasts
  <2> HIDE DEF Changing
  <2> QED
    BY <1>26, <2>1 DEF vars, SameChanging, OpenInv, OpenJob, OpenLate, OpenUnmet, Share,
       Cur, Gives, Index
<1> QED
  BY <1>1, <1>2, <1>3, <1>4, <1>5, <1>6, <1>7, <1>8, <1>9, <1>10, <1>11, <1>12, <1>13,
     <1>14, <1>15, <1>16, <1>17, <1>18, <1>19, <1>20, <1>21, <1>22, <1>23, <1>24, <1>25,
     <1>26 DEF Next, Steps, Starts, Links, Calls, Creates, Unloads

NoFills == \A o \in Procs : pc[o] \notin Fills

\* What a step must leave for the shares that are filled.
FillFrame ==
  /\ Cur' = Cur /\ DataOf("index_file")' = DataOf("index_file")
  /\ Cur # 0 /\ Data(Cur) # 0 =>
       Data(Cur)' = Data(Cur) /\ (gate[Cur] = None => gate'[Cur] = None)
  /\ \A q \in Procs :
       /\ pc'[q] \in Making \cup Dropping => pc[q] \in Making \cup Dropping \/ NoFills
       /\ pc'[q] \in Making => pc[q] \in Making \/ \A o \in Procs : pc[o] \in Opened => Share(o) = Cur
       /\ pc'[q] \in Before => pc[q] \in Before \/ (Cur # 0 /\ Data(Cur) # 0) \/ ~Written
       /\ pc'[q] \in Fills =>
            /\ pc[q] \in Fills
            /\ pc'[q] = "fill_pages_file" => Gives("pages_shm")' \in {0, to'[q]["pages_shm"]}
       /\ pc'[q] \in Opened =>
            \/ Share(q)' = Cur'
            \/ pc[q] \in Opened /\ Share(q)' = Share(q) /\ (Data(Share(q))' = 0 => Data(Share(q)) = 0)

LEMMA FillFrames ==
  ASSUME FillInv, FillFrame
  PROVE  FillInv'
<1> HIDE DEF Cur, Share, Data, DataOf, Gives
<1>0. Written' <=> Written
  BY DEF FillFrame, Written
<1>1. FillAlone'
  <2>1. ASSUME NEW o \in Procs, pc'[o] \in Fills
        PROVE  /\ Written /\ Cur # 0 /\ Data(Cur) = DataOf("index_file") /\ Data(Cur) # 0
               /\ \A p \in Procs : pc'[p] \notin Making \cup Dropping
               /\ \A q \in Procs : pc'[q] \in Fills => q = o
               /\ pc'[o] = "fill_pages_file" => Gives("pages_shm")' \in {0, to'[o]["pages_shm"]}
    BY <2>1 DEF FillFrame, FillInv, FillAlone, NoFills, Written
  <2> QED
    BY <1>0, <2>1 DEF FillFrame, FillAlone
<1>2. FillBefore'
  BY <1>0 DEF FillFrame, FillInv, FillBefore
<1>3. FillLate'
  <2>1. ASSUME NEW o \in Procs, pc'[o] \in Opened, Share(o)' # Cur', Data(Share(o))' = 0, Written
        PROVE  /\ \A p \in Procs : pc'[p] \notin Making
               /\ Cur # 0 /\ Data(Cur) = DataOf("index_file") /\ gate[Cur] = None /\ Data(Cur) # 0
    <3>1. pc[o] \in Opened /\ Share(o) # Cur /\ Data(Share(o)) = 0
      BY <2>1 DEF FillFrame
    <3> QED
      BY <2>1, <3>1 DEF FillFrame, FillInv, FillLate, Written
  <2> QED
    BY <1>0, <2>1 DEF FillFrame, FillLate
<1> QED
  BY <1>1, <1>2, <1>3 DEF FillInv

LEMMA FillUnwritten ==
  ASSUME ~Written', \A o \in Procs : pc'[o] \notin Fills
  PROVE  FillInv'
BY DEF FillInv, FillAlone, FillBefore, FillLate

\* While a creation has begun, or an unload takes names, nobody fills a share.
LEMMA JobFills ==
  ASSUME FillInv, NEW p \in Procs, pc[p] \in Making \cup Dropping
  PROVE  NoFills
BY DEF FillInv, FillAlone, NoFills

\* A share is not filled while a job has found the set that has the name.
LEMMA LinkedFills ==
  ASSUME TypeOK, PlaceInv, ShareInv, OpenInv, NEW p \in Procs, aim[p] \in JobAims,
         pc[p] \notin After \cup Dropped \cup {"finish"},
         Cur # 0 => gate[Cur] = None \/ gate[Cur] = p
  PROVE  \A o \in Procs : pc[o] \in Fills \cup {"fill_index"} => o = p
<1> SUFFICES ASSUME NEW o \in Procs, pc[o] \in Fills \cup {"fill_index"} PROVE o = p
  OBVIOUS
<1>1. pc[o] \in Opened /\ Share(o) # 0 /\ gate[Share(o)] = o /\ o # None
  BY InNodes DEF ShareInv, ShareOk, Opened, Opening, Fills
<1>2. Share(o) = Cur
  BY <1>1 DEF OpenInv, OpenJob
<1> QED
  BY <1>1, <1>2

\* Who fills the index share from its file.
LEMMA Filler ==
  ASSUME TypeOK, PlaceInv, JobInv, LockInv, ShareInv, NewInv, OpenInv, FillInv, ToldInv,
         NEW p \in Procs, pc[p] = "fill_index", Written
  PROVE  /\ \A q \in Procs : pc[q] \notin Making \cup Dropping \cup Fills
         /\ Share(p) # 0 /\ Data(Share(p)) = 0
         /\ Share(p) = Cur \/ (Cur # 0 /\ Data(Cur) = DataOf("index_file") /\ gate[Cur] = None)
<1>1. /\ Share(p) # 0 /\ Data(Share(p)) = 0 /\ gate[Share(p)] = p /\ pc[p] \in Opened
      /\ p # None
  BY InNodes DEF ShareInv, ShareOk, Opened, Opening
<1>2. Share(p) # Cur => /\ \A q \in Procs : pc[q] \notin Making
                        /\ Cur # 0 /\ Data(Cur) = DataOf("index_file") /\ gate[Cur] = None
  BY <1>1 DEF FillInv, FillLate
<1>3. ASSUME NEW q \in Procs, pc[q] \in Making
      PROVE  FALSE
  <2>1. Share(p) = Cur
    BY <1>2, <1>3
  <2>2. pc[q] \notin Before
    BY <1>1, <2>1, <1>3 DEF FillInv, FillBefore
  <2>3. Cur = new[q] /\ gate[Cur] = q
    BY <1>3, <2>2 DEF NewInv, NewOk, Before, Making, After
  <2>4. q # p
    BY <1>3 DEF Making, Before, After
  <2> QED
    BY <1>1, <2>1, <2>3, <2>4
<1>4. ASSUME NEW q \in Procs, pc[q] \in Dropping
      PROVE  FALSE
  <2>1. Index(q) = Cur /\ Cur # 0
    BY <1>4, Holder
  <2>2. aim[q] \in JobAims /\ pc[q] \notin After \cup Dropped \cup {"finish"}
    BY <1>4, Renamers DEF Dropping, After, Dropped
  <2>3. Share(p) = Cur
    BY <1>1, <2>2 DEF OpenInv, OpenJob
  <2> QED
    BY <1>1, <2>1, <2>3 DEF ShareInv, ShareOk
<1>5. ASSUME NEW q \in Procs, pc[q] \in Fills
      PROVE  FALSE
  <2>1. /\ Data(Cur) # 0 /\ Share(q) # 0 /\ gate[Share(q)] = q /\ pc[q] \in Opened
        /\ q # p /\ q # None
    BY <1>5, InNodes DEF FillInv, FillAlone, Written, ShareInv, ShareOk, Fills, Opened,
       Opening
  <2>2. Share(p) # Cur
    BY <1>1, <2>1
  <2>3. Share(q) # Cur
    BY <1>2, <2>1, <2>2
  <2>4. Share(q) = Share(p)
    BY <1>1, <2>1, <2>2, <2>3 DEF OpenInv, OpenLate
  <2> QED
    BY <1>1, <2>1, <2>4
<1> QED
  BY <1>1, <1>2, <1>3, <1>4, <1>5

\* Who fills a share.
LEMMA FillStep ==
  ASSUME TypeOK, PlaceInv, JobInv, NodeInv, LockInv, ShareInv, NewInv, OpenInv, FileInv, GoneInv, FillInv, ToldInv, [Next]_vars
  PROVE  FillInv'
<1>1. ASSUME NEW p \in Procs, LinkStart(p) PROVE FillInv'
  <2>1. Cur' = Cur /\ DataOf("index_file")' = DataOf("index_file")
    BY <1>1, LinkStartFacts, PartNames DEF Cur, DataOf, Gives, NameMoves
  <2>2. Cur # 0 /\ Data(Cur) # 0 =>
          Data(Cur)' = Data(Cur) /\ (gate[Cur] = None => gate'[Cur] = None)
    BY <1>1, LinkStartFacts, PartNames DEF Cur, Data, Gives, NameMoves
  <2>3. \A q \in Procs : pc'[q] \in Making \cup Dropping =>
          pc[q] \in Making \cup Dropping \/ NoFills
    BY <1>1, LinkStartFacts, PartNames DEF Becomes, Ended, Others, Attaching, Locked,
       Making, Before, After, Dropping
  <2>4. \A q \in Procs :
          /\ pc'[q] \in Making => pc[q] \in Making \/ \A o \in Procs : pc[o] \in Opened => Share(o) = Cur
          /\ pc'[q] \in Before => pc[q] \in Before \/ (Cur # 0 /\ Data(Cur) # 0) \/ ~Written
    BY <1>1, LinkStartFacts, PartNames DEF Becomes, Ended, Others, Attaching, Locked,
       Making, Before, After
  <2>5. \A q \in Procs : pc'[q] \in Fills =>
              /\ pc[q] \in Fills
              /\ pc'[q] = "fill_pages_file" => Gives("pages_shm")' \in {0, to'[q]["pages_shm"]}
    BY <1>1, LinkStartFacts, PartNames DEF Becomes, Ended, Others, Attaching, Locked,
       Fills, Gives, NameMoves, FillInv, FillAlone
  <2>6. \A q \in Procs : pc'[q] \in Opened =>
              \/ Share(q)' = Cur'
              \/ pc[q] \in Opened /\ Share(q)' = Share(q) /\ (Data(Share(q))' = 0 => Data(Share(q)) = 0)
    BY <1>1, LinkStartFacts, PartNames DEF Becomes, Ended, Others, Attaching, Locked,
       Opened, Opening, Share, Data, Cur, Gives, NameMoves
  <2> QED
    BY <2>1, <2>2, <2>3, <2>4, <2>5, <2>6, FillFrames DEF FillFrame
<1>2. ASSUME NEW p \in Procs, OpenIndex(p) PROVE FillInv'
  <2>1. CASE Cur # 0
    <3>1. Cur' = Cur /\ DataOf("index_file")' = DataOf("index_file")
      BY <1>2, <2>1, OpenIndexFacts, PartNames DEF Cur, DataOf, Gives, NameMoves
    <3>2. Cur # 0 /\ Data(Cur) # 0 =>
            Data(Cur)' = Data(Cur) /\ (gate[Cur] = None => gate'[Cur] = None)
      BY <1>2, <2>1, OpenIndexFacts, PartNames DEF Cur, Data, Gives, NameMoves
    <3>3. \A q \in Procs : pc'[q] \in Making \cup Dropping =>
            pc[q] \in Making \cup Dropping \/ NoFills
      BY <1>2, <2>1, OpenIndexFacts, PartNames DEF Becomes, Ended, Others, Attaching,
         Locked, Making, Before, After, Dropping
    <3>4. \A q \in Procs :
            /\ pc'[q] \in Making => pc[q] \in Making \/ \A o \in Procs : pc[o] \in Opened => Share(o) = Cur
            /\ pc'[q] \in Before => pc[q] \in Before \/ (Cur # 0 /\ Data(Cur) # 0) \/ ~Written
      BY <1>2, <2>1, OpenIndexFacts, PartNames DEF Becomes, Ended, Others, Attaching,
         Locked, Making, Before, After
    <3>5. \A q \in Procs : pc'[q] \in Fills =>
                /\ pc[q] \in Fills
                /\ pc'[q] = "fill_pages_file" => Gives("pages_shm")' \in {0, to'[q]["pages_shm"]}
      BY <1>2, <2>1, OpenIndexFacts, PartNames DEF Becomes, Ended, Others, Attaching,
         Locked, Fills, Gives, NameMoves, FillInv, FillAlone
    <3>6. \A q \in Procs : pc'[q] \in Opened =>
                \/ Share(q)' = Cur'
                \/ pc[q] \in Opened /\ Share(q)' = Share(q) /\ (Data(Share(q))' = 0 => Data(Share(q)) = 0)
      BY <1>2, <2>1, OpenIndexFacts, PartNames DEF Becomes, Ended, Others, Attaching,
         Locked, Opened, Opening, Share, Data, Cur, Gives, NameMoves
    <3> QED
      BY <3>1, <3>2, <3>3, <3>4, <3>5, <3>6, FillFrames DEF FillFrame
  <2>2. CASE Cur = 0
    <3>1. NoFills
      BY <2>2 DEF FillInv, FillAlone, NoFills
    <3>2. \A o \in Procs : o # p => pc'[o] = pc[o] /\ Share(o)' = Share(o)
      BY <1>2, OpenIndexFacts DEF Others, Share
    <3>3. Share(p)' = Cur' /\ pc'[p] = "flock" /\ holds' = holds
      BY <1>2, OpenIndexFacts DEF Share, Becomes
    <3>4. Written' = Written
      BY <1>2, OpenIndexFacts, PartNames DEF Written, DataOf, Gives, NameMoves
    <3>5. FillAlone'
      BY <3>1, <3>2, <3>3 DEF FillAlone, NoFills, Fills
    <3>6. FillBefore'
      BY <2>2, <3>2, <3>3, <3>4 DEF FillInv, FillBefore, Before
    <3>7. FillLate'
      <4> SUFFICES ASSUME NEW o \in Procs, pc'[o] \in Opened, Share(o)' # Cur', Data(Share(o))' = 0, Written'
                   PROVE  FALSE
        BY DEF FillLate
      <4>1. o # p /\ pc[o] \in Opened /\ Share(o) # 0
        BY <3>2, <3>3, InNodes
      <4>2. Data(Share(o)) = 0
        BY <3>2, <3>3, <4>1 DEF Data
      <4> QED
        BY <2>2, <3>4, <4>1, <4>2 DEF FillInv, FillLate
    <3> QED
      BY <3>5, <3>6, <3>7 DEF FillInv
  <2> QED
    BY <2>1, <2>2
<1>3. ASSUME NEW p \in Procs, LockIndex(p) PROVE FillInv'
  <2>1. Cur' = Cur /\ DataOf("index_file")' = DataOf("index_file")
    BY <1>3, LockIndexFacts, PartNames DEF Cur, DataOf, Gives, NameMoves
  <2>2. Cur # 0 /\ Data(Cur) # 0 =>
          Data(Cur)' = Data(Cur) /\ (gate[Cur] = None => gate'[Cur] = None)
    <3>1. Cur \in Nodes \/ Cur = 0
      BY RangeFacts
    <3> QED
      BY <1>3, <3>1, LockIndexFacts DEF Only, Data, Cur, Gives
  <2>3. \A q \in Procs : pc'[q] \in Making \cup Dropping =>
          pc[q] \in Making \cup Dropping \/ NoFills
    BY <1>3, LockIndexFacts, PartNames DEF Becomes, Ended, Others, Attaching, Locked,
       Making, Before, After, Dropping
  <2>4. \A q \in Procs :
          /\ pc'[q] \in Making => pc[q] \in Making \/ \A o \in Procs : pc[o] \in Opened => Share(o) = Cur
          /\ pc'[q] \in Before => pc[q] \in Before \/ (Cur # 0 /\ Data(Cur) # 0) \/ ~Written
    BY <1>3, LockIndexFacts, PartNames DEF Becomes, Ended, Others, Attaching, Locked,
       Making, Before, After
  <2>5. \A q \in Procs : pc'[q] \in Fills =>
              /\ pc[q] \in Fills
              /\ pc'[q] = "fill_pages_file" => Gives("pages_shm")' \in {0, to'[q]["pages_shm"]}
    BY <1>3, LockIndexFacts, PartNames DEF Becomes, Ended, Others, Attaching, Locked,
       Fills, Gives, NameMoves, FillInv, FillAlone
  <2>6. \A q \in Procs : pc'[q] \in Opened =>
              \/ Share(q)' = Cur'
              \/ pc[q] \in Opened /\ Share(q)' = Share(q) /\ (Data(Share(q))' = 0 => Data(Share(q)) = 0)
    BY <1>3, LockIndexFacts, PartNames DEF Becomes, Ended, Others, Attaching, Locked,
       Opened, Opening, Share, Data, Cur, Gives, NameMoves
  <2> QED
    BY <2>1, <2>2, <2>3, <2>4, <2>5, <2>6, FillFrames DEF FillFrame
<1>4. ASSUME NEW p \in Procs, Attach(p) PROVE FillInv'
  <2>0. aim[p] = "create" => /\ \A o \in Procs : pc[o] \in Opened => Share(o) = Cur
                             /\ Cur # 0 /\ Data(Cur) # 0 /\ NoFills
    <3>0. ASSUME aim[p] = "create"
          PROVE  /\ \A o \in Procs : pc[o] \in Opened => Share(o) = Cur
                 /\ Cur # 0 /\ Data(Cur) # 0 /\ NoFills
      <4>1. /\ aim[p] \in JobAims /\ pc[p] \notin After \cup Dropped \cup {"finish"}
            /\ pc[p] \in Opened
        BY <1>4, <3>0, AttachFacts, PlaceNames DEF JobAims, After, Dropped, Opened,
           Opening, Attaching
      <4>2. /\ \A o \in Procs : pc[o] \in Opened => Share(o) = Cur
            /\ Share(p) # 0
        BY <4>1, InNodes DEF OpenInv, OpenJob
      <4>a. Cur # 0 /\ Share(p) = Cur
        BY <4>1, <4>2
      <4>b. Data(Share(p)) # 0 /\ gate[Share(p)] = None
        BY <1>4, AttachFacts DEF ShareInv, ShareOk, Fills
      <4>3. Cur # 0 /\ Data(Cur) # 0 /\ gate[Cur] = None
        BY <4>a, <4>b
      <4>4. NoFills
        BY <1>4, <4>1, <4>3, LinkedFills, AttachFacts DEF NoFills, Fills, Attaching
      <4> QED
        BY <4>2, <4>3, <4>4
    <3> QED
      BY <3>0
  <2>1. FillInv'
    <3>1. Cur' = Cur /\ DataOf("index_file")' = DataOf("index_file")
      BY <1>4, AttachFacts, PartNames DEF Cur, DataOf, Gives, NameMoves
    <3>2. Cur # 0 /\ Data(Cur) # 0 =>
            Data(Cur)' = Data(Cur) /\ (gate[Cur] = None => gate'[Cur] = None)
      BY <1>4, AttachFacts, PartNames DEF Cur, Data, Gives, NameMoves
    <3>3. \A q \in Procs : pc'[q] \in Making \cup Dropping =>
            pc[q] \in Making \cup Dropping \/ NoFills
      <4>1. CASE aim[p] # "create"
        BY <1>4, <4>1, AttachFacts DEF Becomes, Ended, Others, Making, Before, After,
           Dropping
      <4>2. CASE aim[p] = "create"
        BY <1>4, <2>0, <4>2, AttachFacts DEF Becomes, Ended, Others, Making, Before,
           After, Dropping
      <4> QED
        BY <4>1, <4>2
    <3>4. \A q \in Procs :
            /\ pc'[q] \in Making => pc[q] \in Making \/ \A o \in Procs : pc[o] \in Opened => Share(o) = Cur
            /\ pc'[q] \in Before => pc[q] \in Before \/ (Cur # 0 /\ Data(Cur) # 0) \/ ~Written
      <4>1. CASE aim[p] # "create"
        BY <1>4, <4>1, AttachFacts DEF Becomes, Ended, Others, Making, Before, After
      <4>2. CASE aim[p] = "create"
        BY <1>4, <2>0, <4>2, AttachFacts DEF Becomes, Ended, Others, Making, Before,
           After
      <4> QED
        BY <4>1, <4>2
    <3>5. \A q \in Procs : pc'[q] \in Fills =>
                /\ pc[q] \in Fills
                /\ pc'[q] = "fill_pages_file" => Gives("pages_shm")' \in {0, to'[q]["pages_shm"]}
      BY <1>4, AttachFacts, PartNames DEF Becomes, Ended, Others, Attaching, Locked,
         Fills, Gives, NameMoves, FillInv, FillAlone
    <3>6. \A q \in Procs : pc'[q] \in Opened =>
                \/ Share(q)' = Cur'
                \/ pc[q] \in Opened /\ Share(q)' = Share(q) /\ (Data(Share(q))' = 0 => Data(Share(q)) = 0)
      BY <1>4, AttachFacts, PartNames DEF Becomes, Ended, Others, Attaching, Locked,
         Opened, Opening, Share, Data, Cur, Gives, NameMoves
    <3> QED
      BY <3>1, <3>2, <3>3, <3>4, <3>5, <3>6, FillFrames DEF FillFrame
  <2> QED
    BY <2>1
<1>5. ASSUME NEW p \in Procs, FillIndex(p) PROVE FillInv'
  <2>0. Share(p) \in Nodes /\ Data(Share(p)) = 0 /\ pc[p] \in Opened
    BY <1>5, FillIndexFacts DEF ShareInv, ShareOk, Opened, Opening
  <2>1. CASE ~Written
    <3>0. aim[p] = "create" => NoFills
      BY <2>1 DEF FillInv, FillAlone, NoFills
    <3>a. aim[p] = "create" => \A o \in Procs : pc[o] \in Opened => Share(o) = Cur
      BY <1>5, FillIndexFacts DEF OpenInv, OpenJob, JobAims, After, Dropped
    <3>1. Cur' = Cur /\ DataOf("index_file")' = DataOf("index_file")
      BY <1>5, <2>1, FillIndexFacts, PartNames DEF Cur, DataOf, Gives, NameMoves
    <3>2. Cur # 0 /\ Data(Cur) # 0 =>
            Data(Cur)' = Data(Cur) /\ (gate[Cur] = None => gate'[Cur] = None)
      <4>1. Cur \in Nodes \/ Cur = 0
        BY RangeFacts
      <4> QED
        BY <1>5, <2>1, <4>1, FillIndexFacts, PartNames DEF Only, Data, Cur, Gives
    <3>3. \A q \in Procs : pc'[q] \in Making \cup Dropping =>
            pc[q] \in Making \cup Dropping \/ NoFills
      BY <1>5, <2>1, <3>0, FillIndexFacts DEF Becomes, Ended, Others, Making, Before,
         After, Dropping
    <3>4. \A q \in Procs :
            /\ pc'[q] \in Making => pc[q] \in Making \/ \A o \in Procs : pc[o] \in Opened => Share(o) = Cur
            /\ pc'[q] \in Before => pc[q] \in Before \/ (Cur # 0 /\ Data(Cur) # 0) \/ ~Written
      BY <1>5, <2>1, <3>a, FillIndexFacts DEF Becomes, Ended, Others, Making, Before,
         After
    <3>5. \A q \in Procs : pc'[q] \in Fills =>
                /\ pc[q] \in Fills
                /\ pc'[q] = "fill_pages_file" => Gives("pages_shm")' \in {0, to'[q]["pages_shm"]}
      BY <1>5, <2>1, FillIndexFacts, PartNames DEF Becomes, Ended, Others, Attaching,
         Locked, Fills, Gives, NameMoves, FillInv, FillAlone
    <3>6. \A q \in Procs : pc'[q] \in Opened =>
                \/ Share(q)' = Cur'
                \/ pc[q] \in Opened /\ Share(q)' = Share(q) /\ (Data(Share(q))' = 0 => Data(Share(q)) = 0)
      BY <1>5, <2>1, FillIndexFacts, PartNames DEF Becomes, Ended, Others, Attaching,
         Locked, Opened, Opening, Share, Data, Cur, Gives, NameMoves
    <3> QED
      BY <3>1, <3>2, <3>3, <3>4, <3>5, <3>6, FillFrames DEF FillFrame
  <2>2. CASE Written
    <3>1. /\ \A q \in Procs : pc[q] \notin Making \cup Dropping \cup Fills
          /\ Share(p) = Cur \/ (Cur # 0 /\ Data(Cur) = DataOf("index_file") /\ gate[Cur] = None)
      BY <1>5, <2>2, FillIndexFacts, Filler
    <3>2. /\ pc'[p] = "fill_pages" /\ gate' = gate
          /\ Share(p)' = Share(p) /\ \A q \in Procs : q # p => pc'[q] = pc[q] /\ Share(q)' = Share(q)
      BY <1>5, <2>2, FillIndexFacts, PartNames DEF Becomes, Others, Share, NameMoves
    <3>3. Cur' = Cur /\ DataOf("index_file")' = DataOf("index_file")
      BY <1>5, <2>2, FillIndexFacts, PartNames DEF Cur, Gives, DataOf
    <3>4. /\ Data(Share(p))' = DataOf("index_file")
          /\ \A n \in Nodes : n # Share(p) => Data(n)' = Data(n)
      BY <1>5, <2>2, <3>2, FillIndexFacts DEF Data, Only
    <3>5. (Cur # 0 =>
            Cur \in Nodes) /\ \A q \in Procs : pc[q] \in Opened => Share(q) \in Nodes
      BY InNodes, RangeFacts
    <3>6. Written' /\ DataOf("index_file") # 0
      BY <2>2, <3>3 DEF Written
    <3>7. Cur # 0 /\ Data(Cur)' = DataOf("index_file")
      <4>1. CASE Share(p) = Cur
        BY <2>0, <3>2, <3>3, <3>4, <4>1, RangeFacts DEF Data
      <4>2. CASE Share(p) # Cur
        BY <3>1, <3>3, <3>4, <3>5, <4>2 DEF Data
      <4> QED
        BY <4>1, <4>2
    <3> HIDE DEF Cur, Share, Data, DataOf, Gives
    <3>8. FillAlone'
      BY <3>1, <3>2, <3>3, <3>6, <3>7 DEF FillAlone, Making, Before, After, Dropping,
         Fills
    <3>9. FillBefore'
      BY <3>1, <3>2 DEF FillBefore, Making, Before
    <3>10. FillLate'
      <4> SUFFICES ASSUME NEW q \in Procs, pc'[q] \in Opened, Share(q)' # Cur', Data(Share(q))' = 0
                   PROVE  /\ \A r \in Procs : pc'[r] \notin Making
                          /\ Cur' # 0 /\ Data(Cur)' = DataOf("index_file")' /\ gate'[Cur'] = None
        BY DEF FillLate
      <4>1. \A r \in Procs : pc'[r] \notin Making
        BY <3>1, <3>2 DEF Making, Before, After
      <4>2. q # p
        BY <3>4, <3>6
      <4>3. pc[q] \in Opened /\ Share(q) # Cur /\ Share(q)' = Share(q) /\ Share(q) \in Nodes
        BY <3>2, <3>3, <3>5, <4>2
      <4>4. Share(q) # Share(p)
        BY <3>2, <3>4, <3>6, <4>3
      <4>5. Data(Share(q)) = 0
        BY <3>4, <4>3, <4>4
      <4>6. gate[Cur] = None
        BY <2>2, <4>3, <4>5 DEF FillInv, FillLate
      <4> QED
        BY <3>2, <3>3, <3>7, <4>1, <4>6
    <3> QED
      BY <3>8, <3>9, <3>10 DEF FillInv
  <2> QED
    BY <2>1, <2>2
<1>6. ASSUME NEW p \in Procs, FillPages(p) PROVE FillInv'
  <2>1. Cur' = Cur /\ DataOf("index_file")' = DataOf("index_file")
    BY <1>6, FillPagesFacts, PartNames DEF Cur, DataOf, Gives, NameMoves
  <2>2. Cur # 0 /\ Data(Cur) # 0 =>
          Data(Cur)' = Data(Cur) /\ (gate[Cur] = None => gate'[Cur] = None)
    BY <1>6, FillPagesFacts, PartNames DEF Cur, Data, Gives, NameMoves
  <2>3. \A q \in Procs : pc'[q] \in Making \cup Dropping =>
          pc[q] \in Making \cup Dropping \/ NoFills
    BY <1>6, FillPagesFacts, PartNames DEF Becomes, Ended, Others, Attaching, Locked,
       Making, Before, After, Dropping
  <2>4. \A q \in Procs :
          /\ pc'[q] \in Making => pc[q] \in Making \/ \A o \in Procs : pc[o] \in Opened => Share(o) = Cur
          /\ pc'[q] \in Before => pc[q] \in Before \/ (Cur # 0 /\ Data(Cur) # 0) \/ ~Written
    BY <1>6, FillPagesFacts, PartNames DEF Becomes, Ended, Others, Attaching, Locked,
       Making, Before, After
  <2>5. \A q \in Procs : pc'[q] \in Fills =>
              /\ pc[q] \in Fills
              /\ pc'[q] = "fill_pages_file" => Gives("pages_shm")' \in {0, to'[q]["pages_shm"]}
    BY <1>6, FillPagesFacts, PartNames DEF Becomes, Ended, Others, Attaching, Locked,
       Fills, Gives, NameMoves, FillInv, FillAlone
  <2>6. \A q \in Procs : pc'[q] \in Opened =>
              \/ Share(q)' = Cur'
              \/ pc[q] \in Opened /\ Share(q)' = Share(q) /\ (Data(Share(q))' = 0 => Data(Share(q)) = 0)
    BY <1>6, FillPagesFacts, PartNames DEF Becomes, Ended, Others, Attaching, Locked,
       Opened, Opening, Share, Data, Cur, Gives, NameMoves
  <2> QED
    BY <2>1, <2>2, <2>3, <2>4, <2>5, <2>6, FillFrames DEF FillFrame
<1>7. ASSUME NEW p \in Procs, FillPagesFile(p) PROVE FillInv'
  <2>0. aim[p] = "create" => /\ \A o \in Procs : pc[o] \in Opened => Share(o) = Cur
                             /\ Cur # 0 /\ Data(Cur) # 0
    <3>0. ASSUME aim[p] = "create"
          PROVE  /\ \A o \in Procs : pc[o] \in Opened => Share(o) = Cur
                 /\ Cur # 0 /\ Data(Cur) # 0
      <4>1. /\ aim[p] \in JobAims /\ pc[p] \notin After \cup Dropped \cup {"finish"}
            /\ pc[p] \in Opened
        BY <1>7, <3>0, FillPagesFileFacts, PlaceNames DEF JobAims, After, Dropped,
           Opened, Opening, Attaching
      <4>2. /\ \A o \in Procs : pc[o] \in Opened => Share(o) = Cur
            /\ Share(p) # 0
        BY <4>1, InNodes DEF OpenInv, OpenJob
      <4>a. Cur # 0 /\ Share(p) = Cur
        BY <4>1, <4>2
      <4>b. Data(Share(p)) # 0
        BY <1>7, FillPagesFileFacts DEF ShareInv, ShareOk, Fills
      <4>3. Cur # 0 /\ Data(Cur) # 0
        BY <4>a, <4>b
      <4> QED
        BY <4>2, <4>3
    <3> QED
      BY <3>0
  <2>1. CASE aim[p] # "create"
    <3>1. Cur' = Cur /\ DataOf("index_file")' = DataOf("index_file")
      BY <1>7, <2>1, FillPagesFileFacts, PartNames DEF Cur, DataOf, Gives, NameMoves
    <3>2. Cur # 0 /\ Data(Cur) # 0 =>
            Data(Cur)' = Data(Cur) /\ (gate[Cur] = None => gate'[Cur] = None)
      <4>1. Cur \in Nodes \/ Cur = 0
        BY RangeFacts
      <4> QED
        BY <1>7, <4>1, FillPagesFileFacts, PartNames DEF Only, Data, Cur, Gives
    <3>3. \A q \in Procs : pc'[q] \in Making \cup Dropping =>
            pc[q] \in Making \cup Dropping \/ NoFills
      <4>1. \A q \in Procs : q # p => pc'[q] \notin Making \cup Dropping
        BY <1>7, FillPagesFileFacts DEF Others, FillInv, FillAlone, Fills
      <4>2. aim[p] # "create" => pc'[p] \notin Making \cup Dropping
        BY <1>7, FillPagesFileFacts DEF Becomes, Ended, Making, Before, After, Dropping
      <4> QED
        BY <2>1, <4>1, <4>2
    <3>4. \A q \in Procs :
            /\ pc'[q] \in Making => pc[q] \in Making \/ \A o \in Procs : pc[o] \in Opened => Share(o) = Cur
            /\ pc'[q] \in Before => pc[q] \in Before \/ (Cur # 0 /\ Data(Cur) # 0) \/ ~Written
      BY <1>7, <2>1, FillPagesFileFacts, PartNames DEF Becomes, Ended, Others,
         Attaching, Locked, Making, Before, After
    <3>5. \A q \in Procs : pc'[q] \in Fills =>
                /\ pc[q] \in Fills
                /\ pc'[q] = "fill_pages_file" => Gives("pages_shm")' \in {0, to'[q]["pages_shm"]}
      BY <1>7, <2>1, FillPagesFileFacts, PartNames DEF Becomes, Ended, Others,
         Attaching, Locked, Fills, Gives, NameMoves, FillInv, FillAlone
    <3>6. \A q \in Procs : pc'[q] \in Opened =>
                \/ Share(q)' = Cur'
                \/ pc[q] \in Opened /\ Share(q)' = Share(q) /\ (Data(Share(q))' = 0 => Data(Share(q)) = 0)
      BY <1>7, <2>1, FillPagesFileFacts, PartNames DEF Becomes, Ended, Others,
         Attaching, Locked, Opened, Opening, Share, Data, Cur, Gives, NameMoves
    <3> QED
      BY <3>1, <3>2, <3>3, <3>4, <3>5, <3>6, FillFrames DEF FillFrame
  <2>2. CASE aim[p] = "create"
    <3>1. \A q \in Procs : pc'[q] \notin Fills
      BY <1>7, FillPagesFileFacts DEF FillInv, FillAlone, Others, Ended, Becomes, Fills
    <3>2. /\ \A q \in Procs : pc'[q] \in Opened =>
            pc[q] \in Opened /\ Share(q)' = Share(q)
          /\ Cur' = Cur /\ Data(Cur)' = Data(Cur)
      BY <1>7, FillPagesFileFacts, PartNames DEF Others, Ended, Becomes, Opened,
         Opening, Share, Cur, Gives, Data
    <3>3. FillBefore' /\ FillLate' /\ FillAlone'
      BY <2>0, <2>2, <3>1, <3>2 DEF FillBefore, FillLate, FillAlone
    <3> QED
      BY <3>3 DEF FillInv
  <2> QED
    BY <2>1, <2>2
<1>8. ASSUME NEW p \in Procs, CallStart(p) PROVE FillInv'
  <2>1. Cur' = Cur /\ DataOf("index_file")' = DataOf("index_file")
    BY <1>8, CallStartFacts, PartNames DEF Cur, DataOf, Gives, NameMoves
  <2>2. Cur # 0 /\ Data(Cur) # 0 =>
          Data(Cur)' = Data(Cur) /\ (gate[Cur] = None => gate'[Cur] = None)
    BY <1>8, CallStartFacts, PartNames DEF Cur, Data, Gives, NameMoves
  <2>3. \A q \in Procs : pc'[q] \in Making \cup Dropping =>
          pc[q] \in Making \cup Dropping \/ NoFills
    BY <1>8, CallStartFacts, PartNames DEF Becomes, Ended, Others, Attaching, Locked,
       Making, Before, After, Dropping
  <2>4. \A q \in Procs :
          /\ pc'[q] \in Making => pc[q] \in Making \/ \A o \in Procs : pc[o] \in Opened => Share(o) = Cur
          /\ pc'[q] \in Before => pc[q] \in Before \/ (Cur # 0 /\ Data(Cur) # 0) \/ ~Written
    BY <1>8, CallStartFacts, PartNames DEF Becomes, Ended, Others, Attaching, Locked,
       Making, Before, After
  <2>5. \A q \in Procs : pc'[q] \in Fills =>
              /\ pc[q] \in Fills
              /\ pc'[q] = "fill_pages_file" => Gives("pages_shm")' \in {0, to'[q]["pages_shm"]}
    BY <1>8, CallStartFacts, PartNames DEF Becomes, Ended, Others, Attaching, Locked,
       Fills, Gives, NameMoves, FillInv, FillAlone
  <2>6. \A q \in Procs : pc'[q] \in Opened =>
              \/ Share(q)' = Cur'
              \/ pc[q] \in Opened /\ Share(q)' = Share(q) /\ (Data(Share(q))' = 0 => Data(Share(q)) = 0)
    BY <1>8, CallStartFacts, PartNames DEF Becomes, Ended, Others, Attaching, Locked,
       Opened, Opening, Share, Data, Cur, Gives, NameMoves
  <2> QED
    BY <2>1, <2>2, <2>3, <2>4, <2>5, <2>6, FillFrames DEF FillFrame
<1>9. ASSUME NEW p \in Procs, CheckBad(p) PROVE FillInv'
  <2>1. Cur' = Cur /\ DataOf("index_file")' = DataOf("index_file")
    BY <1>9, CheckBadFacts, PartNames DEF Cur, DataOf, Gives, NameMoves
  <2>2. Cur # 0 /\ Data(Cur) # 0 =>
          Data(Cur)' = Data(Cur) /\ (gate[Cur] = None => gate'[Cur] = None)
    BY <1>9, CheckBadFacts, PartNames DEF Cur, Data, Gives, NameMoves
  <2>3. \A q \in Procs : pc'[q] \in Making \cup Dropping =>
          pc[q] \in Making \cup Dropping \/ NoFills
    BY <1>9, CheckBadFacts, PartNames DEF Becomes, Ended, Others, Attaching, Locked,
       Making, Before, After, Dropping
  <2>4. \A q \in Procs :
          /\ pc'[q] \in Making => pc[q] \in Making \/ \A o \in Procs : pc[o] \in Opened => Share(o) = Cur
          /\ pc'[q] \in Before => pc[q] \in Before \/ (Cur # 0 /\ Data(Cur) # 0) \/ ~Written
    BY <1>9, CheckBadFacts, PartNames DEF Becomes, Ended, Others, Attaching, Locked,
       Making, Before, After
  <2>5. \A q \in Procs : pc'[q] \in Fills =>
              /\ pc[q] \in Fills
              /\ pc'[q] = "fill_pages_file" => Gives("pages_shm")' \in {0, to'[q]["pages_shm"]}
    BY <1>9, CheckBadFacts, PartNames DEF Becomes, Ended, Others, Attaching, Locked,
       Fills, Gives, NameMoves, FillInv, FillAlone
  <2>6. \A q \in Procs : pc'[q] \in Opened =>
              \/ Share(q)' = Cur'
              \/ pc[q] \in Opened /\ Share(q)' = Share(q) /\ (Data(Share(q))' = 0 => Data(Share(q)) = 0)
    BY <1>9, CheckBadFacts, PartNames DEF Becomes, Ended, Others, Attaching, Locked,
       Opened, Opening, Share, Data, Cur, Gives, NameMoves
  <2> QED
    BY <2>1, <2>2, <2>3, <2>4, <2>5, <2>6, FillFrames DEF FillFrame
<1>10. ASSUME NEW p \in Procs, MutexLock(p) PROVE FillInv'
  <2>1. Cur' = Cur /\ DataOf("index_file")' = DataOf("index_file")
    BY <1>10, MutexLockFacts, PartNames DEF Cur, DataOf, Gives, NameMoves
  <2>2. Cur # 0 /\ Data(Cur) # 0 =>
          Data(Cur)' = Data(Cur) /\ (gate[Cur] = None => gate'[Cur] = None)
    BY <1>10, MutexLockFacts, PartNames DEF Cur, Data, Gives, NameMoves
  <2>3. \A q \in Procs : pc'[q] \in Making \cup Dropping =>
          pc[q] \in Making \cup Dropping \/ NoFills
    <3>1. CASE aim[p] = "call" \/ lock' = lock
      BY <1>10, <3>1, MutexLockFacts, ProcsAssumption DEF Becomes, Others, Locked,
         Making, Before, After, Dropping, Only
    <3>2. CASE Becomes(p, Locked(p), aim[p]) /\ Index(p) \notin dead /\ aim[p] # "call"
      <4>1. /\ aim[p] \in JobAims /\ ~met[p] /\ Index(p) # 0 /\ pc[p] \notin Opening
            /\ pc[p] \notin After \cup Dropped \cup {"finish"}
        BY <1>10, <3>2, MutexLockFacts, RangeFacts DEF PlaceInv, PlaceOk, JobInv,
           JobAims, Opening, After, Dropped
      <4>2. \A q \in Procs : pc[q] \notin After \cup Dropped
        BY <4>1, Renamers DEF JobInv, Making, After, Dropped
      <4>3. Index(p) = Cur
        BY <3>2, <4>1, <4>2 DEF ToldInv, ToldUnmet
      <4>4. gate[Cur] = None
        BY <4>1, <4>3 DEF ShareInv, ShareOk
      <4>5. NoFills
        BY <1>10, <4>1, <4>4, LinkedFills, MutexLockFacts DEF NoFills, Fills
      <4> QED
        BY <4>5
    <3> QED
      BY <1>10, <3>1, <3>2, MutexLockFacts
  <2>4. \A q \in Procs :
          /\ pc'[q] \in Making => pc[q] \in Making \/ \A o \in Procs : pc[o] \in Opened => Share(o) = Cur
          /\ pc'[q] \in Before => pc[q] \in Before \/ (Cur # 0 /\ Data(Cur) # 0) \/ ~Written
    BY <1>10, MutexLockFacts, PartNames DEF Becomes, Ended, Others, Attaching, Locked,
       Making, Before, After
  <2>5. \A q \in Procs : pc'[q] \in Fills =>
              /\ pc[q] \in Fills
              /\ pc'[q] = "fill_pages_file" => Gives("pages_shm")' \in {0, to'[q]["pages_shm"]}
    BY <1>10, MutexLockFacts, PartNames DEF Becomes, Ended, Others, Attaching, Locked,
       Fills, Gives, NameMoves, FillInv, FillAlone
  <2>6. \A q \in Procs : pc'[q] \in Opened =>
              \/ Share(q)' = Cur'
              \/ pc[q] \in Opened /\ Share(q)' = Share(q) /\ (Data(Share(q))' = 0 => Data(Share(q)) = 0)
    BY <1>10, MutexLockFacts, PartNames DEF Becomes, Ended, Others, Attaching, Locked,
       Opened, Opening, Share, Data, Cur, Gives, NameMoves
  <2> QED
    BY <2>1, <2>2, <2>3, <2>4, <2>5, <2>6, FillFrames DEF FillFrame
<1>11. ASSUME NEW p \in Procs, CallEnd(p) PROVE FillInv'
  <2>1. Cur' = Cur /\ DataOf("index_file")' = DataOf("index_file")
    BY <1>11, CallEndFacts, PartNames DEF Cur, DataOf, Gives, NameMoves
  <2>2. Cur # 0 /\ Data(Cur) # 0 =>
          Data(Cur)' = Data(Cur) /\ (gate[Cur] = None => gate'[Cur] = None)
    BY <1>11, CallEndFacts, PartNames DEF Cur, Data, Gives, NameMoves
  <2>3. \A q \in Procs : pc'[q] \in Making \cup Dropping =>
          pc[q] \in Making \cup Dropping \/ NoFills
    BY <1>11, CallEndFacts, PartNames DEF Becomes, Ended, Others, Attaching, Locked,
       Making, Before, After, Dropping
  <2>4. \A q \in Procs :
          /\ pc'[q] \in Making => pc[q] \in Making \/ \A o \in Procs : pc[o] \in Opened => Share(o) = Cur
          /\ pc'[q] \in Before => pc[q] \in Before \/ (Cur # 0 /\ Data(Cur) # 0) \/ ~Written
    BY <1>11, CallEndFacts, PartNames DEF Becomes, Ended, Others, Attaching, Locked,
       Making, Before, After
  <2>5. \A q \in Procs : pc'[q] \in Fills =>
              /\ pc[q] \in Fills
              /\ pc'[q] = "fill_pages_file" => Gives("pages_shm")' \in {0, to'[q]["pages_shm"]}
    BY <1>11, CallEndFacts, PartNames DEF Becomes, Ended, Others, Attaching, Locked,
       Fills, Gives, NameMoves, FillInv, FillAlone
  <2>6. \A q \in Procs : pc'[q] \in Opened =>
              \/ Share(q)' = Cur'
              \/ pc[q] \in Opened /\ Share(q)' = Share(q) /\ (Data(Share(q))' = 0 => Data(Share(q)) = 0)
    BY <1>11, CallEndFacts, PartNames DEF Becomes, Ended, Others, Attaching, Locked,
       Opened, Opening, Share, Data, Cur, Gives, NameMoves
  <2> QED
    BY <2>1, <2>2, <2>3, <2>4, <2>5, <2>6, FillFrames DEF FillFrame
<1>12. ASSUME NEW p \in Procs, Unlink(p) PROVE FillInv'
  <2>1. Cur' = Cur /\ DataOf("index_file")' = DataOf("index_file")
    BY <1>12, UnlinkFacts, PartNames DEF Cur, DataOf, Gives, NameMoves
  <2>2. Cur # 0 /\ Data(Cur) # 0 =>
          Data(Cur)' = Data(Cur) /\ (gate[Cur] = None => gate'[Cur] = None)
    BY <1>12, UnlinkFacts, PartNames DEF Cur, Data, Gives, NameMoves
  <2>3. \A q \in Procs : pc'[q] \in Making \cup Dropping =>
          pc[q] \in Making \cup Dropping \/ NoFills
    BY <1>12, UnlinkFacts, PartNames DEF Becomes, Ended, Others, Attaching, Locked,
       Making, Before, After, Dropping
  <2>4. \A q \in Procs :
          /\ pc'[q] \in Making => pc[q] \in Making \/ \A o \in Procs : pc[o] \in Opened => Share(o) = Cur
          /\ pc'[q] \in Before => pc[q] \in Before \/ (Cur # 0 /\ Data(Cur) # 0) \/ ~Written
    BY <1>12, UnlinkFacts, PartNames DEF Becomes, Ended, Others, Attaching, Locked,
       Making, Before, After
  <2>5. \A q \in Procs : pc'[q] \in Fills =>
              /\ pc[q] \in Fills
              /\ pc'[q] = "fill_pages_file" => Gives("pages_shm")' \in {0, to'[q]["pages_shm"]}
    BY <1>12, UnlinkFacts, PartNames DEF Becomes, Ended, Others, Attaching, Locked,
       Fills, Gives, NameMoves, FillInv, FillAlone
  <2>6. \A q \in Procs : pc'[q] \in Opened =>
              \/ Share(q)' = Cur'
              \/ pc[q] \in Opened /\ Share(q)' = Share(q) /\ (Data(Share(q))' = 0 => Data(Share(q)) = 0)
    BY <1>12, UnlinkFacts, PartNames DEF Becomes, Ended, Others, Attaching, Locked,
       Opened, Opening, Share, Data, Cur, Gives, NameMoves
  <2> QED
    BY <2>1, <2>2, <2>3, <2>4, <2>5, <2>6, FillFrames DEF FillFrame
<1>13. ASSUME NEW p \in Procs, CreateStart(p) PROVE FillInv'
  <2>1. Cur' = Cur /\ DataOf("index_file")' = DataOf("index_file")
    BY <1>13, CreateStartFacts, PartNames DEF Cur, DataOf, Gives, NameMoves
  <2>2. Cur # 0 /\ Data(Cur) # 0 =>
          Data(Cur)' = Data(Cur) /\ (gate[Cur] = None => gate'[Cur] = None)
    BY <1>13, CreateStartFacts, PartNames DEF Cur, Data, Gives, NameMoves
  <2>3. \A q \in Procs : pc'[q] \in Making \cup Dropping =>
          pc[q] \in Making \cup Dropping \/ NoFills
    BY <1>13, CreateStartFacts, PartNames DEF Becomes, Ended, Others, Attaching, Locked,
       Making, Before, After, Dropping
  <2>4. \A q \in Procs :
          /\ pc'[q] \in Making => pc[q] \in Making \/ \A o \in Procs : pc[o] \in Opened => Share(o) = Cur
          /\ pc'[q] \in Before => pc[q] \in Before \/ (Cur # 0 /\ Data(Cur) # 0) \/ ~Written
    BY <1>13, CreateStartFacts, PartNames DEF Becomes, Ended, Others, Attaching, Locked,
       Making, Before, After
  <2>5. \A q \in Procs : pc'[q] \in Fills =>
              /\ pc[q] \in Fills
              /\ pc'[q] = "fill_pages_file" => Gives("pages_shm")' \in {0, to'[q]["pages_shm"]}
    BY <1>13, CreateStartFacts, PartNames DEF Becomes, Ended, Others, Attaching, Locked,
       Fills, Gives, NameMoves, FillInv, FillAlone
  <2>6. \A q \in Procs : pc'[q] \in Opened =>
              \/ Share(q)' = Cur'
              \/ pc[q] \in Opened /\ Share(q)' = Share(q) /\ (Data(Share(q))' = 0 => Data(Share(q)) = 0)
    BY <1>13, CreateStartFacts, PartNames DEF Becomes, Ended, Others, Attaching, Locked,
       Opened, Opening, Share, Data, Cur, Gives, NameMoves
  <2> QED
    BY <2>1, <2>2, <2>3, <2>4, <2>5, <2>6, FillFrames DEF FillFrame
<1>14. ASSUME NEW p \in Procs, CreateParts(p) PROVE FillInv'
  <2>0. /\ dir' = dir /\ Cur # made' /\ Gives("index_file") # made'
        /\ (Cur # 0 => Cur \in Nodes) /\ (Gives("index_file") # 0 => Gives("index_file") \in Nodes)
        /\ \A q \in Procs : Share(q) # made'
    BY <1>14, CreatePartsFacts, PartNames, KnownFacts, RangeFacts DEF NodeInv, Gives,
       Cur, Share
  <2>1. FillInv'
    <3>1. Cur' = Cur /\ DataOf("index_file")' = DataOf("index_file")
      BY <1>14, <2>0, CreatePartsFacts, PartNames DEF Cur, DataOf, Gives, Only
    <3>2. Cur # 0 /\ Data(Cur) # 0 =>
            Data(Cur)' = Data(Cur) /\ (gate[Cur] = None => gate'[Cur] = None)
      BY <1>14, <2>0, CreatePartsFacts, PartNames DEF Cur, Data, Gives, Only
    <3>3. \A q \in Procs : pc'[q] \in Making \cup Dropping =>
            pc[q] \in Making \cup Dropping \/ NoFills
      BY <1>14, <2>0, CreatePartsFacts, PartNames DEF Becomes, Ended, Others, Attaching,
         Locked, Making, Before, After, Dropping
    <3>4. \A q \in Procs :
            /\ pc'[q] \in Making => pc[q] \in Making \/ \A o \in Procs : pc[o] \in Opened => Share(o) = Cur
            /\ pc'[q] \in Before => pc[q] \in Before \/ (Cur # 0 /\ Data(Cur) # 0) \/ ~Written
      BY <1>14, <2>0, CreatePartsFacts, PartNames DEF Becomes, Ended, Others, Attaching,
         Locked, Making, Before, After
    <3>5. \A q \in Procs : pc'[q] \in Fills =>
                /\ pc[q] \in Fills
                /\ pc'[q] = "fill_pages_file" => Gives("pages_shm")' \in {0, to'[q]["pages_shm"]}
      BY <1>14, <2>0, CreatePartsFacts, PartNames DEF Becomes, Ended, Others, Attaching,
         Locked, Fills, Gives, NameMoves, FillInv, FillAlone
    <3>6. \A q \in Procs : pc'[q] \in Opened =>
                \/ Share(q)' = Cur'
                \/ pc[q] \in Opened /\ Share(q)' = Share(q) /\ (Data(Share(q))' = 0 => Data(Share(q)) = 0)
      BY <1>14, <2>0, CreatePartsFacts, InNodes, PartNames DEF Becomes, Others, Opened,
         Opening, Share, Data, Only
    <3> QED
      BY <3>1, <3>2, <3>3, <3>4, <3>5, <3>6, FillFrames DEF FillFrame
  <2> QED
    BY <2>1
<1>15. ASSUME NEW p \in Procs, CreateRefused(p) PROVE FillInv'
  <2>1. Cur' = Cur /\ DataOf("index_file")' = DataOf("index_file")
    BY <1>15, CreateRefusedFacts, PartNames DEF Cur, DataOf, Gives, NameMoves
  <2>2. Cur # 0 /\ Data(Cur) # 0 =>
          Data(Cur)' = Data(Cur) /\ (gate[Cur] = None => gate'[Cur] = None)
    BY <1>15, CreateRefusedFacts, PartNames DEF Cur, Data, Gives, NameMoves
  <2>3. \A q \in Procs : pc'[q] \in Making \cup Dropping =>
          pc[q] \in Making \cup Dropping \/ NoFills
    BY <1>15, CreateRefusedFacts, PartNames DEF Becomes, Ended, Others, Attaching,
       Locked, Making, Before, After, Dropping
  <2>4. \A q \in Procs :
          /\ pc'[q] \in Making => pc[q] \in Making \/ \A o \in Procs : pc[o] \in Opened => Share(o) = Cur
          /\ pc'[q] \in Before => pc[q] \in Before \/ (Cur # 0 /\ Data(Cur) # 0) \/ ~Written
    BY <1>15, CreateRefusedFacts, PartNames DEF Becomes, Ended, Others, Attaching,
       Locked, Making, Before, After
  <2>5. \A q \in Procs : pc'[q] \in Fills =>
              /\ pc[q] \in Fills
              /\ pc'[q] = "fill_pages_file" => Gives("pages_shm")' \in {0, to'[q]["pages_shm"]}
    BY <1>15, CreateRefusedFacts, PartNames DEF Becomes, Ended, Others, Attaching,
       Locked, Fills, Gives, NameMoves, FillInv, FillAlone
  <2>6. \A q \in Procs : pc'[q] \in Opened =>
              \/ Share(q)' = Cur'
              \/ pc[q] \in Opened /\ Share(q)' = Share(q) /\ (Data(Share(q))' = 0 => Data(Share(q)) = 0)
    BY <1>15, CreateRefusedFacts, PartNames DEF Becomes, Ended, Others, Attaching,
       Locked, Opened, Opening, Share, Data, Cur, Gives, NameMoves
  <2> QED
    BY <2>1, <2>2, <2>3, <2>4, <2>5, <2>6, FillFrames DEF FillFrame
<1>16. ASSUME NEW p \in Procs, LoadEnds(p) PROVE FillInv'
  <2>1. Cur' = Cur /\ DataOf("index_file")' = DataOf("index_file")
    BY <1>16, LoadEndsFacts, PartNames DEF Cur, DataOf, Gives, NameMoves
  <2>2. Cur # 0 /\ Data(Cur) # 0 =>
          Data(Cur)' = Data(Cur) /\ (gate[Cur] = None => gate'[Cur] = None)
    BY <1>16, LoadEndsFacts, PartNames DEF Cur, Data, Gives, NameMoves
  <2>3. \A q \in Procs : pc'[q] \in Making \cup Dropping =>
          pc[q] \in Making \cup Dropping \/ NoFills
    BY <1>16, LoadEndsFacts, PartNames DEF Becomes, Ended, Others, Attaching, Locked,
       Making, Before, After, Dropping
  <2>4. \A q \in Procs :
          /\ pc'[q] \in Making => pc[q] \in Making \/ \A o \in Procs : pc[o] \in Opened => Share(o) = Cur
          /\ pc'[q] \in Before => pc[q] \in Before \/ (Cur # 0 /\ Data(Cur) # 0) \/ ~Written
    BY <1>16, LoadEndsFacts, PartNames DEF Becomes, Ended, Others, Attaching, Locked,
       Making, Before, After
  <2>5. \A q \in Procs : pc'[q] \in Fills =>
              /\ pc[q] \in Fills
              /\ pc'[q] = "fill_pages_file" => Gives("pages_shm")' \in {0, to'[q]["pages_shm"]}
    BY <1>16, LoadEndsFacts, PartNames DEF Becomes, Ended, Others, Attaching, Locked,
       Fills, Gives, NameMoves, FillInv, FillAlone
  <2>6. \A q \in Procs : pc'[q] \in Opened =>
              \/ Share(q)' = Cur'
              \/ pc[q] \in Opened /\ Share(q)' = Share(q) /\ (Data(Share(q))' = 0 => Data(Share(q)) = 0)
    BY <1>16, LoadEndsFacts, PartNames DEF Becomes, Ended, Others, Attaching, Locked,
       Opened, Opening, Share, Data, Cur, Gives, NameMoves
  <2> QED
    BY <2>1, <2>2, <2>3, <2>4, <2>5, <2>6, FillFrames DEF FillFrame
<1>17. ASSUME NEW p \in Procs, MoveAway(p) PROVE FillInv'
  <2>0. NoFills
    BY <1>17, MoveAwayFacts, JobFills DEF Making, Before
  <2>1. CASE pc[p] = "away_index_file"
    <3>1. \A o \in Procs : pc'[o] \notin Fills
      BY <1>17, <2>0, <2>1, MoveAwayFacts DEF NoFills, Others, Becomes, Fills
    <3>2. DataOf("index_file")' = 0
      BY <1>17, <2>1, MoveAwayFacts DEF DataOf, Gives, NameMoves
    <3> QED
      BY <3>1, <3>2, FillUnwritten, NotWritten
  <2>2. CASE pc[p] = "away_pages_file"
    <3>1. Cur' = Cur /\ DataOf("index_file")' = DataOf("index_file")
      BY <1>17, <2>2, MoveAwayFacts, PartNames DEF Cur, DataOf, Gives, NameMoves
    <3>2. Cur # 0 /\ Data(Cur) # 0 =>
            Data(Cur)' = Data(Cur) /\ (gate[Cur] = None => gate'[Cur] = None)
      BY <1>17, <2>2, MoveAwayFacts, PartNames DEF Cur, Data, Gives, NameMoves
    <3>3. \A q \in Procs : pc'[q] \in Making \cup Dropping =>
            pc[q] \in Making \cup Dropping \/ NoFills
      BY <1>17, <2>2, MoveAwayFacts, PartNames DEF Becomes, Ended, Others, Attaching,
         Locked, Making, Before, After, Dropping
    <3>4. \A q \in Procs :
            /\ pc'[q] \in Making => pc[q] \in Making \/ \A o \in Procs : pc[o] \in Opened => Share(o) = Cur
            /\ pc'[q] \in Before => pc[q] \in Before \/ (Cur # 0 /\ Data(Cur) # 0) \/ ~Written
      BY <1>17, <2>2, MoveAwayFacts, PartNames DEF Becomes, Ended, Others, Attaching,
         Locked, Making, Before, After
    <3>5. \A q \in Procs : pc'[q] \in Fills =>
                /\ pc[q] \in Fills
                /\ pc'[q] = "fill_pages_file" => Gives("pages_shm")' \in {0, to'[q]["pages_shm"]}
      BY <1>17, <2>0, <2>2, MoveAwayFacts DEF NoFills, Others, Becomes, Fills
    <3>6. \A q \in Procs : pc'[q] \in Opened =>
                \/ Share(q)' = Cur'
                \/ pc[q] \in Opened /\ Share(q)' = Share(q) /\ (Data(Share(q))' = 0 => Data(Share(q)) = 0)
      BY <1>17, <2>2, MoveAwayFacts, PartNames DEF Becomes, Ended, Others, Attaching,
         Locked, Opened, Opening, Share, Data, Cur, Gives, NameMoves
    <3> QED
      BY <3>1, <3>2, <3>3, <3>4, <3>5, <3>6, FillFrames DEF FillFrame
  <2> QED
    BY <1>17, <2>1, <2>2, MoveAwayFacts
<1>18. ASSUME NEW p \in Procs, Rename(p) PROVE FillInv'
  <2>0. NoFills
    BY <1>18, RenameFacts, JobFills DEF Making, Before, After
  <2>1. CASE pc[p] = "move_index_file"
    <3>1. \A o \in Procs : pc'[o] \notin Fills
      BY <1>18, <2>0, <2>1, RenameFacts DEF NoFills, Others, Becomes, Fills
    <3>2. tmp["index_file"] = new[p] /\ holds["index_file"][new[p]] = 0
      BY <2>1, PartNames DEF NewInv, NewOk, Making, Before, After
    <3>3. DataOf("index_file")' = 0
      BY <1>18, <2>1, <3>2, RenameFacts DEF DataOf, Gives, NameMoves
    <3> QED
      BY <3>1, <3>3, FillUnwritten, NotWritten
  <2>2. CASE pc[p] \in {"move_pages", "move_pages_file"}
    <3>1. Cur' = Cur /\ DataOf("index_file")' = DataOf("index_file")
      BY <1>18, <2>2, RenameFacts, PartNames DEF Cur, DataOf, Gives, NameMoves
    <3>2. Cur # 0 /\ Data(Cur) # 0 =>
            Data(Cur)' = Data(Cur) /\ (gate[Cur] = None => gate'[Cur] = None)
      BY <1>18, <2>2, RenameFacts, PartNames DEF Cur, Data, Gives, NameMoves
    <3>3. \A q \in Procs : pc'[q] \in Making \cup Dropping =>
            pc[q] \in Making \cup Dropping \/ NoFills
      BY <1>18, <2>2, RenameFacts, PartNames DEF Becomes, Ended, Others, Attaching,
         Locked, Making, Before, After, Dropping
    <3>4. \A q \in Procs :
            /\ pc'[q] \in Making => pc[q] \in Making \/ \A o \in Procs : pc[o] \in Opened => Share(o) = Cur
            /\ pc'[q] \in Before => pc[q] \in Before \/ (Cur # 0 /\ Data(Cur) # 0) \/ ~Written
      BY <1>18, <2>2, RenameFacts, PartNames DEF Becomes, Ended, Others, Attaching,
         Locked, Making, Before, After
    <3>5. \A q \in Procs : pc'[q] \in Fills =>
                /\ pc[q] \in Fills
                /\ pc'[q] = "fill_pages_file" => Gives("pages_shm")' \in {0, to'[q]["pages_shm"]}
      BY <1>18, <2>0, <2>2, RenameFacts DEF NoFills, Others, Becomes, Fills
    <3>6. \A q \in Procs : pc'[q] \in Opened =>
                \/ Share(q)' = Cur'
                \/ pc[q] \in Opened /\ Share(q)' = Share(q) /\ (Data(Share(q))' = 0 => Data(Share(q)) = 0)
      BY <1>18, <2>2, RenameFacts, PartNames DEF Becomes, Ended, Others, Attaching,
         Locked, Opened, Opening, Share, Data, Cur, Gives, NameMoves
    <3> QED
      BY <3>1, <3>2, <3>3, <3>4, <3>5, <3>6, FillFrames DEF FillFrame
  <2>3. CASE pc[p] = "move_index"
    <3>1. \A o \in Procs : pc'[o] \notin Fills
      BY <1>18, <2>0, <2>3, RenameFacts DEF NoFills, Others, Becomes, Fills
    <3>2. \A o \in Procs : pc'[o] \notin Before
      BY <1>18, <2>3, RenameFacts, Renamers, PlaceNames DEF JobInv, Others, Becomes,
         Making, Before
    <3>3. \A o \in Procs : pc'[o] \in Opened /\ Written' => Data(Share(o))' # 0
      <4> SUFFICES ASSUME NEW o \in Procs, pc'[o] \in Opened, Written'
                   PROVE  Data(Share(o))' # 0
        OBVIOUS
      <4>1. pc[o] \in Opened /\ Share(o)' = Share(o)
        BY <1>18, RenameFacts DEF Others, Becomes, Share, Opened, Opening
      <4>2. Share(o) = Cur
        BY <2>3, <4>1, Renamers DEF OpenInv, OpenJob, Making, Before, After, Dropped
      <4>3. Written
        BY <1>18, <2>3, RenameFacts, PartNames DEF Written, DataOf, Gives, NameMoves
      <4>4. Data(Cur) # 0
        BY <2>3, <4>3 DEF FillInv, FillBefore, Before
      <4> QED
        BY <1>18, <4>1, <4>2, <4>4, RenameFacts DEF Data
    <3>4. FillAlone' /\ FillBefore' /\ FillLate'
      BY <3>1, <3>2, <3>3 DEF FillAlone, FillBefore, FillLate
    <3> QED
      BY <3>4 DEF FillInv
  <2> QED
    BY <1>18, <2>1, <2>2, <2>3, RenameFacts
<1>19. ASSUME NEW p \in Procs, Retire(p) PROVE FillInv'
  <2>1. Cur' = Cur /\ DataOf("index_file")' = DataOf("index_file")
    BY <1>19, RetireFacts, PartNames DEF Cur, DataOf, Gives, NameMoves
  <2>2. Cur # 0 /\ Data(Cur) # 0 =>
          Data(Cur)' = Data(Cur) /\ (gate[Cur] = None => gate'[Cur] = None)
    BY <1>19, RetireFacts, PartNames DEF Cur, Data, Gives, NameMoves
  <2>3. \A q \in Procs : pc'[q] \in Making \cup Dropping =>
          pc[q] \in Making \cup Dropping \/ NoFills
    BY <1>19, RetireFacts, PartNames DEF Becomes, Ended, Others, Attaching, Locked,
       Making, Before, After, Dropping
  <2>4. \A q \in Procs :
          /\ pc'[q] \in Making => pc[q] \in Making \/ \A o \in Procs : pc[o] \in Opened => Share(o) = Cur
          /\ pc'[q] \in Before => pc[q] \in Before \/ (Cur # 0 /\ Data(Cur) # 0) \/ ~Written
    BY <1>19, RetireFacts, PartNames DEF Becomes, Ended, Others, Attaching, Locked,
       Making, Before, After
  <2>5. \A q \in Procs : pc'[q] \in Fills =>
              /\ pc[q] \in Fills
              /\ pc'[q] = "fill_pages_file" => Gives("pages_shm")' \in {0, to'[q]["pages_shm"]}
    BY <1>19, RetireFacts, PartNames DEF Becomes, Ended, Others, Attaching, Locked,
       Fills, Gives, NameMoves, FillInv, FillAlone
  <2>6. \A q \in Procs : pc'[q] \in Opened =>
              \/ Share(q)' = Cur'
              \/ pc[q] \in Opened /\ Share(q)' = Share(q) /\ (Data(Share(q))' = 0 => Data(Share(q)) = 0)
    BY <1>19, RetireFacts, PartNames DEF Becomes, Ended, Others, Attaching, Locked,
       Opened, Opening, Share, Data, Cur, Gives, NameMoves
  <2> QED
    BY <2>1, <2>2, <2>3, <2>4, <2>5, <2>6, FillFrames DEF FillFrame
<1>20. ASSUME NEW p \in Procs, Finish(p) PROVE FillInv'
  <2>0. NoFills
    BY <1>20, FinishFacts, JobFills DEF Making
  <2>1. CASE new[p] \notin durable
    <3>1. Cur' = Cur /\ DataOf("index_file")' = DataOf("index_file")
      BY <1>20, <2>1, FinishFacts, PartNames DEF Cur, DataOf, Gives, NameMoves
    <3>2. Cur # 0 /\ Data(Cur) # 0 =>
            Data(Cur)' = Data(Cur) /\ (gate[Cur] = None => gate'[Cur] = None)
      <4>1. Cur \in Nodes \/ Cur = 0
        BY RangeFacts
      <4> QED
        BY <1>20, <4>1, FinishFacts, PartNames DEF Only, Data, Cur, Gives
    <3>3. \A q \in Procs : pc'[q] \in Making \cup Dropping =>
            pc[q] \in Making \cup Dropping \/ NoFills
      BY <1>20, <2>1, FinishFacts, PartNames DEF Becomes, Ended, Others, Attaching,
         Locked, Making, Before, After, Dropping
    <3>4. \A q \in Procs :
            /\ pc'[q] \in Making => pc[q] \in Making \/ \A o \in Procs : pc[o] \in Opened => Share(o) = Cur
            /\ pc'[q] \in Before => pc[q] \in Before \/ (Cur # 0 /\ Data(Cur) # 0) \/ ~Written
      BY <1>20, <2>1, FinishFacts, PartNames DEF Becomes, Ended, Others, Attaching,
         Locked, Making, Before, After
    <3>5. \A q \in Procs : pc'[q] \in Fills =>
                /\ pc[q] \in Fills
                /\ pc'[q] = "fill_pages_file" => Gives("pages_shm")' \in {0, to'[q]["pages_shm"]}
      BY <1>20, <2>1, FinishFacts, PartNames DEF Becomes, Ended, Others, Attaching,
         Locked, Fills, Gives, NameMoves, FillInv, FillAlone
    <3>6. \A q \in Procs : pc'[q] \in Opened =>
                \/ Share(q)' = Cur'
                \/ pc[q] \in Opened /\ Share(q)' = Share(q) /\ (Data(Share(q))' = 0 => Data(Share(q)) = 0)
      BY <1>20, <2>1, FinishFacts, PartNames DEF Becomes, Ended, Others, Attaching,
         Locked, Opened, Opening, Share, Data, Cur, Gives, NameMoves
    <3> QED
      BY <3>1, <3>2, <3>3, <3>4, <3>5, <3>6, FillFrames DEF FillFrame
  <2>2. CASE new[p] \in durable
    <3>1. \A o \in Procs : pc'[o] \notin Fills
      BY <1>20, <2>0, FinishFacts DEF NoFills, Others, Becomes, Fills
    <3>2. \A o \in Procs : pc'[o] \notin Making
      BY <1>20, FinishFacts, Renamers, PlaceNames DEF JobInv, Others, Becomes, Making,
         Before, After
    <3>3. new[p] # 0 /\ NewOk(p)
      BY <1>20, FinishFacts, InNodes DEF NewInv, Making
    <3>4. Cur' = new[p] /\ gate'[new[p]] = None
      BY <1>20, <3>3, FinishFacts DEF NewOk, Cur, Gives, Only, Before
    <3>5. holds'["index_shm"][new[p]] = new[p]
      BY <1>20, <3>3, FinishFacts, PartNames DEF NewOk
    <3>6. DataOf("index_file")' = new[p]
      BY <1>20, <2>2, <3>3, FinishFacts, PartNames DEF NewOk, DataOf, Gives, Only,
         Before
    <3>7. FillAlone' /\ FillBefore' /\ FillLate'
      <4>1. Cur' # 0 /\ Data(Cur)' = DataOf("index_file")' /\ gate'[Cur'] = None
        BY <3>3, <3>4, <3>5, <3>6 DEF Data
      <4> QED
        BY <3>1, <3>2, <4>1 DEF FillAlone, FillBefore, FillLate, Making
    <3> QED
      BY <3>7 DEF FillInv
  <2> QED
    BY <2>1, <2>2
<1>21. ASSUME NEW p \in Procs, LoadFails(p) PROVE FillInv'
  <2>1. Cur' = Cur /\ DataOf("index_file")' = DataOf("index_file")
    BY <1>21, LoadFailsFacts, PartNames DEF Cur, DataOf, Gives, NameMoves
  <2>2. Cur # 0 /\ Data(Cur) # 0 =>
          Data(Cur)' = Data(Cur) /\ (gate[Cur] = None => gate'[Cur] = None)
    <3>1. Cur \in Nodes \/ Cur = 0
      BY RangeFacts
    <3> QED
      BY <1>21, <3>1, LoadFailsFacts DEF Only, Data, Cur, Gives
  <2>3. \A q \in Procs : pc'[q] \in Making \cup Dropping =>
          pc[q] \in Making \cup Dropping \/ NoFills
    BY <1>21, LoadFailsFacts, PartNames DEF Becomes, Ended, Others, Attaching, Locked,
       Making, Before, After, Dropping
  <2>4. \A q \in Procs :
          /\ pc'[q] \in Making => pc[q] \in Making \/ \A o \in Procs : pc[o] \in Opened => Share(o) = Cur
          /\ pc'[q] \in Before => pc[q] \in Before \/ (Cur # 0 /\ Data(Cur) # 0) \/ ~Written
    BY <1>21, LoadFailsFacts, PartNames DEF Becomes, Ended, Others, Attaching, Locked,
       Making, Before, After
  <2>5. \A q \in Procs : pc'[q] \in Fills =>
              /\ pc[q] \in Fills
              /\ pc'[q] = "fill_pages_file" => Gives("pages_shm")' \in {0, to'[q]["pages_shm"]}
    BY <1>21, LoadFailsFacts, PartNames DEF Becomes, Ended, Others, Attaching, Locked,
       Fills, Gives, NameMoves, FillInv, FillAlone
  <2>6. \A q \in Procs : pc'[q] \in Opened =>
              \/ Share(q)' = Cur'
              \/ pc[q] \in Opened /\ Share(q)' = Share(q) /\ (Data(Share(q))' = 0 => Data(Share(q)) = 0)
    BY <1>21, LoadFailsFacts, PartNames DEF Becomes, Ended, Others, Attaching, Locked,
       Opened, Opening, Share, Data, Cur, Gives, NameMoves
  <2> QED
    BY <2>1, <2>2, <2>3, <2>4, <2>5, <2>6, FillFrames DEF FillFrame
<1>22. ASSUME NEW p \in Procs, LoadDies(p) PROVE FillInv'
  <2>1. Cur' = Cur /\ DataOf("index_file")' = DataOf("index_file")
    BY <1>22, LoadDiesFacts, PartNames DEF Cur, DataOf, Gives, NameMoves
  <2>2. Cur # 0 /\ Data(Cur) # 0 =>
          Data(Cur)' = Data(Cur) /\ (gate[Cur] = None => gate'[Cur] = None)
    <3>1. Cur \in Nodes \/ Cur = 0
      BY RangeFacts
    <3> QED
      BY <1>22, <3>1, LoadDiesFacts DEF Only, Data, Cur, Gives
  <2>3. \A q \in Procs : pc'[q] \in Making \cup Dropping =>
          pc[q] \in Making \cup Dropping \/ NoFills
    BY <1>22, LoadDiesFacts, PartNames DEF Becomes, Ended, Others, Attaching, Locked,
       Making, Before, After, Dropping
  <2>4. \A q \in Procs :
          /\ pc'[q] \in Making => pc[q] \in Making \/ \A o \in Procs : pc[o] \in Opened => Share(o) = Cur
          /\ pc'[q] \in Before => pc[q] \in Before \/ (Cur # 0 /\ Data(Cur) # 0) \/ ~Written
    BY <1>22, LoadDiesFacts, PartNames DEF Becomes, Ended, Others, Attaching, Locked,
       Making, Before, After
  <2>5. \A q \in Procs : pc'[q] \in Fills =>
              /\ pc[q] \in Fills
              /\ pc'[q] = "fill_pages_file" => Gives("pages_shm")' \in {0, to'[q]["pages_shm"]}
    BY <1>22, LoadDiesFacts, PartNames DEF Becomes, Ended, Others, Attaching, Locked,
       Fills, Gives, NameMoves, FillInv, FillAlone
  <2>6. \A q \in Procs : pc'[q] \in Opened =>
              \/ Share(q)' = Cur'
              \/ pc[q] \in Opened /\ Share(q)' = Share(q) /\ (Data(Share(q))' = 0 => Data(Share(q)) = 0)
    BY <1>22, LoadDiesFacts, PartNames DEF Becomes, Ended, Others, Attaching, Locked,
       Opened, Opening, Share, Data, Cur, Gives, NameMoves
  <2> QED
    BY <2>1, <2>2, <2>3, <2>4, <2>5, <2>6, FillFrames DEF FillFrame
<1>23. ASSUME NEW p \in Procs, UnloadStart(p) PROVE FillInv'
  <2>1. Cur' = Cur /\ DataOf("index_file")' = DataOf("index_file")
    BY <1>23, UnloadStartFacts, PartNames DEF Cur, DataOf, Gives, NameMoves
  <2>2. Cur # 0 /\ Data(Cur) # 0 =>
          Data(Cur)' = Data(Cur) /\ (gate[Cur] = None => gate'[Cur] = None)
    BY <1>23, UnloadStartFacts, PartNames DEF Cur, Data, Gives, NameMoves
  <2>3. \A q \in Procs : pc'[q] \in Making \cup Dropping =>
          pc[q] \in Making \cup Dropping \/ NoFills
    BY <1>23, UnloadStartFacts, PartNames DEF Becomes, Ended, Others, Attaching, Locked,
       Making, Before, After, Dropping
  <2>4. \A q \in Procs :
          /\ pc'[q] \in Making => pc[q] \in Making \/ \A o \in Procs : pc[o] \in Opened => Share(o) = Cur
          /\ pc'[q] \in Before => pc[q] \in Before \/ (Cur # 0 /\ Data(Cur) # 0) \/ ~Written
    BY <1>23, UnloadStartFacts, PartNames DEF Becomes, Ended, Others, Attaching, Locked,
       Making, Before, After
  <2>5. \A q \in Procs : pc'[q] \in Fills =>
              /\ pc[q] \in Fills
              /\ pc'[q] = "fill_pages_file" => Gives("pages_shm")' \in {0, to'[q]["pages_shm"]}
    BY <1>23, UnloadStartFacts, PartNames DEF Becomes, Ended, Others, Attaching, Locked,
       Fills, Gives, NameMoves, FillInv, FillAlone
  <2>6. \A q \in Procs : pc'[q] \in Opened =>
              \/ Share(q)' = Cur'
              \/ pc[q] \in Opened /\ Share(q)' = Share(q) /\ (Data(Share(q))' = 0 => Data(Share(q)) = 0)
    BY <1>23, UnloadStartFacts, PartNames DEF Becomes, Ended, Others, Attaching, Locked,
       Opened, Opening, Share, Data, Cur, Gives, NameMoves
  <2> QED
    BY <2>1, <2>2, <2>3, <2>4, <2>5, <2>6, FillFrames DEF FillFrame
<1>24. ASSUME NEW p \in Procs, Drop(p) PROVE FillInv'
  <2>0. pc[p] # "drop_pages" => NoFills
    BY <1>24, DropFacts, JobFills DEF Dropping
  <2>1. CASE pc[p] = "drop_index_file"
    <3>1. \A o \in Procs : pc'[o] \notin Fills
      BY <1>24, <2>0, <2>1, DropFacts DEF NoFills, Others, Becomes, Fills
    <3>2. DataOf("index_file")' = 0
      BY <1>24, <2>1, DropFacts DEF DataOf, Gives, NameMoves
    <3> QED
      BY <3>1, <3>2, FillUnwritten, NotWritten
  <2>2. CASE pc[p] \in {"drop_pages_file", "drop_pages"}
    <3>1. Cur' = Cur /\ DataOf("index_file")' = DataOf("index_file")
      BY <1>24, <2>2, DropFacts, PartNames DEF Cur, DataOf, Gives, NameMoves
    <3>2. Cur # 0 /\ Data(Cur) # 0 =>
            Data(Cur)' = Data(Cur) /\ (gate[Cur] = None => gate'[Cur] = None)
      BY <1>24, <2>2, DropFacts, PartNames DEF Cur, Data, Gives, NameMoves
    <3>3. \A q \in Procs : pc'[q] \in Making \cup Dropping =>
            pc[q] \in Making \cup Dropping \/ NoFills
      BY <1>24, <2>2, DropFacts, PartNames DEF Becomes, Ended, Others, Attaching,
         Locked, Making, Before, After, Dropping
    <3>4. \A q \in Procs :
            /\ pc'[q] \in Making => pc[q] \in Making \/ \A o \in Procs : pc[o] \in Opened => Share(o) = Cur
            /\ pc'[q] \in Before => pc[q] \in Before \/ (Cur # 0 /\ Data(Cur) # 0) \/ ~Written
      BY <1>24, <2>2, DropFacts, PartNames DEF Becomes, Ended, Others, Attaching,
         Locked, Making, Before, After
    <3>5. \A q \in Procs : pc'[q] \in Fills =>
                /\ pc[q] \in Fills
                /\ pc'[q] = "fill_pages_file" => Gives("pages_shm")' \in {0, to'[q]["pages_shm"]}
      BY <1>24, <2>0, <2>2, DropFacts DEF NoFills, Others, Becomes, Fills, Gives,
         NameMoves
    <3>6. \A q \in Procs : pc'[q] \in Opened =>
                \/ Share(q)' = Cur'
                \/ pc[q] \in Opened /\ Share(q)' = Share(q) /\ (Data(Share(q))' = 0 => Data(Share(q)) = 0)
      BY <1>24, <2>2, DropFacts, PartNames DEF Becomes, Ended, Others, Attaching,
         Locked, Opened, Opening, Share, Data, Cur, Gives, NameMoves
    <3> QED
      BY <3>1, <3>2, <3>3, <3>4, <3>5, <3>6, FillFrames DEF FillFrame
  <2>3. CASE pc[p] = "drop_index"
    <3>1. \A o \in Procs : pc'[o] \notin Fills
      BY <1>24, <2>0, <2>3, DropFacts DEF NoFills, Others, Becomes, Fills
    <3>2. \A o \in Procs : pc'[o] \notin Before
      BY <1>24, <2>3, DropFacts, Renamers, PlaceNames DEF JobInv, Others, Becomes,
         Making, Before, Dropping
    <3>3. \A o \in Procs : pc'[o] \in Opened => Data(Share(o))' # 0
      <4> SUFFICES ASSUME NEW o \in Procs, pc'[o] \in Opened PROVE Data(Share(o))' # 0
        OBVIOUS
      <4>1. pc[o] \in Opened /\ Share(o)' = Share(o)
        BY <1>24, DropFacts DEF Others, Becomes, Share, Opened, Opening
      <4>2. Share(o) = Index(p) /\ Index(p) # 0
        BY <2>3, <4>1, Holder, Renamers DEF OpenInv, OpenJob, Dropping, After, Dropped
      <4> QED
        BY <1>24, <4>1, <4>2, DropFacts DEF ShareInv, ShareOk, Data
    <3>4. FillAlone' /\ FillBefore' /\ FillLate'
      BY <3>1, <3>2, <3>3 DEF FillAlone, FillBefore, FillLate
    <3> QED
      BY <3>4 DEF FillInv
  <2> QED
    BY <1>24, <2>1, <2>2, <2>3, DropFacts
<1>25. ASSUME NEW p \in Procs, MarkDeleted(p) PROVE FillInv'
  <2>1. Cur' = Cur /\ DataOf("index_file")' = DataOf("index_file")
    BY <1>25, MarkDeletedFacts, PartNames DEF Cur, DataOf, Gives, NameMoves
  <2>2. Cur # 0 /\ Data(Cur) # 0 =>
          Data(Cur)' = Data(Cur) /\ (gate[Cur] = None => gate'[Cur] = None)
    BY <1>25, MarkDeletedFacts, PartNames DEF Cur, Data, Gives, NameMoves
  <2>3. \A q \in Procs : pc'[q] \in Making \cup Dropping =>
          pc[q] \in Making \cup Dropping \/ NoFills
    BY <1>25, MarkDeletedFacts, PartNames DEF Becomes, Ended, Others, Attaching, Locked,
       Making, Before, After, Dropping
  <2>4. \A q \in Procs :
          /\ pc'[q] \in Making => pc[q] \in Making \/ \A o \in Procs : pc[o] \in Opened => Share(o) = Cur
          /\ pc'[q] \in Before => pc[q] \in Before \/ (Cur # 0 /\ Data(Cur) # 0) \/ ~Written
    BY <1>25, MarkDeletedFacts, PartNames DEF Becomes, Ended, Others, Attaching, Locked,
       Making, Before, After
  <2>5. \A q \in Procs : pc'[q] \in Fills =>
              /\ pc[q] \in Fills
              /\ pc'[q] = "fill_pages_file" => Gives("pages_shm")' \in {0, to'[q]["pages_shm"]}
    BY <1>25, MarkDeletedFacts, PartNames DEF Becomes, Ended, Others, Attaching, Locked,
       Fills, Gives, NameMoves, FillInv, FillAlone
  <2>6. \A q \in Procs : pc'[q] \in Opened =>
              \/ Share(q)' = Cur'
              \/ pc[q] \in Opened /\ Share(q)' = Share(q) /\ (Data(Share(q))' = 0 => Data(Share(q)) = 0)
    BY <1>25, MarkDeletedFacts, PartNames DEF Becomes, Ended, Others, Attaching, Locked,
       Opened, Opening, Share, Data, Cur, Gives, NameMoves
  <2> QED
    BY <2>1, <2>2, <2>3, <2>4, <2>5, <2>6, FillFrames DEF FillFrame
<1>26. CASE UNCHANGED vars
  BY <1>26 DEF vars, FillInv, FillAlone, FillBefore, FillLate, Gives, Cur, Share, Data,
     DataOf, Written
<1> QED
  BY <1>1, <1>2, <1>3, <1>4, <1>5, <1>6, <1>7, <1>8, <1>9, <1>10, <1>11, <1>12, <1>13,
     <1>14, <1>15, <1>16, <1>17, <1>18, <1>19, <1>20, <1>21, <1>22, <1>23, <1>24, <1>25,
     <1>26 DEF Next, Steps, Starts, Links, Calls, Creates, Unloads

\* What a step must leave of who is linked to what.
ToldFrame ==
  /\ dead \subseteq dead' /\ Cur' = Cur /\ Cur' \notin dead'
  /\ \A q \in Procs :
       /\ ~met'[q] /\ pc'[q] \notin Opening /\ Index(q)' # 0 =>
            \/ ~met[q] /\ pc[q] \notin Opening /\ Index(q)' = Index(q)
            \/ Index(q)' \in dead'
            \/ Index(q)' = Cur /\ \A r \in Procs : pc'[r] \notin After \cup Dropped
       /\ pc[q] \in After \cup Dropped =>
            \/ pc'[q] \in After \cup Dropped /\ Index(q)' = Index(q)
            \/ Index(q) \in dead' \cup {0}
       /\ pc'[q] \in After \cup Dropped => pc[q] \in After \cup Dropped
       /\ pc'[q] \in Dropped => pc[q] \in Dropped /\ Index(q)' = Index(q)
       /\ pc'[q] \in Before =>
            \/ pc[q] \in Before /\ Index(q)' = Index(q) /\ (Complete' => Complete)
            \/ Index(q)' = Cur
            \/ Index(q)' = 0 /\ ~Complete'

LEMMA ToldFrames ==
  ASSUME ToldInv, ToldFrame
  PROVE  ToldInv'
<1> HIDE DEF Cur, Index, Complete
<1>1. Cur' = Cur /\ Cur' \notin dead' /\ dead \subseteq dead'
  BY DEF ToldFrame
<1>2. ToldUnmet'
  <2> SUFFICES ASSUME NEW q \in Procs, ~met'[q], pc'[q] \notin Opening, Index(q)' # 0
               PROVE  \/ Index(q)' \in dead'
                      \/ \E r \in Procs : pc'[r] \in After \cup Dropped /\ Index(q)' = Index(r)'
                      \/ Index(q)' = Cur' /\ \A r \in Procs : pc'[r] \notin After \cup Dropped
    BY DEF ToldUnmet
  <2>1. CASE ~met[q] /\ pc[q] \notin Opening /\ Index(q)' = Index(q)
    <3>1. CASE Index(q) \in dead
      BY <1>1, <2>1, <3>1
    <3>2. ASSUME NEW r \in Procs, pc[r] \in After \cup Dropped, Index(q) = Index(r)
          PROVE  Index(q)' \in dead' \/ (pc'[r] \in After \cup Dropped /\ Index(q)' = Index(r)')
      BY <2>1, <3>2 DEF ToldFrame
    <3>3. CASE Index(q) = Cur /\ \A r \in Procs : pc[r] \notin After \cup Dropped
      BY <1>1, <2>1, <3>3 DEF ToldFrame
    <3> QED
      BY <2>1, <3>1, <3>2, <3>3 DEF ToldInv, ToldUnmet
  <2> QED
    BY <1>1, <2>1 DEF ToldFrame
<1>3. ToldBefore'
  BY <1>1 DEF ToldFrame, ToldInv, ToldBefore
<1>4. \A q \in Procs : pc'[q] \in Dropped => Index(q)' # Cur'
  BY <1>1 DEF ToldFrame, ToldInv
<1> QED
  BY <1>1, <1>2, <1>3, <1>4 DEF ToldInv

LEMMA NoneChanging ==
  ASSUME NEW p \in Procs, \A q \in Procs : ~Changing(q)
  PROVE  pc[p] \notin After \cup Dropped
BY DEF Changing

\* Whose share it is that they are linked to.
LEMMA ToldStep ==
  ASSUME TypeOK, PlaceInv, JobInv, NodeInv, LockInv, ShareInv, NewInv, OpenInv, FileInv, GoneInv, FillInv, MetInv, ToldInv, [Next]_vars
  PROVE  ToldInv'
<1>1. ASSUME NEW p \in Procs, LinkStart(p) PROVE ToldInv'
  <2>1. dead \subseteq dead' /\ Cur' = Cur /\ Cur' \notin dead'
    BY <1>1, LinkStartFacts, PartNames DEF ToldInv, Cur, Gives, NameMoves
  <2>2. \A q \in Procs : ~met'[q] /\ pc'[q] \notin Opening /\ Index(q)' # 0 =>
              \/ ~met[q] /\ pc[q] \notin Opening /\ Index(q)' = Index(q)
              \/ Index(q)' \in dead'
              \/ Index(q)' = Cur /\ \A r \in Procs : pc'[r] \notin After \cup Dropped
    BY <1>1, LinkStartFacts, PartNames DEF Becomes, Ended, Others, Marked, Forgets,
       Disturbs, Attaching, Locked, After, Dropped, Opening, Index
  <2>3. \A q \in Procs :
         /\ pc[q] \in After \cup Dropped =>
              \/ pc'[q] \in After \cup Dropped /\ Index(q)' = Index(q)
              \/ Index(q) \in dead' \cup {0}
         /\ pc'[q] \in After \cup Dropped => pc[q] \in After \cup Dropped
    BY <1>1, LinkStartFacts, PartNames DEF Becomes, Ended, Others, Marked, Forgets,
       Disturbs, Attaching, Locked, After, Dropped, Index
  <2>4. \A q \in Procs : pc'[q] \in Dropped => pc[q] \in Dropped /\ Index(q)' = Index(q)
    BY <1>1, LinkStartFacts, PartNames DEF Becomes, Ended, Others, Marked, Forgets,
       Disturbs, Attaching, Locked, After, Dropped, Index
  <2>5. \A q \in Procs : pc'[q] \in Before =>
              \/ pc[q] \in Before /\ Index(q)' = Index(q) /\ (Complete' => Complete)
              \/ Index(q)' = Cur
              \/ Index(q)' = 0 /\ ~Complete'
    <3>1. Complete' => Complete
      BY <1>1, LinkStartFacts, PartNames DEF Complete, Cur, Data, Gives, Lasts
    <3> QED
      BY <1>1, <3>1, LinkStartFacts, PartNames DEF Becomes, Others, Ended, Attaching,
         Locked, Before, Index
  <2> QED
    BY <2>1, <2>2, <2>3, <2>4, <2>5, ToldFrames DEF ToldFrame
<1>2. ASSUME NEW p \in Procs, OpenIndex(p) PROVE ToldInv'
  <2>1. CASE Cur # 0
    <3>1. dead \subseteq dead' /\ Cur' = Cur /\ Cur' \notin dead'
      BY <1>2, <2>1, OpenIndexFacts, PartNames DEF ToldInv, Cur, Gives, NameMoves
    <3>2. \A q \in Procs : ~met'[q] /\ pc'[q] \notin Opening /\ Index(q)' # 0 =>
                \/ ~met[q] /\ pc[q] \notin Opening /\ Index(q)' = Index(q)
                \/ Index(q)' \in dead'
                \/ Index(q)' = Cur /\ \A r \in Procs : pc'[r] \notin After \cup Dropped
      BY <1>2, <2>1, OpenIndexFacts, PartNames DEF Becomes, Ended, Others, Marked,
         Forgets, Disturbs, Attaching, Locked, After, Dropped, Opening, Index
    <3>3. \A q \in Procs :
           /\ pc[q] \in After \cup Dropped =>
                \/ pc'[q] \in After \cup Dropped /\ Index(q)' = Index(q)
                \/ Index(q) \in dead' \cup {0}
           /\ pc'[q] \in After \cup Dropped => pc[q] \in After \cup Dropped
      BY <1>2, <2>1, OpenIndexFacts, PartNames DEF Becomes, Ended, Others, Marked,
         Forgets, Disturbs, Attaching, Locked, After, Dropped, Index
    <3>4. \A q \in Procs : pc'[q] \in Dropped =>
            pc[q] \in Dropped /\ Index(q)' = Index(q)
      BY <1>2, <2>1, OpenIndexFacts, PartNames DEF Becomes, Ended, Others, Marked,
         Forgets, Disturbs, Attaching, Locked, After, Dropped, Index
    <3>5. \A q \in Procs : pc'[q] \in Before =>
                \/ pc[q] \in Before /\ Index(q)' = Index(q) /\ (Complete' => Complete)
                \/ Index(q)' = Cur
                \/ Index(q)' = 0 /\ ~Complete'
      <4>1. Complete' => Complete
        BY <1>2, <2>1, OpenIndexFacts, PartNames DEF Complete, Cur, Data, Gives, Lasts
      <4> QED
        BY <1>2, <2>1, <4>1, OpenIndexFacts, PartNames DEF Becomes, Others, Ended,
           Attaching, Locked, Before, Index
    <3> QED
      BY <3>1, <3>2, <3>3, <3>4, <3>5, ToldFrames DEF ToldFrame
  <2>2. CASE Cur = 0
    <3>1. /\ Cur' = made' /\ made' # 0 /\ dead' = dead /\ holds' = holds /\ met' = met /\ Cur' # 0
          /\ \A q \in Procs : Index(q)' = Index(q) /\ (q # p => pc'[q] = pc[q])
          /\ pc'[p] \in Opening /\ pc'[p] \notin After \cup Dropped \cup Before
          /\ pc[p] \notin After \cup Dropped \cup Before
      BY <1>2, <2>2, OpenIndexFacts, PartNames DEF Cur, Gives, NameMoves, Others,
         Becomes, Index, Opening, After, Dropped, Before
    <3>2. made' \notin dead /\ holds["index_shm"][made'] = 0 /\ made' \notin Known
      BY <1>2, <2>2, OpenIndexFacts, KnownFacts, PartNames DEF NodeInv, Unused
    <3>3. ~Complete'
      BY <3>1, <3>2 DEF Complete, Data
    <3>4. \A q \in Procs : Index(q) # made'
      BY <3>2, PartNames DEF NodeInv, Index
    <3> HIDE DEF Cur, Index, Complete
    <3>5. ToldUnmet'
      BY <2>2, <3>1 DEF ToldInv, ToldUnmet
    <3>6. ToldBefore'
      BY <2>2, <3>1, <3>3 DEF ToldInv, ToldBefore
    <3>7. \A q \in Procs : pc'[q] \in Dropped => Index(q)' # Cur'
      BY <3>1, <3>4
    <3> QED
      BY <3>1, <3>2, <3>5, <3>6, <3>7 DEF ToldInv
  <2> QED
    BY <2>1, <2>2
<1>3. ASSUME NEW p \in Procs, LockIndex(p) PROVE ToldInv'
  <2>1. dead \subseteq dead' /\ Cur' = Cur /\ Cur' \notin dead'
    BY <1>3, LockIndexFacts, PartNames DEF ToldInv, Cur, Gives, NameMoves
  <2>2. \A q \in Procs : ~met'[q] /\ pc'[q] \notin Opening /\ Index(q)' # 0 =>
              \/ ~met[q] /\ pc[q] \notin Opening /\ Index(q)' = Index(q)
              \/ Index(q)' \in dead'
              \/ Index(q)' = Cur /\ \A r \in Procs : pc'[r] \notin After \cup Dropped
    BY <1>3, LockIndexFacts, PartNames DEF Becomes, Ended, Others, Marked, Forgets,
       Disturbs, Attaching, Locked, After, Dropped, Opening, Index
  <2>3. \A q \in Procs :
         /\ pc[q] \in After \cup Dropped =>
              \/ pc'[q] \in After \cup Dropped /\ Index(q)' = Index(q)
              \/ Index(q) \in dead' \cup {0}
         /\ pc'[q] \in After \cup Dropped => pc[q] \in After \cup Dropped
    BY <1>3, LockIndexFacts, PartNames DEF Becomes, Ended, Others, Marked, Forgets,
       Disturbs, Attaching, Locked, After, Dropped, Index
  <2>4. \A q \in Procs : pc'[q] \in Dropped => pc[q] \in Dropped /\ Index(q)' = Index(q)
    BY <1>3, LockIndexFacts, PartNames DEF Becomes, Ended, Others, Marked, Forgets,
       Disturbs, Attaching, Locked, After, Dropped, Index
  <2>5. \A q \in Procs : pc'[q] \in Before =>
              \/ pc[q] \in Before /\ Index(q)' = Index(q) /\ (Complete' => Complete)
              \/ Index(q)' = Cur
              \/ Index(q)' = 0 /\ ~Complete'
    <3>1. Complete' => Complete
      BY <1>3, LockIndexFacts, PartNames DEF Complete, Cur, Data, Gives, Lasts
    <3> QED
      BY <1>3, <3>1, LockIndexFacts, PartNames DEF Becomes, Others, Ended, Attaching,
         Locked, Before, Index
  <2> QED
    BY <2>1, <2>2, <2>3, <2>4, <2>5, ToldFrames DEF ToldFrame
<1>4. ASSUME NEW p \in Procs, Attach(p) PROVE ToldInv'
  <2>0. /\ pc[p] \in Opened /\ pc[p] \in Opening /\ pc[p] \notin After \cup Dropped \cup {"finish"} \cup Before
        /\ pc'[p] \notin After \cup Dropped
        /\ (pc'[p] \in Before => aim[p] = "create" /\ aim[p] \in JobAims /\ ~met[p])
        /\ met' = met /\ UNCHANGED <<dir, dead, durable>> /\ holds'["index_shm"] = holds["index_shm"]
    BY <1>4, AttachFacts, PartNames DEF Ended, Becomes, Attaching, Opened, Opening,
       After, Dropped, Before, JobInv, JobAims
  <2>1. \/ Index(p)' = Index(p)
        \/ Index(p)' = Share(p) /\ Index(p)' # 0
    BY <1>4, AttachFacts, PartNames, InNodes, <2>0 DEF Index, Share, NameMoves, Ended
  <2>2. ~met[p] => Share(p) = Cur /\ \A q \in Procs : pc[q] \notin After \cup Dropped
    BY <2>0, NoneChanging DEF OpenInv, OpenUnmet
  <2>3. pc'[p] \in Before => Index(p)' = Cur \/ (Index(p)' = 0 /\ ~Complete)
    <3>1. CASE Ended(p, FALSE) /\ Gives(pc[p]) = 0 /\ at'[p] = at[p]
      <4>1. ASSUME pc'[p] \in Before
            PROVE  Index(p)' = 0 /\ ~Complete
        <5>1. Index(p)' = 0
          BY <2>0, <3>1, <4>1, PartNames DEF PlaceInv, PlaceOk, Index
        <5>2. pc[p] \in {"index_file", "pages_file"} => Lasts(Cur)
          BY <2>0, <4>1 DEF MetInv, MetOpening, OpensOk
        <5> QED
          BY <1>4, <3>1, <5>1, <5>2, AttachFacts DEF Attaching, Complete
      <4> QED
        BY <4>1
    <3>2. CASE ~(Ended(p, FALSE) /\ Gives(pc[p]) = 0 /\ at'[p] = at[p]) /\ pc'[p] \in Before
      <4>1. Index(p)' = Share(p)
        BY <1>4, <2>0, <3>2, AttachFacts, PartNames DEF Index, Share, NameMoves,
           Becomes, Before, Attaching
      <4> QED
        BY <2>0, <2>2, <3>2, <4>1
    <3> QED
      BY <3>1, <3>2
  <2>4. \A q \in Procs : q # p =>
          pc'[q] = pc[q] /\ Index(q)' = Index(q) /\ met'[q] = met[q]
    BY <1>4, AttachFacts DEF Others, Index
  <2>5. Cur' = Cur /\ Complete' = Complete
    BY <2>0 DEF Complete, Cur, Data, Gives, Lasts
  <2>6. Index(p) # 0 => Index(p) \in dead
    BY <2>0 DEF PlaceInv, PlaceOk
  <2> HIDE DEF Cur, Index, Complete, Share
  <2>7. ToldFrame
    BY <2>0, <2>1, <2>2, <2>3, <2>4, <2>5, <2>6 DEF ToldFrame, ToldInv
  <2> QED
    BY <2>7, ToldFrames
<1>5. ASSUME NEW p \in Procs, FillIndex(p) PROVE ToldInv'
  <2>0. /\ pc[p] \in Opened /\ pc[p] \in Opening /\ Share(p) # 0 /\ Share(p) \in Nodes
        /\ pc[p] \notin After \cup Dropped \cup Before /\ pc'[p] \notin After \cup Dropped
        /\ Index(p)' = Index(p) /\ met' = met /\ UNCHANGED <<dir, dead, durable>>
        /\ (pc'[p] \in Before => ~Written /\ aim[p] = "create" /\ aim[p] \in JobAims /\ ~met[p] /\ holds' = holds)
        /\ (Index(p) # 0 => Index(p) \in dead)
    BY <1>5, FillIndexFacts, InNodes DEF Opened, Opening, After, Dropped, Before,
       Becomes, Ended, Index, JobInv, JobAims, PlaceInv, PlaceOk
  <2>1. Cur' = Cur
    BY <2>0 DEF Cur, Gives
  <2>2. pc'[p] \in Before => Index(p)' = 0 /\ ~Complete'
    <3>1. ASSUME pc'[p] \in Before
          PROVE  Index(p)' = 0 /\ ~Complete'
      <4>1. Index(p)' = 0
        BY <2>0, <3>1, PartNames DEF PlaceInv, PlaceOk, Index
      <4>2. Share(p) = Cur /\ Data(Share(p)) = 0
        BY <1>5, <2>0, <3>1, FillIndexFacts DEF OpenInv, OpenUnmet, ShareInv, ShareOk
      <4>3. Data(Cur)' = 0
        BY <2>0, <2>1, <3>1, <4>2 DEF Data
      <4> QED
        BY <4>1, <4>3 DEF Complete
    <3> QED
      BY <3>1
  <2>3. \A q \in Procs : q # p =>
          pc'[q] = pc[q] /\ Index(q)' = Index(q) /\ met'[q] = met[q]
    BY <1>5, FillIndexFacts DEF Others, Index
  <2>4. \A q \in Procs : pc'[q] \in Before /\ q # p => (Complete' => Complete)
    <3> SUFFICES ASSUME NEW q \in Procs, pc'[q] \in Before, q # p
                 PROVE  Complete' => Complete
      OBVIOUS
    <3>1. ~Written
      BY <1>5, <2>3, FillIndexFacts, Filler DEF Making
    <3>2. holds' = holds
      BY <1>5, <3>1, FillIndexFacts
    <3> QED
      BY <2>0, <3>2 DEF Complete, Cur, Data, Gives, Lasts
  <2> HIDE DEF Cur, Index, Complete, Share
  <2>5. ToldFrame
    BY <2>0, <2>1, <2>2, <2>3, <2>4 DEF ToldFrame, ToldInv
  <2> QED
    BY <2>5, ToldFrames
<1>6. ASSUME NEW p \in Procs, FillPages(p) PROVE ToldInv'
  <2>1. dead \subseteq dead' /\ Cur' = Cur /\ Cur' \notin dead'
    BY <1>6, FillPagesFacts, PartNames DEF ToldInv, Cur, Gives, NameMoves
  <2>2. \A q \in Procs : ~met'[q] /\ pc'[q] \notin Opening /\ Index(q)' # 0 =>
              \/ ~met[q] /\ pc[q] \notin Opening /\ Index(q)' = Index(q)
              \/ Index(q)' \in dead'
              \/ Index(q)' = Cur /\ \A r \in Procs : pc'[r] \notin After \cup Dropped
    BY <1>6, FillPagesFacts, PartNames DEF Becomes, Ended, Others, Marked, Forgets,
       Disturbs, Attaching, Locked, After, Dropped, Opening, Index
  <2>3. \A q \in Procs :
         /\ pc[q] \in After \cup Dropped =>
              \/ pc'[q] \in After \cup Dropped /\ Index(q)' = Index(q)
              \/ Index(q) \in dead' \cup {0}
         /\ pc'[q] \in After \cup Dropped => pc[q] \in After \cup Dropped
    BY <1>6, FillPagesFacts, PartNames DEF Becomes, Ended, Others, Marked, Forgets,
       Disturbs, Attaching, Locked, After, Dropped, Index
  <2>4. \A q \in Procs : pc'[q] \in Dropped => pc[q] \in Dropped /\ Index(q)' = Index(q)
    BY <1>6, FillPagesFacts, PartNames DEF Becomes, Ended, Others, Marked, Forgets,
       Disturbs, Attaching, Locked, After, Dropped, Index
  <2>5. \A q \in Procs : pc'[q] \in Before =>
              \/ pc[q] \in Before /\ Index(q)' = Index(q) /\ (Complete' => Complete)
              \/ Index(q)' = Cur
              \/ Index(q)' = 0 /\ ~Complete'
    BY <1>6, FillPagesFacts DEF FillInv, FillAlone, Fills, Others, Becomes, Before,
       Making
  <2> QED
    BY <2>1, <2>2, <2>3, <2>4, <2>5, ToldFrames DEF ToldFrame
<1>7. ASSUME NEW p \in Procs, FillPagesFile(p) PROVE ToldInv'
  <2>0. /\ pc[p] \in Opened /\ pc[p] \in Opening /\ pc[p] \notin After \cup Dropped \cup {"finish"} \cup Before
        /\ pc'[p] \notin After \cup Dropped
        /\ (pc'[p] \in Before => aim[p] = "create" /\ aim[p] \in JobAims /\ ~met[p])
        /\ met' = met /\ UNCHANGED <<dir, dead, durable>> /\ holds'["index_shm"] = holds["index_shm"]
    BY <1>7, FillPagesFileFacts, PartNames DEF Ended, Becomes, Attaching, Opened,
       Opening, After, Dropped, Before, JobInv, JobAims
  <2>1. \/ Index(p)' = Index(p)
        \/ Index(p)' = Share(p) /\ Index(p)' # 0
    BY <1>7, FillPagesFileFacts, PartNames, InNodes, <2>0 DEF Index, Share, NameMoves,
       Ended
  <2>2. ~met[p] => Share(p) = Cur /\ \A q \in Procs : pc[q] \notin After \cup Dropped
    BY <2>0, NoneChanging DEF OpenInv, OpenUnmet
  <2>3. pc'[p] \in Before => Index(p)' = Cur \/ (Index(p)' = 0 /\ ~Complete)
    <3>1. Index(p)' = Share(p)
      BY <1>7, FillPagesFileFacts, PartNames DEF Index, Share, NameMoves
    <3> QED
      BY <2>0, <2>2, <3>1
  <2>4. \A q \in Procs : q # p =>
          pc'[q] = pc[q] /\ Index(q)' = Index(q) /\ met'[q] = met[q]
    BY <1>7, FillPagesFileFacts DEF Others, Index
  <2>5. Cur' = Cur /\ Complete' = Complete
    BY <2>0 DEF Complete, Cur, Data, Gives, Lasts
  <2>6. Index(p) # 0 => Index(p) \in dead
    BY <2>0 DEF PlaceInv, PlaceOk
  <2> HIDE DEF Cur, Index, Complete, Share
  <2>7. ToldFrame
    BY <2>0, <2>1, <2>2, <2>3, <2>4, <2>5, <2>6 DEF ToldFrame, ToldInv
  <2> QED
    BY <2>7, ToldFrames
<1>8. ASSUME NEW p \in Procs, CallStart(p) PROVE ToldInv'
  <2>1. dead \subseteq dead' /\ Cur' = Cur /\ Cur' \notin dead'
    BY <1>8, CallStartFacts, PartNames DEF ToldInv, Cur, Gives, NameMoves
  <2>2. \A q \in Procs : ~met'[q] /\ pc'[q] \notin Opening /\ Index(q)' # 0 =>
              \/ ~met[q] /\ pc[q] \notin Opening /\ Index(q)' = Index(q)
              \/ Index(q)' \in dead'
              \/ Index(q)' = Cur /\ \A r \in Procs : pc'[r] \notin After \cup Dropped
    BY <1>8, CallStartFacts, PartNames DEF Becomes, Ended, Others, Marked, Forgets,
       Disturbs, Attaching, Locked, After, Dropped, Opening, Index
  <2>3. \A q \in Procs :
         /\ pc[q] \in After \cup Dropped =>
              \/ pc'[q] \in After \cup Dropped /\ Index(q)' = Index(q)
              \/ Index(q) \in dead' \cup {0}
         /\ pc'[q] \in After \cup Dropped => pc[q] \in After \cup Dropped
    BY <1>8, CallStartFacts, PartNames DEF Becomes, Ended, Others, Marked, Forgets,
       Disturbs, Attaching, Locked, After, Dropped, Index
  <2>4. \A q \in Procs : pc'[q] \in Dropped => pc[q] \in Dropped /\ Index(q)' = Index(q)
    BY <1>8, CallStartFacts, PartNames DEF Becomes, Ended, Others, Marked, Forgets,
       Disturbs, Attaching, Locked, After, Dropped, Index
  <2>5. \A q \in Procs : pc'[q] \in Before =>
              \/ pc[q] \in Before /\ Index(q)' = Index(q) /\ (Complete' => Complete)
              \/ Index(q)' = Cur
              \/ Index(q)' = 0 /\ ~Complete'
    <3>1. Complete' => Complete
      BY <1>8, CallStartFacts, PartNames DEF Complete, Cur, Data, Gives, Lasts
    <3> QED
      BY <1>8, <3>1, CallStartFacts, PartNames DEF Becomes, Others, Ended, Attaching,
         Locked, Before, Index
  <2> QED
    BY <2>1, <2>2, <2>3, <2>4, <2>5, ToldFrames DEF ToldFrame
<1>9. ASSUME NEW p \in Procs, CheckBad(p) PROVE ToldInv'
  <2>1. dead \subseteq dead' /\ Cur' = Cur /\ Cur' \notin dead'
    BY <1>9, CheckBadFacts, PartNames DEF ToldInv, Cur, Gives, NameMoves
  <2>2. \A q \in Procs : ~met'[q] /\ pc'[q] \notin Opening /\ Index(q)' # 0 =>
              \/ ~met[q] /\ pc[q] \notin Opening /\ Index(q)' = Index(q)
              \/ Index(q)' \in dead'
              \/ Index(q)' = Cur /\ \A r \in Procs : pc'[r] \notin After \cup Dropped
    BY <1>9, CheckBadFacts, PartNames DEF Becomes, Ended, Others, Marked, Forgets,
       Disturbs, Attaching, Locked, After, Dropped, Opening, Index
  <2>3. \A q \in Procs :
         /\ pc[q] \in After \cup Dropped =>
              \/ pc'[q] \in After \cup Dropped /\ Index(q)' = Index(q)
              \/ Index(q) \in dead' \cup {0}
         /\ pc'[q] \in After \cup Dropped => pc[q] \in After \cup Dropped
    BY <1>9, CheckBadFacts, PartNames DEF Becomes, Ended, Others, Marked, Forgets,
       Disturbs, Attaching, Locked, After, Dropped, Index
  <2>4. \A q \in Procs : pc'[q] \in Dropped => pc[q] \in Dropped /\ Index(q)' = Index(q)
    BY <1>9, CheckBadFacts, PartNames DEF Becomes, Ended, Others, Marked, Forgets,
       Disturbs, Attaching, Locked, After, Dropped, Index
  <2>5. \A q \in Procs : pc'[q] \in Before =>
              \/ pc[q] \in Before /\ Index(q)' = Index(q) /\ (Complete' => Complete)
              \/ Index(q)' = Cur
              \/ Index(q)' = 0 /\ ~Complete'
    <3>1. Complete' => Complete
      BY <1>9, CheckBadFacts, PartNames DEF Complete, Cur, Data, Gives, Lasts
    <3> QED
      BY <1>9, <3>1, CheckBadFacts, PartNames DEF Becomes, Others, Ended, Attaching,
         Locked, Before, Index
  <2> QED
    BY <2>1, <2>2, <2>3, <2>4, <2>5, ToldFrames DEF ToldFrame
<1>10. ASSUME NEW p \in Procs, MutexLock(p) PROVE ToldInv'
  <2>1. dead \subseteq dead' /\ Cur' = Cur /\ Cur' \notin dead'
    BY <1>10, MutexLockFacts, PartNames DEF ToldInv, Cur, Gives, NameMoves
  <2>2. \A q \in Procs : ~met'[q] /\ pc'[q] \notin Opening /\ Index(q)' # 0 =>
              \/ ~met[q] /\ pc[q] \notin Opening /\ Index(q)' = Index(q)
              \/ Index(q)' \in dead'
              \/ Index(q)' = Cur /\ \A r \in Procs : pc'[r] \notin After \cup Dropped
    BY <1>10, MutexLockFacts, PartNames DEF Becomes, Ended, Others, Marked, Forgets,
       Disturbs, Attaching, Locked, After, Dropped, Opening, Index
  <2>3. \A q \in Procs :
         /\ pc[q] \in After \cup Dropped =>
              \/ pc'[q] \in After \cup Dropped /\ Index(q)' = Index(q)
              \/ Index(q) \in dead' \cup {0}
         /\ pc'[q] \in After \cup Dropped => pc[q] \in After \cup Dropped
    BY <1>10, MutexLockFacts, PartNames DEF Becomes, Ended, Others, Marked, Forgets,
       Disturbs, Attaching, Locked, After, Dropped, Index
  <2>4. \A q \in Procs : pc'[q] \in Dropped => pc[q] \in Dropped /\ Index(q)' = Index(q)
    BY <1>10, MutexLockFacts, PartNames DEF Becomes, Ended, Others, Marked, Forgets,
       Disturbs, Attaching, Locked, After, Dropped, Index
  <2>5. \A q \in Procs : pc'[q] \in Before =>
              \/ pc[q] \in Before /\ Index(q)' = Index(q) /\ (Complete' => Complete)
              \/ Index(q)' = Cur
              \/ Index(q)' = 0 /\ ~Complete'
    <3>1. Complete' => Complete
      BY <1>10, MutexLockFacts, PartNames DEF Complete, Cur, Data, Gives, Lasts
    <3> QED
      BY <1>10, <3>1, MutexLockFacts, PartNames DEF Becomes, Others, Ended, Attaching,
         Locked, Before, Index
  <2> QED
    BY <2>1, <2>2, <2>3, <2>4, <2>5, ToldFrames DEF ToldFrame
<1>11. ASSUME NEW p \in Procs, CallEnd(p) PROVE ToldInv'
  <2>1. dead \subseteq dead' /\ Cur' = Cur /\ Cur' \notin dead'
    BY <1>11, CallEndFacts, PartNames DEF ToldInv, Cur, Gives, NameMoves
  <2>2. \A q \in Procs : ~met'[q] /\ pc'[q] \notin Opening /\ Index(q)' # 0 =>
              \/ ~met[q] /\ pc[q] \notin Opening /\ Index(q)' = Index(q)
              \/ Index(q)' \in dead'
              \/ Index(q)' = Cur /\ \A r \in Procs : pc'[r] \notin After \cup Dropped
    BY <1>11, CallEndFacts, PartNames DEF Becomes, Ended, Others, Marked, Forgets,
       Disturbs, Attaching, Locked, After, Dropped, Opening, Index
  <2>3. \A q \in Procs :
         /\ pc[q] \in After \cup Dropped =>
              \/ pc'[q] \in After \cup Dropped /\ Index(q)' = Index(q)
              \/ Index(q) \in dead' \cup {0}
         /\ pc'[q] \in After \cup Dropped => pc[q] \in After \cup Dropped
    BY <1>11, CallEndFacts, PartNames DEF Becomes, Ended, Others, Marked, Forgets,
       Disturbs, Attaching, Locked, After, Dropped, Index
  <2>4. \A q \in Procs : pc'[q] \in Dropped => pc[q] \in Dropped /\ Index(q)' = Index(q)
    BY <1>11, CallEndFacts, PartNames DEF Becomes, Ended, Others, Marked, Forgets,
       Disturbs, Attaching, Locked, After, Dropped, Index
  <2>5. \A q \in Procs : pc'[q] \in Before =>
              \/ pc[q] \in Before /\ Index(q)' = Index(q) /\ (Complete' => Complete)
              \/ Index(q)' = Cur
              \/ Index(q)' = 0 /\ ~Complete'
    <3>1. Complete' => Complete
      BY <1>11, CallEndFacts, PartNames DEF Complete, Cur, Data, Gives, Lasts
    <3> QED
      BY <1>11, <3>1, CallEndFacts, PartNames DEF Becomes, Others, Ended, Attaching,
         Locked, Before, Index
  <2> QED
    BY <2>1, <2>2, <2>3, <2>4, <2>5, ToldFrames DEF ToldFrame
<1>12. ASSUME NEW p \in Procs, Unlink(p) PROVE ToldInv'
  <2>1. dead \subseteq dead' /\ Cur' = Cur /\ Cur' \notin dead'
    BY <1>12, UnlinkFacts, PartNames DEF ToldInv, Cur, Gives, NameMoves
  <2>2. \A q \in Procs : ~met'[q] /\ pc'[q] \notin Opening /\ Index(q)' # 0 =>
              \/ ~met[q] /\ pc[q] \notin Opening /\ Index(q)' = Index(q)
              \/ Index(q)' \in dead'
              \/ Index(q)' = Cur /\ \A r \in Procs : pc'[r] \notin After \cup Dropped
    BY <1>12, UnlinkFacts, PartNames DEF Becomes, Ended, Others, Marked, Forgets,
       Disturbs, Attaching, Locked, After, Dropped, Opening, Index
  <2>3. \A q \in Procs :
         /\ pc[q] \in After \cup Dropped =>
              \/ pc'[q] \in After \cup Dropped /\ Index(q)' = Index(q)
              \/ Index(q) \in dead' \cup {0}
         /\ pc'[q] \in After \cup Dropped => pc[q] \in After \cup Dropped
    BY <1>12, UnlinkFacts, PartNames DEF Becomes, Ended, Others, Marked, Forgets,
       Disturbs, Attaching, Locked, After, Dropped, Index
  <2>4. \A q \in Procs : pc'[q] \in Dropped => pc[q] \in Dropped /\ Index(q)' = Index(q)
    BY <1>12, UnlinkFacts, PartNames DEF Becomes, Ended, Others, Marked, Forgets,
       Disturbs, Attaching, Locked, After, Dropped, Index
  <2>5. \A q \in Procs : pc'[q] \in Before =>
              \/ pc[q] \in Before /\ Index(q)' = Index(q) /\ (Complete' => Complete)
              \/ Index(q)' = Cur
              \/ Index(q)' = 0 /\ ~Complete'
    <3>1. Complete' => Complete
      BY <1>12, UnlinkFacts, PartNames DEF Complete, Cur, Data, Gives, Lasts
    <3> QED
      BY <1>12, <3>1, UnlinkFacts, PartNames DEF Becomes, Others, Ended, Attaching,
         Locked, Before, Index
  <2> QED
    BY <2>1, <2>2, <2>3, <2>4, <2>5, ToldFrames DEF ToldFrame
<1>13. ASSUME NEW p \in Procs, CreateStart(p) PROVE ToldInv'
  <2>1. dead \subseteq dead' /\ Cur' = Cur /\ Cur' \notin dead'
    BY <1>13, CreateStartFacts, PartNames DEF ToldInv, Cur, Gives, NameMoves
  <2>2. \A q \in Procs : ~met'[q] /\ pc'[q] \notin Opening /\ Index(q)' # 0 =>
              \/ ~met[q] /\ pc[q] \notin Opening /\ Index(q)' = Index(q)
              \/ Index(q)' \in dead'
              \/ Index(q)' = Cur /\ \A r \in Procs : pc'[r] \notin After \cup Dropped
    BY <1>13, CreateStartFacts, PartNames DEF Becomes, Ended, Others, Marked, Forgets,
       Disturbs, Attaching, Locked, After, Dropped, Opening, Index
  <2>3. \A q \in Procs :
         /\ pc[q] \in After \cup Dropped =>
              \/ pc'[q] \in After \cup Dropped /\ Index(q)' = Index(q)
              \/ Index(q) \in dead' \cup {0}
         /\ pc'[q] \in After \cup Dropped => pc[q] \in After \cup Dropped
    BY <1>13, CreateStartFacts, PartNames DEF Becomes, Ended, Others, Marked, Forgets,
       Disturbs, Attaching, Locked, After, Dropped, Index
  <2>4. \A q \in Procs : pc'[q] \in Dropped => pc[q] \in Dropped /\ Index(q)' = Index(q)
    BY <1>13, CreateStartFacts, PartNames DEF Becomes, Ended, Others, Marked, Forgets,
       Disturbs, Attaching, Locked, After, Dropped, Index
  <2>5. \A q \in Procs : pc'[q] \in Before =>
              \/ pc[q] \in Before /\ Index(q)' = Index(q) /\ (Complete' => Complete)
              \/ Index(q)' = Cur
              \/ Index(q)' = 0 /\ ~Complete'
    <3>1. Complete' => Complete
      BY <1>13, CreateStartFacts, PartNames DEF Complete, Cur, Data, Gives, Lasts
    <3> QED
      BY <1>13, <3>1, CreateStartFacts, PartNames DEF Becomes, Others, Ended, Attaching,
         Locked, Before, Index
  <2> QED
    BY <2>1, <2>2, <2>3, <2>4, <2>5, ToldFrames DEF ToldFrame
<1>14. ASSUME NEW p \in Procs, CreateParts(p) PROVE ToldInv'
  <2>0. /\ dir' = dir /\ (Cur # 0 => Cur \in Nodes /\ Cur # made' /\ Data(Cur) # made')
        /\ (Complete' => Complete)
    <3>1. Cur # 0 => Cur \in Nodes /\ Cur # made' /\ Data(Cur) # made'
      BY <1>14, CreatePartsFacts, KnownFacts, RangeFacts, PartNames DEF NodeInv, Cur,
         Gives, Data
    <3>2. dir' = dir /\ Cur' = Cur
      BY <1>14, CreatePartsFacts DEF Cur, Gives
    <3>3. Cur # 0 => Data(Cur)' = Data(Cur)
      BY <1>14, <3>1, <3>2, CreatePartsFacts, PartNames DEF Only, Data
    <3>4. Cur # 0 => (Lasts(Cur)' <=> Lasts(Cur))
      BY <1>14, <3>1, <3>2, <3>3, CreatePartsFacts DEF Lasts, Data
    <3> HIDE DEF Cur, Data
    <3> QED
      BY <3>1, <3>2, <3>3, <3>4 DEF Complete, Gives
  <2>1. ToldInv'
    <3>1. dead \subseteq dead' /\ Cur' = Cur /\ Cur' \notin dead'
      BY <1>14, <2>0, CreatePartsFacts, PartNames DEF ToldInv, Cur, Gives, NameMoves
    <3>2. \A q \in Procs : ~met'[q] /\ pc'[q] \notin Opening /\ Index(q)' # 0 =>
                \/ ~met[q] /\ pc[q] \notin Opening /\ Index(q)' = Index(q)
                \/ Index(q)' \in dead'
                \/ Index(q)' = Cur /\ \A r \in Procs : pc'[r] \notin After \cup Dropped
      BY <1>14, <2>0, CreatePartsFacts, PartNames DEF Becomes, Ended, Others, Marked,
         Forgets, Disturbs, Attaching, Locked, After, Dropped, Opening, Index
    <3>3. \A q \in Procs :
           /\ pc[q] \in After \cup Dropped =>
                \/ pc'[q] \in After \cup Dropped /\ Index(q)' = Index(q)
                \/ Index(q) \in dead' \cup {0}
           /\ pc'[q] \in After \cup Dropped => pc[q] \in After \cup Dropped
      BY <1>14, <2>0, CreatePartsFacts, PartNames DEF Becomes, Ended, Others, Marked,
         Forgets, Disturbs, Attaching, Locked, After, Dropped, Index
    <3>4. \A q \in Procs : pc'[q] \in Dropped =>
            pc[q] \in Dropped /\ Index(q)' = Index(q)
      BY <1>14, <2>0, CreatePartsFacts, PartNames DEF Becomes, Ended, Others, Marked,
         Forgets, Disturbs, Attaching, Locked, After, Dropped, Index
    <3>5. \A q \in Procs : pc'[q] \in Before =>
                \/ pc[q] \in Before /\ Index(q)' = Index(q) /\ (Complete' => Complete)
                \/ Index(q)' = Cur
                \/ Index(q)' = 0 /\ ~Complete'
      BY <1>14, <2>0, CreatePartsFacts DEF Becomes, Others, Before, Index
    <3> QED
      BY <3>1, <3>2, <3>3, <3>4, <3>5, ToldFrames DEF ToldFrame
  <2> QED
    BY <2>1
<1>15. ASSUME NEW p \in Procs, CreateRefused(p) PROVE ToldInv'
  <2>1. dead \subseteq dead' /\ Cur' = Cur /\ Cur' \notin dead'
    BY <1>15, CreateRefusedFacts, PartNames DEF ToldInv, Cur, Gives, NameMoves
  <2>2. \A q \in Procs : ~met'[q] /\ pc'[q] \notin Opening /\ Index(q)' # 0 =>
              \/ ~met[q] /\ pc[q] \notin Opening /\ Index(q)' = Index(q)
              \/ Index(q)' \in dead'
              \/ Index(q)' = Cur /\ \A r \in Procs : pc'[r] \notin After \cup Dropped
    BY <1>15, CreateRefusedFacts, PartNames DEF Becomes, Ended, Others, Marked, Forgets,
       Disturbs, Attaching, Locked, After, Dropped, Opening, Index
  <2>3. \A q \in Procs :
         /\ pc[q] \in After \cup Dropped =>
              \/ pc'[q] \in After \cup Dropped /\ Index(q)' = Index(q)
              \/ Index(q) \in dead' \cup {0}
         /\ pc'[q] \in After \cup Dropped => pc[q] \in After \cup Dropped
    BY <1>15, CreateRefusedFacts, PartNames DEF Becomes, Ended, Others, Marked, Forgets,
       Disturbs, Attaching, Locked, After, Dropped, Index
  <2>4. \A q \in Procs : pc'[q] \in Dropped => pc[q] \in Dropped /\ Index(q)' = Index(q)
    BY <1>15, CreateRefusedFacts, PartNames DEF Becomes, Ended, Others, Marked, Forgets,
       Disturbs, Attaching, Locked, After, Dropped, Index
  <2>5. \A q \in Procs : pc'[q] \in Before =>
              \/ pc[q] \in Before /\ Index(q)' = Index(q) /\ (Complete' => Complete)
              \/ Index(q)' = Cur
              \/ Index(q)' = 0 /\ ~Complete'
    <3>1. Complete' => Complete
      BY <1>15, CreateRefusedFacts, PartNames DEF Complete, Cur, Data, Gives, Lasts
    <3> QED
      BY <1>15, <3>1, CreateRefusedFacts, PartNames DEF Becomes, Others, Ended,
         Attaching, Locked, Before, Index
  <2> QED
    BY <2>1, <2>2, <2>3, <2>4, <2>5, ToldFrames DEF ToldFrame
<1>16. ASSUME NEW p \in Procs, LoadEnds(p) PROVE ToldInv'
  <2>1. dead \subseteq dead' /\ Cur' = Cur /\ Cur' \notin dead'
    BY <1>16, LoadEndsFacts, PartNames DEF ToldInv, Cur, Gives, NameMoves
  <2>2. \A q \in Procs : ~met'[q] /\ pc'[q] \notin Opening /\ Index(q)' # 0 =>
              \/ ~met[q] /\ pc[q] \notin Opening /\ Index(q)' = Index(q)
              \/ Index(q)' \in dead'
              \/ Index(q)' = Cur /\ \A r \in Procs : pc'[r] \notin After \cup Dropped
    BY <1>16, LoadEndsFacts, PartNames DEF Becomes, Ended, Others, Marked, Forgets,
       Disturbs, Attaching, Locked, After, Dropped, Opening, Index
  <2>3. \A q \in Procs :
         /\ pc[q] \in After \cup Dropped =>
              \/ pc'[q] \in After \cup Dropped /\ Index(q)' = Index(q)
              \/ Index(q) \in dead' \cup {0}
         /\ pc'[q] \in After \cup Dropped => pc[q] \in After \cup Dropped
    BY <1>16, LoadEndsFacts, PartNames DEF Becomes, Ended, Others, Marked, Forgets,
       Disturbs, Attaching, Locked, After, Dropped, Index
  <2>4. \A q \in Procs : pc'[q] \in Dropped => pc[q] \in Dropped /\ Index(q)' = Index(q)
    BY <1>16, LoadEndsFacts, PartNames DEF Becomes, Ended, Others, Marked, Forgets,
       Disturbs, Attaching, Locked, After, Dropped, Index
  <2>5. \A q \in Procs : pc'[q] \in Before =>
              \/ pc[q] \in Before /\ Index(q)' = Index(q) /\ (Complete' => Complete)
              \/ Index(q)' = Cur
              \/ Index(q)' = 0 /\ ~Complete'
    <3>1. Complete' => Complete
      BY <1>16, LoadEndsFacts, PartNames DEF Complete, Cur, Data, Gives, Lasts
    <3> QED
      BY <1>16, <3>1, LoadEndsFacts, PartNames DEF Becomes, Others, Ended, Attaching,
         Locked, Before, Index
  <2> QED
    BY <2>1, <2>2, <2>3, <2>4, <2>5, ToldFrames DEF ToldFrame
<1>17. ASSUME NEW p \in Procs, MoveAway(p) PROVE ToldInv'
  <2>0. Index(p) # 0 /\ pc[p] \in Before
    BY <1>17, MoveAwayFacts DEF NewInv, NewOk, Making, Before, MovesAway
  <2>2. Index(p)' = Index(p) /\ Index(p) = Cur
    BY <1>17, <2>0, MoveAwayFacts DEF Index, ToldInv, ToldBefore
  <2>3. \A q \in Procs : q # p => pc'[q] \notin Before
    BY <1>17, <2>0, MoveAwayFacts, Renamers DEF JobInv, Making, Others
  <2>1. ToldInv'
    <3>1. dead \subseteq dead' /\ Cur' = Cur /\ Cur' \notin dead'
      BY <1>17, MoveAwayFacts, PartNames DEF ToldInv, Cur, Gives, NameMoves
    <3>2. \A q \in Procs : ~met'[q] /\ pc'[q] \notin Opening /\ Index(q)' # 0 =>
                \/ ~met[q] /\ pc[q] \notin Opening /\ Index(q)' = Index(q)
                \/ Index(q)' \in dead'
                \/ Index(q)' = Cur /\ \A r \in Procs : pc'[r] \notin After \cup Dropped
      BY <1>17, MoveAwayFacts, PartNames DEF Becomes, Ended, Others, Marked, Forgets,
         Disturbs, Attaching, Locked, After, Dropped, Opening, Index
    <3>3. \A q \in Procs :
           /\ pc[q] \in After \cup Dropped =>
                \/ pc'[q] \in After \cup Dropped /\ Index(q)' = Index(q)
                \/ Index(q) \in dead' \cup {0}
           /\ pc'[q] \in After \cup Dropped => pc[q] \in After \cup Dropped
      BY <1>17, MoveAwayFacts, PartNames DEF Becomes, Ended, Others, Marked, Forgets,
         Disturbs, Attaching, Locked, After, Dropped, Index
    <3>4. \A q \in Procs : pc'[q] \in Dropped =>
            pc[q] \in Dropped /\ Index(q)' = Index(q)
      BY <1>17, MoveAwayFacts, PartNames DEF Becomes, Ended, Others, Marked, Forgets,
         Disturbs, Attaching, Locked, After, Dropped, Index
    <3>5. \A q \in Procs : pc'[q] \in Before =>
                \/ pc[q] \in Before /\ Index(q)' = Index(q) /\ (Complete' => Complete)
                \/ Index(q)' = Cur
                \/ Index(q)' = 0 /\ ~Complete'
      BY <2>2, <2>3
    <3> QED
      BY <3>1, <3>2, <3>3, <3>4, <3>5, ToldFrames DEF ToldFrame
  <2> QED
    BY <2>1
<1>18. ASSUME NEW p \in Procs, Rename(p) PROVE ToldInv'
  <2>0. /\ \A q \in Procs : Index(q)' = Index(q) /\ (q # p =>
          pc'[q] = pc[q] /\ pc[q] \notin After \cup Dropped \cup Before)
        /\ pc'[p] \notin Opening /\ pc[p] \notin Opening
        /\ \A q \in Procs : ~met'[q] => ~met[q] /\ pc[q] \notin Opening
        /\ dead' = dead
    <3>1. pc[p] \in Renaming /\ pc[p] \notin Opening /\ pc'[p] \notin Opening
      BY <1>18, RenameFacts, PlaceNames DEF Opening, Becomes
    <3>2. \A q \in Procs : q # p => pc[q] \notin After \cup Dropped \cup Before
      BY <3>1, Renamers DEF JobInv, Making
    <3>3. \A q \in Procs : Index(q)' = Index(q) /\ (q # p =>
            pc'[q] = pc[q]) /\ dead' = dead
      BY <1>18, RenameFacts DEF Others, Index
    <3>4. \A q \in Procs : ~met'[q] => ~met[q] /\ pc[q] \notin Opening
      BY <1>18, RenameFacts DEF Disturbs
    <3> QED
      BY <3>1, <3>2, <3>3, <3>4
  <2>1. CASE pc[p] # "move_index"
    <3>1. dead \subseteq dead' /\ Cur' = Cur /\ Cur' \notin dead'
      BY <1>18, <2>0, <2>1, RenameFacts, PartNames DEF ToldInv, Cur, Gives, NameMoves
    <3>2. \A q \in Procs : ~met'[q] /\ pc'[q] \notin Opening /\ Index(q)' # 0 =>
                \/ ~met[q] /\ pc[q] \notin Opening /\ Index(q)' = Index(q)
                \/ Index(q)' \in dead'
                \/ Index(q)' = Cur /\ \A r \in Procs : pc'[r] \notin After \cup Dropped
      BY <2>0
    <3>3. \A q \in Procs :
           /\ pc[q] \in After \cup Dropped =>
                \/ pc'[q] \in After \cup Dropped /\ Index(q)' = Index(q)
                \/ Index(q) \in dead' \cup {0}
           /\ pc'[q] \in After \cup Dropped => pc[q] \in After \cup Dropped
      BY <1>18, <2>0, <2>1, RenameFacts, PartNames DEF Becomes, Ended, Others, Marked,
         Forgets, Disturbs, Attaching, Locked, After, Dropped, Index
    <3>4. \A q \in Procs : pc'[q] \in Dropped =>
            pc[q] \in Dropped /\ Index(q)' = Index(q)
      BY <1>18, <2>0, <2>1, RenameFacts, PartNames DEF Becomes, Ended, Others, Marked,
         Forgets, Disturbs, Attaching, Locked, After, Dropped, Index
    <3>5. \A q \in Procs : pc'[q] \in Before =>
                \/ pc[q] \in Before /\ Index(q)' = Index(q) /\ (Complete' => Complete)
                \/ Index(q)' = Cur
                \/ Index(q)' = 0 /\ ~Complete'
      <4>1. \A q \in Procs : pc'[q] \notin Before
        BY <1>18, <2>1, RenameFacts, Renamers, PlaceNames DEF JobInv, Others, Becomes,
           Making, Before
      <4> QED
        BY <4>1
    <3> QED
      BY <3>1, <3>2, <3>3, <3>4, <3>5, ToldFrames DEF ToldFrame
  <2>2. CASE pc[p] = "move_index"
    <3>1. Cur' = new[p] /\ Cur' \notin dead' /\ pc'[p] \in After /\ pc'[p] \notin Before \cup Dropped
      BY <1>18, <2>2, RenameFacts DEF Cur, Gives, NameMoves, Becomes, NewInv, NewOk,
         Making, Before, After, Dropped
    <3>2. \A q \in Procs : pc[q] \notin After \cup Dropped
      BY <2>0, <2>2 DEF After, Dropped
    <3>3. ASSUME NEW q \in Procs, ~met'[q], pc'[q] \notin Opening, Index(q)' # 0
          PROVE  Index(q)' \in dead' \/ Index(q)' = Index(p)'
      <4>1. CASE q = p
        BY <4>1
      <4>2. ~met[q] /\ pc[q] \notin Opening /\ Index(q)' = Index(q)
        BY <2>0, <3>3
      <4>3. Index(q) \in dead \/ Index(q) = Cur
        BY <3>2, <3>3, <4>2 DEF ToldInv, ToldUnmet
      <4>4. CASE Index(q) = Cur /\ Index(p) = 0 /\ ~Complete
        <5>1. \A r \in Procs : ~Changing(r)
          <6>1. ~Changing(p)
            BY <2>2, <4>4 DEF Changing, MovesAway, After, Dropped
          <6>2. \A r \in Procs : r # p => ~Changing(r)
            BY <2>2, Renamers, PlaceNames DEF JobInv
          <6> QED
            BY <6>1, <6>2
        <5>2. LinkedTo(q)
          BY <3>3, <4>2, <4>4, <5>1 DEF MetInv, MetLinked
        <5> QED
          BY <4>4, <5>2 DEF LinkedTo
      <4>5. Index(p) = Cur \/ (Index(p) = 0 /\ ~Complete)
        BY <2>2 DEF ToldInv, ToldBefore, Before
      <4> QED
        BY <2>0, <4>2, <4>3, <4>4, <4>5
    <3> HIDE DEF Cur, Index
    <3>4. ToldUnmet'
      BY <3>1, <3>3 DEF ToldUnmet
    <3>5. ToldBefore'
      BY <2>0, <3>1 DEF ToldBefore
    <3>6. \A q \in Procs : pc'[q] \in Dropped => Index(q)' # Cur'
      BY <2>0, <3>1
    <3> QED
      BY <3>1, <3>4, <3>5, <3>6 DEF ToldInv
  <2> QED
    BY <2>1, <2>2
<1>19. ASSUME NEW p \in Procs, Retire(p) PROVE ToldInv'
  <2>1. dead \subseteq dead' /\ Cur' = Cur /\ Cur' \notin dead'
    <3>1. Cur = new[p] /\ gate[Cur] = p /\ Cur \notin dead /\ p # None
      BY <1>19, RetireFacts, ProcsAssumption DEF NewInv, NewOk, Making, Before, After
    <3>2. Index(p) # 0 => Index(p) # Cur
      BY <3>1 DEF ShareInv, ShareOk
    <3>3. dead' = (IF Index(p) = 0 THEN dead ELSE dead \cup {Index(p)}) /\ dir' = dir
      BY <1>19, RetireFacts
    <3>4. Cur' = Cur
      BY <3>3 DEF Cur, Gives
    <3> HIDE DEF Cur, Index
    <3> QED
      BY <3>1, <3>2, <3>3, <3>4
  <2>2. \A q \in Procs : ~met'[q] /\ pc'[q] \notin Opening /\ Index(q)' # 0 =>
              \/ ~met[q] /\ pc[q] \notin Opening /\ Index(q)' = Index(q)
              \/ Index(q)' \in dead'
              \/ Index(q)' = Cur /\ \A r \in Procs : pc'[r] \notin After \cup Dropped
    BY <1>19, RetireFacts, PartNames DEF Becomes, Ended, Others, Marked, Forgets,
       Disturbs, Attaching, Locked, After, Dropped, Opening, Index
  <2>3. \A q \in Procs :
         /\ pc[q] \in After \cup Dropped =>
              \/ pc'[q] \in After \cup Dropped /\ Index(q)' = Index(q)
              \/ Index(q) \in dead' \cup {0}
         /\ pc'[q] \in After \cup Dropped => pc[q] \in After \cup Dropped
    BY <1>19, RetireFacts, PartNames DEF Becomes, Ended, Others, Marked, Forgets,
       Disturbs, Attaching, Locked, After, Dropped, Index
  <2>4. \A q \in Procs : pc'[q] \in Dropped => pc[q] \in Dropped /\ Index(q)' = Index(q)
    BY <1>19, RetireFacts, PartNames DEF Becomes, Ended, Others, Marked, Forgets,
       Disturbs, Attaching, Locked, After, Dropped, Index
  <2>5. \A q \in Procs : pc'[q] \in Before =>
              \/ pc[q] \in Before /\ Index(q)' = Index(q) /\ (Complete' => Complete)
              \/ Index(q)' = Cur
              \/ Index(q)' = 0 /\ ~Complete'
    <3>1. Complete' => Complete
      BY <1>19, RetireFacts, PartNames DEF Complete, Cur, Data, Gives, Lasts
    <3> QED
      BY <1>19, <3>1, RetireFacts, PartNames DEF Becomes, Others, Ended, Attaching,
         Locked, Before, Index
  <2> QED
    BY <2>1, <2>2, <2>3, <2>4, <2>5, ToldFrames DEF ToldFrame
<1>20. ASSUME NEW p \in Procs, Finish(p) PROVE ToldInv'
  <2>0. /\ Cur = new[p] /\ \A q \in Procs : q # p =>
          pc[q] \notin After \cup Dropped \cup Before
    BY <1>20, FinishFacts, Renamers DEF NewInv, NewOk, Making, Before, After, Dropped,
       JobInv
  <2>1. Index(p)' = Cur /\ pc'[p] = "linked"
    BY <1>20, <2>0, FinishFacts, PartNames DEF Index, Becomes
  <2>2. ToldInv'
    <3>1. dead \subseteq dead' /\ Cur' = Cur /\ Cur' \notin dead'
      BY <1>20, FinishFacts, PartNames DEF ToldInv, Cur, Gives, NameMoves
    <3>2. \A q \in Procs : ~met'[q] /\ pc'[q] \notin Opening /\ Index(q)' # 0 =>
                \/ ~met[q] /\ pc[q] \notin Opening /\ Index(q)' = Index(q)
                \/ Index(q)' \in dead'
                \/ Index(q)' = Cur /\ \A r \in Procs : pc'[r] \notin After \cup Dropped
      <4>1. \A r \in Procs : pc'[r] \notin After \cup Dropped
        BY <1>20, <2>0, <2>1, FinishFacts DEF Others, After, Dropped
      <4> QED
        BY <1>20, <2>1, <4>1, FinishFacts DEF Others, Forgets, Index
    <3>3. \A q \in Procs :
           /\ pc[q] \in After \cup Dropped =>
                \/ pc'[q] \in After \cup Dropped /\ Index(q)' = Index(q)
                \/ Index(q) \in dead' \cup {0}
           /\ pc'[q] \in After \cup Dropped => pc[q] \in After \cup Dropped
      BY <1>20, FinishFacts, PartNames DEF Becomes, Ended, Others, Marked, Forgets,
         Disturbs, Attaching, Locked, After, Dropped, Index
    <3>4. \A q \in Procs : pc'[q] \in Dropped =>
            pc[q] \in Dropped /\ Index(q)' = Index(q)
      BY <1>20, FinishFacts, PartNames DEF Becomes, Ended, Others, Marked, Forgets,
         Disturbs, Attaching, Locked, After, Dropped, Index
    <3>5. \A q \in Procs : pc'[q] \in Before =>
                \/ pc[q] \in Before /\ Index(q)' = Index(q) /\ (Complete' => Complete)
                \/ Index(q)' = Cur
                \/ Index(q)' = 0 /\ ~Complete'
      BY <1>20, <2>0, <2>1, FinishFacts DEF Others, Before
    <3> QED
      BY <3>1, <3>2, <3>3, <3>4, <3>5, ToldFrames DEF ToldFrame
  <2> QED
    BY <2>2
<1>21. ASSUME NEW p \in Procs, LoadFails(p) PROVE ToldInv'
  <2>1. dead \subseteq dead' /\ Cur' = Cur /\ Cur' \notin dead'
    BY <1>21, LoadFailsFacts DEF ToldInv, NewInv, NewOk, Making, Before, Cur, Gives
  <2>2. \A q \in Procs : ~met'[q] /\ pc'[q] \notin Opening /\ Index(q)' # 0 =>
              \/ ~met[q] /\ pc[q] \notin Opening /\ Index(q)' = Index(q)
              \/ Index(q)' \in dead'
              \/ Index(q)' = Cur /\ \A r \in Procs : pc'[r] \notin After \cup Dropped
    BY <1>21, LoadFailsFacts, PartNames DEF Becomes, Ended, Others, Marked, Forgets,
       Disturbs, Attaching, Locked, After, Dropped, Opening, Index
  <2>3. \A q \in Procs :
         /\ pc[q] \in After \cup Dropped =>
              \/ pc'[q] \in After \cup Dropped /\ Index(q)' = Index(q)
              \/ Index(q) \in dead' \cup {0}
         /\ pc'[q] \in After \cup Dropped => pc[q] \in After \cup Dropped
    BY <1>21, LoadFailsFacts, PartNames DEF Becomes, Ended, Others, Marked, Forgets,
       Disturbs, Attaching, Locked, After, Dropped, Index
  <2>4. \A q \in Procs : pc'[q] \in Dropped => pc[q] \in Dropped /\ Index(q)' = Index(q)
    BY <1>21, LoadFailsFacts, PartNames DEF Becomes, Ended, Others, Marked, Forgets,
       Disturbs, Attaching, Locked, After, Dropped, Index
  <2>5. \A q \in Procs : pc'[q] \in Before =>
              \/ pc[q] \in Before /\ Index(q)' = Index(q) /\ (Complete' => Complete)
              \/ Index(q)' = Cur
              \/ Index(q)' = 0 /\ ~Complete'
    <3>1. Complete' => Complete
      BY <1>21, LoadFailsFacts, PartNames DEF Complete, Cur, Data, Gives, Lasts
    <3> QED
      BY <1>21, <3>1, LoadFailsFacts, PartNames DEF Becomes, Others, Ended, Attaching,
         Locked, Before, Index
  <2> QED
    BY <2>1, <2>2, <2>3, <2>4, <2>5, ToldFrames DEF ToldFrame
<1>22. ASSUME NEW p \in Procs, LoadDies(p) PROVE ToldInv'
  <2>1. dead \subseteq dead' /\ Cur' = Cur /\ Cur' \notin dead'
    BY <1>22, LoadDiesFacts DEF ToldInv, NewInv, NewOk, Making, Before, Cur, Gives
  <2>2. \A q \in Procs : ~met'[q] /\ pc'[q] \notin Opening /\ Index(q)' # 0 =>
              \/ ~met[q] /\ pc[q] \notin Opening /\ Index(q)' = Index(q)
              \/ Index(q)' \in dead'
              \/ Index(q)' = Cur /\ \A r \in Procs : pc'[r] \notin After \cup Dropped
    BY <1>22, LoadDiesFacts, PartNames DEF Becomes, Ended, Others, Marked, Forgets,
       Disturbs, Attaching, Locked, After, Dropped, Opening, Index
  <2>3. \A q \in Procs :
         /\ pc[q] \in After \cup Dropped =>
              \/ pc'[q] \in After \cup Dropped /\ Index(q)' = Index(q)
              \/ Index(q) \in dead' \cup {0}
         /\ pc'[q] \in After \cup Dropped => pc[q] \in After \cup Dropped
    BY <1>22, LoadDiesFacts, PartNames DEF Becomes, Ended, Others, Marked, Forgets,
       Disturbs, Attaching, Locked, After, Dropped, Index
  <2>4. \A q \in Procs : pc'[q] \in Dropped => pc[q] \in Dropped /\ Index(q)' = Index(q)
    BY <1>22, LoadDiesFacts, PartNames DEF Becomes, Ended, Others, Marked, Forgets,
       Disturbs, Attaching, Locked, After, Dropped, Index
  <2>5. \A q \in Procs : pc'[q] \in Before =>
              \/ pc[q] \in Before /\ Index(q)' = Index(q) /\ (Complete' => Complete)
              \/ Index(q)' = Cur
              \/ Index(q)' = 0 /\ ~Complete'
    <3>1. Complete' => Complete
      BY <1>22, LoadDiesFacts, PartNames DEF Complete, Cur, Data, Gives, Lasts
    <3> QED
      BY <1>22, <3>1, LoadDiesFacts, PartNames DEF Becomes, Others, Ended, Attaching,
         Locked, Before, Index
  <2> QED
    BY <2>1, <2>2, <2>3, <2>4, <2>5, ToldFrames DEF ToldFrame
<1>23. ASSUME NEW p \in Procs, UnloadStart(p) PROVE ToldInv'
  <2>1. dead \subseteq dead' /\ Cur' = Cur /\ Cur' \notin dead'
    BY <1>23, UnloadStartFacts, PartNames DEF ToldInv, Cur, Gives, NameMoves
  <2>2. \A q \in Procs : ~met'[q] /\ pc'[q] \notin Opening /\ Index(q)' # 0 =>
              \/ ~met[q] /\ pc[q] \notin Opening /\ Index(q)' = Index(q)
              \/ Index(q)' \in dead'
              \/ Index(q)' = Cur /\ \A r \in Procs : pc'[r] \notin After \cup Dropped
    BY <1>23, UnloadStartFacts, PartNames DEF Becomes, Ended, Others, Marked, Forgets,
       Disturbs, Attaching, Locked, After, Dropped, Opening, Index
  <2>3. \A q \in Procs :
         /\ pc[q] \in After \cup Dropped =>
              \/ pc'[q] \in After \cup Dropped /\ Index(q)' = Index(q)
              \/ Index(q) \in dead' \cup {0}
         /\ pc'[q] \in After \cup Dropped => pc[q] \in After \cup Dropped
    BY <1>23, UnloadStartFacts, PartNames DEF Becomes, Ended, Others, Marked, Forgets,
       Disturbs, Attaching, Locked, After, Dropped, Index
  <2>4. \A q \in Procs : pc'[q] \in Dropped => pc[q] \in Dropped /\ Index(q)' = Index(q)
    BY <1>23, UnloadStartFacts, PartNames DEF Becomes, Ended, Others, Marked, Forgets,
       Disturbs, Attaching, Locked, After, Dropped, Index
  <2>5. \A q \in Procs : pc'[q] \in Before =>
              \/ pc[q] \in Before /\ Index(q)' = Index(q) /\ (Complete' => Complete)
              \/ Index(q)' = Cur
              \/ Index(q)' = 0 /\ ~Complete'
    <3>1. Complete' => Complete
      BY <1>23, UnloadStartFacts, PartNames DEF Complete, Cur, Data, Gives, Lasts
    <3> QED
      BY <1>23, <3>1, UnloadStartFacts, PartNames DEF Becomes, Others, Ended, Attaching,
         Locked, Before, Index
  <2> QED
    BY <2>1, <2>2, <2>3, <2>4, <2>5, ToldFrames DEF ToldFrame
<1>24. ASSUME NEW p \in Procs, Drop(p) PROVE ToldInv'
  <2>0. /\ \A q \in Procs : Index(q)' = Index(q) /\ (q # p =>
          pc'[q] = pc[q] /\ pc[q] \notin After \cup Dropped \cup Before)
        /\ pc'[p] \notin Opening /\ pc[p] \notin Opening
        /\ \A q \in Procs : ~met'[q] => ~met[q] /\ pc[q] \notin Opening
        /\ dead' = dead
    <3>1. pc[p] \in Renaming /\ pc[p] \notin Opening /\ pc'[p] \notin Opening
      BY <1>24, DropFacts, PlaceNames DEF Opening, Becomes
    <3>2. \A q \in Procs : q # p => pc[q] \notin After \cup Dropped \cup Before
      BY <3>1, Renamers DEF JobInv, Making
    <3>3. \A q \in Procs : Index(q)' = Index(q) /\ (q # p =>
            pc'[q] = pc[q]) /\ dead' = dead
      BY <1>24, DropFacts DEF Others, Index
    <3>4. \A q \in Procs : ~met'[q] => ~met[q] /\ pc[q] \notin Opening
      BY <1>24, DropFacts DEF Disturbs
    <3> QED
      BY <3>1, <3>2, <3>3, <3>4
  <2>1. CASE pc[p] # "drop_index"
    <3>1. dead \subseteq dead' /\ Cur' = Cur /\ Cur' \notin dead'
      BY <1>24, <2>0, <2>1, DropFacts, PartNames DEF ToldInv, Cur, Gives, NameMoves
    <3>2. \A q \in Procs : ~met'[q] /\ pc'[q] \notin Opening /\ Index(q)' # 0 =>
                \/ ~met[q] /\ pc[q] \notin Opening /\ Index(q)' = Index(q)
                \/ Index(q)' \in dead'
                \/ Index(q)' = Cur /\ \A r \in Procs : pc'[r] \notin After \cup Dropped
      BY <2>0
    <3>3. \A q \in Procs :
           /\ pc[q] \in After \cup Dropped =>
                \/ pc'[q] \in After \cup Dropped /\ Index(q)' = Index(q)
                \/ Index(q) \in dead' \cup {0}
           /\ pc'[q] \in After \cup Dropped => pc[q] \in After \cup Dropped
      BY <1>24, <2>0, <2>1, DropFacts, PartNames DEF Becomes, Ended, Others, Marked,
         Forgets, Disturbs, Attaching, Locked, After, Dropped, Index
    <3>4. \A q \in Procs : pc'[q] \in Dropped =>
            pc[q] \in Dropped /\ Index(q)' = Index(q)
      BY <1>24, <2>0, <2>1, DropFacts, PartNames DEF Becomes, Ended, Others, Marked,
         Forgets, Disturbs, Attaching, Locked, After, Dropped, Index
    <3>5. \A q \in Procs : pc'[q] \in Before =>
                \/ pc[q] \in Before /\ Index(q)' = Index(q) /\ (Complete' => Complete)
                \/ Index(q)' = Cur
                \/ Index(q)' = 0 /\ ~Complete'
      <4>1. \A q \in Procs : pc'[q] \notin Before
        BY <1>24, <2>1, DropFacts, Renamers, PlaceNames DEF JobInv, Others, Becomes,
           Making, Before
      <4> QED
        BY <4>1
    <3> QED
      BY <3>1, <3>2, <3>3, <3>4, <3>5, ToldFrames DEF ToldFrame
  <2>2. CASE pc[p] = "drop_index"
    <3>0. Index(p) = Cur /\ Cur # 0
      BY <2>2, Holder DEF Dropping
    <3>1. Cur' = 0 /\ Cur' \notin dead' /\ pc'[p] \in Dropped /\ pc'[p] \notin Before \cup After
      BY SMTT(20), <1>24, <2>0, <2>2, DropFacts, RangeFacts DEF TypeOK, Cur, Gives, NameMoves,
         Becomes, Before, After, Dropped
    <3>2. \A q \in Procs : pc[q] \notin After \cup Dropped
      BY <2>0, <2>2 DEF After, Dropped
    <3>3. ASSUME NEW q \in Procs, ~met'[q], pc'[q] \notin Opening, Index(q)' # 0
          PROVE  Index(q)' \in dead' \/ Index(q)' = Index(p)'
      <4>1. ~met[q] /\ pc[q] \notin Opening /\ Index(q)' = Index(q) /\ Index(p)' = Index(p)
        BY <2>0, <3>3
      <4>2. Index(q) \in dead \/ Index(q) = Cur
        BY <3>2, <3>3, <4>1 DEF ToldInv, ToldUnmet
      <4> QED
        BY <2>0, <3>0, <4>1, <4>2
    <3> HIDE DEF Cur, Index
    <3>4. ToldUnmet'
      BY <3>1, <3>3 DEF ToldUnmet
    <3>5. ToldBefore'
      BY <2>0, <3>1 DEF ToldBefore
    <3>6. \A q \in Procs : pc'[q] \in Dropped => Index(q)' # Cur'
      BY <2>0, <3>0, <3>1
    <3> QED
      BY <3>1, <3>4, <3>5, <3>6 DEF ToldInv
  <2> QED
    BY <2>1, <2>2
<1>25. ASSUME NEW p \in Procs, MarkDeleted(p) PROVE ToldInv'
  <2>1. dead \subseteq dead' /\ Cur' = Cur /\ Cur' \notin dead'
    BY <1>25, MarkDeletedFacts DEF ToldInv, Dropped, Cur, Gives
  <2>2. \A q \in Procs : ~met'[q] /\ pc'[q] \notin Opening /\ Index(q)' # 0 =>
              \/ ~met[q] /\ pc[q] \notin Opening /\ Index(q)' = Index(q)
              \/ Index(q)' \in dead'
              \/ Index(q)' = Cur /\ \A r \in Procs : pc'[r] \notin After \cup Dropped
    BY <1>25, MarkDeletedFacts, PartNames DEF Becomes, Ended, Others, Marked, Forgets,
       Disturbs, Attaching, Locked, After, Dropped, Opening, Index
  <2>3. \A q \in Procs :
         /\ pc[q] \in After \cup Dropped =>
              \/ pc'[q] \in After \cup Dropped /\ Index(q)' = Index(q)
              \/ Index(q) \in dead' \cup {0}
         /\ pc'[q] \in After \cup Dropped => pc[q] \in After \cup Dropped
    BY <1>25, MarkDeletedFacts, PartNames DEF Becomes, Ended, Others, Marked, Forgets,
       Disturbs, Attaching, Locked, After, Dropped, Index
  <2>4. \A q \in Procs : pc'[q] \in Dropped => pc[q] \in Dropped /\ Index(q)' = Index(q)
    BY <1>25, MarkDeletedFacts, PartNames DEF Becomes, Ended, Others, Marked, Forgets,
       Disturbs, Attaching, Locked, After, Dropped, Index
  <2>5. \A q \in Procs : pc'[q] \in Before =>
              \/ pc[q] \in Before /\ Index(q)' = Index(q) /\ (Complete' => Complete)
              \/ Index(q)' = Cur
              \/ Index(q)' = 0 /\ ~Complete'
    <3>1. Complete' => Complete
      BY <1>25, MarkDeletedFacts, PartNames DEF Complete, Cur, Data, Gives, Lasts
    <3> QED
      BY <1>25, <3>1, MarkDeletedFacts, PartNames DEF Becomes, Others, Ended, Attaching,
         Locked, Before, Index
  <2> QED
    BY <2>1, <2>2, <2>3, <2>4, <2>5, ToldFrames DEF ToldFrame
<1>26. CASE UNCHANGED vars
  BY <1>26 DEF vars, ToldInv, ToldUnmet, ToldBefore, Complete, Cur, Data, Gives, Lasts,
     Index
<1> QED
  BY <1>1, <1>2, <1>3, <1>4, <1>5, <1>6, <1>7, <1>8, <1>9, <1>10, <1>11, <1>12, <1>13,
     <1>14, <1>15, <1>16, <1>17, <1>18, <1>19, <1>20, <1>21, <1>22, <1>23, <1>24, <1>25,
     <1>26 DEF Next, Steps, Starts, Links, Calls, Creates, Unloads

\* Names do not stop changing but by the last step of a job.
KeptChanging == \A o \in Procs : Changing(o) => Changing(o)'

LEMMA KeptFrame ==
  ASSUME TypeOK, PlaceInv, ShareInv, NEW p \in Procs, Others(p), durable' = durable, ~Changing(p),
         \A n \in Nodes : Data(n) # 0 => Data(n)' = Data(n)
  PROVE  KeptChanging
<1>1. ASSUME NEW q \in Procs, q # p
      PROVE  MovesAway(q)' <=> MovesAway(q)
  <2>1. Index(q)' = Index(q) /\ new'[q] = new[q]
    BY <1>1 DEF Others, Index
  <2> QED
    BY <2>1, MovesFrame
<1> QED
  BY <1>1 DEF KeptChanging, Changing, Others

\* What is so of an undisturbed link as long as the names are the same.
NamesStay ==
  /\ Cur' = Cur /\ (Cur # 0 => (Lasts(Cur)' <=> Lasts(Cur)) /\ (Data(Cur) # 0 => Data(Cur)' # 0))
  /\ \A x \in Parts : Gives(x)' = Gives(x) \/ (x = "pages_shm" /\ Gives(x) = 0)

LEMMA OpensFrame ==
  ASSUME TypeOK, PlaceInv, OpenInv, MetInv, NamesStay, NEW o \in Procs, ~met[o], pc[o] \in Opening,
         pc'[o] = pc[o], to'[o] = to[o]
  PROVE  OpensOk(o)'
<1>1. OpensOk(o)
  BY DEF MetInv, MetOpening
<1>2. CASE pc[o] = "open"
  BY <1>2 DEF OpensOk, Fills
<1>3. CASE pc[o] # "open"
  <2>1. Cur # 0
    BY <1>3, InNodes DEF OpenInv, OpenUnmet, Opened
  <2> HIDE DEF Cur, Lasts, Data, Gives
  <2> QED
    BY <1>1, <2>1, PartNames DEF NamesStay, OpensOk
<1> QED
  BY <1>2, <1>3

LEMMA LinkedFrame ==
  ASSUME MetInv, NamesStay, \A r \in Procs : ~Changing(r), NEW q \in Procs, ~met[q], pc[q] \notin Opening,
         at'[q] = at[q], Index(q)' = Cur', Cur' # 0
  PROVE  LinkedTo(q)'
<1>0. LinkedTo(q) /\ Cur # 0
  BY DEF MetInv, MetLinked, NamesStay, Index
<1>1. Complete'
  <2> HIDE DEF Cur, Lasts, Data, Gives
  <2> QED
    BY <1>0, PartNames DEF NamesStay, LinkedTo, Complete
<1>2. \A x \in Parts : Gives(x)' = Gives(x)
  BY <1>0 DEF NamesStay, LinkedTo, Complete
<1>3. Lasts(Cur)' <=> Lasts(Cur)
  BY <1>0 DEF NamesStay
<1> HIDE DEF Cur, Lasts, Data, Gives, Complete
<1> QED
  BY <1>0, <1>1, <1>2, <1>3 DEF LinkedTo

\* What an undisturbed link has opened, and what it is linked to.
LEMMA MetStep ==
  ASSUME TypeOK, PlaceInv, JobInv, NodeInv, LockInv, ShareInv, NewInv, OpenInv, FileInv, GoneInv, FillInv, ToldInv, MetInv, [Next]_vars
  PROVE  MetInv'
<1>1. ASSUME NEW p \in Procs, LinkStart(p) PROVE MetInv'
  <2>n. NamesStay
    BY <1>1, LinkStartFacts, PartNames DEF NamesStay, Cur, Gives, Lasts, Data, NameMoves
  <2>o. \A o \in Procs : o # p =>
          /\ pc'[o] = pc[o] /\ to'[o] = to[o] /\ at'[o] = at[o] /\ Index(o)' = Index(o)
                               /\ (~met'[o] => ~met[o])
    BY <1>1, LinkStartFacts DEF Others, Index, Marked, Forgets, Disturbs
  <2>a. MetOpening'
    <3> SUFFICES ASSUME NEW o \in Procs, ~met'[o], pc'[o] \in Opening
                 PROVE  OpensOk(o)'
      BY DEF MetOpening
    <3>1. CASE o = p
      BY <1>1, <3>1, LinkStartFacts DEF OpensOk, Becomes, Ended, Opening, Fills,
         Attaching, Locked
    <3>2. CASE o # p
      BY <2>n, <2>o, <3>2, OpensFrame
    <3> QED
      BY <3>1, <3>2
  <2>k. KeptChanging
    BY <1>1, LinkStartFacts, KeptFrame DEF Data, Changing, After, Dropped, Becomes,
       Attaching
  <2>b. MetLinked'
    <3> SUFFICES ASSUME \A r \in Procs : ~Changing(r)', NEW q \in Procs, ~met'[q], pc'[q] \notin Opening,
                        Index(q)' = Cur', Cur' # 0
                 PROVE  LinkedTo(q)'
      BY DEF MetLinked
    <3>1. \A r \in Procs : ~Changing(r)
      BY <2>k DEF KeptChanging
    <3>2. CASE q # p
      <4> HIDE DEF Changing
      <4> QED
        BY <2>n, <2>o, <3>1, <3>2, LinkedFrame
    <3>3. CASE q = p
      BY <1>1, <3>3, LinkStartFacts DEF Becomes, Opening
    <3> QED
      BY <3>2, <3>3
  <2> QED
    BY <2>a, <2>b DEF MetInv
<1>2. ASSUME NEW p \in Procs, OpenIndex(p) PROVE MetInv'
  <2>o. \A o \in Procs : o # p =>
          /\ pc'[o] = pc[o] /\ to'[o] = to[o] /\ at'[o] = at[o] /\ Index(o)' = Index(o)
                               /\ (~met'[o] => ~met[o])
    BY <1>2, OpenIndexFacts DEF Others, Index, Marked, Forgets, Disturbs
  <2>1. CASE Cur # 0
    <3>n. NamesStay
      BY <1>2, <2>1, OpenIndexFacts, PartNames DEF NamesStay, Cur, Gives, Lasts, Data,
         NameMoves
    <3>a. MetOpening'
      <4> SUFFICES ASSUME NEW o \in Procs, ~met'[o], pc'[o] \in Opening
                   PROVE  OpensOk(o)'
        BY DEF MetOpening
      <4>1. CASE o = p
        BY <1>2, <4>1, OpenIndexFacts DEF OpensOk, Becomes, Ended, Opening, Fills,
           Attaching, Locked
      <4>2. CASE o # p
        BY <3>n, <2>o, <4>2, OpensFrame
      <4> QED
        BY <4>1, <4>2
    <3>k. KeptChanging
      BY <1>2, OpenIndexFacts, KeptFrame DEF Data, Changing, After, Dropped, Becomes,
         Attaching
    <3>b. MetLinked'
      <4> SUFFICES ASSUME \A r \in Procs : ~Changing(r)', NEW q \in Procs, ~met'[q], pc'[q] \notin Opening,
                          Index(q)' = Cur', Cur' # 0
                   PROVE  LinkedTo(q)'
        BY DEF MetLinked
      <4>1. \A r \in Procs : ~Changing(r)
        BY <3>k DEF KeptChanging
      <4>2. CASE q # p
        <5> HIDE DEF Changing
        <5> QED
          BY <3>n, <2>o, <4>1, <4>2, LinkedFrame
      <4>3. CASE q = p
        BY <1>2, <4>3, OpenIndexFacts DEF Becomes, Opening
      <4> QED
        BY <4>2, <4>3
    <3> QED
      BY <3>a, <3>b DEF MetInv
  <2>2. CASE Cur = 0
    <3>1. /\ Cur' = made' /\ made' \notin Known /\ pc'[p] = "flock"
      BY <1>2, <2>2, OpenIndexFacts, KnownFacts, PartNames DEF Cur, Gives, NameMoves,
         Becomes
    <3>2. \A o \in Procs : pc[o] \in Opening /\ ~met[o] => pc[o] = "open"
      BY <2>2, InNodes DEF OpenInv, OpenUnmet, Opened
    <3>3. MetOpening'
      BY <2>o, <3>1, <3>2 DEF MetOpening, OpensOk, Fills
    <3>4. \A q \in Procs : Index(q)' # Cur'
      BY <1>2, <2>o, <3>1, OpenIndexFacts, PartNames DEF NodeInv, Index
    <3>5. MetLinked'
      BY <3>4 DEF MetLinked
    <3> QED
      BY <3>3, <3>5 DEF MetInv
  <2> QED
    BY <2>1, <2>2
<1>3. ASSUME NEW p \in Procs, LockIndex(p) PROVE MetInv'
  <2>n. NamesStay
    BY <1>3, LockIndexFacts, PartNames DEF NamesStay, Cur, Gives, Lasts, Data, NameMoves
  <2>o. \A o \in Procs : o # p =>
          /\ pc'[o] = pc[o] /\ to'[o] = to[o] /\ at'[o] = at[o] /\ Index(o)' = Index(o)
                               /\ (~met'[o] => ~met[o])
    BY <1>3, LockIndexFacts DEF Others, Index, Marked, Forgets, Disturbs
  <2>a. MetOpening'
    <3> SUFFICES ASSUME NEW o \in Procs, ~met'[o], pc'[o] \in Opening
                 PROVE  OpensOk(o)'
      BY DEF MetOpening
    <3>1. CASE o = p
      <4>1. ~met[p] /\ pc[p] = "flock" /\ pc[p] \in Opening /\ pc[p] \in Opened /\ Cur' = Cur /\ to'[p] = to[p]
        BY <1>3, <3>1, LockIndexFacts DEF Opened, Opening, Cur, Gives
      <4>2. Share(p) = Cur /\ to[p]["index_file"] = 0
        BY <4>1 DEF OpenInv, OpenUnmet, PlaceInv, PlaceOk
      <4>3. Lasts(Cur)' <=> Lasts(Cur)
        BY <1>3, <4>1, LockIndexFacts DEF Lasts
      <4>4. /\ pc'[p] \in {"fill_index", "index_file", "pages_shm"}
            /\ (pc'[p] = "index_file" => Lasts(Cur)) /\ (pc'[p] = "pages_shm" => ~Lasts(Cur))
        BY <1>3, <4>2, LockIndexFacts
      <4> HIDE DEF Cur, Lasts, Gives
      <4> QED
        BY <3>1, <4>1, <4>2, <4>3, <4>4 DEF OpensOk, Fills
    <3>2. CASE o # p
      BY <2>n, <2>o, <3>2, OpensFrame
    <3> QED
      BY <3>1, <3>2
  <2>k. KeptChanging
    BY <1>3, LockIndexFacts, KeptFrame DEF Data, Changing, After, Dropped, Becomes,
       Attaching
  <2>b. MetLinked'
    <3> SUFFICES ASSUME \A r \in Procs : ~Changing(r)', NEW q \in Procs, ~met'[q], pc'[q] \notin Opening,
                        Index(q)' = Cur', Cur' # 0
                 PROVE  LinkedTo(q)'
      BY DEF MetLinked
    <3>1. \A r \in Procs : ~Changing(r)
      BY <2>k DEF KeptChanging
    <3>2. CASE q # p
      <4> HIDE DEF Changing
      <4> QED
        BY <2>n, <2>o, <3>1, <3>2, LinkedFrame
    <3>3. CASE q = p
      <4>1. ~met[p] /\ pc[p] \notin Opening /\ at'[p] = at[p]
        BY <1>3, <3>3, LockIndexFacts, PartNames DEF Becomes, Opening, Index, Marked,
           Forgets, Attaching
      <4> HIDE DEF Changing
      <4> QED
        BY <2>n, <3>1, <3>3, <4>1, LinkedFrame
    <3> QED
      BY <3>2, <3>3
  <2> QED
    BY <2>a, <2>b DEF MetInv
<1>4. ASSUME NEW p \in Procs, Attach(p) PROVE MetInv'
  <2>n. NamesStay
    <3>1. UNCHANGED <<dir, durable>> /\ holds'["index_shm"] = holds["index_shm"]
      BY <1>4, AttachFacts, PartNames
    <3> QED
      BY <3>1 DEF NamesStay, Cur, Gives, Lasts, Data
  <2>o. \A o \in Procs : o # p =>
          /\ pc'[o] = pc[o] /\ to'[o] = to[o] /\ at'[o] = at[o] /\ Index(o)' = Index(o)
                               /\ (~met'[o] => ~met[o])
    BY <1>4, AttachFacts DEF Others, Index, Marked, Forgets, Disturbs
  <2>a. MetOpening'
    <3> SUFFICES ASSUME NEW o \in Procs, ~met'[o], pc'[o] \in Opening
                 PROVE  OpensOk(o)'
      BY DEF MetOpening
    <3>1. CASE o = p
      <4>1. ~met[p] /\ pc[p] \in Opened /\ pc[p] \in Opening
        BY <1>4, <3>1, AttachFacts DEF Opened, Opening, Attaching
      <4>2. Share(p) = Cur /\ OpensOk(p)
        BY <4>1 DEF OpenInv, OpenUnmet, MetInv, MetOpening
      <4>3. \/ /\ pc[p] = "index_file" /\ Gives("index_file") # 0 /\ pc'[p] = "pages_shm"
               /\ NameMoves(to[p], to'[p], "index_file", Gives("index_file"))
            \/ /\ pc[p] = "pages_shm" /\ Gives("pages_shm") # 0 /\ Lasts(Cur) /\ pc'[p] = "pages_file"
               /\ NameMoves(to[p], to'[p], "pages_shm", Gives("pages_shm"))
        BY <1>4, <3>1, <4>2, AttachFacts DEF Becomes, Ended, Opening
      <4>4. (Lasts(Cur)' <=> Lasts(Cur)) /\ \A x \in Parts : Gives(x)' = Gives(x)
        <5>1. UNCHANGED <<dir, durable, holds>>
          BY <1>4, AttachFacts
        <5> QED
          BY <5>1 DEF Lasts, Cur, Gives
      <4> HIDE DEF Cur, Lasts, Gives
      <4> QED
        BY <3>1, <4>2, <4>3, <4>4, PartNames DEF OpensOk, NameMoves, Fills
    <3>2. CASE o # p
      BY <2>n, <2>o, <3>2, OpensFrame
    <3> QED
      BY <3>1, <3>2
  <2>k. KeptChanging
    <3>1. durable' = durable /\ holds'["index_shm"] = holds["index_shm"] /\ Others(p) /\ ~Changing(p)
      BY <1>4, AttachFacts, PartNames DEF Changing, After, Dropped, Attaching
    <3> HIDE DEF Changing
    <3> QED
      BY <3>1, KeptFrame DEF Data
  <2>b. MetLinked'
    <3> SUFFICES ASSUME \A r \in Procs : ~Changing(r)', NEW q \in Procs, ~met'[q], pc'[q] \notin Opening,
                        Index(q)' = Cur', Cur' # 0
                 PROVE  LinkedTo(q)'
      BY DEF MetLinked
    <3>1. \A r \in Procs : ~Changing(r)
      BY <2>k DEF KeptChanging
    <3>2. CASE q # p
      <4> HIDE DEF Changing
      <4> QED
        BY <2>n, <2>o, <3>1, <3>2, LinkedFrame
    <3>3. CASE q = p
      <4>1. ~met[p] /\ pc[p] \in Opened /\ pc[p] \in Opening /\ pc[p] \in Attaching
        BY <1>4, <3>3, AttachFacts DEF Opened, Opening, Attaching
      <4>2. Share(p) = Cur /\ OpensOk(p) /\ Share(p) # 0 /\ Data(Share(p)) # 0
        BY <4>1, InNodes DEF OpenInv, OpenUnmet, MetInv, MetOpening, ShareInv, ShareOk
      <4>3. /\ pc[p] = "pages_file" \/ (pc[p] = "pages_shm" /\ ~Lasts(Cur))
            /\ Gives(pc[p]) # 0 /\ NameMoves(to[p], at'[p], pc[p], Gives(pc[p]))
        <5>1. CASE Gives(pc[p]) = 0 /\ Ended(p, FALSE) /\ at'[p] = at[p]
          <6>1. Index(p) = Cur /\ Cur # 0
            BY <1>4, <3>3, <5>1, <2>n DEF Index, NamesStay
          <6> QED
            BY <4>1, <6>1 DEF PlaceInv, PlaceOk, ToldInv
        <5>2. CASE ~(Gives(pc[p]) = 0 /\ Ended(p, FALSE) /\ at'[p] = at[p])
          BY <1>4, <3>3, <4>2, <5>2, AttachFacts DEF Becomes, Ended, Opening
        <5> QED
          BY <5>1, <5>2
      <4>4. UNCHANGED <<dir, durable, holds>>
        BY <1>4, AttachFacts
      <4>5. (Lasts(Cur)' <=> Lasts(Cur)) /\ (\A x \in Parts : Gives(x)' = Gives(x)) /\ Cur' = Cur /\ Data(Cur)' = Data(Cur)
        BY <4>4 DEF Lasts, Cur, Gives, Data
      <4>6. /\ to[p]["index_shm"] = Gives("index_shm") /\ Cur = Gives("index_shm") /\ to[p]["pages_file"] = 0
            /\ Data(Cur) # 0 /\ Cur # 0
        BY <4>2 DEF Share, Cur, PlaceInv, PlaceOk
      <4>7. CASE pc[p] = "pages_file"
        <5>1. Lasts(Cur) /\ Gives("index_file") # 0 /\ Gives("pages_shm") # 0 /\ Gives("pages_file") # 0
          BY <4>2, <4>3, <4>7 DEF OpensOk
        <5>2. \A x \in Parts : at'[p][x] = Gives(x)
          BY <4>2, <4>3, <4>6, <4>7, <5>1, PartNames DEF OpensOk, NameMoves
        <5> HIDE DEF Cur, Lasts, Gives, Data
        <5> QED
          BY <3>3, <4>5, <4>6, <5>1, <5>2, PartNames DEF LinkedTo, Complete
      <4>8. CASE pc[p] = "pages_shm" /\ ~Lasts(Cur)
        <5>1. Gives("pages_shm") # 0 /\ to[p]["index_file"] = 0
          BY <4>2, <4>3, <4>8 DEF OpensOk
        <5>2. \A x \in Parts : at'[p][x] = IF x \in Shares THEN Gives(x) ELSE 0
          BY <4>3, <4>6, <4>8, <5>1, PartNames DEF NameMoves
        <5> HIDE DEF Cur, Lasts, Gives, Data
        <5> QED
          BY <3>3, <4>5, <4>6, <4>8, <5>1, <5>2, PartNames DEF LinkedTo, Complete
      <4> QED
        BY <4>3, <4>7, <4>8
    <3> QED
      BY <3>2, <3>3
  <2> QED
    BY <2>a, <2>b DEF MetInv
<1>5. ASSUME NEW p \in Procs, FillIndex(p) PROVE MetInv'
  <2>o. \A o \in Procs : o # p =>
          /\ pc'[o] = pc[o] /\ to'[o] = to[o] /\ at'[o] = at[o] /\ Index(o)' = Index(o)
                               /\ (~met'[o] => ~met[o])
    BY <1>5, FillIndexFacts DEF Others, Index, Marked, Forgets, Disturbs
  <2>0. /\ pc[p] \in Opened /\ pc[p] \in Opening /\ Share(p) \in Nodes
        /\ Data(Share(p)) = 0 /\ gate[Share(p)] = p /\ p # None /\ Share(p) # 0
    BY <1>5, FillIndexFacts, InNodes DEF ShareInv, ShareOk, Opened, Opening
  <2>1. /\ UNCHANGED <<dir, durable>> /\ Cur' = Cur /\ (\A x \in Parts : Gives(x)' = Gives(x))
        /\ \A n \in Nodes : n # Share(p) => holds'["index_shm"][n] = holds["index_shm"][n]
        /\ Others(p)
    BY <1>5, FillIndexFacts DEF Cur, Gives, Only
  <2>2. \A n \in Nodes : Data(n) # 0 => Data(n)' = Data(n)
    BY <2>0, <2>1 DEF Data
  <2>3. Share(p) # Cur => NamesStay
    <3>1. Cur # 0 => Cur \in Nodes
      BY RangeFacts
    <3>2. Share(p) # Cur /\ Cur # 0 =>
            holds'["index_shm"][Cur] = holds["index_shm"][Cur]
      BY <2>1, <3>1
    <3>3. Share(p) # Cur /\ Cur # 0 =>
            (Lasts(Cur)' <=> Lasts(Cur)) /\ (Data(Cur) # 0 => Data(Cur)' # 0)
      BY <2>1, <3>2 DEF Lasts, Data
    <3> HIDE DEF Cur, Gives, Lasts, Data
    <3> QED
      BY <2>1, <3>3 DEF NamesStay
  <2>a. MetOpening'
    <3> SUFFICES ASSUME NEW o \in Procs, ~met'[o], pc'[o] \in Opening
                 PROVE  OpensOk(o)'
      BY DEF MetOpening
    <3>1. CASE o = p
      BY <1>5, <3>1, FillIndexFacts DEF OpensOk, Becomes, Ended, Opening, Fills,
         NameMoves, Gives
    <3>2. CASE o # p /\ Share(p) # Cur
      BY <2>3, <2>o, <3>2, OpensFrame
    <3>3. CASE o # p /\ Share(p) = Cur
      <4>1. ~met[o] /\ pc[o] \in Opening /\ pc'[o] = pc[o] /\ (pc[o] \in Opened =>
              Share(o) = Cur)
        BY <2>o, <3>3 DEF OpenInv, OpenUnmet
      <4>2. pc[o] \notin Attaching
        BY <2>0, <3>3, <4>1 DEF ShareInv, ShareOk, Attaching, Opened, Opening
      <4>3. pc[o] \notin Fills
        BY <2>0, <3>3, <4>1 DEF ShareInv, ShareOk, Fills, Opened, Opening
      <4> QED
        BY <4>1, <4>2, <4>3 DEF OpensOk, Attaching, Fills
    <3> QED
      BY <3>1, <3>2, <3>3
  <2>k. KeptChanging
    <3>1. ~Changing(p)
      BY <1>5, FillIndexFacts DEF Changing, After, Dropped
    <3> QED
      BY <2>1, <2>2, <3>1, KeptFrame
  <2>b. MetLinked'
    <3> SUFFICES ASSUME \A r \in Procs : ~Changing(r)', NEW q \in Procs, ~met'[q], pc'[q] \notin Opening,
                        Index(q)' = Cur', Cur' # 0
                 PROVE  LinkedTo(q)'
      BY DEF MetLinked
    <3>1. \A r \in Procs : ~Changing(r)
      BY <2>k DEF KeptChanging
    <3>0. Index(q)' = Index(q) /\ Index(q) = Cur /\ Cur # 0
      BY <1>5, <2>o, <2>1, FillIndexFacts DEF Index
    <3>4. Share(p) # Cur
      BY <2>0, <3>0 DEF ShareInv, ShareOk
    <3>2. CASE q # p
      <4> HIDE DEF Changing
      <4> QED
        BY <2>3, <2>o, <3>1, <3>2, <3>4, LinkedFrame
    <3>3. CASE q = p
      BY <2>0, <3>0, <3>3 DEF PlaceInv, PlaceOk, ToldInv
    <3> QED
      BY <3>2, <3>3
  <2> QED
    BY <2>a, <2>b DEF MetInv
<1>6. ASSUME NEW p \in Procs, FillPages(p) PROVE MetInv'
  <2>n. NamesStay
    BY <1>6, FillPagesFacts, PartNames DEF NamesStay, Cur, Gives, Lasts, Data, NameMoves
  <2>o. \A o \in Procs : o # p =>
          /\ pc'[o] = pc[o] /\ to'[o] = to[o] /\ at'[o] = at[o] /\ Index(o)' = Index(o)
                               /\ (~met'[o] => ~met[o])
    BY <1>6, FillPagesFacts DEF Others, Index, Marked, Forgets, Disturbs
  <2>a. MetOpening'
    <3> SUFFICES ASSUME NEW o \in Procs, ~met'[o], pc'[o] \in Opening
                 PROVE  OpensOk(o)'
      BY DEF MetOpening
    <3>1. CASE o = p
      <4>1. ~met[p] /\ pc[p] = "fill_pages" /\ pc[p] \in Opening /\ pc'[p] = "fill_pages_file"
        BY <1>6, <3>1, FillPagesFacts DEF Opening, Becomes
      <4>2. to[p]["index_file"] = Gives("index_file")
        BY <4>1 DEF MetInv, MetOpening, OpensOk, Fills
      <4>3. /\ to'[p]["pages_shm"] = Gives("pages_shm")' /\ Gives("pages_shm")' # 0
            /\ to'[p]["index_file"] = Gives("index_file")'
        BY <1>6, <4>2, FillPagesFacts, RangeFacts DEF NameMoves, Gives
      <4> QED
        BY <3>1, <4>1, <4>3 DEF OpensOk
    <3>2. CASE o # p
      BY <2>n, <2>o, <3>2, OpensFrame
    <3> QED
      BY <3>1, <3>2
  <2>k. KeptChanging
    <3>1. durable' = durable /\ holds'["index_shm"] = holds["index_shm"] /\ Others(p) /\ ~Changing(p)
      BY <1>6, FillPagesFacts, PartNames DEF Changing, After, Dropped
    <3> HIDE DEF Changing
    <3> QED
      BY <3>1, KeptFrame DEF Data
  <2>b. MetLinked'
    <3> SUFFICES ASSUME \A r \in Procs : ~Changing(r)', NEW q \in Procs, ~met'[q], pc'[q] \notin Opening,
                        Index(q)' = Cur', Cur' # 0
                 PROVE  LinkedTo(q)'
      BY DEF MetLinked
    <3>1. \A r \in Procs : ~Changing(r)
      BY <2>k DEF KeptChanging
    <3>2. CASE q # p
      <4> HIDE DEF Changing
      <4> QED
        BY <2>n, <2>o, <3>1, <3>2, LinkedFrame
    <3>3. CASE q = p
      BY <1>6, <3>3, FillPagesFacts DEF Becomes, Opening
    <3> QED
      BY <3>2, <3>3
  <2> QED
    BY <2>a, <2>b DEF MetInv
<1>7. ASSUME NEW p \in Procs, FillPagesFile(p) PROVE MetInv'
  <2>n. NamesStay
    <3>1. UNCHANGED <<dir, durable>> /\ holds'["index_shm"] = holds["index_shm"]
      BY <1>7, FillPagesFileFacts, PartNames
    <3> QED
      BY <3>1 DEF NamesStay, Cur, Gives, Lasts, Data
  <2>o. \A o \in Procs : o # p =>
          /\ pc'[o] = pc[o] /\ to'[o] = to[o] /\ at'[o] = at[o] /\ Index(o)' = Index(o)
                               /\ (~met'[o] => ~met[o])
    BY <1>7, FillPagesFileFacts DEF Others, Index, Marked, Forgets, Disturbs
  <2>a. MetOpening'
    <3> SUFFICES ASSUME NEW o \in Procs, ~met'[o], pc'[o] \in Opening
                 PROVE  OpensOk(o)'
      BY DEF MetOpening
    <3>1. CASE o = p
      BY <1>7, <3>1, FillPagesFileFacts DEF OpensOk, Becomes, Ended, Opening, Fills,
         Attaching, Locked
    <3>2. CASE o # p
      BY <2>n, <2>o, <3>2, OpensFrame
    <3> QED
      BY <3>1, <3>2
  <2>k. KeptChanging
    <3>1. durable' = durable /\ holds'["index_shm"] = holds["index_shm"] /\ Others(p) /\ ~Changing(p)
      BY <1>7, FillPagesFileFacts, PartNames DEF Changing, After, Dropped, Attaching
    <3> HIDE DEF Changing
    <3> QED
      BY <3>1, KeptFrame DEF Data
  <2>b. MetLinked'
    <3> SUFFICES ASSUME \A r \in Procs : ~Changing(r)', NEW q \in Procs, ~met'[q], pc'[q] \notin Opening,
                        Index(q)' = Cur', Cur' # 0
                 PROVE  LinkedTo(q)'
      BY DEF MetLinked
    <3>1. \A r \in Procs : ~Changing(r)
      BY <2>k DEF KeptChanging
    <3>2. CASE q # p
      <4> HIDE DEF Changing
      <4> QED
        BY <2>n, <2>o, <3>1, <3>2, LinkedFrame
    <3>3. CASE q = p
      <4>1. /\ ~met[p] /\ pc[p] \in Opened /\ pc[p] \in Opening /\ pc[p] \in Fills
            /\ NameMoves(to[p], at'[p], "pages_file", Gives("pages_file"))
        BY <1>7, <3>3, FillPagesFileFacts DEF Opened, Opening, Fills
      <4>2. Share(p) = Cur /\ OpensOk(p) /\ Share(p) # 0
        BY <4>1, InNodes DEF OpenInv, OpenUnmet, MetInv, MetOpening
      <4>3. /\ Written /\ Data(Cur) = DataOf("index_file") /\ DataOf("index_file") \in durable
            /\ Gives("pages_file") # 0
        BY <4>1 DEF FillInv, FillAlone, FileInv
      <4>4. Lasts(Cur) /\ Gives("index_file") # 0 /\ Data(Cur) # 0
        BY <4>3 DEF Lasts, Data, Written, DataOf
      <4>5. Gives("pages_shm") # 0 /\ \A x \in Parts : at'[p][x] = Gives(x)
        BY <1>7, <4>1, <4>2, FillPagesFileFacts, PartNames DEF OpensOk, NameMoves,
           Share, Cur
      <4>6. UNCHANGED <<dir, durable>> /\ holds'["index_shm"] = holds["index_shm"]
        BY <1>7, FillPagesFileFacts, PartNames
      <4> QED
        BY <3>3, <4>2, <4>3, <4>4, <4>5, <4>6 DEF LinkedTo, Complete, Cur, Gives, Lasts,
           Data
    <3> QED
      BY <3>2, <3>3
  <2> QED
    BY <2>a, <2>b DEF MetInv
<1>8. ASSUME NEW p \in Procs, CallStart(p) PROVE MetInv'
  <2>n. NamesStay
    BY <1>8, CallStartFacts, PartNames DEF NamesStay, Cur, Gives, Lasts, Data, NameMoves
  <2>o. \A o \in Procs : o # p =>
          /\ pc'[o] = pc[o] /\ to'[o] = to[o] /\ at'[o] = at[o] /\ Index(o)' = Index(o)
                               /\ (~met'[o] => ~met[o])
    BY <1>8, CallStartFacts DEF Others, Index, Marked, Forgets, Disturbs
  <2>a. MetOpening'
    <3> SUFFICES ASSUME NEW o \in Procs, ~met'[o], pc'[o] \in Opening
                 PROVE  OpensOk(o)'
      BY DEF MetOpening
    <3>1. CASE o = p
      BY <1>8, <3>1, CallStartFacts DEF OpensOk, Becomes, Ended, Opening, Fills,
         Attaching, Locked
    <3>2. CASE o # p
      BY <2>n, <2>o, <3>2, OpensFrame
    <3> QED
      BY <3>1, <3>2
  <2>k. KeptChanging
    BY <1>8, CallStartFacts, KeptFrame DEF Data, Changing, After, Dropped, Becomes,
       Attaching
  <2>b. MetLinked'
    <3> SUFFICES ASSUME \A r \in Procs : ~Changing(r)', NEW q \in Procs, ~met'[q], pc'[q] \notin Opening,
                        Index(q)' = Cur', Cur' # 0
                 PROVE  LinkedTo(q)'
      BY DEF MetLinked
    <3>1. \A r \in Procs : ~Changing(r)
      BY <2>k DEF KeptChanging
    <3>2. CASE q # p
      <4> HIDE DEF Changing
      <4> QED
        BY <2>n, <2>o, <3>1, <3>2, LinkedFrame
    <3>3. CASE q = p
      <4>1. ~met[p] /\ pc[p] \notin Opening /\ at'[p] = at[p]
        BY <1>8, <3>3, CallStartFacts, PartNames DEF Becomes, Opening, Index, Marked,
           Forgets, Attaching
      <4> HIDE DEF Changing
      <4> QED
        BY <2>n, <3>1, <3>3, <4>1, LinkedFrame
    <3> QED
      BY <3>2, <3>3
  <2> QED
    BY <2>a, <2>b DEF MetInv
<1>9. ASSUME NEW p \in Procs, CheckBad(p) PROVE MetInv'
  <2>n. NamesStay
    BY <1>9, CheckBadFacts, PartNames DEF NamesStay, Cur, Gives, Lasts, Data, NameMoves
  <2>o. \A o \in Procs : o # p =>
          /\ pc'[o] = pc[o] /\ to'[o] = to[o] /\ at'[o] = at[o] /\ Index(o)' = Index(o)
                               /\ (~met'[o] => ~met[o])
    BY <1>9, CheckBadFacts DEF Others, Index, Marked, Forgets, Disturbs
  <2>a. MetOpening'
    <3> SUFFICES ASSUME NEW o \in Procs, ~met'[o], pc'[o] \in Opening
                 PROVE  OpensOk(o)'
      BY DEF MetOpening
    <3>1. CASE o = p
      BY <1>9, <3>1, CheckBadFacts DEF OpensOk, Becomes, Ended, Opening, Fills,
         Attaching, Locked
    <3>2. CASE o # p
      BY <2>n, <2>o, <3>2, OpensFrame
    <3> QED
      BY <3>1, <3>2
  <2>k. KeptChanging
    BY <1>9, CheckBadFacts, KeptFrame DEF Data, Changing, After, Dropped, Becomes,
       Attaching
  <2>b. MetLinked'
    <3> SUFFICES ASSUME \A r \in Procs : ~Changing(r)', NEW q \in Procs, ~met'[q], pc'[q] \notin Opening,
                        Index(q)' = Cur', Cur' # 0
                 PROVE  LinkedTo(q)'
      BY DEF MetLinked
    <3>1. \A r \in Procs : ~Changing(r)
      BY <2>k DEF KeptChanging
    <3>2. CASE q # p
      <4> HIDE DEF Changing
      <4> QED
        BY <2>n, <2>o, <3>1, <3>2, LinkedFrame
    <3>3. CASE q = p
      <4>1. ~met[p] /\ pc[p] \notin Opening /\ at'[p] = at[p]
        BY <1>9, <3>3, CheckBadFacts, PartNames DEF Becomes, Opening, Index, Marked,
           Forgets, Attaching
      <4> HIDE DEF Changing
      <4> QED
        BY <2>n, <3>1, <3>3, <4>1, LinkedFrame
    <3> QED
      BY <3>2, <3>3
  <2> QED
    BY <2>a, <2>b DEF MetInv
<1>10. ASSUME NEW p \in Procs, MutexLock(p) PROVE MetInv'
  <2>n. NamesStay
    BY <1>10, MutexLockFacts, PartNames DEF NamesStay, Cur, Gives, Lasts, Data,
       NameMoves
  <2>o. \A o \in Procs : o # p =>
          /\ pc'[o] = pc[o] /\ to'[o] = to[o] /\ at'[o] = at[o] /\ Index(o)' = Index(o)
                               /\ (~met'[o] => ~met[o])
    BY <1>10, MutexLockFacts DEF Others, Index, Marked, Forgets, Disturbs
  <2>a. MetOpening'
    <3> SUFFICES ASSUME NEW o \in Procs, ~met'[o], pc'[o] \in Opening
                 PROVE  OpensOk(o)'
      BY DEF MetOpening
    <3>1. CASE o = p
      BY <1>10, <3>1, MutexLockFacts DEF OpensOk, Becomes, Ended, Opening, Fills,
         Attaching, Locked
    <3>2. CASE o # p
      BY <2>n, <2>o, <3>2, OpensFrame
    <3> QED
      BY <3>1, <3>2
  <2>k. KeptChanging
    BY <1>10, MutexLockFacts, KeptFrame DEF Data, Changing, After, Dropped, Becomes,
       Attaching
  <2>b. MetLinked'
    <3> SUFFICES ASSUME \A r \in Procs : ~Changing(r)', NEW q \in Procs, ~met'[q], pc'[q] \notin Opening,
                        Index(q)' = Cur', Cur' # 0
                 PROVE  LinkedTo(q)'
      BY DEF MetLinked
    <3>1. \A r \in Procs : ~Changing(r)
      BY <2>k DEF KeptChanging
    <3>2. CASE q # p
      <4> HIDE DEF Changing
      <4> QED
        BY <2>n, <2>o, <3>1, <3>2, LinkedFrame
    <3>3. CASE q = p
      <4>1. ~met[p] /\ pc[p] \notin Opening /\ at'[p] = at[p]
        BY <1>10, <3>3, MutexLockFacts, PartNames DEF Becomes, Opening, Index, Marked,
           Forgets, Attaching
      <4> HIDE DEF Changing
      <4> QED
        BY <2>n, <3>1, <3>3, <4>1, LinkedFrame
    <3> QED
      BY <3>2, <3>3
  <2> QED
    BY <2>a, <2>b DEF MetInv
<1>11. ASSUME NEW p \in Procs, CallEnd(p) PROVE MetInv'
  <2>n. NamesStay
    BY <1>11, CallEndFacts, PartNames DEF NamesStay, Cur, Gives, Lasts, Data, NameMoves
  <2>o. \A o \in Procs : o # p =>
          /\ pc'[o] = pc[o] /\ to'[o] = to[o] /\ at'[o] = at[o] /\ Index(o)' = Index(o)
                               /\ (~met'[o] => ~met[o])
    BY <1>11, CallEndFacts DEF Others, Index, Marked, Forgets, Disturbs
  <2>a. MetOpening'
    <3> SUFFICES ASSUME NEW o \in Procs, ~met'[o], pc'[o] \in Opening
                 PROVE  OpensOk(o)'
      BY DEF MetOpening
    <3>1. CASE o = p
      BY <1>11, <3>1, CallEndFacts DEF OpensOk, Becomes, Ended, Opening, Fills,
         Attaching, Locked
    <3>2. CASE o # p
      BY <2>n, <2>o, <3>2, OpensFrame
    <3> QED
      BY <3>1, <3>2
  <2>k. KeptChanging
    BY <1>11, CallEndFacts, KeptFrame DEF Data, Changing, After, Dropped, Becomes,
       Attaching
  <2>b. MetLinked'
    <3> SUFFICES ASSUME \A r \in Procs : ~Changing(r)', NEW q \in Procs, ~met'[q], pc'[q] \notin Opening,
                        Index(q)' = Cur', Cur' # 0
                 PROVE  LinkedTo(q)'
      BY DEF MetLinked
    <3>1. \A r \in Procs : ~Changing(r)
      BY <2>k DEF KeptChanging
    <3>2. CASE q # p
      <4> HIDE DEF Changing
      <4> QED
        BY <2>n, <2>o, <3>1, <3>2, LinkedFrame
    <3>3. CASE q = p
      <4>1. ~met[p] /\ pc[p] \notin Opening /\ at'[p] = at[p]
        BY <1>11, <3>3, CallEndFacts, PartNames DEF Becomes, Opening, Index, Marked,
           Forgets, Attaching
      <4> HIDE DEF Changing
      <4> QED
        BY <2>n, <3>1, <3>3, <4>1, LinkedFrame
    <3> QED
      BY <3>2, <3>3
  <2> QED
    BY <2>a, <2>b DEF MetInv
<1>12. ASSUME NEW p \in Procs, Unlink(p) PROVE MetInv'
  <2>n. NamesStay
    BY <1>12, UnlinkFacts, PartNames DEF NamesStay, Cur, Gives, Lasts, Data, NameMoves
  <2>o. \A o \in Procs : o # p =>
          /\ pc'[o] = pc[o] /\ to'[o] = to[o] /\ at'[o] = at[o] /\ Index(o)' = Index(o)
                               /\ (~met'[o] => ~met[o])
    BY <1>12, UnlinkFacts DEF Others, Index, Marked, Forgets, Disturbs
  <2>a. MetOpening'
    <3> SUFFICES ASSUME NEW o \in Procs, ~met'[o], pc'[o] \in Opening
                 PROVE  OpensOk(o)'
      BY DEF MetOpening
    <3>1. CASE o = p
      BY <1>12, <3>1, UnlinkFacts DEF OpensOk, Becomes, Ended, Opening, Fills,
         Attaching, Locked
    <3>2. CASE o # p
      BY <2>n, <2>o, <3>2, OpensFrame
    <3> QED
      BY <3>1, <3>2
  <2>k. KeptChanging
    BY <1>12, UnlinkFacts, KeptFrame DEF Data, Changing, After, Dropped, Becomes,
       Attaching
  <2>b. MetLinked'
    <3> SUFFICES ASSUME \A r \in Procs : ~Changing(r)', NEW q \in Procs, ~met'[q], pc'[q] \notin Opening,
                        Index(q)' = Cur', Cur' # 0
                 PROVE  LinkedTo(q)'
      BY DEF MetLinked
    <3>1. \A r \in Procs : ~Changing(r)
      BY <2>k DEF KeptChanging
    <3>2. CASE q # p
      <4> HIDE DEF Changing
      <4> QED
        BY <2>n, <2>o, <3>1, <3>2, LinkedFrame
    <3>3. CASE q = p
      <4>1. ~met[p] /\ pc[p] \notin Opening /\ at'[p] = at[p]
        BY <1>12, <3>3, UnlinkFacts, PartNames DEF Becomes, Opening, Index, Marked,
           Forgets, Attaching
      <4> HIDE DEF Changing
      <4> QED
        BY <2>n, <3>1, <3>3, <4>1, LinkedFrame
    <3> QED
      BY <3>2, <3>3
  <2> QED
    BY <2>a, <2>b DEF MetInv
<1>13. ASSUME NEW p \in Procs, CreateStart(p) PROVE MetInv'
  <2>n. NamesStay
    BY <1>13, CreateStartFacts, PartNames DEF NamesStay, Cur, Gives, Lasts, Data,
       NameMoves
  <2>o. \A o \in Procs : o # p =>
          /\ pc'[o] = pc[o] /\ to'[o] = to[o] /\ at'[o] = at[o] /\ Index(o)' = Index(o)
                               /\ (~met'[o] => ~met[o])
    BY <1>13, CreateStartFacts DEF Others, Index, Marked, Forgets, Disturbs
  <2>a. MetOpening'
    <3> SUFFICES ASSUME NEW o \in Procs, ~met'[o], pc'[o] \in Opening
                 PROVE  OpensOk(o)'
      BY DEF MetOpening
    <3>1. CASE o = p
      BY <1>13, <3>1, CreateStartFacts DEF OpensOk, Becomes, Ended, Opening, Fills,
         Attaching, Locked
    <3>2. CASE o # p
      BY <2>n, <2>o, <3>2, OpensFrame
    <3> QED
      BY <3>1, <3>2
  <2>k. KeptChanging
    BY <1>13, CreateStartFacts, KeptFrame DEF Data, Changing, After, Dropped, Becomes,
       Attaching
  <2>b. MetLinked'
    <3> SUFFICES ASSUME \A r \in Procs : ~Changing(r)', NEW q \in Procs, ~met'[q], pc'[q] \notin Opening,
                        Index(q)' = Cur', Cur' # 0
                 PROVE  LinkedTo(q)'
      BY DEF MetLinked
    <3>1. \A r \in Procs : ~Changing(r)
      BY <2>k DEF KeptChanging
    <3>2. CASE q # p
      <4> HIDE DEF Changing
      <4> QED
        BY <2>n, <2>o, <3>1, <3>2, LinkedFrame
    <3>3. CASE q = p
      BY <1>13, <3>3, CreateStartFacts DEF Becomes, Opening
    <3> QED
      BY <3>2, <3>3
  <2> QED
    BY <2>a, <2>b DEF MetInv
<1>14. ASSUME NEW p \in Procs, CreateParts(p) PROVE MetInv'
  <2>n. NamesStay
    <3>1. Cur # 0 => Cur \in Nodes /\ Cur # made' /\ Data(Cur) # made'
      BY <1>14, CreatePartsFacts, KnownFacts, RangeFacts, PartNames DEF NodeInv, Cur,
         Gives, Data
    <3>2. dir' = dir /\ Cur' = Cur
      BY <1>14, CreatePartsFacts DEF Cur, Gives
    <3>3. Cur # 0 => Data(Cur)' = Data(Cur)
      BY <1>14, <3>1, <3>2, CreatePartsFacts, PartNames DEF Only, Data
    <3>4. Cur # 0 => (Lasts(Cur)' <=> Lasts(Cur))
      BY <1>14, <3>1, <3>2, <3>3, CreatePartsFacts DEF Lasts, Data
    <3> HIDE DEF Cur, Data, Lasts
    <3> QED
      BY <3>1, <3>2, <3>3, <3>4 DEF NamesStay, Gives
  <2>o. \A o \in Procs : o # p =>
          /\ pc'[o] = pc[o] /\ to'[o] = to[o] /\ at'[o] = at[o] /\ Index(o)' = Index(o)
                               /\ (~met'[o] => ~met[o])
    BY <1>14, CreatePartsFacts DEF Others, Index, Marked, Forgets, Disturbs
  <2>a. MetOpening'
    <3> SUFFICES ASSUME NEW o \in Procs, ~met'[o], pc'[o] \in Opening
                 PROVE  OpensOk(o)'
      BY DEF MetOpening
    <3>1. CASE o = p
      BY <1>14, <3>1, CreatePartsFacts DEF OpensOk, Becomes, Ended, Opening, Fills,
         Attaching, Locked
    <3>2. CASE o # p
      BY <2>n, <2>o, <3>2, OpensFrame
    <3> QED
      BY <3>1, <3>2
  <2>k. KeptChanging
    <3>1. \A q \in Procs : q # p => pc[q] \notin Renaming
      BY <1>14, CreatePartsFacts, Renamers DEF JobInv, Making, Before
    <3>2. \A q \in Procs : q # p => ~Changing(q)
      BY <3>1, Renamers
    <3>3. ~Changing(p)
      BY <1>14, CreatePartsFacts DEF Changing, After, Dropped
    <3> HIDE DEF Changing
    <3> QED
      BY <3>2, <3>3 DEF KeptChanging
  <2>b. MetLinked'
    <3> SUFFICES ASSUME \A r \in Procs : ~Changing(r)', NEW q \in Procs, ~met'[q], pc'[q] \notin Opening,
                        Index(q)' = Cur', Cur' # 0
                 PROVE  LinkedTo(q)'
      BY DEF MetLinked
    <3>1. \A r \in Procs : ~Changing(r)
      BY <2>k DEF KeptChanging
    <3>2. CASE q # p
      <4> HIDE DEF Changing
      <4> QED
        BY <2>n, <2>o, <3>1, <3>2, LinkedFrame
    <3>3. CASE q = p
      <4>1. ~met[p] /\ pc[p] \notin Opening /\ at'[p] = at[p]
        BY <1>14, <3>3, CreatePartsFacts, PartNames DEF Becomes, Opening, Index, Marked,
           Forgets, Attaching
      <4> HIDE DEF Changing
      <4> QED
        BY <2>n, <3>1, <3>3, <4>1, LinkedFrame
    <3> QED
      BY <3>2, <3>3
  <2> QED
    BY <2>a, <2>b DEF MetInv
<1>15. ASSUME NEW p \in Procs, CreateRefused(p) PROVE MetInv'
  <2>n. NamesStay
    BY <1>15, CreateRefusedFacts, PartNames DEF NamesStay, Cur, Gives, Lasts, Data,
       NameMoves
  <2>o. \A o \in Procs : o # p =>
          /\ pc'[o] = pc[o] /\ to'[o] = to[o] /\ at'[o] = at[o] /\ Index(o)' = Index(o)
                               /\ (~met'[o] => ~met[o])
    BY <1>15, CreateRefusedFacts DEF Others, Index, Marked, Forgets, Disturbs
  <2>a. MetOpening'
    <3> SUFFICES ASSUME NEW o \in Procs, ~met'[o], pc'[o] \in Opening
                 PROVE  OpensOk(o)'
      BY DEF MetOpening
    <3>1. CASE o = p
      BY <1>15, <3>1, CreateRefusedFacts DEF OpensOk, Becomes, Ended, Opening, Fills,
         Attaching, Locked
    <3>2. CASE o # p
      BY <2>n, <2>o, <3>2, OpensFrame
    <3> QED
      BY <3>1, <3>2
  <2>k. KeptChanging
    BY <1>15, CreateRefusedFacts, KeptFrame DEF Data, Changing, After, Dropped, Becomes,
       Attaching
  <2>b. MetLinked'
    <3> SUFFICES ASSUME \A r \in Procs : ~Changing(r)', NEW q \in Procs, ~met'[q], pc'[q] \notin Opening,
                        Index(q)' = Cur', Cur' # 0
                 PROVE  LinkedTo(q)'
      BY DEF MetLinked
    <3>1. \A r \in Procs : ~Changing(r)
      BY <2>k DEF KeptChanging
    <3>2. CASE q # p
      <4> HIDE DEF Changing
      <4> QED
        BY <2>n, <2>o, <3>1, <3>2, LinkedFrame
    <3>3. CASE q = p
      <4>1. ~met[p] /\ pc[p] \notin Opening /\ at'[p] = at[p]
        BY <1>15, <3>3, CreateRefusedFacts, PartNames DEF Becomes, Opening, Index,
           Marked, Forgets, Attaching
      <4> HIDE DEF Changing
      <4> QED
        BY <2>n, <3>1, <3>3, <4>1, LinkedFrame
    <3> QED
      BY <3>2, <3>3
  <2> QED
    BY <2>a, <2>b DEF MetInv
<1>16. ASSUME NEW p \in Procs, LoadEnds(p) PROVE MetInv'
  <2>n. NamesStay
    BY <1>16, LoadEndsFacts, PartNames DEF NamesStay, Cur, Gives, Lasts, Data, NameMoves
  <2>o. \A o \in Procs : o # p =>
          /\ pc'[o] = pc[o] /\ to'[o] = to[o] /\ at'[o] = at[o] /\ Index(o)' = Index(o)
                               /\ (~met'[o] => ~met[o])
    BY <1>16, LoadEndsFacts DEF Others, Index, Marked, Forgets, Disturbs
  <2>a. MetOpening'
    <3> SUFFICES ASSUME NEW o \in Procs, ~met'[o], pc'[o] \in Opening
                 PROVE  OpensOk(o)'
      BY DEF MetOpening
    <3>1. CASE o = p
      BY <1>16, <3>1, LoadEndsFacts DEF OpensOk, Becomes, Ended, Opening, Fills,
         Attaching, Locked
    <3>2. CASE o # p
      BY <2>n, <2>o, <3>2, OpensFrame
    <3> QED
      BY <3>1, <3>2
  <2>k. KeptChanging
    BY <1>16, LoadEndsFacts, KeptFrame DEF Data, Changing, After, Dropped, Becomes,
       Attaching
  <2>b. MetLinked'
    <3> SUFFICES ASSUME \A r \in Procs : ~Changing(r)', NEW q \in Procs, ~met'[q], pc'[q] \notin Opening,
                        Index(q)' = Cur', Cur' # 0
                 PROVE  LinkedTo(q)'
      BY DEF MetLinked
    <3>1. \A r \in Procs : ~Changing(r)
      BY <2>k DEF KeptChanging
    <3>2. CASE q # p
      <4> HIDE DEF Changing
      <4> QED
        BY <2>n, <2>o, <3>1, <3>2, LinkedFrame
    <3>3. CASE q = p
      <4>1. ~met[p] /\ pc[p] \notin Opening /\ at'[p] = at[p]
        BY <1>16, <3>3, LoadEndsFacts, PartNames DEF Becomes, Opening, Index, Marked,
           Forgets, Attaching
      <4> HIDE DEF Changing
      <4> QED
        BY <2>n, <3>1, <3>3, <4>1, LinkedFrame
    <3> QED
      BY <3>2, <3>3
  <2> QED
    BY <2>a, <2>b DEF MetInv
<1>17. ASSUME NEW p \in Procs, MoveAway(p) PROVE MetInv'
  <2>a. MetOpening'
    BY <1>17, MoveAwayFacts, PlaceNames DEF MetOpening, Disturbs, Others, Becomes,
       Opening
  <2>1. MovesAway(p)' <=> MovesAway(p)
    BY <1>17, MoveAwayFacts DEF MovesAway, Index, Lasts
  <2>2. MovesAway(p)
    BY <1>17, MoveAwayFacts DEF NewInv, NewOk, Making, Before
  <2>c. Changing(p)'
    BY <1>17, <2>1, <2>2, MoveAwayFacts DEF Changing, Becomes
  <2>b. MetLinked'
    BY <2>c DEF MetLinked
  <2> QED
    BY <2>a, <2>b DEF MetInv
<1>18. ASSUME NEW p \in Procs, Rename(p) PROVE MetInv'
  <2>a. MetOpening'
    BY <1>18, RenameFacts, PlaceNames DEF MetOpening, Disturbs, Others, Becomes, Opening
  <2>c. Changing(p)'
    BY <1>18, RenameFacts DEF Changing, Becomes, After
  <2>b. MetLinked'
    BY <2>c DEF MetLinked
  <2> QED
    BY <2>a, <2>b DEF MetInv
<1>19. ASSUME NEW p \in Procs, Retire(p) PROVE MetInv'
  <2>n. NamesStay
    BY <1>19, RetireFacts, PartNames DEF NamesStay, Cur, Gives, Lasts, Data, NameMoves
  <2>o. \A o \in Procs : o # p =>
          /\ pc'[o] = pc[o] /\ to'[o] = to[o] /\ at'[o] = at[o] /\ Index(o)' = Index(o)
                               /\ (~met'[o] => ~met[o])
    BY <1>19, RetireFacts DEF Others, Index, Marked, Forgets, Disturbs
  <2>a. MetOpening'
    <3> SUFFICES ASSUME NEW o \in Procs, ~met'[o], pc'[o] \in Opening
                 PROVE  OpensOk(o)'
      BY DEF MetOpening
    <3>1. CASE o = p
      BY <1>19, <3>1, RetireFacts DEF OpensOk, Becomes, Ended, Opening, Fills,
         Attaching, Locked
    <3>2. CASE o # p
      BY <2>n, <2>o, <3>2, OpensFrame
    <3> QED
      BY <3>1, <3>2
  <2>b. MetLinked'
    <3>1. /\ Cur = new[p] /\ gate[Cur] = p /\ Cur' = Cur /\ p # None
      BY <1>19, RetireFacts, ProcsAssumption DEF NewInv, NewOk, Making, Before, After,
         Cur, Gives
    <3>2. \A q \in Procs : Index(q)' = Index(q)
      BY <1>19, RetireFacts DEF Others, Index
    <3>3. \A q \in Procs : Index(q) # 0 => gate[Index(q)] = None
      BY DEF ShareInv, ShareOk
    <3> QED
      BY <3>1, <3>2, <3>3 DEF MetLinked
  <2> QED
    BY <2>a, <2>b DEF MetInv
<1>20. ASSUME NEW p \in Procs, Finish(p) PROVE MetInv'
  <2>n. NamesStay
    <3>1. UNCHANGED <<dir, durable>> /\ holds'["index_shm"] = holds["index_shm"]
      BY <1>20, FinishFacts, PartNames
    <3> QED
      BY <3>1 DEF NamesStay, Cur, Gives, Lasts, Data
  <2>o. \A o \in Procs : o # p =>
          /\ pc'[o] = pc[o] /\ to'[o] = to[o] /\ at'[o] = at[o] /\ Index(o)' = Index(o)
                               /\ (~met'[o] => ~met[o])
    BY <1>20, FinishFacts DEF Others, Index, Marked, Forgets, Disturbs
  <2>a. MetOpening'
    <3> SUFFICES ASSUME NEW o \in Procs, ~met'[o], pc'[o] \in Opening
                 PROVE  OpensOk(o)'
      BY DEF MetOpening
    <3>1. CASE o = p
      BY <1>20, <3>1, FinishFacts DEF OpensOk, Becomes, Ended, Opening, Fills,
         Attaching, Locked
    <3>2. CASE o # p
      BY <2>n, <2>o, <3>2, OpensFrame
    <3> QED
      BY <3>1, <3>2
  <2>k. KeptChanging
    <3>1. durable' = durable /\ holds'["index_shm"] = holds["index_shm"] /\ Others(p) /\ ~Changing(p)
      BY <1>20, FinishFacts, PartNames DEF Changing, After, Dropped
    <3> HIDE DEF Changing
    <3> QED
      BY <3>1, KeptFrame DEF Data
  <2>b. MetLinked'
    <3> SUFFICES ASSUME \A r \in Procs : ~Changing(r)', NEW q \in Procs, ~met'[q], pc'[q] \notin Opening,
                        Index(q)' = Cur', Cur' # 0
                 PROVE  LinkedTo(q)'
      BY DEF MetLinked
    <3>1. \A r \in Procs : ~Changing(r)
      BY <2>k DEF KeptChanging
    <3>2. CASE q # p
      <4> HIDE DEF Changing
      <4> QED
        BY <2>n, <2>o, <3>1, <3>2, LinkedFrame
    <3>3. CASE q = p
      <4>1. NewOk(p) /\ new[p] # 0 /\ pc[p] = "finish"
        BY <1>20, FinishFacts, InNodes DEF NewInv, Making
      <4>2. /\ UNCHANGED <<dir, durable>> /\ holds'["index_shm"] = holds["index_shm"]
            /\ \A x \in Parts : at'[p][x] = IF x \in Shares \/ new[p] \in durable THEN new[p] ELSE 0
        BY <1>20, FinishFacts, PartNames
      <4>3. /\ Cur' = new[p] /\ Gives("pages_shm")' = new[p] /\ Gives("index_shm")' = new[p]
            /\ holds'["index_shm"][new[p]] = new[p]
            /\ new[p] \in durable => Gives("index_file")' = new[p] /\ Gives("pages_file")' = new[p]
        BY <4>1, <4>2, PartNames DEF NewOk, Before, Cur, Gives
      <4>4. Data(Cur)' = new[p] /\ (Lasts(Cur)' <=> new[p] \in durable)
        BY <4>2, <4>3 DEF Data, Lasts
      <4> HIDE DEF Cur, Gives, Data, Lasts
      <4> QED
        BY <3>3, <4>1, <4>2, <4>3, <4>4, PartNames DEF LinkedTo, Complete
    <3> QED
      BY <3>2, <3>3
  <2> QED
    BY <2>a, <2>b DEF MetInv
<1>21. ASSUME NEW p \in Procs, LoadFails(p) PROVE MetInv'
  <2>n. NamesStay
    BY <1>21, LoadFailsFacts, PartNames DEF NamesStay, Cur, Gives, Lasts, Data,
       NameMoves
  <2>o. \A o \in Procs : o # p =>
          /\ pc'[o] = pc[o] /\ to'[o] = to[o] /\ at'[o] = at[o] /\ Index(o)' = Index(o)
                               /\ (~met'[o] => ~met[o])
    BY <1>21, LoadFailsFacts DEF Others, Index, Marked, Forgets, Disturbs
  <2>a. MetOpening'
    <3> SUFFICES ASSUME NEW o \in Procs, ~met'[o], pc'[o] \in Opening
                 PROVE  OpensOk(o)'
      BY DEF MetOpening
    <3>1. CASE o = p
      BY <1>21, <3>1, LoadFailsFacts DEF OpensOk, Becomes, Ended, Opening, Fills,
         Attaching, Locked
    <3>2. CASE o # p
      BY <2>n, <2>o, <3>2, OpensFrame
    <3> QED
      BY <3>1, <3>2
  <2>k. KeptChanging
    BY <1>21, LoadFailsFacts, KeptFrame DEF Data, Changing, After, Dropped, Becomes,
       Attaching
  <2>b. MetLinked'
    <3> SUFFICES ASSUME \A r \in Procs : ~Changing(r)', NEW q \in Procs, ~met'[q], pc'[q] \notin Opening,
                        Index(q)' = Cur', Cur' # 0
                 PROVE  LinkedTo(q)'
      BY DEF MetLinked
    <3>1. \A r \in Procs : ~Changing(r)
      BY <2>k DEF KeptChanging
    <3>2. CASE q # p
      <4> HIDE DEF Changing
      <4> QED
        BY <2>n, <2>o, <3>1, <3>2, LinkedFrame
    <3>3. CASE q = p
      <4>1. ~met[p] /\ pc[p] \notin Opening /\ at'[p] = at[p]
        BY <1>21, <3>3, LoadFailsFacts, PartNames DEF Becomes, Opening, Index, Marked,
           Forgets, Attaching
      <4> HIDE DEF Changing
      <4> QED
        BY <2>n, <3>1, <3>3, <4>1, LinkedFrame
    <3> QED
      BY <3>2, <3>3
  <2> QED
    BY <2>a, <2>b DEF MetInv
<1>22. ASSUME NEW p \in Procs, LoadDies(p) PROVE MetInv'
  <2>n. NamesStay
    BY <1>22, LoadDiesFacts, PartNames DEF NamesStay, Cur, Gives, Lasts, Data, NameMoves
  <2>o. \A o \in Procs : o # p =>
          /\ pc'[o] = pc[o] /\ to'[o] = to[o] /\ at'[o] = at[o] /\ Index(o)' = Index(o)
                               /\ (~met'[o] => ~met[o])
    BY <1>22, LoadDiesFacts DEF Others, Index, Marked, Forgets, Disturbs
  <2>a. MetOpening'
    <3> SUFFICES ASSUME NEW o \in Procs, ~met'[o], pc'[o] \in Opening
                 PROVE  OpensOk(o)'
      BY DEF MetOpening
    <3>1. CASE o = p
      BY <1>22, <3>1, LoadDiesFacts DEF OpensOk, Becomes, Ended, Opening, Fills,
         Attaching, Locked
    <3>2. CASE o # p
      BY <2>n, <2>o, <3>2, OpensFrame
    <3> QED
      BY <3>1, <3>2
  <2>k. KeptChanging
    BY <1>22, LoadDiesFacts, KeptFrame DEF Data, Changing, After, Dropped, Becomes,
       Attaching
  <2>b. MetLinked'
    <3> SUFFICES ASSUME \A r \in Procs : ~Changing(r)', NEW q \in Procs, ~met'[q], pc'[q] \notin Opening,
                        Index(q)' = Cur', Cur' # 0
                 PROVE  LinkedTo(q)'
      BY DEF MetLinked
    <3>1. \A r \in Procs : ~Changing(r)
      BY <2>k DEF KeptChanging
    <3>2. CASE q # p
      <4> HIDE DEF Changing
      <4> QED
        BY <2>n, <2>o, <3>1, <3>2, LinkedFrame
    <3>3. CASE q = p
      <4>1. ~met[p] /\ pc[p] \notin Opening /\ at'[p] = at[p]
        BY <1>22, <3>3, LoadDiesFacts, PartNames DEF Becomes, Opening, Index, Marked,
           Forgets, Attaching
      <4> HIDE DEF Changing
      <4> QED
        BY <2>n, <3>1, <3>3, <4>1, LinkedFrame
    <3> QED
      BY <3>2, <3>3
  <2> QED
    BY <2>a, <2>b DEF MetInv
<1>23. ASSUME NEW p \in Procs, UnloadStart(p) PROVE MetInv'
  <2>n. NamesStay
    BY <1>23, UnloadStartFacts, PartNames DEF NamesStay, Cur, Gives, Lasts, Data,
       NameMoves
  <2>o. \A o \in Procs : o # p =>
          /\ pc'[o] = pc[o] /\ to'[o] = to[o] /\ at'[o] = at[o] /\ Index(o)' = Index(o)
                               /\ (~met'[o] => ~met[o])
    BY <1>23, UnloadStartFacts DEF Others, Index, Marked, Forgets, Disturbs
  <2>a. MetOpening'
    <3> SUFFICES ASSUME NEW o \in Procs, ~met'[o], pc'[o] \in Opening
                 PROVE  OpensOk(o)'
      BY DEF MetOpening
    <3>1. CASE o = p
      BY <1>23, <3>1, UnloadStartFacts DEF OpensOk, Becomes, Ended, Opening, Fills,
         Attaching, Locked
    <3>2. CASE o # p
      BY <2>n, <2>o, <3>2, OpensFrame
    <3> QED
      BY <3>1, <3>2
  <2>k. KeptChanging
    BY <1>23, UnloadStartFacts, KeptFrame DEF Data, Changing, After, Dropped, Becomes,
       Attaching
  <2>b. MetLinked'
    <3> SUFFICES ASSUME \A r \in Procs : ~Changing(r)', NEW q \in Procs, ~met'[q], pc'[q] \notin Opening,
                        Index(q)' = Cur', Cur' # 0
                 PROVE  LinkedTo(q)'
      BY DEF MetLinked
    <3>1. \A r \in Procs : ~Changing(r)
      BY <2>k DEF KeptChanging
    <3>2. CASE q # p
      <4> HIDE DEF Changing
      <4> QED
        BY <2>n, <2>o, <3>1, <3>2, LinkedFrame
    <3>3. CASE q = p
      <4>1. ~met[p] /\ pc[p] \notin Opening /\ at'[p] = at[p]
        BY <1>23, <3>3, UnloadStartFacts, PartNames DEF Becomes, Opening, Index, Marked,
           Forgets, Attaching
      <4> HIDE DEF Changing
      <4> QED
        BY <2>n, <3>1, <3>3, <4>1, LinkedFrame
    <3> QED
      BY <3>2, <3>3
  <2> QED
    BY <2>a, <2>b DEF MetInv
<1>24. ASSUME NEW p \in Procs, Drop(p) PROVE MetInv'
  <2>a. MetOpening'
    BY <1>24, DropFacts, PlaceNames DEF MetOpening, Disturbs, Others, Becomes, Opening
  <2>c. Changing(p)'
    BY <1>24, DropFacts DEF Changing, Becomes, Dropped, PlaceInv, PlaceOk
  <2>b. MetLinked'
    BY <2>c DEF MetLinked
  <2> QED
    BY <2>a, <2>b DEF MetInv
<1>25. ASSUME NEW p \in Procs, MarkDeleted(p) PROVE MetInv'
  <2>n. NamesStay
    BY <1>25, MarkDeletedFacts, PartNames DEF NamesStay, Cur, Gives, Lasts, Data,
       NameMoves
  <2>o. \A o \in Procs : o # p =>
          /\ pc'[o] = pc[o] /\ to'[o] = to[o] /\ at'[o] = at[o] /\ Index(o)' = Index(o)
                               /\ (~met'[o] => ~met[o])
    BY <1>25, MarkDeletedFacts DEF Others, Index, Marked, Forgets, Disturbs
  <2>a. MetOpening'
    <3> SUFFICES ASSUME NEW o \in Procs, ~met'[o], pc'[o] \in Opening
                 PROVE  OpensOk(o)'
      BY DEF MetOpening
    <3>1. CASE o = p
      BY <1>25, <3>1, MarkDeletedFacts DEF OpensOk, Becomes, Ended, Opening, Fills,
         Attaching, Locked
    <3>2. CASE o # p
      BY <2>n, <2>o, <3>2, OpensFrame
    <3> QED
      BY <3>1, <3>2
  <2>b. MetLinked'
    <3> SUFFICES ASSUME NEW q \in Procs, ~met'[q], pc'[q] \notin Opening, Index(q)' = Cur', Cur' # 0
                 PROVE  FALSE
      BY DEF MetLinked
    <3>1. Cur' = Cur /\ q # p /\ pc[p] \in Dropped
      BY <1>25, MarkDeletedFacts, PartNames DEF Index, Cur, Gives, Dropped
    <3>2. ~met[q] /\ pc[q] \notin Opening /\ Index(q) = Cur
      BY <1>25, <3>1, MarkDeletedFacts DEF Others, Index
    <3>3. \E r \in Procs : pc[r] \in After \cup Dropped /\ Index(q) = Index(r)
      BY <3>1, <3>2 DEF ToldInv, ToldUnmet
    <3>4. \A r \in Procs : pc[r] \in After \cup Dropped => r = p
      BY <3>1, Renamers DEF JobInv, Making
    <3> QED
      BY <3>1, <3>2, <3>3, <3>4 DEF ToldInv
  <2> QED
    BY <2>a, <2>b DEF MetInv
<1>26. CASE UNCHANGED vars
  BY <1>26 DEF vars, MetInv, MetOpening, MetLinked, OpensOk, LinkedTo, Complete,
     Changing, MovesAway, Cur, Gives, Lasts, Data, Index
<1> QED
  BY <1>1, <1>2, <1>3, <1>4, <1>5, <1>6, <1>7, <1>8, <1>9, <1>10, <1>11, <1>12, <1>13,
     <1>14, <1>15, <1>16, <1>17, <1>18, <1>19, <1>20, <1>21, <1>22, <1>23, <1>24, <1>25,
     <1>26 DEF Next, Steps, Starts, Links, Calls, Creates, Unloads

\* What a step must leave of the data.
DataFrame ==
  /\ Cur' # 0 /\ Data(Cur)' # 0 =>
       /\ Cur' = Cur /\ Data(Cur)' = Data(Cur) /\ (gate'[Cur'] = None => gate[Cur] = None)
       /\ Gives("pages_shm")' \in {0, Gives("pages_shm")}
       /\ Gives("pages_shm") # 0 =>
            holds'["pages_shm"][Gives("pages_shm")] = holds["pages_shm"][Gives("pages_shm")]
       /\ Lasts(Cur)' => Lasts(Cur)
       /\ \A x \in Files : DataOf(x)' \in {0, DataOf(x)}
  /\ \A o \in Procs :
       /\ pc[o] = "fill_pages_file" /\ met[o] => pc'[o] = pc[o] /\ met'[o] /\ to'[o] = to[o]
       /\ pc[o] \in After => pc'[o] \in After

LEMMA DataFrames ==
  ASSUME DataInv, DataFrame
  PROVE  DataInv'
<1> HIDE DEF Cur, Data, DataOf, Gives, Lasts
<1> SUFFICES ASSUME Cur' # 0, Data(Cur)' # 0
             PROVE  DataPages' /\ DataFiles'
  BY DEF DataInv
<1>1. Cur # 0 /\ Data(Cur) # 0 /\ DataPages /\ DataFiles
  BY DEF DataFrame, DataInv
<1>2. DataPages'
  <2> SUFFICES ASSUME gate'[Cur'] = None, Gives("pages_shm")' # 0
               PROVE  \/ holds'["pages_shm"][Gives("pages_shm")'] = Data(Cur)'
                      \/ \E o \in Procs : /\ met'[o] /\ pc'[o] = "fill_pages_file"
                                         /\ to'[o]["pages_shm"] = Gives("pages_shm")'
    BY DEF DataPages
  <2>1. gate[Cur] = None /\ Gives("pages_shm") # 0 /\ Gives("pages_shm")' = Gives("pages_shm")
    BY DEF DataFrame
  <2> QED
    BY <1>1, <2>1 DEF DataFrame, DataPages
<1>3. DataFiles'
  BY <1>1 DEF DataFrame, DataFiles
<1> QED
  BY <1>2, <1>3

\* The data of the set that has the name.
LEMMA DataStep ==
  ASSUME TypeOK, PlaceInv, JobInv, NodeInv, ShareInv, NewInv, OpenInv, FileInv, FillInv, DataInv, [Next]_vars
  PROVE  DataInv'
<1>1. ASSUME NEW p \in Procs, LinkStart(p) PROVE DataInv'
  <2>1. Cur' # 0 /\ Data(Cur)' # 0 =>
         /\ Cur' = Cur /\ Data(Cur)' = Data(Cur) /\ (gate'[Cur'] = None => gate[Cur] = None)
         /\ Gives("pages_shm")' \in {0, Gives("pages_shm")}
         /\ Gives("pages_shm") # 0 =>
              holds'["pages_shm"][Gives("pages_shm")] = holds["pages_shm"][Gives("pages_shm")]
         /\ Lasts(Cur)' => Lasts(Cur)
         /\ \A x \in Files : DataOf(x)' \in {0, DataOf(x)}
    BY <1>1, LinkStartFacts, PartNames DEF Cur, Data, DataOf, Gives, Lasts, NameMoves
  <2>2. \A o \in Procs : pc[o] = "fill_pages_file" /\ met[o] =>
          pc'[o] = pc[o] /\ met'[o] /\ to'[o] = to[o]
    BY <1>1, LinkStartFacts DEF Others, Marked, Forgets, Disturbs, Becomes, Attaching
  <2>3. \A o \in Procs : pc[o] \in After => pc'[o] \in After
    BY <1>1, LinkStartFacts DEF Others, Becomes, Ended, After, Attaching
  <2> QED
    BY <2>1, <2>2, <2>3, DataFrames DEF DataFrame
<1>2. ASSUME NEW p \in Procs, OpenIndex(p) PROVE DataInv'
  <2>1. Cur # 0 \/ (Cur = 0 /\ Data(Cur)' = 0)
    <3>1. CASE Cur = 0
      <4>1. Cur' = made' /\ holds["index_shm"][made'] = 0 /\ holds' = holds
        BY <1>2, <3>1, OpenIndexFacts, KnownFacts, PartNames DEF NodeInv, Unused, Cur,
           Gives, NameMoves
      <4> QED
        BY <3>1, <4>1 DEF Data
    <3> QED
      BY <3>1
  <2>2. DataInv'
    <3>1. Cur' # 0 /\ Data(Cur)' # 0 =>
           /\ Cur' = Cur /\ Data(Cur)' = Data(Cur) /\ (gate'[Cur'] = None => gate[Cur] = None)
           /\ Gives("pages_shm")' \in {0, Gives("pages_shm")}
           /\ Gives("pages_shm") # 0 =>
                holds'["pages_shm"][Gives("pages_shm")] = holds["pages_shm"][Gives("pages_shm")]
           /\ Lasts(Cur)' => Lasts(Cur)
           /\ \A x \in Files : DataOf(x)' \in {0, DataOf(x)}
      BY <1>2, <2>1, OpenIndexFacts, PartNames DEF Cur, Data, DataOf, Gives, Lasts,
         NameMoves
    <3>2. \A o \in Procs : pc[o] = "fill_pages_file" /\ met[o] =>
            pc'[o] = pc[o] /\ met'[o] /\ to'[o] = to[o]
      BY <1>2, <2>1, OpenIndexFacts DEF Others, Marked, Forgets, Disturbs, Becomes,
         Attaching
    <3>3. \A o \in Procs : pc[o] \in After => pc'[o] \in After
      BY <1>2, <2>1, OpenIndexFacts DEF Others, Becomes, Ended, After, Attaching
    <3> QED
      BY <3>1, <3>2, <3>3, DataFrames DEF DataFrame
  <2> QED
    BY <2>2
<1>3. ASSUME NEW p \in Procs, LockIndex(p) PROVE DataInv'
  <2>1. Cur' # 0 /\ Data(Cur)' # 0 =>
         /\ Cur' = Cur /\ Data(Cur)' = Data(Cur) /\ (gate'[Cur'] = None => gate[Cur] = None)
         /\ Gives("pages_shm")' \in {0, Gives("pages_shm")}
         /\ Gives("pages_shm") # 0 =>
              holds'["pages_shm"][Gives("pages_shm")] = holds["pages_shm"][Gives("pages_shm")]
         /\ Lasts(Cur)' => Lasts(Cur)
         /\ \A x \in Files : DataOf(x)' \in {0, DataOf(x)}
    <3>1. Cur # 0 => Cur \in Nodes
      BY RangeFacts
    <3> QED
      BY <1>3, <3>1, LockIndexFacts, PartNames DEF Cur, Data, DataOf, Gives, Lasts, Only
  <2>2. \A o \in Procs : pc[o] = "fill_pages_file" /\ met[o] =>
          pc'[o] = pc[o] /\ met'[o] /\ to'[o] = to[o]
    BY <1>3, LockIndexFacts DEF Others, Marked, Forgets, Disturbs, Becomes, Attaching
  <2>3. \A o \in Procs : pc[o] \in After => pc'[o] \in After
    BY <1>3, LockIndexFacts DEF Others, Becomes, Ended, After, Attaching
  <2> QED
    BY <2>1, <2>2, <2>3, DataFrames DEF DataFrame
<1>4. ASSUME NEW p \in Procs, Attach(p) PROVE DataInv'
  <2>0. UNCHANGED <<dir, holds, durable, gate>>
    BY <1>4, AttachFacts
  <2>2. DataInv'
    <3>1. Cur' # 0 /\ Data(Cur)' # 0 =>
           /\ Cur' = Cur /\ Data(Cur)' = Data(Cur) /\ (gate'[Cur'] = None => gate[Cur] = None)
           /\ Gives("pages_shm")' \in {0, Gives("pages_shm")}
           /\ Gives("pages_shm") # 0 =>
                holds'["pages_shm"][Gives("pages_shm")] = holds["pages_shm"][Gives("pages_shm")]
           /\ Lasts(Cur)' => Lasts(Cur)
           /\ \A x \in Files : DataOf(x)' \in {0, DataOf(x)}
      BY <2>0 DEF Cur, Data, DataOf, Gives, Lasts
    <3>2. \A o \in Procs : pc[o] = "fill_pages_file" /\ met[o] =>
            pc'[o] = pc[o] /\ met'[o] /\ to'[o] = to[o]
      BY <1>4, AttachFacts DEF Others, Marked, Forgets, Disturbs, Becomes, Attaching
    <3>3. \A o \in Procs : pc[o] \in After => pc'[o] \in After
      BY <1>4, AttachFacts DEF Others, Becomes, Ended, After, Attaching
    <3> QED
      BY <3>1, <3>2, <3>3, DataFrames DEF DataFrame
  <2> QED
    BY <2>2
<1>5. ASSUME NEW p \in Procs, FillIndex(p) PROVE DataInv'
  <2>0. Data(Share(p)) = 0 /\ gate[Share(p)] = p /\ p # None
    BY <1>5, FillIndexFacts, InNodes DEF ShareInv, ShareOk
  <2>1. CASE ~Written \/ Share(p) # Cur
    <3>1. Cur' # 0 /\ Data(Cur)' # 0 =>
           /\ Cur' = Cur /\ Data(Cur)' = Data(Cur) /\ (gate'[Cur'] = None => gate[Cur] = None)
           /\ Gives("pages_shm")' \in {0, Gives("pages_shm")}
           /\ Gives("pages_shm") # 0 =>
                holds'["pages_shm"][Gives("pages_shm")] = holds["pages_shm"][Gives("pages_shm")]
           /\ Lasts(Cur)' => Lasts(Cur)
           /\ \A x \in Files : DataOf(x)' \in {0, DataOf(x)}
      <4>1. Cur # 0 => Cur \in Nodes
        BY RangeFacts
      <4>2. /\ dir' = dir /\ durable' = durable /\ \A x \in Parts : x # "index_shm" =>
              holds'[x] = holds[x]
        BY <1>5, FillIndexFacts
      <4>3. Cur' = Cur
        BY <4>2 DEF Cur, Gives
      <4>4. Cur # 0 /\ Data(Cur)' # 0 =>
              Data(Cur)' = Data(Cur) /\ (gate'[Cur] = None => gate[Cur] = None)
        BY <1>5, <2>0, <2>1, <4>1, <4>3, FillIndexFacts DEF Data, Only
      <4>5. Cur # 0 /\ Data(Cur)' # 0 => (Lasts(Cur)' => Lasts(Cur))
        BY <4>2, <4>3, <4>4 DEF Lasts, Data
      <4>6. \A x \in Files : DataOf(x)' = DataOf(x)
        BY <4>2, PartNames DEF DataOf, Gives
      <4>7. Gives("pages_shm")' = Gives("pages_shm") /\ holds'["pages_shm"] = holds["pages_shm"]
        BY <4>2, PartNames DEF Gives
      <4> HIDE DEF Cur, Data, DataOf, Gives, Lasts
      <4> QED
        BY <4>3, <4>4, <4>5, <4>6, <4>7
    <3>2. \A o \in Procs : pc[o] = "fill_pages_file" /\ met[o] =>
            pc'[o] = pc[o] /\ met'[o] /\ to'[o] = to[o]
      BY <1>5, <2>1, FillIndexFacts DEF Others, Marked, Forgets, Disturbs, Becomes,
         Attaching
    <3>3. \A o \in Procs : pc[o] \in After => pc'[o] \in After
      BY <1>5, <2>1, FillIndexFacts DEF Others, Becomes, Ended, After, Attaching
    <3> QED
      BY <3>1, <3>2, <3>3, DataFrames DEF DataFrame
  <2>2. CASE Written /\ Share(p) = Cur
    <3>1. /\ Cur' = Cur /\ gate'[Cur] = p /\ Data(Cur)' = DataOf("index_file")
          /\ \A x \in Files : DataOf(x)' = DataOf(x)
      BY <1>5, <2>0, <2>2, FillIndexFacts, PartNames DEF Cur, Gives, Data, DataOf, Only
    <3> HIDE DEF Cur, Data, DataOf
    <3>2. DataPages'
      BY <2>0, <3>1 DEF DataPages
    <3>3. DataFiles'
      BY <2>2, <3>1, PartNames DEF DataFiles, FileInv
    <3> QED
      BY <3>2, <3>3 DEF DataInv
  <2> QED
    BY <2>1, <2>2
<1>6. ASSUME NEW p \in Procs, FillPages(p) PROVE DataInv'
  <2>0. /\ Cur' = Cur /\ Data(Cur)' = Data(Cur) /\ gate' = gate /\ met' = met
        /\ (Lasts(Cur)' <=> Lasts(Cur)) /\ \A x \in Files : DataOf(x)' = DataOf(x)
    BY <1>6, FillPagesFacts, PartNames DEF Cur, Data, Gives, Lasts, DataOf, NameMoves
  <2>1. to'[p]["pages_shm"] = Gives("pages_shm")' /\ pc'[p] = "fill_pages_file"
    BY <1>6, FillPagesFacts, PartNames DEF Gives, NameMoves, Becomes
  <2>2. gate[Share(p)] = p /\ p # None /\ pc[p] \in Opened /\ pc[p] \in Opening
    BY <1>6, FillPagesFacts, InNodes DEF ShareInv, ShareOk, Fills, Opened, Opening
  <2>3. Share(p) = Cur \/ met'[p]
    BY <2>0, <2>2 DEF OpenInv, OpenUnmet
  <2>4. \A q \in Procs : pc[q] \in After => pc'[q] \in After
    BY <1>6, FillPagesFacts DEF Others, After
  <2> HIDE DEF Cur, Data, DataOf, Gives, Lasts
  <2>5. DataPages'
    BY <2>0, <2>1, <2>2, <2>3 DEF DataPages
  <2>6. Cur # 0 /\ Data(Cur) # 0 => DataFiles'
    BY <2>0, <2>4 DEF DataInv, DataFiles
  <2> QED
    BY <2>0, <2>5, <2>6 DEF DataInv
<1>7. ASSUME NEW p \in Procs, FillPagesFile(p) PROVE DataInv'
  <2>0. /\ Cur' = Cur /\ Data(Cur)' = Data(Cur)
        /\ (Lasts(Cur)' <=> Lasts(Cur)) /\ \A x \in Files : DataOf(x)' = DataOf(x)
        /\ Gives("pages_shm")' = Gives("pages_shm")
    <3>1. UNCHANGED <<dir, durable>> /\ \A x \in Parts : x # "pages_shm" =>
            holds'[x] = holds[x]
      BY <1>7, FillPagesFileFacts
    <3> QED
      BY <3>1, PartNames DEF Cur, Data, Gives, Lasts, DataOf
  <2>1. /\ holds'["pages_shm"][to[p]["pages_shm"]] = DataOf("pages_file")
    BY <1>7, FillPagesFileFacts DEF Only
  <2>2. /\ Data(Cur) = DataOf("index_file") /\ Written
        /\ Gives("pages_shm") \in {0, to[p]["pages_shm"]}
    BY <1>7, FillPagesFileFacts DEF FillInv, FillAlone, Fills
  <2>3. DataOf("pages_file") = DataOf("index_file")
    BY <2>2 DEF FileInv
  <2>4. \A q \in Procs : pc[q] \in After => pc'[q] \in After
    BY <1>7, FillPagesFileFacts DEF Others, After
  <2> HIDE DEF Cur, Data, DataOf, Gives, Lasts
  <2>5. DataPages'
    BY <2>0, <2>1, <2>2, <2>3 DEF DataPages
  <2>6. Cur # 0 /\ Data(Cur) # 0 => DataFiles'
    BY <2>0, <2>4 DEF DataInv, DataFiles
  <2> QED
    BY <2>0, <2>5, <2>6 DEF DataInv
<1>8. ASSUME NEW p \in Procs, CallStart(p) PROVE DataInv'
  <2>1. Cur' # 0 /\ Data(Cur)' # 0 =>
         /\ Cur' = Cur /\ Data(Cur)' = Data(Cur) /\ (gate'[Cur'] = None => gate[Cur] = None)
         /\ Gives("pages_shm")' \in {0, Gives("pages_shm")}
         /\ Gives("pages_shm") # 0 =>
              holds'["pages_shm"][Gives("pages_shm")] = holds["pages_shm"][Gives("pages_shm")]
         /\ Lasts(Cur)' => Lasts(Cur)
         /\ \A x \in Files : DataOf(x)' \in {0, DataOf(x)}
    BY <1>8, CallStartFacts, PartNames DEF Cur, Data, DataOf, Gives, Lasts, NameMoves
  <2>2. \A o \in Procs : pc[o] = "fill_pages_file" /\ met[o] =>
          pc'[o] = pc[o] /\ met'[o] /\ to'[o] = to[o]
    BY <1>8, CallStartFacts DEF Others, Marked, Forgets, Disturbs, Becomes, Attaching
  <2>3. \A o \in Procs : pc[o] \in After => pc'[o] \in After
    BY <1>8, CallStartFacts DEF Others, Becomes, Ended, After, Attaching
  <2> QED
    BY <2>1, <2>2, <2>3, DataFrames DEF DataFrame
<1>9. ASSUME NEW p \in Procs, CheckBad(p) PROVE DataInv'
  <2>1. Cur' # 0 /\ Data(Cur)' # 0 =>
         /\ Cur' = Cur /\ Data(Cur)' = Data(Cur) /\ (gate'[Cur'] = None => gate[Cur] = None)
         /\ Gives("pages_shm")' \in {0, Gives("pages_shm")}
         /\ Gives("pages_shm") # 0 =>
              holds'["pages_shm"][Gives("pages_shm")] = holds["pages_shm"][Gives("pages_shm")]
         /\ Lasts(Cur)' => Lasts(Cur)
         /\ \A x \in Files : DataOf(x)' \in {0, DataOf(x)}
    BY <1>9, CheckBadFacts, PartNames DEF Cur, Data, DataOf, Gives, Lasts, NameMoves
  <2>2. \A o \in Procs : pc[o] = "fill_pages_file" /\ met[o] =>
          pc'[o] = pc[o] /\ met'[o] /\ to'[o] = to[o]
    BY <1>9, CheckBadFacts DEF Others, Marked, Forgets, Disturbs, Becomes, Attaching
  <2>3. \A o \in Procs : pc[o] \in After => pc'[o] \in After
    BY <1>9, CheckBadFacts DEF Others, Becomes, Ended, After, Attaching
  <2> QED
    BY <2>1, <2>2, <2>3, DataFrames DEF DataFrame
<1>10. ASSUME NEW p \in Procs, MutexLock(p) PROVE DataInv'
  <2>1. Cur' # 0 /\ Data(Cur)' # 0 =>
         /\ Cur' = Cur /\ Data(Cur)' = Data(Cur) /\ (gate'[Cur'] = None => gate[Cur] = None)
         /\ Gives("pages_shm")' \in {0, Gives("pages_shm")}
         /\ Gives("pages_shm") # 0 =>
              holds'["pages_shm"][Gives("pages_shm")] = holds["pages_shm"][Gives("pages_shm")]
         /\ Lasts(Cur)' => Lasts(Cur)
         /\ \A x \in Files : DataOf(x)' \in {0, DataOf(x)}
    BY <1>10, MutexLockFacts, PartNames DEF Cur, Data, DataOf, Gives, Lasts, NameMoves
  <2>2. \A o \in Procs : pc[o] = "fill_pages_file" /\ met[o] =>
          pc'[o] = pc[o] /\ met'[o] /\ to'[o] = to[o]
    BY <1>10, MutexLockFacts DEF Others, Marked, Forgets, Disturbs, Becomes, Attaching
  <2>3. \A o \in Procs : pc[o] \in After => pc'[o] \in After
    BY <1>10, MutexLockFacts DEF Others, Becomes, Ended, After, Attaching
  <2> QED
    BY <2>1, <2>2, <2>3, DataFrames DEF DataFrame
<1>11. ASSUME NEW p \in Procs, CallEnd(p) PROVE DataInv'
  <2>1. Cur' # 0 /\ Data(Cur)' # 0 =>
         /\ Cur' = Cur /\ Data(Cur)' = Data(Cur) /\ (gate'[Cur'] = None => gate[Cur] = None)
         /\ Gives("pages_shm")' \in {0, Gives("pages_shm")}
         /\ Gives("pages_shm") # 0 =>
              holds'["pages_shm"][Gives("pages_shm")] = holds["pages_shm"][Gives("pages_shm")]
         /\ Lasts(Cur)' => Lasts(Cur)
         /\ \A x \in Files : DataOf(x)' \in {0, DataOf(x)}
    BY <1>11, CallEndFacts, PartNames DEF Cur, Data, DataOf, Gives, Lasts, NameMoves
  <2>2. \A o \in Procs : pc[o] = "fill_pages_file" /\ met[o] =>
          pc'[o] = pc[o] /\ met'[o] /\ to'[o] = to[o]
    BY <1>11, CallEndFacts DEF Others, Marked, Forgets, Disturbs, Becomes, Attaching
  <2>3. \A o \in Procs : pc[o] \in After => pc'[o] \in After
    BY <1>11, CallEndFacts DEF Others, Becomes, Ended, After, Attaching
  <2> QED
    BY <2>1, <2>2, <2>3, DataFrames DEF DataFrame
<1>12. ASSUME NEW p \in Procs, Unlink(p) PROVE DataInv'
  <2>1. Cur' # 0 /\ Data(Cur)' # 0 =>
         /\ Cur' = Cur /\ Data(Cur)' = Data(Cur) /\ (gate'[Cur'] = None => gate[Cur] = None)
         /\ Gives("pages_shm")' \in {0, Gives("pages_shm")}
         /\ Gives("pages_shm") # 0 =>
              holds'["pages_shm"][Gives("pages_shm")] = holds["pages_shm"][Gives("pages_shm")]
         /\ Lasts(Cur)' => Lasts(Cur)
         /\ \A x \in Files : DataOf(x)' \in {0, DataOf(x)}
    BY <1>12, UnlinkFacts, PartNames DEF Cur, Data, DataOf, Gives, Lasts, NameMoves
  <2>2. \A o \in Procs : pc[o] = "fill_pages_file" /\ met[o] =>
          pc'[o] = pc[o] /\ met'[o] /\ to'[o] = to[o]
    BY <1>12, UnlinkFacts DEF Others, Marked, Forgets, Disturbs, Becomes, Attaching
  <2>3. \A o \in Procs : pc[o] \in After => pc'[o] \in After
    BY <1>12, UnlinkFacts DEF Others, Becomes, Ended, After, Attaching
  <2> QED
    BY <2>1, <2>2, <2>3, DataFrames DEF DataFrame
<1>13. ASSUME NEW p \in Procs, CreateStart(p) PROVE DataInv'
  <2>1. Cur' # 0 /\ Data(Cur)' # 0 =>
         /\ Cur' = Cur /\ Data(Cur)' = Data(Cur) /\ (gate'[Cur'] = None => gate[Cur] = None)
         /\ Gives("pages_shm")' \in {0, Gives("pages_shm")}
         /\ Gives("pages_shm") # 0 =>
              holds'["pages_shm"][Gives("pages_shm")] = holds["pages_shm"][Gives("pages_shm")]
         /\ Lasts(Cur)' => Lasts(Cur)
         /\ \A x \in Files : DataOf(x)' \in {0, DataOf(x)}
    BY <1>13, CreateStartFacts, PartNames DEF Cur, Data, DataOf, Gives, Lasts, NameMoves
  <2>2. \A o \in Procs : pc[o] = "fill_pages_file" /\ met[o] =>
          pc'[o] = pc[o] /\ met'[o] /\ to'[o] = to[o]
    BY <1>13, CreateStartFacts DEF Others, Marked, Forgets, Disturbs, Becomes, Attaching
  <2>3. \A o \in Procs : pc[o] \in After => pc'[o] \in After
    BY <1>13, CreateStartFacts DEF Others, Becomes, Ended, After, Attaching
  <2> QED
    BY <2>1, <2>2, <2>3, DataFrames DEF DataFrame
<1>14. ASSUME NEW p \in Procs, CreateParts(p) PROVE DataInv'
  <2>0. /\ dir' = dir /\ (Cur # 0 => Cur \in Nodes /\ Cur # made' /\ Data(Cur) # made')
        /\ \A x \in Parts : Gives(x) # made' /\ (Gives(x) # 0 => Gives(x) \in Nodes)
    BY <1>14, CreatePartsFacts, KnownFacts, RangeFacts, PartNames DEF NodeInv, Cur,
       Gives, Data
  <2>1. DataInv'
    <3>1. Cur' # 0 /\ Data(Cur)' # 0 =>
           /\ Cur' = Cur /\ Data(Cur)' = Data(Cur) /\ (gate'[Cur'] = None => gate[Cur] = None)
           /\ Gives("pages_shm")' \in {0, Gives("pages_shm")}
           /\ Gives("pages_shm") # 0 =>
                holds'["pages_shm"][Gives("pages_shm")] = holds["pages_shm"][Gives("pages_shm")]
           /\ Lasts(Cur)' => Lasts(Cur)
           /\ \A x \in Files : DataOf(x)' \in {0, DataOf(x)}
      <4>1. Cur' = Cur /\ \A x \in Parts : Gives(x)' = Gives(x)
        BY <2>0 DEF Cur, Gives
      <4>2. Cur # 0 => Data(Cur)' = Data(Cur) /\ gate'[Cur] = gate[Cur]
        BY <1>14, <2>0, <4>1, CreatePartsFacts, PartNames DEF Only, Data
      <4>3. Cur # 0 => (Lasts(Cur)' => Lasts(Cur))
        BY <1>14, <2>0, <4>1, <4>2, CreatePartsFacts DEF Lasts, Data
      <4>4. \A x \in Parts : DataOf(x)' = DataOf(x)
        BY <1>14, <2>0, <4>1, CreatePartsFacts DEF DataOf, Only
      <4>5. Gives("pages_shm") # 0 =>
                holds'["pages_shm"][Gives("pages_shm")] = holds["pages_shm"][Gives("pages_shm")]
        BY <1>14, <2>0, CreatePartsFacts, PartNames DEF Only
      <4> HIDE DEF Cur, Data, DataOf, Gives, Lasts
      <4> QED
        BY <4>1, <4>2, <4>3, <4>4, <4>5, PartNames
    <3>2. \A o \in Procs : pc[o] = "fill_pages_file" /\ met[o] =>
            pc'[o] = pc[o] /\ met'[o] /\ to'[o] = to[o]
      BY <1>14, CreatePartsFacts DEF Others, Marked, Forgets, Disturbs, Becomes,
         Attaching
    <3>3. \A o \in Procs : pc[o] \in After => pc'[o] \in After
      BY <1>14, CreatePartsFacts DEF Others, Becomes, Ended, After, Attaching
    <3> QED
      BY <3>1, <3>2, <3>3, DataFrames DEF DataFrame
  <2> QED
    BY <2>1
<1>15. ASSUME NEW p \in Procs, CreateRefused(p) PROVE DataInv'
  <2>1. Cur' # 0 /\ Data(Cur)' # 0 =>
         /\ Cur' = Cur /\ Data(Cur)' = Data(Cur) /\ (gate'[Cur'] = None => gate[Cur] = None)
         /\ Gives("pages_shm")' \in {0, Gives("pages_shm")}
         /\ Gives("pages_shm") # 0 =>
              holds'["pages_shm"][Gives("pages_shm")] = holds["pages_shm"][Gives("pages_shm")]
         /\ Lasts(Cur)' => Lasts(Cur)
         /\ \A x \in Files : DataOf(x)' \in {0, DataOf(x)}
    BY <1>15, CreateRefusedFacts, PartNames DEF Cur, Data, DataOf, Gives, Lasts,
       NameMoves
  <2>2. \A o \in Procs : pc[o] = "fill_pages_file" /\ met[o] =>
          pc'[o] = pc[o] /\ met'[o] /\ to'[o] = to[o]
    BY <1>15, CreateRefusedFacts DEF Others, Marked, Forgets, Disturbs, Becomes,
       Attaching
  <2>3. \A o \in Procs : pc[o] \in After => pc'[o] \in After
    BY <1>15, CreateRefusedFacts DEF Others, Becomes, Ended, After, Attaching
  <2> QED
    BY <2>1, <2>2, <2>3, DataFrames DEF DataFrame
<1>16. ASSUME NEW p \in Procs, LoadEnds(p) PROVE DataInv'
  <2>1. Cur' # 0 /\ Data(Cur)' # 0 =>
         /\ Cur' = Cur /\ Data(Cur)' = Data(Cur) /\ (gate'[Cur'] = None => gate[Cur] = None)
         /\ Gives("pages_shm")' \in {0, Gives("pages_shm")}
         /\ Gives("pages_shm") # 0 =>
              holds'["pages_shm"][Gives("pages_shm")] = holds["pages_shm"][Gives("pages_shm")]
         /\ Lasts(Cur)' => Lasts(Cur)
         /\ \A x \in Files : DataOf(x)' \in {0, DataOf(x)}
    BY <1>16, LoadEndsFacts, PartNames DEF Cur, Data, DataOf, Gives, Lasts, NameMoves
  <2>2. \A o \in Procs : pc[o] = "fill_pages_file" /\ met[o] =>
          pc'[o] = pc[o] /\ met'[o] /\ to'[o] = to[o]
    BY <1>16, LoadEndsFacts DEF Others, Marked, Forgets, Disturbs, Becomes, Attaching
  <2>3. \A o \in Procs : pc[o] \in After => pc'[o] \in After
    BY <1>16, LoadEndsFacts DEF Others, Becomes, Ended, After, Attaching
  <2> QED
    BY <2>1, <2>2, <2>3, DataFrames DEF DataFrame
<1>17. ASSUME NEW p \in Procs, MoveAway(p) PROVE DataInv'
  <2>1. Cur' # 0 /\ Data(Cur)' # 0 =>
         /\ Cur' = Cur /\ Data(Cur)' = Data(Cur) /\ (gate'[Cur'] = None => gate[Cur] = None)
         /\ Gives("pages_shm")' \in {0, Gives("pages_shm")}
         /\ Gives("pages_shm") # 0 =>
              holds'["pages_shm"][Gives("pages_shm")] = holds["pages_shm"][Gives("pages_shm")]
         /\ Lasts(Cur)' => Lasts(Cur)
         /\ \A x \in Files : DataOf(x)' \in {0, DataOf(x)}
    BY <1>17, MoveAwayFacts, PartNames DEF Cur, Data, DataOf, Gives, Lasts, NameMoves
  <2>2. \A o \in Procs : pc[o] = "fill_pages_file" /\ met[o] =>
          pc'[o] = pc[o] /\ met'[o] /\ to'[o] = to[o]
    BY <1>17, MoveAwayFacts DEF Others, Marked, Forgets, Disturbs, Becomes, Attaching
  <2>3. \A o \in Procs : pc[o] \in After => pc'[o] \in After
    BY <1>17, MoveAwayFacts DEF Others, Becomes, Ended, After, Attaching
  <2> QED
    BY <2>1, <2>2, <2>3, DataFrames DEF DataFrame
<1>18. ASSUME NEW p \in Procs, Rename(p) PROVE DataInv'
  <2>1. Cur' = new[p] /\ gate'[Cur'] = p /\ p # None /\ pc'[p] \in After
    BY <1>18, RenameFacts, ProcsAssumption, PartNames DEF NewInv, NewOk, Making, Before,
       After, Becomes, Cur, Gives, NameMoves
  <2> HIDE DEF Cur
  <2>2. DataPages' /\ DataFiles'
    BY <2>1 DEF DataPages, DataFiles
  <2> QED
    BY <2>2 DEF DataInv
<1>19. ASSUME NEW p \in Procs, Retire(p) PROVE DataInv'
  <2>0. pc[p] \in Making \ {"create"} /\ pc[p] \notin Before
    BY <1>19, RetireFacts DEF Making, Before, After
  <2>1. /\ Cur' = new[p] /\ gate'[Cur'] = p /\ p # None /\ new[p] # 0 /\ Data(Cur)' = new[p]
        /\ new[p] \in durable => \A x \in Files : Gives(x)' = new[p] /\ holds'[x][new[p]] = 0
    <3>1. NewOk(p) /\ new[p] # 0
      BY <2>0, InNodes DEF NewInv
    <3>2. /\ Cur = new[p] /\ gate[new[p]] = p /\ Data(new[p]) = new[p]
          /\ new[p] \in durable => \A x \in Files : Gives(x) = new[p] /\ holds[x][new[p]] = 0
      BY <1>19, <3>1, RetireFacts, PartNames DEF NewOk, Before, Data
    <3> QED
      BY <1>19, <3>1, <3>2, RetireFacts, ProcsAssumption DEF Cur, Gives, Data
  <2>2. DataPages'
    BY <2>1 DEF DataPages
  <2>3. Lasts(Cur)' => new[p] \in durable
    BY <1>19, <2>1, RetireFacts DEF Lasts, Data
  <2>4. DataFiles'
    <3> HIDE DEF Cur, Lasts
    <3> QED
      BY <2>1, <2>3 DEF DataFiles, DataOf
  <2> QED
    BY <2>2, <2>4 DEF DataInv
<1>20. ASSUME NEW p \in Procs, Finish(p) PROVE DataInv'
  <2>0. NewOk(p) /\ new[p] # 0 /\ new[p] \in Nodes
    BY <1>20, FinishFacts, InNodes DEF NewInv, Making
  <2>1. /\ Cur' = new[p] /\ holds'["index_shm"][new[p]] = new[p]
        /\ Gives("pages_shm")' = new[p] /\ holds'["pages_shm"][new[p]] = new[p]
    BY <1>20, <2>0, FinishFacts, PartNames DEF NewOk, Before, Cur, Gives
  <2>2. new[p] \in durable => \A x \in Files : DataOf(x)' = new[p]
    BY <1>20, <2>0, FinishFacts, PartNames DEF NewOk, Before, DataOf, Gives, Only
  <2>3. Data(Cur)' = new[p] /\ (Lasts(Cur)' => new[p] \in durable)
    BY <1>20, <2>1, FinishFacts DEF Data, Lasts
  <2> HIDE DEF Cur, Lasts, Data, DataOf, Gives
  <2>4. DataPages' /\ DataFiles'
    BY <2>1, <2>2, <2>3 DEF DataPages, DataFiles
  <2> QED
    BY <2>4 DEF DataInv
<1>21. ASSUME NEW p \in Procs, LoadFails(p) PROVE DataInv'
  <2>1. Cur' # 0 /\ Data(Cur)' # 0 =>
         /\ Cur' = Cur /\ Data(Cur)' = Data(Cur) /\ (gate'[Cur'] = None => gate[Cur] = None)
         /\ Gives("pages_shm")' \in {0, Gives("pages_shm")}
         /\ Gives("pages_shm") # 0 =>
              holds'["pages_shm"][Gives("pages_shm")] = holds["pages_shm"][Gives("pages_shm")]
         /\ Lasts(Cur)' => Lasts(Cur)
         /\ \A x \in Files : DataOf(x)' \in {0, DataOf(x)}
    <3>1. Cur # 0 => Cur \in Nodes
      BY RangeFacts
    <3>2. Cur # new[p]
      BY <1>21, LoadFailsFacts DEF NewInv, NewOk, Making, Before
    <3> QED
      BY <1>21, <3>1, <3>2, LoadFailsFacts, PartNames DEF Cur, Data, DataOf, Gives,
         Lasts, Only
  <2>2. \A o \in Procs : pc[o] = "fill_pages_file" /\ met[o] =>
          pc'[o] = pc[o] /\ met'[o] /\ to'[o] = to[o]
    BY <1>21, LoadFailsFacts DEF Others, Marked, Forgets, Disturbs, Becomes, Attaching
  <2>3. \A o \in Procs : pc[o] \in After => pc'[o] \in After
    BY <1>21, LoadFailsFacts DEF Others, Becomes, Ended, After, Attaching
  <2> QED
    BY <2>1, <2>2, <2>3, DataFrames DEF DataFrame
<1>22. ASSUME NEW p \in Procs, LoadDies(p) PROVE DataInv'
  <2>1. Cur' # 0 /\ Data(Cur)' # 0 =>
         /\ Cur' = Cur /\ Data(Cur)' = Data(Cur) /\ (gate'[Cur'] = None => gate[Cur] = None)
         /\ Gives("pages_shm")' \in {0, Gives("pages_shm")}
         /\ Gives("pages_shm") # 0 =>
              holds'["pages_shm"][Gives("pages_shm")] = holds["pages_shm"][Gives("pages_shm")]
         /\ Lasts(Cur)' => Lasts(Cur)
         /\ \A x \in Files : DataOf(x)' \in {0, DataOf(x)}
    <3>1. Cur # 0 => Cur \in Nodes
      BY RangeFacts
    <3>2. Cur # new[p]
      BY <1>22, LoadDiesFacts DEF NewInv, NewOk, Making, Before
    <3> QED
      BY <1>22, <3>1, <3>2, LoadDiesFacts, PartNames DEF Cur, Data, DataOf, Gives,
         Lasts, Only
  <2>2. \A o \in Procs : pc[o] = "fill_pages_file" /\ met[o] =>
          pc'[o] = pc[o] /\ met'[o] /\ to'[o] = to[o]
    BY <1>22, LoadDiesFacts DEF Others, Marked, Forgets, Disturbs, Becomes, Attaching
  <2>3. \A o \in Procs : pc[o] \in After => pc'[o] \in After
    BY <1>22, LoadDiesFacts DEF Others, Becomes, Ended, After, Attaching
  <2> QED
    BY <2>1, <2>2, <2>3, DataFrames DEF DataFrame
<1>23. ASSUME NEW p \in Procs, UnloadStart(p) PROVE DataInv'
  <2>1. Cur' # 0 /\ Data(Cur)' # 0 =>
         /\ Cur' = Cur /\ Data(Cur)' = Data(Cur) /\ (gate'[Cur'] = None => gate[Cur] = None)
         /\ Gives("pages_shm")' \in {0, Gives("pages_shm")}
         /\ Gives("pages_shm") # 0 =>
              holds'["pages_shm"][Gives("pages_shm")] = holds["pages_shm"][Gives("pages_shm")]
         /\ Lasts(Cur)' => Lasts(Cur)
         /\ \A x \in Files : DataOf(x)' \in {0, DataOf(x)}
    BY <1>23, UnloadStartFacts, PartNames DEF Cur, Data, DataOf, Gives, Lasts, NameMoves
  <2>2. \A o \in Procs : pc[o] = "fill_pages_file" /\ met[o] =>
          pc'[o] = pc[o] /\ met'[o] /\ to'[o] = to[o]
    BY <1>23, UnloadStartFacts DEF Others, Marked, Forgets, Disturbs, Becomes, Attaching
  <2>3. \A o \in Procs : pc[o] \in After => pc'[o] \in After
    BY <1>23, UnloadStartFacts DEF Others, Becomes, Ended, After, Attaching
  <2> QED
    BY <2>1, <2>2, <2>3, DataFrames DEF DataFrame
<1>24. ASSUME NEW p \in Procs, Drop(p) PROVE DataInv'
  <2>1. CASE pc[p] # "drop_index"
    <3>1. Cur' # 0 /\ Data(Cur)' # 0 =>
           /\ Cur' = Cur /\ Data(Cur)' = Data(Cur) /\ (gate'[Cur'] = None => gate[Cur] = None)
           /\ Gives("pages_shm")' \in {0, Gives("pages_shm")}
           /\ Gives("pages_shm") # 0 =>
                holds'["pages_shm"][Gives("pages_shm")] = holds["pages_shm"][Gives("pages_shm")]
           /\ Lasts(Cur)' => Lasts(Cur)
           /\ \A x \in Files : DataOf(x)' \in {0, DataOf(x)}
      BY <1>24, <2>1, DropFacts, PartNames DEF Cur, Data, DataOf, Gives, Lasts,
         NameMoves
    <3>2. \A o \in Procs : pc[o] = "fill_pages_file" /\ met[o] =>
            pc'[o] = pc[o] /\ met'[o] /\ to'[o] = to[o]
      BY <1>24, <2>1, DropFacts DEF Others, Marked, Forgets, Disturbs, Becomes,
         Attaching
    <3>3. \A o \in Procs : pc[o] \in After => pc'[o] \in After
      BY <1>24, <2>1, DropFacts DEF Others, Becomes, Ended, After, Attaching
    <3> QED
      BY <3>1, <3>2, <3>3, DataFrames DEF DataFrame
  <2>2. CASE pc[p] = "drop_index"
    <3>1. Cur' = 0
      BY <1>24, <2>2, DropFacts DEF Cur, Gives, NameMoves
    <3> QED
      BY <3>1 DEF DataInv
  <2> QED
    BY <2>1, <2>2
<1>25. ASSUME NEW p \in Procs, MarkDeleted(p) PROVE DataInv'
  <2>1. Cur' # 0 /\ Data(Cur)' # 0 =>
         /\ Cur' = Cur /\ Data(Cur)' = Data(Cur) /\ (gate'[Cur'] = None => gate[Cur] = None)
         /\ Gives("pages_shm")' \in {0, Gives("pages_shm")}
         /\ Gives("pages_shm") # 0 =>
              holds'["pages_shm"][Gives("pages_shm")] = holds["pages_shm"][Gives("pages_shm")]
         /\ Lasts(Cur)' => Lasts(Cur)
         /\ \A x \in Files : DataOf(x)' \in {0, DataOf(x)}
    BY <1>25, MarkDeletedFacts, PartNames DEF Cur, Data, DataOf, Gives, Lasts, NameMoves
  <2>2. \A o \in Procs : pc[o] = "fill_pages_file" /\ met[o] =>
          pc'[o] = pc[o] /\ met'[o] /\ to'[o] = to[o]
    BY <1>25, MarkDeletedFacts DEF Others, Marked, Forgets, Disturbs, Becomes, Attaching
  <2>3. \A o \in Procs : pc[o] \in After => pc'[o] \in After
    BY <1>25, MarkDeletedFacts DEF Others, Becomes, Ended, After, Attaching
  <2> QED
    BY <2>1, <2>2, <2>3, DataFrames DEF DataFrame
<1>26. CASE UNCHANGED vars
  BY <1>26 DEF vars, DataInv, DataPages, DataFiles, Cur, Data, DataOf, Gives, Lasts
<1> QED
  BY <1>1, <1>2, <1>3, <1>4, <1>5, <1>6, <1>7, <1>8, <1>9, <1>10, <1>11, <1>12, <1>13,
     <1>14, <1>15, <1>16, <1>17, <1>18, <1>19, <1>20, <1>21, <1>22, <1>23, <1>24, <1>25,
     <1>26 DEF Next, Steps, Starts, Links, Calls, Creates, Unloads

-----------------------------------------------------------------------------
(***************************************************************************)
(* The invariant and the theorems.                                         *)
(***************************************************************************)
Inv ==
  /\ TypeOK /\ PlaceInv /\ JobInv /\ NodeInv /\ LockInv /\ ShareInv /\ NewInv /\ OpenInv
  /\ FileInv /\ GoneInv /\ FillInv /\ MetInv /\ ToldInv /\ DataInv

LEMMA InitInv ==
  ASSUME Init
  PROVE  Inv
<1>1. 1 \in Nodes /\ 0 \notin Nodes /\ 1 \in 0 .. MaxNodes /\ 0 \in 0 .. MaxNodes /\ Known = {0, 1}
  BY ProcsAssumption DEF Nodes, Known, Init
<1>2. /\ \A x \in Parts : dir[x] \in {0, 1} /\ tmp[x] = 0 /\ (x \in Files => dir[x] = 1)
      /\ dir \in [Parts -> 0 .. MaxNodes] /\ tmp \in [Parts -> 0 .. MaxNodes]
      /\ dir["index_shm"] = dir["pages_shm"]
  BY <1>1, PartNames DEF Init, Nothing
<1>3. \A x \in Parts : \A n \in Nodes : holds[x][n] = IF n = 1 THEN dir[x] ELSE 0
  BY DEF Init
<1>4. /\ durable = {1} /\ dead = {} /\ made = 1 /\ jobs = 0
      /\ \A n \in Nodes : gate[n] = None /\ lock[n] = None
  BY DEF Init
<1>5. \A p \in Procs : /\ pc[p] = "idle" /\ aim[p] = "none" /\ new[p] = 0 /\ ~met[p]
                      /\ \A x \in Parts : at[p][x] = 0 /\ to[p][x] = 0
  BY DEF Init, Nothing
<1>6. Cur \in {0, 1} /\ \A p \in Procs : Index(p) = 0
  BY <1>2, <1>5, PartNames DEF Cur, Gives, Index
<1>7. TypeOK
  <2>1. holds \in [Parts -> [Nodes -> 0 .. MaxNodes]]
    BY <1>1, <1>2 DEF Init
  <2>2. /\ at \in [Procs -> [Parts -> 0 .. MaxNodes]] /\ to \in [Procs -> [Parts -> 0 .. MaxNodes]]
        /\ new \in [Procs -> 0 .. MaxNodes]
    BY <1>1 DEF Init, Nothing
  <2>3. /\ gate \in [Nodes -> Procs \cup {None}] /\ lock \in [Nodes -> Procs \cup {None}]
        /\ pc \in [Procs -> Places] /\ met \in [Procs -> BOOLEAN]
        /\ aim \in [Procs -> {"none", "link", "call", "create", "unload", "delete"}]
    BY DEF Init, Places
  <2> QED
    BY <1>1, <1>2, <1>4, <2>1, <2>2, <2>3 DEF TypeOK
<1>8. \A p \in Procs : pc[p] \notin Opening /\ pc[p] \notin Making \cup Dropping \cup Dropped /\ pc[p] # "busy"
                      /\ pc[p] \notin Renaming
  BY <1>5, PlaceNames DEF Opening, Making, Before, After, Dropping, Dropped
<1>9. PlaceInv
  BY <1>5, <1>6, <1>8, PartNames DEF PlaceInv, PlaceOk, Opened, Opening, Making, Before,
     After, Dropping, Dropped
<1>10. JobInv
  BY <1>5 DEF JobInv, JobAims
<1>11. NodeInv
  BY <1>1, <1>2, <1>3, <1>4, <1>5 DEF NodeInv, Unused
<1>12. LockInv /\ NewInv
  BY <1>8 DEF LockInv, NewInv
<1>13. ShareInv
  BY <1>5, <1>6 DEF ShareInv, ShareOk, Attaching, Fills
<1>14. OpenInv
  BY <1>5, <1>8 DEF OpenInv, OpenJob, OpenLate, OpenUnmet, Opened, JobAims
<1>15. \A x \in Files : Gives(x) = 1 /\ DataOf(x) = 1
  BY <1>1, <1>2, <1>3, PartNames DEF Gives, DataOf
<1>16. FileInv
  BY <1>4, <1>15, PartNames DEF FileInv
<1>17. GoneInv /\ FillInv
  BY <1>5 DEF GoneInv, FillInv, FillAlone, FillBefore, FillLate, Fills, Before, Opened,
     Opening
<1>18. MetInv
  BY <1>6, <1>8 DEF MetInv, MetOpening, MetLinked
<1>19. ToldInv
  BY <1>4, <1>6, <1>8 DEF ToldInv, ToldUnmet, ToldBefore, Making
<1>20. DataInv
  <2> SUFFICES ASSUME Cur # 0
               PROVE  DataPages /\ DataFiles
    BY DEF DataInv
  <2>1. Cur = 1 /\ Gives("pages_shm") = 1
    BY <1>2, <1>6 DEF Cur, Gives
  <2>2. Data(Cur) = 1 /\ holds["pages_shm"][1] = 1
    BY <1>1, <1>3, <2>1, PartNames DEF Data, Cur, Gives
  <2> QED
    BY <1>15, <2>1, <2>2 DEF DataPages, DataFiles
<1> QED
  BY <1>7, <1>9, <1>10, <1>11, <1>12, <1>13, <1>14, <1>16, <1>17, <1>18, <1>19, <1>20
     DEF Inv

LEMMA NextInv ==
  ASSUME Inv, [Next]_vars
  PROVE  Inv'
<1> USE DEF Inv
<1>1. TypeOK'
  BY TypesStep
<1>2. PlaceInv' /\ JobInv' /\ NodeInv'
  BY PlaceStep, JobStep, NodeStep
<1>3. LockInv' /\ ShareInv' /\ NewInv'
  BY LockStep, ShareStep, NewStep
<1>4. OpenInv' /\ FileInv' /\ GoneInv' /\ FillInv'
  BY OpenStep, FileStep, GoneStep, FillStep
<1>5. MetInv' /\ ToldInv' /\ DataInv'
  BY MetStep, ToldStep, DataStep
<1> QED
  BY <1>1, <1>2, <1>3, <1>4, <1>5

LEMMA SpecInv == Spec => []Inv
BY InitInv, NextInv, PTL DEF Spec

\* Nobody who works on a set under its process_lock works on one that is marked as
\* deleted (idx_unload_set, _common_mutexLock).
THEOREM NoLateWorkHolds == Spec => []NoLateWork
<1>1. Inv => NoLateWork
  BY DEF Inv, LockInv, NoLateWork
<1> QED
  BY <1>1, SpecInv, PTL

\* Once a creation or an unload is over, whoever linked a set that no longer has the
\* name, and met no change of names, finds it marked as deleted; the name never gives
\* a marked set (idx_creation_done, idx_unload_set).
THEOREM ToldHolds == Spec => []Told
<1>1. Inv => Told
  <2> SUFFICES ASSUME Inv, Quiet
               PROVE  /\ Gives("index_shm") \notin dead
                      /\ \A p \in Procs : Linked(p) /\ ~met[p] /\ pc[p] \notin Opening
                           => Index(p) \in dead \cup {Gives("index_shm")}
    BY DEF Told
  <2>1. \A p \in Procs : pc[p] \notin After \cup Dropped
    BY PlaceNames DEF Quiet, After, Dropped
  <2> QED
    BY <2>1 DEF Inv, ToldInv, ToldUnmet, Linked, Cur
<1> QED
  BY <1>1, SpecInv, PTL

\* A set that is not marked is one set to all who linked it without meeting a change
\* of names: its parts hold the data of one set, and are the same for everybody
\* (_link_set, idx_creation_done).
THEOREM WholeHolds == Spec => []Whole
<1>1. Inv => Whole
  <2> SUFFICES ASSUME Inv, Calm, NEW p \in Procs, Linked(p), ~met[p], Index(p) \notin dead, pc[p] \notin Opening
               PROVE  /\ \A x \in Parts : at[p][x] # 0 =>
                           holds[x][at[p][x]] \in {holds["index_shm"][Index(p)]} \cup (IF x \in Files THEN {0} ELSE {})
                      /\ \A q \in Procs : Index(q) = Index(p) /\ ~met[q] /\ pc[q] \notin Opening => at[q] = at[p]
    BY DEF Whole
  <2> USE DEF Inv
  <2>1. \A q \in Procs : pc[q] \notin Renaming /\ ~Changing(q) /\ pc[q] \notin After \cup Dropped
    <3>1. \A q \in Procs : pc[q] \notin Renaming
      BY DEF Calm, Quiet
    <3>2. \A q \in Procs : ~Changing(q)
      BY <3>1, Renamers
    <3> QED
      BY <3>1, <3>2, PlaceNames DEF After, Dropped
  <2>2. Index(p) = Cur /\ Cur # 0
    BY <2>1 DEF Linked, ToldInv, ToldUnmet
  <2>3. gate[Cur] = None /\ Data(Cur) # 0
    BY <2>2 DEF ShareInv, ShareOk
  <2>4. \A q \in Procs : Index(q) = Cur /\ ~met[q] /\ pc[q] \notin Opening =>
          LinkedTo(q)
    BY <2>1, <2>2 DEF MetInv, MetLinked
  <2>5. LinkedTo(p) /\ Complete
    BY <2>2, <2>4 DEF LinkedTo
  <2>6. \A o \in Procs : pc[o] \in Opening => ~met[o]
    BY DEF Calm
  <2>7. holds["pages_shm"][Gives("pages_shm")] = Data(Cur)
    BY <2>2, <2>3, <2>5, <2>6 DEF DataInv, DataPages, Complete, Opening
  <2>8. Lasts(Cur) => \A x \in Files : DataOf(x) \in {0, Data(Cur)}
    BY <2>1, <2>2, <2>3 DEF DataInv, DataFiles
  <2>9. \A q \in Procs : Index(q) = Index(p) /\ ~met[q] /\ pc[q] \notin Opening =>
          at[q] = at[p]
    <3> SUFFICES ASSUME NEW q \in Procs, Index(q) = Index(p), ~met[q], pc[q] \notin Opening
                 PROVE  at[q] = at[p]
      OBVIOUS
    <3>1. \A x \in Parts : at[q][x] = at[p][x]
      BY <2>2, <2>4, <2>5 DEF LinkedTo
    <3>2. at[q] \in [Parts -> 0 .. MaxNodes] /\ at[p] \in [Parts -> 0 .. MaxNodes]
      BY DEF TypeOK
    <3> QED
      BY <3>1, <3>2
  <2>10. ASSUME NEW x \in Parts, at[p][x] # 0
         PROVE  holds[x][at[p][x]] \in {holds["index_shm"][Index(p)]} \cup (IF x \in Files THEN {0} ELSE {})
    <3>1. at[p][x] = Gives(x) /\ (x \in Shares \/ Lasts(Cur))
      BY <2>5, <2>10 DEF LinkedTo
    <3>2. holds["index_shm"][Index(p)] = Data(Cur)
      BY <2>2 DEF Data
    <3>3. CASE x = "index_shm"
      BY <3>1, <3>2, <3>3, <2>2 DEF Cur, Data
    <3>4. CASE x = "pages_shm"
      BY <2>7, <3>1, <3>2, <3>4
    <3>5. CASE x \in Files
      <4>1. DataOf(x) = holds[x][Gives(x)]
        BY <2>10, <3>1 DEF DataOf
      <4>2. Lasts(Cur)
        BY <3>1, <3>5, PartNames
      <4> QED
        BY <2>8, <3>1, <3>2, <3>5, <4>1, <4>2
    <3> QED
      BY <3>3, <3>4, <3>5, PartNames
  <2> QED
    BY <2>9, <2>10
<1> QED
  BY <1>1, SpecInv, PTL
=============================================================================
