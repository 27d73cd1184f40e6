----------------------------- MODULE ReaderLockInv -----------------------------
(***************************************************************************)
(* The inductive invariant behind the safety properties of ReaderLock, and *)
(* the steps after which the counters are wrong: it holds, with dumpers,   *)
(* kept locks and reverts, until the first of them.                        *)
(***************************************************************************)
EXTENDS ReaderLock

\* The retry of lck_readerUnlock counts the reader in a closed counter.
EntersClosed(r) == /\ UnlockDone(r) /\ keep[r] /\ Closed(rw)
                   /\ xchg[r].new = Switch(rw, readerSeq[r])

\* dump_hash_chain gives its lock up and goes on to give it up once more.
LeavesTwice(r) == UnlockDone(r) /\ pc[r] = "last" /\ ~keeped[r]

\* lck_readerUnlockCond moves the count and leaves readerSeq as it was.
Miscount == \E r \in Readers : EntersClosed(r) \/ LeavesTwice(r) \/ CondDone(r)

\* Readers, at the points where they are.
Phases ==
  \A r \in Readers :
    \/ r \in Getters /\ pc[r] \in {"idle", "enter", "search", "unlock", "bail"}
    \/ r \in Dumpers /\ pc[r] \in {"idle", "enter", "dump", "cond", "last", "final"}

\* A lock is kept while keys are left, and by a dumper to the end of its chain.
JobInv ==
  \A r \in Readers :
    /\ r \in Getters /\ pc[r] \in {"enter", "search", "unlock"} =>
         job[r].left >= 1 /\ keep[r] = (job[r].left > 1)
    /\ r \in Dumpers /\ pc[r] \in {"enter", "dump", "cond", "last"} => keep[r]
    /\ pc[r] = "unlock" => job[r].ans # "none"
    /\ pc[r] \in {"bail", "final"} => ~keep[r]
    /\ pc[r] = "idle" => ~keeped[r]
    /\ r \in Dumpers /\ pc[r] = "enter" => ~keeped[r]

\* What a pending exchange loaded is not newer than the word, and what it
\* would store is the change of what it loaded that its reader wants.
XchgInv ==
  \A r \in Readers : xchg[r] # NoXchg =>
    LET old == xchg[r].old  new == xchg[r].new
    IN  /\ pc[r] \in Unlocking \cup {"enter", "cond"}
        /\ old.seq <= rw.seq
        /\ pc[r] = "enter" => ~keeped[r] /\ new = Enter(old)
        /\ pc[r] \in Unlocking =>
             /\ Valid(old, readerSeq[r])
             /\ keep[r]  => /\ readerSeq[r] + 1 = old.seq
                            /\ new \in {Switch(old, readerSeq[r]), Leave(old, readerSeq[r])}
                            /\ keeped[r] => new = Switch(old, readerSeq[r])
             /\ ~keep[r] => new = Leave(old, readerSeq[r])

\* The counters with the closed mark.
Marked(p) == \/ wpc = "revert"
             \/ wpc \in {"drain", "seal", "force"} /\ p = Par(rw.seq)

Counted(p) == {r \in Readers : Holding(r) /\ Par(readerSeq[r]) = p}

CountInv == \A p \in 0..1 :
  rw.cnt[p] = IF Marked(p) THEN Full ELSE Cardinality(Counted(p))

\* A good lock is of the current sequence, or of the one before while the
\* writer waits for it.
HolderInv == \A r \in Readers : Holding(r) =>
  \/ /\ readerSeq[r] = rw.seq
     /\ wpc \in {"idle", "incr", "wait", "clear", "free", "close"}
  \/ /\ readerSeq[r] + 1 = rw.seq
     /\ wpc \in {"wait", "clear", "drain", "force"}

\* A lock is not kept on only while everybody is being shut out.
GivesUp(r) == pc[r] \in Unlocking /\ xchg[r] # NoXchg /\ keep[r] /\ ~keeped[r]
ShutInv == \A r \in Readers : GivesUp(r) /\ Holding(r) => wpc \in {"drain", "force"}

\* A lock that was taken away is old, and the sequence moves on before its
\* counter is used again.
KilledInv == \A r \in Readers : Occupied(r) /\ r \in killed =>
  /\ readerSeq[r] < rw.seq
  /\ readerSeq[r] + 1 = rw.seq => wpc \in {"idle", "incr", "free", "close"}

BirthInv == \A r \in Readers : Occupied(r) => birth[r] = readerSeq[r]

WriterInv ==
  /\ reclaimed <= rw.seq
  /\ wpc \in {"wait", "clear", "free", "drain", "seal", "force"} => reclaimed < rw.seq
  /\ wpc = "seal" => \A r \in Readers : ~Holding(r)

\* Why the reader lock works: the counters are the readers with a good lock,
\* and whoever waits for them knows which sequence they are of.
IInv == /\ Phases /\ JobInv /\ XchgInv
        /\ CountInv /\ HolderInv /\ ShutInv /\ KilledInv /\ BirthInv /\ WriterInv
=============================================================================
