------------------------------ MODULE SetLinks ------------------------------
(***************************************************************************)
(* Creating, linking, replacing and unloading the sets of one name         *)
(* (idx_create_set .. idx_unload_set in index.c).  A set has four parts,   *)
(* two in shared memory and two on disk, each with a name of its own; a    *)
(* creation makes its parts under ".tmp" names and moves them one after    *)
(* the other, a link opens them by name one after the other, and nothing   *)
(* but the flock on an index share that is being filled stands between.    *)
(*                                                                         *)
(* Processes are connections (FSingSet).  A file or share is a node, the   *)
(* parts that one creation makes have one number; `holds' says of a node   *)
(* whose data is in it.  The sets are in SING_LM_SIMPLE.                   *)
(*                                                                         *)
(* Of the callers it is asked that one at a time creates, unloads or       *)
(* deletes (Alone), and that who unloads has not linked meanwhile (~met).  *)
(* Links, calls and the links of a call that finds its set deleted come    *)
(* at any time.                                                            *)
(***************************************************************************)
EXTENDS Naturals, FiniteSets

CONSTANTS
  Procs,     \* processes
  Makers,    \* those that may create, unload and delete
  None,      \* no process
  MaxJobs,   \* creations and unloads that are begun
  MaxNodes   \* files and shares that are made

ASSUME ProcsAssumption == None \notin Procs /\ MaxJobs \in Nat /\ MaxNodes \in Nat \ {0}

VARIABLES
  dir,     \* the node that a name gives, 0 if there is no such name
  tmp,     \* the one that the name with ".tmp" gives
  holds,   \* whose data is in a node: the number of its set, 0 if empty
  durable, \* sets with a disk copy: no UF_NOT_PERSISTENT
  dead,    \* index shares with bad_states.states.deleted
  gate,    \* who has the flock of an index share
  lock,    \* who has process_lock of an index share
  pc,      \* where a process is
  aim,     \* what it is in the middle of
  at,      \* the parts it is linked to
  to,      \* the parts it has opened in a link that has not ended
  new,     \* the set it creates
  met,     \* its link met a replacement or an unload
  made,    \* nodes made
  jobs     \* creations and unloads begun

vars == <<dir, tmp, holds, durable, dead, gate, lock, pc, aim, at, to, new, met, made, jobs>>

Shares == {"index_shm", "pages_shm"}
Files == {"index_file", "pages_file"}
Parts == Shares \cup Files

\* A job makes two nodes of a kind: the set, and a share that a link has made in
\* place of one that was unlinked.
Nodes == 1 .. MaxNodes

Nothing == [x \in Parts |-> 0]

\* Where a creation or an unload changes the names.
Moves == [move_index |-> "index_shm", move_pages |-> "pages_shm",
          move_index_file |-> "index_file", move_pages_file |-> "pages_file"]
Drops == [drop_index_file |-> "index_file", drop_pages_file |-> "pages_file",
          drop_index |-> "index_shm", drop_pages |-> "pages_shm"]
Aways == [away_index_file |-> "index_file", away_pages_file |-> "pages_file"]

Opening == {"open", "flock", "index_file", "pages_shm", "pages_file",
            "fill_index", "fill_pages", "fill_pages_file"}

\* The set's names no longer are, or not yet are, those of one set.
Renaming == DOMAIN Moves \cup DOMAIN Drops \cup DOMAIN Aways \cup {"retire", "mark"}

Places == Opening \cup Renaming \cup
          {"idle", "linked", "check", "lock", "busy", "create", "load", "finish"}

\* A set that is on disk, and in memory or not.
Init ==
  /\ dir \in {[x \in Parts |-> IF x \in Files \/ loaded THEN 1 ELSE 0] : loaded \in BOOLEAN}
  /\ tmp = Nothing
  /\ holds = [x \in Parts |-> [n \in Nodes |-> IF n = 1 THEN dir[x] ELSE 0]]
  /\ durable = {1} /\ dead = {}
  /\ gate = [n \in Nodes |-> None] /\ lock = [n \in Nodes |-> None]
  /\ pc = [p \in Procs |-> "idle"] /\ aim = [p \in Procs |-> "none"]
  /\ at = [p \in Procs |-> Nothing] /\ to = [p \in Procs |-> Nothing]
  /\ new = [p \in Procs |-> 0] /\ met = [p \in Procs |-> FALSE]
  /\ made = 1 /\ jobs = 0

Go(p, place) == pc' = [pc EXCEPT ![p] = place]

Turn(p, place, what) == Go(p, place) /\ aim' = [aim EXCEPT ![p] = what]

Gives(part) == dir[part]

Index(p) == at[p]["index_shm"]

Open(p, part, n) == to' = [to EXCEPT ![p][part] = n]

\* The data of the set whose share this is: rv->is_persistent.
Lasts(n) == holds["index_shm"][n] \in durable

\* Who links while names change has met the change.
Disturb == met' = [q \in Procs |-> met[q] \/ pc[q] \in Opening]

\* The order of the names: the index first, as the members of FFileNames.
NextPlace ==
  [move_index |-> "move_pages", move_pages |-> "move_index_file",
   move_index_file |-> "move_pages_file", move_pages_file |-> "retire",
   drop_index_file |-> "drop_pages_file", drop_pages_file |-> "drop_index",
   drop_index |-> "drop_pages", drop_pages |-> "mark",
   away_index_file |-> "away_pages_file", away_pages_file |-> "move_index"]

-----------------------------------------------------------------------------
\* What a link is part of, and how that goes on when the link is made ..
LinkMade(p, parts) ==
  /\ at' = [at EXCEPT ![p] = parts]
  /\ to' = [to EXCEPT ![p] = Nothing]
  /\ \/ aim[p] = "link" /\ Turn(p, "linked", "none")
     \/ aim[p] = "create" /\ Turn(p, "create", "create")
     \/ aim[p] \notin {"link", "create"} /\ Turn(p, "check", aim[p])

\* .. and when it is not: a set that was linked before stays, and the call
\* returns ERROR_CONNECTION_LOST; a creation goes on without an old set.
LinkFails(p) ==
  /\ to' = [to EXCEPT ![p] = Nothing]
  /\ \/ aim[p] = "link" /\ Turn(p, "idle", "none")
     \/ aim[p] = "create" /\ Turn(p, "create", "create")
     \/ aim[p] \notin {"link", "create"} /\ Turn(p, "linked", "none")
  /\ UNCHANGED at

\* idx_link_set and idx_relink_set call _link_set.
Link(p, what) ==
  /\ Turn(p, "open", what)
  /\ met' = [met EXCEPT ![p] = \E q \in Procs \ {p} : pc[q] \in Renaming]

LinkStart(p) ==
  /\ pc[p] = "idle" /\ Link(p, "link")
  /\ UNCHANGED <<dir, tmp, holds, durable, dead, gate, lock, at, to, new, made, jobs>>

\* shm_open(O_CREAT) of the index share.
OpenIndex(p) ==
  /\ pc[p] = "open" /\ Go(p, "flock")
  /\ \/ /\ Gives("index_shm") # 0
        /\ Open(p, "index_shm", Gives("index_shm"))
        /\ UNCHANGED <<dir, made>>
     \/ /\ Gives("index_shm") = 0 /\ made < MaxNodes
        /\ made' = made + 1
        /\ dir' = [dir EXCEPT !["index_shm"] = made + 1]
        /\ Open(p, "index_shm", made + 1)
  /\ UNCHANGED <<tmp, holds, durable, dead, gate, lock, aim, at, new, met, jobs>>

\* A mistake: the header is read without the flock.
LockIndexNot(p) ==
  LET n == to[p]["index_shm"] IN
  /\ pc[p] = "flock"
  /\ IF holds["index_shm"][n] = 0
     THEN Go(p, "fill_index") /\ gate' = [gate EXCEPT ![n] = p]
     ELSE Go(p, IF Lasts(n) THEN "index_file" ELSE "pages_shm") /\ UNCHANGED gate
  /\ UNCHANGED <<dir, tmp, holds, durable, dead, lock, aim, at, to, new, met, made, jobs>>

\* The flock is given back at once if the share is filled.
LockIndex(p) ==
  LET n == to[p]["index_shm"] IN
  /\ pc[p] = "flock" /\ gate[n] = None
  /\ IF holds["index_shm"][n] = 0
     THEN Go(p, "fill_index") /\ gate' = [gate EXCEPT ![n] = p]
     ELSE Go(p, IF Lasts(n) THEN "index_file" ELSE "pages_shm") /\ UNCHANGED gate
  /\ UNCHANGED <<dir, tmp, holds, durable, dead, lock, aim, at, to, new, met, made, jobs>>

\* A share that was filled: the other parts, each by its name.
Attach(p) ==
  LET part == pc[p]
      n == Gives(part)
      parts == [to[p] EXCEPT ![part] = n]
      lasts == Lasts(to[p]["index_shm"])
  IN
  /\ \/ /\ part \in {"index_file", "pages_shm", "pages_file"} /\ n = 0
        /\ LinkFails(p)
     \/ /\ part = "index_file" /\ n # 0
        /\ Turn(p, "pages_shm", aim[p]) /\ Open(p, part, n) /\ UNCHANGED at
     \/ /\ part = "pages_shm" /\ n # 0 /\ lasts
        /\ Turn(p, "pages_file", aim[p]) /\ Open(p, part, n) /\ UNCHANGED at
     \/ /\ part = "pages_file" \/ (part = "pages_shm" /\ ~lasts)
        /\ n # 0 /\ LinkMade(p, parts)
  /\ UNCHANGED <<dir, tmp, holds, durable, dead, gate, lock, new, met, made, jobs>>

\* An empty one is filled from the file.  Without a file, or with one that
\* has not been written yet, it stays, empty.
FillIndex(p) ==
  LET n == to[p]["index_shm"]
      f == Gives("index_file")
      written == f # 0 /\ holds["index_file"][f] # 0
  IN
  /\ pc[p] = "fill_index"
  /\ \/ /\ written
        /\ Open(p, "index_file", f)
        /\ holds' = [holds EXCEPT !["index_shm"][n] = holds["index_file"][f]]
        /\ Go(p, "fill_pages")
        /\ UNCHANGED <<gate, aim, at>>
     \/ /\ ~written
        /\ LinkFails(p)
        /\ gate' = [gate EXCEPT ![n] = None]
        /\ UNCHANGED holds
  /\ UNCHANGED <<dir, tmp, durable, dead, lock, new, met, made, jobs>>

\* shm_open(O_CREAT | O_TRUNC) of the pages.
FillPages(p) ==
  LET n == IF Gives("pages_shm") = 0 THEN to[p]["index_shm"] ELSE Gives("pages_shm") IN
  /\ pc[p] = "fill_pages" /\ Go(p, "fill_pages_file")
  /\ dir' = [dir EXCEPT !["pages_shm"] = n]
  /\ holds' = [holds EXCEPT !["pages_shm"][n] = 0]
  /\ Open(p, "pages_shm", n)
  /\ UNCHANGED <<tmp, durable, dead, gate, lock, aim, at, new, met, made, jobs>>

\* The pages are loaded, now or when they are needed, and others let in.
\* Without the file of pages the name of the index is given up.
FillPagesFile(p) ==
  LET n == to[p]["index_shm"]  f == Gives("pages_file") IN
  /\ pc[p] = "fill_pages_file"
  /\ gate' = [gate EXCEPT ![n] = None]
  /\ \/ /\ f # 0
        /\ holds' = [holds EXCEPT !["pages_shm"][to[p]["pages_shm"]] = holds["pages_file"][f]]
        /\ LinkMade(p, [to[p] EXCEPT !["pages_file"] = f])
        /\ UNCHANGED <<dir, met>>
     \/ /\ f = 0
        /\ dir' = [dir EXCEPT !["index_shm"] = 0]
        /\ Disturb /\ LinkFails(p)
        /\ UNCHANGED holds
  /\ UNCHANGED <<tmp, durable, dead, lock, new, made, jobs>>

-----------------------------------------------------------------------------
\* Write calls, each under process_lock.
CallStart(p) ==
  /\ pc[p] = "linked" /\ Turn(p, "check", "call")
  /\ UNCHANGED <<dir, tmp, holds, durable, dead, gate, lock, at, to, new, met, made, jobs>>

\* A mistake: only a corrupted set is looked for.
CheckBadNot(p) ==
  /\ pc[p] = "check" /\ Go(p, "lock")
  /\ UNCHANGED <<dir, tmp, holds, durable, dead, gate, lock, aim, at, to, new, met, made, jobs>>

\* BAD_STATES_CHECK: while the set is deleted another one is linked.
CheckBad(p) ==
  /\ pc[p] = "check"
  /\ IF Index(p) \in dead THEN Link(p, aim[p]) ELSE Go(p, "lock") /\ UNCHANGED <<aim, met>>
  /\ UNCHANGED <<dir, tmp, holds, durable, dead, gate, lock, at, to, new, made, jobs>>

Locked(p) == IF aim[p] = "call" THEN "busy"
             ELSE IF aim[p] = "unload" THEN "drop_index" ELSE "drop_index_file"

\* A mistake: who gets the mutex does not look again.
MutexLockBlind(p) ==
  /\ pc[p] = "lock"
  /\ IF lock[Index(p)] = None
     THEN Go(p, Locked(p)) /\ lock' = [lock EXCEPT ![Index(p)] = p]
     ELSE Go(p, "check") /\ UNCHANGED lock
  /\ UNCHANGED <<dir, tmp, holds, durable, dead, gate, aim, at, to, new, met, made, jobs>>

\* _common_mutexLock waits a millisecond and looks again; who gets the mutex
\* looks whether the set was deleted meanwhile.
MutexLock(p) ==
  /\ pc[p] = "lock"
  /\ IF lock[Index(p)] = None /\ Index(p) \notin dead
     THEN Go(p, Locked(p)) /\ lock' = [lock EXCEPT ![Index(p)] = p]
     ELSE Go(p, "check") /\ UNCHANGED lock
  /\ UNCHANGED <<dir, tmp, holds, durable, dead, gate, aim, at, to, new, met, made, jobs>>

CallEnd(p) ==
  /\ pc[p] = "busy" /\ Turn(p, "linked", "none")
  /\ lock' = [lock EXCEPT ![Index(p)] = None]
  /\ UNCHANGED <<dir, tmp, holds, durable, dead, gate, at, to, new, met, made, jobs>>

\* idx_unlink_set
Unlink(p) ==
  /\ pc[p] = "linked" /\ Go(p, "idle")
  /\ at' = [at EXCEPT ![p] = Nothing] /\ met' = [met EXCEPT ![p] = FALSE]
  /\ UNCHANGED <<dir, tmp, holds, durable, dead, gate, lock, aim, to, new, made, jobs>>

-----------------------------------------------------------------------------
\* The callers' part: one of them at a time creates or unloads, and not while
\* somebody still links who met the one before.
Alone(p) ==
  /\ p \in Makers
  /\ \A q \in Procs \ {p} :
       /\ aim[q] \notin {"create", "unload", "delete"}
       /\ pc[q] \in Opening => ~met[q]

\* idx_create_set links the set that is to be replaced.
CreateStart(p) ==
  /\ pc[p] = "idle" /\ Alone(p) /\ jobs < MaxJobs
  /\ jobs' = jobs + 1
  /\ Link(p, "create")
  /\ UNCHANGED <<dir, tmp, holds, durable, dead, gate, lock, at, to, new, made>>

\* The parts get ".tmp" names, the files if the set is to have a disk copy.
CreateParts(p) ==
  /\ pc[p] = "create" /\ tmp["index_shm"] = 0 /\ made < MaxNodes
  /\ Go(p, "load")
  /\ made' = made + 1 /\ new' = [new EXCEPT ![p] = made + 1]
  /\ gate' = [gate EXCEPT ![made + 1] = p]
  /\ \E lasts \in BOOLEAN :
       /\ durable' = IF lasts THEN durable \cup {made + 1} ELSE durable
       /\ tmp' = [x \in Parts |-> IF x \in Shares \/ lasts THEN made + 1 ELSE tmp[x]]
  /\ holds' = [x \in Parts |-> [holds[x] EXCEPT
                 ![made + 1] = IF x \in Shares THEN made + 1 ELSE 0]]
  /\ UNCHANGED <<dir, dead, lock, aim, at, to, met, jobs>>

NoTmp(parts) == [x \in Parts |-> IF x \in parts THEN 0 ELSE tmp[x]]

\* O_EXCL: who died creating has left an index share there.  The names are
\* removed, of the files if this set was to have some; the old set is left.
CreateRefused(p) ==
  /\ pc[p] = "create" /\ tmp["index_shm"] # 0
  /\ \E lasts \in BOOLEAN : tmp' = NoTmp(IF lasts THEN Parts ELSE Shares)
  /\ Turn(p, "idle", "none")
  /\ at' = [at EXCEPT ![p] = Nothing] /\ met' = [met EXCEPT ![p] = FALSE]
  /\ UNCHANGED <<dir, holds, durable, dead, gate, lock, to, new, made, jobs>>

Forget(p) ==
  /\ Turn(p, "idle", "none")
  /\ gate' = [gate EXCEPT ![new[p]] = None]
  /\ at' = [at EXCEPT ![p] = Nothing] /\ new' = [new EXCEPT ![p] = 0]
  /\ met' = [met EXCEPT ![p] = FALSE]

\* A line that cannot be parsed, or no memory: sing_create_set deletes the
\* new set, which is under its ".tmp" names, and nobody unloads the old one.
LoadFails(p) ==
  /\ pc[p] = "load" /\ Forget(p)
  /\ tmp' = NoTmp(IF new[p] \in durable THEN Parts ELSE Shares)
  /\ dead' = dead \cup {new[p]}
  /\ UNCHANGED <<dir, holds, durable, lock, to, made, jobs>>

\* The process dies while it reads its file.
LoadDies(p) ==
  /\ pc[p] = "load" /\ Forget(p)
  /\ UNCHANGED <<dir, tmp, holds, durable, dead, lock, to, made, jobs>>

Old(p) == Index(p)

\* idx_creation_done, _file_relink.  The ".bk" names of the old parts are not
\* modelled, who looks for a set never opens them; but the files of a set
\* that is replaced by one without files are moved away to such names.
LoadEnds(p) ==
  /\ pc[p] = "load"
  /\ Go(p, IF Old(p) # 0 /\ Lasts(Old(p)) /\ new[p] \notin durable
           THEN "away_index_file" ELSE "move_index")
  /\ UNCHANGED <<dir, tmp, holds, durable, dead, gate, lock, aim, at, to, new, met, made, jobs>>

MoveAway(p) ==
  /\ pc[p] \in DOMAIN Aways /\ Go(p, NextPlace[pc[p]])
  /\ dir' = [dir EXCEPT ![Aways[pc[p]]] = 0]
  /\ Disturb
  /\ UNCHANGED <<tmp, holds, durable, dead, gate, lock, aim, at, to, new, made, jobs>>

\* rename, of the two shares and then of the two files
Rename(p) ==
  LET part == Moves[pc[p]] IN
  /\ pc[p] \in DOMAIN Moves
  /\ Go(p, IF part = "pages_shm" /\ new[p] \notin durable THEN "retire" ELSE NextPlace[pc[p]])
  /\ dir' = [dir EXCEPT ![part] = tmp[part]] /\ tmp' = [tmp EXCEPT ![part] = 0]
  /\ Disturb
  /\ UNCHANGED <<holds, durable, dead, gate, lock, aim, at, to, new, made, jobs>>

\* A mistake: only a set with files is unloaded.
RetireFiles(p) ==
  /\ pc[p] = "retire" /\ Go(p, "finish")
  /\ (Old(p) # 0 => lock[Old(p)] = None)
  /\ dead' = IF Old(p) = 0 THEN dead
             ELSE IF Lasts(Old(p)) THEN dead \cup {Old(p)} ELSE dead
  /\ UNCHANGED <<dir, tmp, holds, durable, gate, lock, aim, at, to, new, met, made, jobs>>

\* idx_unload_set of the old set: whoever works on it is waited for, then it
\* is marked.  Its names are gone already.
Retire(p) ==
  /\ pc[p] = "retire" /\ Go(p, "finish")
  /\ (Old(p) # 0 => lock[Old(p)] = None)
  /\ dead' = IF Old(p) = 0 THEN dead ELSE dead \cup {Old(p)}
  /\ UNCHANGED <<dir, tmp, holds, durable, gate, lock, aim, at, to, new, met, made, jobs>>

\* The files are written, and only then linkers are let in.
Finish(p) ==
  LET n == new[p] IN
  /\ pc[p] = "finish" /\ Turn(p, "linked", "none")
  /\ holds' = [x \in Parts |->
                 IF x \in Files /\ n \in durable THEN [holds[x] EXCEPT ![n] = n] ELSE holds[x]]
  /\ gate' = [gate EXCEPT ![n] = None]
  /\ at' = [at EXCEPT ![p] = [x \in Parts |-> IF x \in Shares \/ n \in durable THEN n ELSE 0]]
  /\ new' = [new EXCEPT ![p] = 0] /\ met' = [met EXCEPT ![p] = FALSE]
  /\ UNCHANGED <<dir, tmp, durable, dead, lock, to, made, jobs>>

\* sing_unload_set and sing_delete_set.  A set that was unloaded by somebody
\* else is only unmapped.
UnloadStart(p) ==
  /\ pc[p] = "linked" /\ Alone(p) /\ ~met[p] /\ jobs < MaxJobs
  /\ jobs' = jobs + 1
  /\ \E delete \in BOOLEAN :
       IF Index(p) \in dead /\ ~(delete /\ Lasts(Index(p)))
       THEN Go(p, "idle") /\ at' = [at EXCEPT ![p] = Nothing] /\ UNCHANGED aim
       ELSE /\ Turn(p, "check", IF delete /\ Lasts(Index(p)) THEN "delete" ELSE "unload")
            /\ UNCHANGED at
  /\ UNCHANGED <<dir, tmp, holds, durable, dead, gate, lock, to, new, met, made>>

\* unlink, of the two files and then of the two shares
Drop(p) ==
  /\ pc[p] \in DOMAIN Drops /\ Go(p, NextPlace[pc[p]])
  /\ dir' = [dir EXCEPT ![Drops[pc[p]]] = 0]
  /\ Disturb
  /\ UNCHANGED <<tmp, holds, durable, dead, gate, lock, aim, at, to, new, made, jobs>>

\* lck_deinit_locks, idx_unlink_set
MarkDeleted(p) ==
  /\ pc[p] = "mark" /\ Turn(p, "idle", "none")
  /\ dead' = dead \cup {Index(p)}
  /\ lock' = [lock EXCEPT ![Index(p)] = None]
  /\ at' = [at EXCEPT ![p] = Nothing]
  /\ UNCHANGED <<dir, tmp, holds, durable, gate, to, new, met, made, jobs>>

-----------------------------------------------------------------------------
Links(p) == OpenIndex(p) \/ LockIndex(p) \/ Attach(p)
              \/ FillIndex(p) \/ FillPages(p) \/ FillPagesFile(p)

Calls(p) == CheckBad(p) \/ MutexLock(p) \/ CallEnd(p)

Creates(p) == \/ CreateParts(p) \/ CreateRefused(p) \/ LoadEnds(p) \/ MoveAway(p)
              \/ Rename(p) \/ Retire(p) \/ Finish(p)

Unloads(p) == Drop(p) \/ MarkDeleted(p)

Steps(p) == Links(p) \/ Calls(p) \/ Creates(p) \/ Unloads(p)

Starts(p) == \/ LinkStart(p) \/ CallStart(p) \/ Unlink(p)
             \/ CreateStart(p) \/ UnloadStart(p)
             \/ LoadFails(p) \/ LoadDies(p)

Next == \E p \in Procs : Steps(p) \/ Starts(p)

Spec == Init /\ [][Next]_vars

\* Nobody has to begin anything; what is begun goes on, and who waits in
\* flock, or for the mutex of a set it replaces, is not passed over for ever.
FairSpec ==
  Spec /\ \A p \in Procs : WF_vars(Steps(p)) /\ SF_vars(LockIndex(p)) /\ SF_vars(Retire(p))

-----------------------------------------------------------------------------
TypeOK ==
  /\ dir \in [Parts -> 0 .. MaxNodes] /\ tmp \in [Parts -> 0 .. MaxNodes]
  /\ holds \in [Parts -> [Nodes -> 0 .. MaxNodes]]
  /\ durable \subseteq Nodes /\ dead \subseteq Nodes
  /\ gate \in [Nodes -> Procs \cup {None}] /\ lock \in [Nodes -> Procs \cup {None}]
  /\ pc \in [Procs -> Places]
  /\ aim \in [Procs -> {"none", "link", "call", "create", "unload", "delete"}]
  /\ at \in [Procs -> [Parts -> 0 .. MaxNodes]] /\ to \in [Procs -> [Parts -> 0 .. MaxNodes]]
  /\ new \in [Procs -> 0 .. MaxNodes] /\ met \in [Procs -> BOOLEAN]
  /\ made \in Nat /\ jobs \in Nat

Linked(p) == pc[p] \notin {"idle"} /\ Index(p) # 0

Quiet == \A p \in Procs : pc[p] \notin Renaming

\* Nor is anybody still linking who met a change of names.
Calm == Quiet /\ \A p \in Procs : pc[p] \in Opening => ~met[p]

\* Nobody is forgotten: once a creation or an unload is over, whoever linked
\* a set that no longer has the name, and met no change of names when it did,
\* finds that set marked as deleted, and the name never gives a marked set.
Told ==
  Quiet => /\ Gives("index_shm") \notin dead
           /\ \A p \in Procs : Linked(p) /\ ~met[p] /\ pc[p] \notin Opening
                => Index(p) \in dead \cup {Gives("index_shm")}

\* A set that is not marked is one set to all who linked it without meeting a
\* change of names: its parts hold the data of one set, and are the same
\* parts for everybody.
Whole ==
  Calm => \A p \in Procs : Linked(p) /\ ~met[p] /\ Index(p) \notin dead /\ pc[p] \notin Opening =>
    /\ \A x \in Parts : at[p][x] # 0 =>
         holds[x][at[p][x]] \in {holds["index_shm"][Index(p)]} \cup (IF x \in Files THEN {0} ELSE {})
    /\ \A q \in Procs : Index(q) = Index(p) /\ ~met[q] /\ pc[q] \notin Opening => at[q] = at[p]

\* Nobody works on a set that is marked as deleted.
NoLateWork == \A p \in Procs : pc[p] = "busy" => Index(p) \notin dead

\* A call that has found its set deleted comes to another one or returns, and
\* a link ends, however many fill shares and give up.
Follows ==
  \A p \in Procs :
    /\ (aim[p] = "call" /\ Index(p) \in dead) ~> (aim[p] # "call" \/ Index(p) \notin dead)
    /\ (pc[p] \in Opening) ~> (pc[p] \notin Opening)
=============================================================================
