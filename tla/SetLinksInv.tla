---------------------------- MODULE SetLinksInv ----------------------------
(***************************************************************************)
(* The invariant of SetLinks for its proofs, what each step of the program *)
(* does, and those parts of the invariant that speak of single processes,  *)
(* shares and files: TypeOK .. GoneInv of the list in SetLinksProofs.      *)
(***************************************************************************)
EXTENDS SetLinks, TLAPS

Aims == {"none", "link", "call", "create", "unload", "delete"}
JobAims == {"create", "unload", "delete"}

\* A creation, before and after the index share gets its name, and an unload.
Before   == {"create", "load", "away_index_file", "away_pages_file", "move_index"}
After    == {"move_pages", "move_index_file", "move_pages_file", "retire"}
Making   == Before \cup After \cup {"finish"}
Dropping == {"drop_index_file", "drop_pages_file", "drop_index"}
Dropped  == {"drop_pages", "mark"}

\* A link that has opened the index share, that attaches a filled one, or that has
\* filled one.
Opened    == Opening \ {"open"}
Attaching == {"index_file", "pages_shm", "pages_file"}
Fills     == {"fill_pages", "fill_pages_file"}

Cur      == Gives("index_shm")
Share(p) == to[p]["index_shm"]
Data(n)  == holds["index_shm"][n]
DataOf(x) == IF Gives(x) = 0 THEN 0 ELSE holds[x][Gives(x)]
Written  == DataOf("index_file") # 0

\* A creation that moves the files of the old set away.
MovesAway(p) == Index(p) # 0 /\ Lasts(Index(p)) /\ new[p] \notin durable

\* The names have begun to change, and have not all changed.
Changing(p) ==
  \/ pc[p] \in {"away_pages_file", "drop_pages_file"} \cup After \cup Dropped
  \/ pc[p] = "move_index" /\ MovesAway(p)
  \/ pc[p] = "drop_index" /\ aim[p] = "delete"

PlaceOk(p) ==
  /\ pc[p] \in {"idle", "linked"} <=> aim[p] = "none"
  /\ pc[p] \in Opening => aim[p] \in {"link", "call"} \cup JobAims
  /\ pc[p] \in {"check", "lock"} => aim[p] \in {"call", "unload", "delete"}
  /\ pc[p] = "busy" => aim[p] = "call"
  /\ pc[p] \in Making => aim[p] = "create"
  /\ pc[p] \in Dropping \cup Dropped => aim[p] \in {"unload", "delete"}
  /\ pc[p] \in {"drop_index_file", "drop_pages_file"} => aim[p] = "delete"
  /\ aim[p] = "create" => pc[p] \in Opening \cup Making
  /\ pc[p] = "idle" \/ aim[p] = "link" \/ (aim[p] = "create" /\ pc[p] \in Opening) => \A x \in Parts : at[p][x] = 0
  /\ pc[p] = "linked" \/ aim[p] \in {"call", "unload", "delete"} => Index(p) # 0
  /\ pc[p] \in Opening /\ Index(p) # 0 => Index(p) \in dead
  /\ pc[p] \in Opened => Share(p) # 0
  /\ pc[p] \notin Opened => \A x \in Parts : to[p][x] = 0
  /\ pc[p] = "fill_pages_file" => to[p]["pages_shm"] # 0
  /\ to[p]["pages_file"] = 0
  /\ pc[p] \in {"flock", "index_file", "fill_index"} => to[p]["index_file"] = 0
  /\ pc[p] \in {"flock", "index_file", "pages_shm", "fill_index", "fill_pages"} => to[p]["pages_shm"] = 0
  /\ new[p] # 0 <=> pc[p] \in Making \ {"create"}

PlaceInv == \A p \in Procs : PlaceOk(p)

\* One job at a time, whose process links undisturbed, as do the others until it
\* changes names.
JobInv ==
  /\ \A p, q \in Procs : aim[p] \in JobAims /\ aim[q] \in JobAims => p = q
  /\ \A p \in Procs : aim[p] \in JobAims =>
       /\ ~met[p]
       /\ pc[p] \notin Renaming \cup {"finish"} =>
            \A o \in Procs : pc[o] \in Opening => ~met[o]

\* Nothing is known of a node that has not been made.
Unused(n) ==
  /\ n \notin dead /\ n \notin durable /\ gate[n] = None /\ lock[n] = None
  /\ \A x \in Parts : holds[x][n] = 0

Known == 0 .. made

NodeInv ==
  /\ \A n \in Nodes \ Known : Unused(n)
  /\ \A x \in Parts : \A n \in Nodes : holds[x][n] \in Known
  /\ \A x \in Parts : dir[x] \in Known /\ tmp[x] \in Known
  /\ \A p \in Procs : \A x \in Parts : at[p][x] \in Known /\ to[p][x] \in Known
  /\ \A p \in Procs : new[p] \in Known

LockInv ==
  \A p \in Procs : pc[p] \in {"busy"} \cup Dropping \cup Dropped =>
    lock[Index(p)] = p /\ Index(p) \notin dead

\* Who has a share that is filled, and who fills one.
ShareOk(p) ==
  /\ Index(p) # 0 => Data(Index(p)) # 0 /\ gate[Index(p)] = None
  /\ pc[p] \in Attaching => Data(Share(p)) # 0 /\ gate[Share(p)] = None
  /\ pc[p] = "fill_index" => Data(Share(p)) = 0 /\ gate[Share(p)] = p
  /\ pc[p] \in Fills => Data(Share(p)) # 0 /\ gate[Share(p)] = p

ShareInv == \A p \in Procs : ShareOk(p)

\* The set that is created, and how far it has its names.
NewOk(p) ==
  LET n == new[p] IN
  /\ gate[n] = p /\ n \notin dead
  /\ \A x \in Parts : holds[x][n] = IF x \in Shares THEN n ELSE 0
  /\ IF pc[p] \in Before THEN tmp["index_shm"] = n /\ Cur # n ELSE Cur = n
  /\ IF pc[p] \in Before \cup {"move_pages"} THEN tmp["pages_shm"] = n ELSE Gives("pages_shm") = n
  /\ n \in durable =>
       /\ IF pc[p] \in Before \cup {"move_pages", "move_index_file"}
          THEN tmp["index_file"] = n ELSE Gives("index_file") = n
       /\ IF pc[p] \in Before \cup {"move_pages", "move_index_file", "move_pages_file"}
          THEN tmp["pages_file"] = n ELSE Gives("pages_file") = n
  /\ pc[p] \in {"move_index_file", "move_pages_file"} => n \in durable
  /\ pc[p] \in {"away_index_file", "away_pages_file"} => MovesAway(p)

NewInv == \A p \in Procs : pc[p] \in Making \ {"create"} => NewOk(p)

\* Which share those have who link: before its names change, that of the job; all
\* those who are late, the same; who is not, the one that has the name.
OpenJob ==
  \A p, o \in Procs : pc[o] \in Opened /\ aim[p] \in JobAims =>
    /\ pc[p] \notin After \cup Dropped \cup {"finish"} => Share(o) = Cur
    /\ pc[p] \in Dropped => Share(o) \in {Cur, Index(p)}

OpenLate ==
  \A o, q \in Procs :
    pc[o] \in Opened /\ pc[q] \in Opened /\ Share(o) # Cur /\ Share(q) # Cur => Share(o) = Share(q)

OpenUnmet ==
  \A o \in Procs : pc[o] \in Opening /\ ~met[o] =>
    /\ \A p \in Procs : ~Changing(p)
    /\ pc[o] \in Opened => Share(o) = Cur

OpenInv == OpenJob /\ OpenLate /\ OpenUnmet

\* The files have one set, and no name if they are taken away.
FileInv ==
  Written => /\ DataOf("index_file") \in durable
             /\ Gives("pages_file") # 0 /\ DataOf("pages_file") = DataOf("index_file")

GoneInv ==
  \A p \in Procs :
    pc[p] \in {"away_pages_file", "drop_pages_file"} => Gives("index_file") = 0

\* Who fills a share is alone, and the set that has the name is that of the files.
FillAlone ==
  \A o \in Procs : pc[o] \in Fills =>
    /\ Written /\ Cur # 0 /\ Data(Cur) = DataOf("index_file")
    /\ \A p \in Procs : pc[p] \notin Making \cup Dropping
    /\ \A q \in Procs : pc[q] \in Fills => q = o
    /\ pc[o] = "fill_pages_file" => Gives("pages_shm") \in {0, to[o]["pages_shm"]}

FillBefore == \A p \in Procs : pc[p] \in Before /\ Written => Cur # 0 /\ Data(Cur) # 0

FillLate ==
  \A o \in Procs : pc[o] \in Opened /\ Share(o) # Cur /\ Data(Share(o)) = 0 /\ Written =>
    /\ \A p \in Procs : pc[p] \notin Making
    /\ Cur # 0 /\ Data(Cur) = DataOf("index_file") /\ gate[Cur] = None

FillInv == FillAlone /\ FillBefore /\ FillLate

\* A set that all its parts have names of.
Complete ==
  /\ Cur # 0 /\ Data(Cur) # 0 /\ Gives("pages_shm") # 0
  /\ Lasts(Cur) => Gives("index_file") # 0 /\ Gives("pages_file") # 0

\* What an undisturbed link has opened, and what it is linked to.
OpensOk(o) ==
  /\ pc[o] \in {"index_file", "pages_file"} => Lasts(Cur)
  /\ pc[o] \in {"pages_shm", "pages_file"} =>
       IF Lasts(Cur) THEN to[o]["index_file"] = Gives("index_file") /\ Gives("index_file") # 0
       ELSE to[o]["index_file"] = 0
  /\ pc[o] \in {"pages_file", "fill_pages_file"} =>
       to[o]["pages_shm"] = Gives("pages_shm") /\ Gives("pages_shm") # 0
  /\ pc[o] \in Fills => to[o]["index_file"] = Gives("index_file")

MetOpening == \A o \in Procs : ~met[o] /\ pc[o] \in Opening => OpensOk(o)

LinkedTo(p) ==
  /\ Complete
  /\ \A x \in Parts : at[p][x] = IF x \in Shares \/ Lasts(Cur) THEN Gives(x) ELSE 0

MetLinked ==
  (\A p \in Procs : ~Changing(p)) =>
    \A p \in Procs : ~met[p] /\ pc[p] \notin Opening /\ Index(p) = Cur /\ Cur # 0 => LinkedTo(p)

MetInv == MetOpening /\ MetLinked

\* Whose share it is that they are linked to.
ToldUnmet ==
  \A p \in Procs : ~met[p] /\ pc[p] \notin Opening /\ Index(p) # 0 =>
    \/ Index(p) \in dead
    \/ \E q \in Procs : pc[q] \in After \cup Dropped /\ Index(p) = Index(q)
    \/ Index(p) = Cur /\ \A q \in Procs : pc[q] \notin After \cup Dropped

ToldBefore ==
  \A p \in Procs : pc[p] \in Before => Index(p) = Cur \/ (Index(p) = 0 /\ ~Complete)

ToldInv ==
  /\ Cur \notin dead /\ ToldUnmet /\ ToldBefore
  /\ \A p \in Procs : pc[p] \in Dropped => Index(p) # Cur

\* The data of the set that has the name.
DataPages ==
  gate[Cur] = None /\ Gives("pages_shm") # 0 =>
    \/ holds["pages_shm"][Gives("pages_shm")] = Data(Cur)
    \/ \E o \in Procs : met[o] /\ pc[o] = "fill_pages_file" /\ to[o]["pages_shm"] = Gives("pages_shm")

DataFiles ==
  Lasts(Cur) /\ (\A p \in Procs : pc[p] \notin After) =>
    \A x \in Files : DataOf(x) \in {0, Data(Cur)}

DataInv == Cur # 0 /\ Data(Cur) # 0 => DataPages /\ DataFiles

LEMMA Names ==
  /\ DOMAIN Moves = {"move_index", "move_pages", "move_index_file", "move_pages_file"}
  /\ DOMAIN Drops = {"drop_index_file", "drop_pages_file", "drop_index", "drop_pages"}
  /\ DOMAIN Aways = {"away_index_file", "away_pages_file"}
BY DEF Moves, Drops, Aways

LEMMA PartSet ==
  ASSUME NEW f \in [Procs -> [Parts -> 0 .. MaxNodes]], NEW p \in Procs, NEW x \in Parts,
         NEW n \in 0 .. MaxNodes
  PROVE  [f EXCEPT ![p][x] = n] \in [Procs -> [Parts -> 0 .. MaxNodes]]
OBVIOUS

LEMMA PartsSet ==
  ASSUME NEW f \in [Procs -> [Parts -> 0 .. MaxNodes]], NEW p \in Procs,
         NEW g \in [Parts -> 0 .. MaxNodes]
  PROVE  [f EXCEPT ![p] = g] \in [Procs -> [Parts -> 0 .. MaxNodes]]
OBVIOUS

LEMMA DataSet ==
  ASSUME NEW f \in [Parts -> [Nodes -> 0 .. MaxNodes]], NEW x \in Parts, NEW n \in Nodes,
         NEW v \in 0 .. MaxNodes
  PROVE  [f EXCEPT ![x][n] = v] \in [Parts -> [Nodes -> 0 .. MaxNodes]]
OBVIOUS

LEMMA PartNames ==
  /\ Parts = {"index_shm", "pages_shm", "index_file", "pages_file"}
  /\ Shares = {"index_shm", "pages_shm"} /\ Files = {"index_file", "pages_file"}
BY DEF Parts, Shares, Files

-----------------------------------------------------------------------------
(***************************************************************************)
(* What each step changes.                                                 *)
(***************************************************************************)
Others(p) ==
  \A q \in Procs : q # p =>
    pc'[q] = pc[q] /\ aim'[q] = aim[q] /\ at'[q] = at[q] /\ to'[q] = to[q] /\ new'[q] = new[q]

Disturbs == \A q \in Procs : met'[q] <=> met[q] \/ pc[q] \in Opening

Marked(p) ==
  /\ met'[p] <=> \E q \in Procs \ {p} : pc[q] \in Renaming
  /\ \A q \in Procs : q # p => (met'[q] <=> met[q])

Forgets(p) == ~met'[p] /\ \A q \in Procs : q # p => (met'[q] <=> met[q])

Becomes(p, place, what) == pc'[p] = place /\ aim'[p] = what

Ended(p, linked) ==
  /\ \A x \in Parts : to'[p][x] = 0
  /\ \/ aim[p] = "link" /\ Becomes(p, IF linked THEN "linked" ELSE "idle", "none")
     \/ aim[p] = "create" /\ Becomes(p, "create", "create")
     \/ aim[p] \notin {"link", "create"} /\ linked /\ Becomes(p, "check", aim[p])
     \/ aim[p] \notin {"link", "create"} /\ ~linked /\ Becomes(p, "linked", "none")

Only(f, g, n, v) == g[n] = v /\ \A m \in Nodes : m # n => g[m] = f[m]

NameMoves(d, e, x, n) == e[x] = n /\ \A y \in Parts : y # x => e[y] = d[y]

LEMMA RangeFacts ==
  ASSUME TypeOK
  PROVE  /\ \A p \in Procs : Index(p) \in 0 .. MaxNodes /\ Share(p) \in 0 .. MaxNodes
         /\ \A p \in Procs : \A x \in Parts : at[p][x] \in 0 .. MaxNodes /\ to[p][x] \in 0 .. MaxNodes
         /\ \A x \in Parts : Gives(x) \in 0 .. MaxNodes /\ tmp[x] \in 0 .. MaxNodes
         /\ \A x \in Parts, n \in Nodes : holds[x][n] \in 0 .. MaxNodes
         /\ Cur \in 0 .. MaxNodes
         /\ \A n \in 0 .. MaxNodes : n # 0 => n \in Nodes
         /\ MaxNodes \in Nat /\ Nodes \subseteq Nat /\ None \notin Procs /\ 0 \notin Nodes
         /\ Parts = {"index_shm", "pages_shm", "index_file", "pages_file"}
<1>1. Parts = {"index_shm", "pages_shm", "index_file", "pages_file"}
  BY DEF Parts, Shares, Files
<1>2. /\ MaxNodes \in Nat /\ Nodes \subseteq Nat /\ None \notin Procs /\ 0 \notin Nodes
      /\ \A n \in 0 .. MaxNodes : n # 0 => n \in Nodes
  BY ProcsAssumption DEF Nodes
<1>3. \A p \in Procs : Index(p) \in 0 .. MaxNodes /\ Share(p) \in 0 .. MaxNodes
  BY <1>1 DEF TypeOK, Index, Share
<1>4. \A p \in Procs : \A x \in Parts : at[p][x] \in 0 .. MaxNodes /\ to[p][x] \in 0 .. MaxNodes
  BY DEF TypeOK
<1>5. \A x \in Parts : Gives(x) \in 0 .. MaxNodes /\ tmp[x] \in 0 .. MaxNodes
  BY DEF TypeOK, Gives
<1>6. Cur \in 0 .. MaxNodes
  BY <1>1, <1>5 DEF Cur
<1>7. \A x \in Parts, n \in Nodes : holds[x][n] \in 0 .. MaxNodes
  BY DEF TypeOK
<1> QED
  BY <1>1, <1>2, <1>3, <1>4, <1>5, <1>6, <1>7

LEMMA LinkStartFacts ==
  ASSUME TypeOK, NEW p \in Procs, LinkStart(p)
  PROVE  /\ pc[p] = "idle" /\ Becomes(p, "open", "link")
         /\ at'[p] = at[p] /\ to'[p] = to[p] /\ new'[p] = new[p] /\ Others(p) /\ Marked(p)
         /\ UNCHANGED <<dir, tmp, holds, durable, dead, gate, lock, made>>
BY DEF TypeOK, LinkStart, Link, Turn, Go, Becomes, Others, Marked

LEMMA OpenIndexFacts ==
  ASSUME TypeOK, NEW p \in Procs, OpenIndex(p)
  PROVE  /\ pc[p] = "open" /\ Becomes(p, "flock", aim[p])
         /\ Cur' # 0 /\ to'[p]["index_shm"] = Cur' /\ Cur' \in Nodes
         /\ \A x \in Parts : x # "index_shm" => to'[p][x] = to[p][x]
         /\ \/ Cur # 0 /\ dir' = dir /\ made' = made
            \/ /\ Cur = 0 /\ made' = made + 1 /\ made' \in Nodes
               /\ NameMoves(dir, dir', "index_shm", made')
         /\ at'[p] = at[p] /\ new'[p] = new[p] /\ Others(p)
         /\ UNCHANGED <<tmp, holds, durable, dead, gate, lock, met, new, at>>
<1>1. "index_shm" \in Parts /\ made + 1 > 0
  BY DEF Parts, Shares, TypeOK
<1>2. /\ pc[p] = "open" /\ Becomes(p, "flock", aim[p]) /\ at'[p] = at[p] /\ new'[p] = new[p]
      /\ UNCHANGED <<tmp, holds, durable, dead, gate, lock, met, new, at>>
  BY DEF TypeOK, OpenIndex, Go, Becomes
<1>3. CASE Cur # 0
  <2>1. dir' = dir /\ made' = made /\ to' = [to EXCEPT ![p]["index_shm"] = Cur]
    BY <1>3 DEF OpenIndex, Open, Cur, Gives
  <2>2. Cur' = Cur /\ Cur \in Nodes
    BY <2>1, <1>3, RangeFacts DEF Cur, Gives
  <2> QED
    BY <1>1, <1>2, <1>3, <2>1, <2>2 DEF TypeOK, Others, OpenIndex, Go
<1>4. CASE Cur = 0
  <2>1. /\ made' = made + 1 /\ to' = [to EXCEPT ![p]["index_shm"] = made + 1] /\ made + 1 \in Nodes
        /\ dir' = [dir EXCEPT !["index_shm"] = made + 1]
    BY <1>4, ProcsAssumption DEF OpenIndex, Open, Cur, Gives, Nodes, TypeOK
  <2>2. Cur' = made + 1 /\ NameMoves(dir, dir', "index_shm", made')
    BY <2>1, <1>1 DEF Cur, Gives, NameMoves, TypeOK
  <2> QED
    BY <1>1, <1>2, <1>4, <2>1, <2>2 DEF TypeOK, Others, OpenIndex, Go, Nodes
<1> QED
  BY <1>3, <1>4

LEMMA AttachFacts ==
  ASSUME TypeOK, NEW p \in Procs, Attach(p)
  PROVE  /\ pc[p] \in Attaching
         /\ \/ Gives(pc[p]) = 0 /\ Ended(p, FALSE) /\ at'[p] = at[p]
            \/ /\ pc[p] = "index_file" /\ Gives("index_file") # 0 /\ Becomes(p, "pages_shm", aim[p])
               /\ NameMoves(to[p], to'[p], "index_file", Gives("index_file")) /\ at'[p] = at[p]
            \/ /\ pc[p] = "pages_shm" /\ Gives("pages_shm") # 0 /\ Lasts(Share(p))
               /\ Becomes(p, "pages_file", aim[p])
               /\ NameMoves(to[p], to'[p], "pages_shm", Gives("pages_shm")) /\ at'[p] = at[p]
            \/ /\ pc[p] = "pages_file" \/ (pc[p] = "pages_shm" /\ ~Lasts(Share(p)))
               /\ Gives(pc[p]) # 0 /\ Ended(p, TRUE)
               /\ NameMoves(to[p], at'[p], pc[p], Gives(pc[p]))
         /\ Others(p)
         /\ UNCHANGED <<dir, tmp, holds, durable, dead, gate, lock, new, met, made>>
<1>1. Parts = {"index_shm", "pages_shm", "index_file", "pages_file"}
  BY RangeFacts
<1>2. Others(p) /\ UNCHANGED <<dir, tmp, holds, durable, dead, gate, lock, new, met, made>>
  BY DEF TypeOK, Attach, LinkMade, LinkFails, Turn, Go, Open, Others
<1>3. pc[p] \in Attaching
  BY DEF Attach, Attaching
<1>4. CASE Gives(pc[p]) = 0
  <2>1. LinkFails(p)
    BY <1>4 DEF Attach
  <2> QED
    BY <1>2, <1>3, <1>4, <2>1 DEF LinkFails, Turn, Go, Ended, Becomes, TypeOK, Nothing
<1>5. CASE Gives(pc[p]) # 0 /\ pc[p] = "index_file"
  <2>1. /\ to' = [to EXCEPT ![p]["index_file"] = Gives("index_file")] /\ at' = at
        /\ pc' = [pc EXCEPT ![p] = "pages_shm"] /\ aim' = [aim EXCEPT ![p] = aim[p]]
    BY <1>5 DEF Attach, Turn, Go, Open
  <2>2. NameMoves(to[p], to'[p], "index_file", Gives("index_file")) /\ at'[p] = at[p]
    BY <1>1, <2>1 DEF TypeOK, NameMoves
  <2>3. Becomes(p, "pages_shm", aim[p])
    BY <2>1 DEF TypeOK, Becomes
  <2> QED
    BY <1>2, <1>3, <1>5, <2>2, <2>3
<1>6. CASE Gives(pc[p]) # 0 /\ pc[p] = "pages_shm" /\ Lasts(Share(p))
  <2>1. /\ to' = [to EXCEPT ![p]["pages_shm"] = Gives("pages_shm")] /\ at' = at
        /\ pc' = [pc EXCEPT ![p] = "pages_file"] /\ aim' = [aim EXCEPT ![p] = aim[p]]
    BY <1>6 DEF Attach, Turn, Go, Open, Share
  <2>2. NameMoves(to[p], to'[p], "pages_shm", Gives("pages_shm")) /\ at'[p] = at[p]
    BY <1>1, <2>1 DEF TypeOK, NameMoves
  <2>3. Becomes(p, "pages_file", aim[p])
    BY <2>1 DEF TypeOK, Becomes
  <2> QED
    BY <1>2, <1>3, <1>6, <2>2, <2>3
<1>7. CASE Gives(pc[p]) # 0 /\ (pc[p] = "pages_file" \/ (pc[p] = "pages_shm" /\ ~Lasts(Share(p))))
  <2>1. LinkMade(p, [to[p] EXCEPT ![pc[p]] = Gives(pc[p])])
    BY <1>7 DEF Attach, Share
  <2>2. NameMoves(to[p], at'[p], pc[p], Gives(pc[p]))
    BY <1>1, <2>1, <1>7 DEF LinkMade, TypeOK, NameMoves
  <2>3. Ended(p, TRUE)
    BY <2>1 DEF LinkMade, Turn, Go, Ended, Becomes, TypeOK, Nothing
  <2> QED
    BY <1>2, <1>3, <1>7, <2>2, <2>3
<1> QED
  BY <1>3, <1>4, <1>5, <1>6, <1>7 DEF Attaching

LEMMA FillIndexFacts ==
  ASSUME TypeOK, NEW p \in Procs, FillIndex(p), PlaceInv
  PROVE  /\ pc[p] = "fill_index" /\ Share(p) \in Nodes
         /\ \/ /\ Written /\ Becomes(p, "fill_pages", aim[p]) /\ gate' = gate /\ at'[p] = at[p]
               /\ NameMoves(to[p], to'[p], "index_file", Gives("index_file"))
               /\ Only(holds["index_shm"], holds'["index_shm"], Share(p), DataOf("index_file"))
               /\ \A x \in Parts : x # "index_shm" => holds'[x] = holds[x]
            \/ /\ ~Written /\ Ended(p, FALSE) /\ at'[p] = at[p] /\ holds' = holds
               /\ Only(gate, gate', Share(p), None)
         /\ Others(p) /\ UNCHANGED <<dir, tmp, durable, dead, lock, new, met, made>>
<1>0. Share(p) # 0
  BY DEF PlaceInv, PlaceOk, FillIndex, Opened, Opening, Making, Before, After, Dropped
<1>1. Parts = {"index_shm", "pages_shm", "index_file", "pages_file"} /\ Share(p) \in Nodes
  BY <1>0, RangeFacts
<1>2. pc[p] = "fill_index" /\ Others(p) /\ UNCHANGED <<dir, tmp, durable, dead, lock, new, met, made>>
  BY DEF TypeOK, FillIndex, LinkFails, Turn, Go, Open, Others
<1>3. CASE Written
  <2>1. /\ to' = [to EXCEPT ![p]["index_file"] = Gives("index_file")] /\ gate' = gate /\ at' = at
        /\ holds' = [holds EXCEPT !["index_shm"][Share(p)] = DataOf("index_file")]
        /\ pc' = [pc EXCEPT ![p] = "fill_pages"] /\ aim' = aim
    BY <1>3 DEF FillIndex, Written, DataOf, Open, Go, Share
  <2>2. NameMoves(to[p], to'[p], "index_file", Gives("index_file")) /\ at'[p] = at[p]
    BY <1>1, <2>1 DEF TypeOK, NameMoves
  <2>3. /\ Only(holds["index_shm"], holds'["index_shm"], Share(p), DataOf("index_file"))
        /\ \A x \in Parts : x # "index_shm" => holds'[x] = holds[x]
    BY <1>1, <2>1 DEF TypeOK, Only
  <2>4. Becomes(p, "fill_pages", aim[p])
    BY <2>1 DEF TypeOK, Becomes
  <2> QED
    BY <1>1, <1>2, <1>3, <2>1, <2>2, <2>3, <2>4
<1>4. CASE ~Written
  <2>1. LinkFails(p) /\ gate' = [gate EXCEPT ![Share(p)] = None] /\ holds' = holds
    BY <1>4 DEF FillIndex, Written, DataOf, Share
  <2>2. Only(gate, gate', Share(p), None) /\ at'[p] = at[p]
    BY <1>1, <2>1 DEF TypeOK, Only, LinkFails
  <2>3. Ended(p, FALSE)
    BY <2>1 DEF LinkFails, Turn, Go, Ended, Becomes, TypeOK, Nothing
  <2> QED
    BY <1>1, <1>2, <1>4, <2>1, <2>2, <2>3
<1> QED
  BY <1>3, <1>4

LEMMA FillPagesFacts ==
  ASSUME TypeOK, NEW p \in Procs, FillPages(p), PlaceInv
  PROVE  /\ pc[p] = "fill_pages" /\ Becomes(p, "fill_pages_file", aim[p]) /\ at'[p] = at[p]
         /\ LET n == IF Gives("pages_shm") = 0 THEN Share(p) ELSE Gives("pages_shm") IN
            /\ n \in Nodes /\ NameMoves(dir, dir', "pages_shm", n)
            /\ NameMoves(to[p], to'[p], "pages_shm", n)
            /\ Only(holds["pages_shm"], holds'["pages_shm"], n, 0)
         /\ \A x \in Parts : x # "pages_shm" => holds'[x] = holds[x]
         /\ Others(p) /\ UNCHANGED <<tmp, durable, dead, gate, lock, aim, at, new, met, made>>
<1>0. Share(p) # 0
  BY DEF PlaceInv, PlaceOk, FillPages, Opened, Opening, Making, Before, After, Dropped
<1> DEFINE n == IF Gives("pages_shm") = 0 THEN Share(p) ELSE Gives("pages_shm")
<1>1. Parts = {"index_shm", "pages_shm", "index_file", "pages_file"}
  BY <1>0, RangeFacts
<1>2. n \in Nodes
  BY <1>0, RangeFacts
<1>3. /\ pc[p] = "fill_pages" /\ Becomes(p, "fill_pages_file", aim[p]) /\ at'[p] = at[p] /\ Others(p)
      /\ UNCHANGED <<tmp, durable, dead, gate, lock, aim, at, new, met, made>>
  BY DEF TypeOK, FillPages, Go, Open, Others, Becomes
<1>4. /\ dir' = [dir EXCEPT !["pages_shm"] = n] /\ holds' = [holds EXCEPT !["pages_shm"][n] = 0]
      /\ to' = [to EXCEPT ![p]["pages_shm"] = n]
  BY DEF FillPages, Open, Share
<1> HIDE DEF n
<1>5. NameMoves(dir, dir', "pages_shm", n) /\ NameMoves(to[p], to'[p], "pages_shm", n)
  BY <1>1, <1>4 DEF NameMoves, TypeOK
<1>6. /\ Only(holds["pages_shm"], holds'["pages_shm"], n, 0)
      /\ \A x \in Parts : x # "pages_shm" => holds'[x] = holds[x]
  BY <1>1, <1>2, <1>4 DEF Only, TypeOK
<1> QED
  BY <1>2, <1>3, <1>5, <1>6 DEF n

LEMMA FillPagesFileFacts ==
  ASSUME TypeOK, NEW p \in Procs, FillPagesFile(p), PlaceInv, FileInv, FillInv
  PROVE  /\ pc[p] = "fill_pages_file" /\ Ended(p, TRUE) /\ Share(p) \in Nodes /\ to[p]["pages_shm"] \in Nodes
         /\ Only(gate, gate', Share(p), None) /\ NameMoves(to[p], at'[p], "pages_file", Gives("pages_file"))
         /\ Only(holds["pages_shm"], holds'["pages_shm"], to[p]["pages_shm"], DataOf("pages_file"))
         /\ \A x \in Parts : x # "pages_shm" => holds'[x] = holds[x]
         /\ Others(p) /\ UNCHANGED <<dir, tmp, durable, dead, lock, new, met, made>>
<1>0. Share(p) # 0 /\ to[p]["pages_shm"] # 0 /\ Gives("pages_file") # 0
  BY DEF PlaceInv, PlaceOk, FillPagesFile, Opened, Opening, FillInv, FillAlone, FileInv,
     Fills
<1>1. Parts = {"index_shm", "pages_shm", "index_file", "pages_file"} /\ Share(p) \in Nodes /\ to[p]["pages_shm"] \in Nodes
  BY <1>0, RangeFacts
<1>2. /\ pc[p] = "fill_pages_file" /\ LinkMade(p, [to[p] EXCEPT !["pages_file"] = Gives("pages_file")])
      /\ gate' = [gate EXCEPT ![Share(p)] = None]
      /\ holds' = [holds EXCEPT !["pages_shm"][to[p]["pages_shm"]] = DataOf("pages_file")]
      /\ UNCHANGED <<dir, tmp, durable, dead, lock, new, met, made>>
  BY <1>0 DEF FillPagesFile, Share, DataOf
<1>3. Ended(p, TRUE) /\ Others(p)
  BY <1>2 DEF LinkMade, Turn, Go, Ended, Becomes, TypeOK, Nothing, Others
<1>4. Only(gate, gate', Share(p), None)
  BY <1>1, <1>2 DEF TypeOK, Only
<1>5. NameMoves(to[p], at'[p], "pages_file", Gives("pages_file"))
  BY <1>1, <1>2 DEF LinkMade, TypeOK, NameMoves
<1>6. /\ Only(holds["pages_shm"], holds'["pages_shm"], to[p]["pages_shm"], DataOf("pages_file"))
      /\ \A x \in Parts : x # "pages_shm" => holds'[x] = holds[x]
  BY <1>1, <1>2 DEF TypeOK, Only
<1> QED
  BY <1>1, <1>2, <1>3, <1>4, <1>5, <1>6

LEMMA LockIndexFacts ==
  ASSUME TypeOK, NEW p \in Procs, LockIndex(p), PlaceInv
  PROVE  /\ pc[p] = "flock" /\ aim' = aim /\ gate[Share(p)] = None /\ Share(p) \in Nodes
         /\ \/ /\ Data(Share(p)) = 0 /\ pc'[p] = "fill_index"
               /\ Only(gate, gate', Share(p), p)
            \/ /\ Data(Share(p)) # 0 /\ gate' = gate
               /\ pc'[p] = IF Lasts(Share(p)) THEN "index_file" ELSE "pages_shm"
         /\ Others(p) /\ UNCHANGED <<dir, tmp, holds, durable, dead, lock, made, at, to, new, met, aim>>
<1>0. Share(p) # 0
  BY DEF PlaceInv, PlaceOk, LockIndex, Opened, Opening, Making, Before, After, Dropped
<1>1. Share(p) \in Nodes
  BY <1>0, RangeFacts
<1> QED
  BY <1>1 DEF TypeOK, LockIndex, Go, Share, Data, Others, Only

LEMMA CallStartFacts ==
  ASSUME TypeOK, NEW p \in Procs, CallStart(p)
  PROVE  /\ pc[p] = "linked" /\ Becomes(p, "check", "call")
         /\ at'[p] = at[p] /\ to'[p] = to[p] /\ new'[p] = new[p] /\ Others(p)
         /\ UNCHANGED <<dir, tmp, holds, durable, dead, gate, lock, met, made>>
BY DEF TypeOK, CallStart, Turn, Go, Becomes, Others

LEMMA CheckBadFacts ==
  ASSUME TypeOK, NEW p \in Procs, CheckBad(p)
  PROVE  /\ pc[p] = "check"
         /\ at'[p] = at[p] /\ to'[p] = to[p] /\ new'[p] = new[p] /\ Others(p)
         /\ \/ Index(p) \in dead /\ Becomes(p, "open", aim[p]) /\ Marked(p)
            \/ Index(p) \notin dead /\ Becomes(p, "lock", aim[p]) /\ met' = met
         /\ UNCHANGED <<dir, tmp, holds, durable, dead, gate, lock, made>>
BY DEF TypeOK, CheckBad, Link, Turn, Go, Becomes, Others, Marked

LEMMA MutexLockFacts ==
  ASSUME TypeOK, NEW p \in Procs, MutexLock(p), PlaceInv
  PROVE  /\ pc[p] = "lock" /\ Index(p) \in Nodes
         /\ at'[p] = at[p] /\ to'[p] = to[p] /\ new'[p] = new[p] /\ Others(p)
         /\ \/ /\ lock[Index(p)] = None /\ Index(p) \notin dead /\ Becomes(p, Locked(p), aim[p])
               /\ Only(lock, lock', Index(p), p)
            \/ Becomes(p, "check", aim[p]) /\ lock' = lock
         /\ UNCHANGED <<dir, tmp, holds, durable, dead, gate, met, made>>
<1>0. Index(p) # 0
  BY DEF PlaceInv, PlaceOk, MutexLock, Opened, Opening, Making, Before, After, Dropped
<1>1. Index(p) \in Nodes
  BY <1>0, RangeFacts
<1> HIDE DEF Index, Locked
<1> QED
  BY <1>1 DEF TypeOK, MutexLock, Go, Becomes, Others, Only

LEMMA CallEndFacts ==
  ASSUME TypeOK, NEW p \in Procs, CallEnd(p), PlaceInv
  PROVE  /\ pc[p] = "busy" /\ Becomes(p, "linked", "none") /\ Index(p) \in Nodes
         /\ at'[p] = at[p] /\ to'[p] = to[p] /\ new'[p] = new[p] /\ Others(p)
         /\ Only(lock, lock', Index(p), None)
         /\ UNCHANGED <<dir, tmp, holds, durable, dead, gate, met, made>>
<1>0. Index(p) # 0
  BY DEF PlaceInv, PlaceOk, CallEnd, Opened, Opening, Making, Before, After, Dropped
<1>1. Index(p) \in Nodes
  BY <1>0, RangeFacts
<1> QED
  BY <1>1 DEF TypeOK, CallEnd, Turn, Go, Becomes, Others, Only

LEMMA UnlinkFacts ==
  ASSUME TypeOK, NEW p \in Procs, Unlink(p)
  PROVE  /\ pc[p] = "linked" /\ Becomes(p, "idle", aim[p]) /\ \A x \in Parts : at'[p][x] = 0
         /\ to'[p] = to[p] /\ new'[p] = new[p] /\ Others(p) /\ Forgets(p)
         /\ UNCHANGED <<dir, tmp, holds, durable, dead, gate, lock, made>>
BY DEF TypeOK, Unlink, Go, Becomes, Others, Forgets, Nothing

LEMMA CreateStartFacts ==
  ASSUME TypeOK, NEW p \in Procs, CreateStart(p)
  PROVE  /\ pc[p] = "idle" /\ Becomes(p, "open", "create") /\ Marked(p)
         /\ \A q \in Procs : q # p => aim[q] \notin JobAims /\ (pc[q] \in Opening => ~met[q])
         /\ at'[p] = at[p] /\ to'[p] = to[p] /\ new'[p] = new[p] /\ Others(p)
         /\ UNCHANGED <<dir, tmp, holds, durable, dead, gate, lock, made>>
BY DEF TypeOK, CreateStart, Alone, Link, Turn, Go, Becomes, Others, Marked, JobAims

LEMMA CreatePartsFacts ==
  ASSUME TypeOK, NEW p \in Procs, CreateParts(p)
  PROVE  /\ pc[p] = "create" /\ Becomes(p, "load", aim[p]) /\ tmp["index_shm"] = 0
         /\ at'[p] = at[p] /\ to'[p] = to[p] /\ Others(p)
         /\ made' = made + 1 /\ made' \in Nodes /\ new'[p] = made' /\ Only(gate, gate', made', p)
         /\ \E lasts \in BOOLEAN :
              /\ durable' = IF lasts THEN durable \cup {made'} ELSE durable
              /\ \A x \in Parts : tmp'[x] = IF x \in Shares \/ lasts THEN made' ELSE tmp[x]
         /\ \A x \in Parts : Only(holds[x], holds'[x], made', IF x \in Shares THEN made' ELSE 0)
         /\ UNCHANGED <<dir, dead, lock, aim, at, to, met>>
<1>1. made' = made + 1 /\ made' \in Nodes
  BY ProcsAssumption DEF CreateParts, TypeOK, Nodes
<1>2. /\ pc[p] = "create" /\ Becomes(p, "load", aim[p]) /\ tmp["index_shm"] = 0
      /\ at'[p] = at[p] /\ to'[p] = to[p] /\ Others(p) /\ UNCHANGED <<dir, dead, lock, aim, at, to, met>>
  BY DEF CreateParts, TypeOK, Go, Becomes, Others
<1>3. new'[p] = made' /\ Only(gate, gate', made', p)
  BY <1>1 DEF CreateParts, TypeOK, Only
<1>4. \E lasts \in BOOLEAN :
        /\ durable' = IF lasts THEN durable \cup {made'} ELSE durable
        /\ \A x \in Parts : tmp'[x] = IF x \in Shares \/ lasts THEN made' ELSE tmp[x]
  BY <1>1 DEF CreateParts
<1>5. \A x \in Parts : Only(holds[x], holds'[x], made', IF x \in Shares THEN made' ELSE 0)
  BY <1>1 DEF CreateParts, TypeOK, Only
<1> QED
  BY <1>1, <1>2, <1>3, <1>4, <1>5

LEMMA CreateRefusedFacts ==
  ASSUME TypeOK, NEW p \in Procs, CreateRefused(p)
  PROVE  /\ pc[p] = "create" /\ Becomes(p, "idle", "none") /\ tmp["index_shm"] # 0
         /\ \A x \in Parts : at'[p][x] = 0 /\ tmp'[x] \in {0, tmp[x]}
         /\ to'[p] = to[p] /\ new'[p] = new[p] /\ Others(p) /\ Forgets(p)
         /\ UNCHANGED <<dir, holds, durable, dead, gate, lock, made>>
BY DEF TypeOK, CreateRefused, NoTmp, Turn, Go, Becomes, Others, Forgets, Nothing

LEMMA LoadFailsFacts ==
  ASSUME TypeOK, NEW p \in Procs, LoadFails(p), PlaceInv
  PROVE  /\ pc[p] = "load" /\ Becomes(p, "idle", "none") /\ new[p] \in Nodes
         /\ Only(gate, gate', new[p], None) /\ new'[p] = 0 /\ to'[p] = to[p] /\ Others(p) /\ Forgets(p)
         /\ \A x \in Parts : at'[p][x] = 0
         /\ dead' = dead \cup {new[p]} /\ \A x \in Parts : tmp'[x] \in {0, tmp[x]}
         /\ UNCHANGED <<dir, holds, durable, lock, made>>
<1>0. new[p] # 0
  BY DEF PlaceInv, PlaceOk, LoadFails, Opened, Opening, Making, Before, After, Dropped
<1>1. new[p] \in Nodes
  BY <1>0, RangeFacts DEF TypeOK
<1> QED
  BY <1>1 DEF TypeOK, LoadFails, Forget, NoTmp, Turn, Go, Becomes, Others, Forgets,
     Nothing, Only

LEMMA LoadDiesFacts ==
  ASSUME TypeOK, NEW p \in Procs, LoadDies(p), PlaceInv
  PROVE  /\ pc[p] = "load" /\ Becomes(p, "idle", "none") /\ new[p] \in Nodes
         /\ Only(gate, gate', new[p], None) /\ new'[p] = 0 /\ to'[p] = to[p] /\ Others(p) /\ Forgets(p)
         /\ \A x \in Parts : at'[p][x] = 0
         /\ UNCHANGED <<dir, tmp, holds, durable, dead, lock, made>>
<1>0. new[p] # 0
  BY DEF PlaceInv, PlaceOk, LoadDies, Opened, Opening, Making, Before, After, Dropped
<1>1. new[p] \in Nodes
  BY <1>0, RangeFacts DEF TypeOK
<1> QED
  BY <1>1 DEF TypeOK, LoadDies, Forget, NoTmp, Turn, Go, Becomes, Others, Forgets,
     Nothing, Only

LEMMA LoadEndsFacts ==
  ASSUME TypeOK, NEW p \in Procs, LoadEnds(p)
  PROVE  /\ pc[p] = "load"
         /\ Becomes(p, IF MovesAway(p) THEN "away_index_file" ELSE "move_index", aim[p])
         /\ at'[p] = at[p] /\ to'[p] = to[p] /\ new'[p] = new[p] /\ Others(p)
         /\ UNCHANGED <<dir, tmp, holds, durable, dead, gate, lock, met, made>>
BY DEF TypeOK, LoadEnds, Go, Becomes, Others, MovesAway, Old

LEMMA MoveAwayFacts ==
  ASSUME TypeOK, NEW p \in Procs, MoveAway(p)
  PROVE  /\ \/ /\ pc[p] = "away_index_file" /\ Becomes(p, "away_pages_file", aim[p])
               /\ NameMoves(dir, dir', "index_file", 0)
            \/ /\ pc[p] = "away_pages_file" /\ Becomes(p, "move_index", aim[p])
               /\ NameMoves(dir, dir', "pages_file", 0)
         /\ at'[p] = at[p] /\ to'[p] = to[p] /\ new'[p] = new[p] /\ Others(p) /\ Disturbs
         /\ UNCHANGED <<tmp, holds, durable, dead, gate, lock, made>>
<1>1. pc[p] \in {"away_index_file", "away_pages_file"}
  BY Names DEF MoveAway
<1>2. at'[p] = at[p] /\ to'[p] = to[p] /\ new'[p] = new[p] /\ Others(p) /\ Disturbs /\ aim' = aim /\ UNCHANGED <<tmp, holds, durable, dead, gate, lock, made>>
  BY DEF TypeOK, MoveAway, Go, Others, Disturb, Disturbs
<1>3. Parts = {"index_shm", "pages_shm", "index_file", "pages_file"}
  BY RangeFacts
<1>4. CASE pc[p] = "away_index_file"
  BY <1>2, <1>3, <1>4 DEF TypeOK, MoveAway, Go, Becomes, NextPlace, Aways, NameMoves
<1>5. CASE pc[p] = "away_pages_file"
  BY <1>2, <1>3, <1>5 DEF TypeOK, MoveAway, Go, Becomes, NextPlace, Aways, NameMoves
<1> QED
  BY <1>1, <1>4, <1>5

LEMMA RenameFacts ==
  ASSUME TypeOK, NEW p \in Procs, Rename(p)
  PROVE  /\ \/ /\ pc[p] = "move_index" /\ Becomes(p, "move_pages", aim[p])
               /\ NameMoves(dir, dir', "index_shm", tmp["index_shm"]) /\ NameMoves(tmp, tmp', "index_shm", 0)
            \/ /\ pc[p] = "move_pages" /\ Becomes(p, IF new[p] \in durable THEN "move_index_file" ELSE "retire", aim[p])
               /\ NameMoves(dir, dir', "pages_shm", tmp["pages_shm"]) /\ NameMoves(tmp, tmp', "pages_shm", 0)
            \/ /\ pc[p] = "move_index_file" /\ Becomes(p, "move_pages_file", aim[p])
               /\ NameMoves(dir, dir', "index_file", tmp["index_file"]) /\ NameMoves(tmp, tmp', "index_file", 0)
            \/ /\ pc[p] = "move_pages_file" /\ Becomes(p, "retire", aim[p])
               /\ NameMoves(dir, dir', "pages_file", tmp["pages_file"]) /\ NameMoves(tmp, tmp', "pages_file", 0)
         /\ at'[p] = at[p] /\ to'[p] = to[p] /\ new'[p] = new[p] /\ Others(p) /\ Disturbs
         /\ UNCHANGED <<holds, durable, dead, gate, lock, made>>
<1>1. pc[p] \in {"move_index", "move_pages", "move_index_file", "move_pages_file"}
  BY Names DEF Rename
<1>2. at'[p] = at[p] /\ to'[p] = to[p] /\ new'[p] = new[p] /\ Others(p) /\ Disturbs /\ aim' = aim /\ UNCHANGED <<holds, durable, dead, gate, lock, made>>
  BY DEF TypeOK, Rename, Go, Others, Disturb, Disturbs
<1>3. Parts = {"index_shm", "pages_shm", "index_file", "pages_file"}
  BY RangeFacts
<1>4. CASE pc[p] = "move_index"
  BY <1>2, <1>3, <1>4 DEF TypeOK, Rename, Go, Becomes, NextPlace, Moves, NameMoves
<1>5. CASE pc[p] = "move_pages"
  BY <1>2, <1>3, <1>5 DEF TypeOK, Rename, Go, Becomes, NextPlace, Moves, NameMoves
<1>6. CASE pc[p] = "move_index_file"
  BY <1>2, <1>3, <1>6 DEF TypeOK, Rename, Go, Becomes, NextPlace, Moves, NameMoves
<1>7. CASE pc[p] = "move_pages_file"
  BY <1>2, <1>3, <1>7 DEF TypeOK, Rename, Go, Becomes, NextPlace, Moves, NameMoves
<1> QED
  BY <1>1, <1>4, <1>5, <1>6, <1>7

LEMMA RetireFacts ==
  ASSUME TypeOK, NEW p \in Procs, Retire(p)
  PROVE  /\ pc[p] = "retire" /\ Becomes(p, "finish", aim[p]) /\ (Index(p) # 0 => lock[Index(p)] = None)
         /\ at'[p] = at[p] /\ to'[p] = to[p] /\ new'[p] = new[p] /\ Others(p)
         /\ dead' = IF Index(p) = 0 THEN dead ELSE dead \cup {Index(p)}
         /\ UNCHANGED <<dir, tmp, holds, durable, gate, lock, met, made>>
<1> HIDE DEF Index
<1> QED
  BY DEF TypeOK, Retire, Go, Becomes, Others, Old

LEMMA FinishFacts ==
  ASSUME TypeOK, NEW p \in Procs, Finish(p), PlaceInv
  PROVE  /\ pc[p] = "finish" /\ Becomes(p, "linked", "none") /\ new[p] \in Nodes
         /\ Only(gate, gate', new[p], None) /\ new'[p] = 0 /\ to'[p] = to[p] /\ Others(p) /\ Forgets(p)
         /\ \A x \in Parts : at'[p][x] = IF x \in Shares \/ new[p] \in durable THEN new[p] ELSE 0
         /\ \A x \in Parts : IF x \in Files /\ new[p] \in durable
              THEN Only(holds[x], holds'[x], new[p], new[p]) ELSE holds'[x] = holds[x]
         /\ UNCHANGED <<dir, tmp, durable, dead, lock, made>>
<1>0. new[p] # 0
  BY DEF PlaceInv, PlaceOk, Finish, Opened, Opening, Making, Before, After, Dropped
<1>1. new[p] \in Nodes
  BY <1>0, RangeFacts DEF TypeOK
<1>2. \A x \in Parts : IF x \in Files /\ new[p] \in durable
        THEN Only(holds[x], holds'[x], new[p], new[p]) ELSE holds'[x] = holds[x]
  BY <1>1 DEF TypeOK, Finish, Only
<1>3. \A x \in Parts : at'[p][x] = IF x \in Shares \/ new[p] \in durable THEN new[p] ELSE 0
  BY <1>1 DEF TypeOK, Finish
<1>4. /\ pc[p] = "finish" /\ Becomes(p, "linked", "none") /\ Only(gate, gate', new[p], None)
      /\ new'[p] = 0 /\ to'[p] = to[p] /\ Others(p) /\ Forgets(p)
      /\ UNCHANGED <<dir, tmp, durable, dead, lock, made>>
  BY <1>1 DEF TypeOK, Finish, Turn, Go, Becomes, Others, Forgets, Only
<1> QED
  BY <1>1, <1>2, <1>3, <1>4

LEMMA UnloadStartFacts ==
  ASSUME TypeOK, NEW p \in Procs, UnloadStart(p)
  PROVE  /\ pc[p] = "linked" /\ ~met[p]
         /\ \A q \in Procs : q # p => aim[q] \notin JobAims /\ (pc[q] \in Opening => ~met[q])
         /\ \/ Index(p) \in dead /\ Becomes(p, "idle", aim[p]) /\ \A x \in Parts : at'[p][x] = 0
            \/ at'[p] = at[p] /\ \E what \in {"unload", "delete"} : Becomes(p, "check", what)
         /\ to'[p] = to[p] /\ new'[p] = new[p] /\ Others(p)
         /\ UNCHANGED <<dir, tmp, holds, durable, dead, gate, lock, met, made>>
<1>1. /\ pc[p] = "linked" /\ ~met[p] /\ to'[p] = to[p] /\ new'[p] = new[p]
      /\ UNCHANGED <<dir, tmp, holds, durable, dead, gate, lock, met, made>>
  BY DEF UnloadStart
<1>2. \A q \in Procs : q # p => aim[q] \notin JobAims /\ (pc[q] \in Opening => ~met[q])
  BY DEF UnloadStart, Alone, JobAims
<1> HIDE DEF Index, Lasts
<1> QED
  BY <1>1, <1>2 DEF TypeOK, UnloadStart, Turn, Go, Becomes, Others, Nothing

LEMMA DropFacts ==
  ASSUME TypeOK, NEW p \in Procs, Drop(p)
  PROVE  /\ \/ /\ pc[p] = "drop_index_file" /\ Becomes(p, "drop_pages_file", aim[p])
               /\ NameMoves(dir, dir', "index_file", 0)
            \/ /\ pc[p] = "drop_pages_file" /\ Becomes(p, "drop_index", aim[p])
               /\ NameMoves(dir, dir', "pages_file", 0)
            \/ /\ pc[p] = "drop_index" /\ Becomes(p, "drop_pages", aim[p])
               /\ NameMoves(dir, dir', "index_shm", 0)
            \/ /\ pc[p] = "drop_pages" /\ Becomes(p, "mark", aim[p])
               /\ NameMoves(dir, dir', "pages_shm", 0)
         /\ at'[p] = at[p] /\ to'[p] = to[p] /\ new'[p] = new[p] /\ Others(p) /\ Disturbs
         /\ UNCHANGED <<tmp, holds, durable, dead, gate, lock, made>>
<1>1. pc[p] \in {"drop_index_file", "drop_pages_file", "drop_index", "drop_pages"}
  BY Names DEF Drop
<1>2. at'[p] = at[p] /\ to'[p] = to[p] /\ new'[p] = new[p] /\ Others(p) /\ Disturbs /\ aim' = aim /\ UNCHANGED <<tmp, holds, durable, dead, gate, lock, made>>
  BY DEF TypeOK, Drop, Go, Others, Disturb, Disturbs
<1>3. Parts = {"index_shm", "pages_shm", "index_file", "pages_file"}
  BY RangeFacts
<1>4. CASE pc[p] = "drop_index_file"
  BY <1>2, <1>3, <1>4 DEF TypeOK, Drop, Go, Becomes, NextPlace, Drops, NameMoves
<1>5. CASE pc[p] = "drop_pages_file"
  BY <1>2, <1>3, <1>5 DEF TypeOK, Drop, Go, Becomes, NextPlace, Drops, NameMoves
<1>6. CASE pc[p] = "drop_index"
  BY <1>2, <1>3, <1>6 DEF TypeOK, Drop, Go, Becomes, NextPlace, Drops, NameMoves
<1>7. CASE pc[p] = "drop_pages"
  BY <1>2, <1>3, <1>7 DEF TypeOK, Drop, Go, Becomes, NextPlace, Drops, NameMoves
<1> QED
  BY <1>1, <1>4, <1>5, <1>6, <1>7

LEMMA MarkDeletedFacts ==
  ASSUME TypeOK, NEW p \in Procs, MarkDeleted(p), PlaceInv
  PROVE  /\ pc[p] = "mark" /\ Becomes(p, "idle", "none") /\ Index(p) \in Nodes
         /\ dead' = dead \cup {Index(p)} /\ Only(lock, lock', Index(p), None)
         /\ \A x \in Parts : at'[p][x] = 0
         /\ to'[p] = to[p] /\ new'[p] = new[p] /\ Others(p)
         /\ UNCHANGED <<dir, tmp, holds, durable, gate, met, made>>
<1>0. Index(p) # 0
  BY DEF PlaceInv, PlaceOk, MarkDeleted, Opened, Opening, Making, Before, After, Dropped
<1>1. Index(p) \in Nodes
  BY <1>0, RangeFacts
<1> HIDE DEF Index
<1> QED
  BY <1>1 DEF TypeOK, MarkDeleted, Turn, Go, Becomes, Others, Only, Nothing

LEMMA PlaceNames ==
  /\ Places = {"open", "flock", "index_file", "pages_shm", "pages_file", "fill_index", "fill_pages",
                "fill_pages_file", "move_index", "move_pages", "move_index_file", "move_pages_file",
                "drop_index_file", "drop_pages_file", "drop_index", "drop_pages", "away_index_file",
                "away_pages_file", "retire", "mark", "idle", "linked", "check", "lock", "busy",
                "create", "load", "finish"}
  /\ Renaming = {"move_index", "move_pages", "move_index_file", "move_pages_file",
                "drop_index_file", "drop_pages_file", "drop_index", "drop_pages", "away_index_file",
                "away_pages_file", "retire", "mark"}
BY Names DEF Places, Opening, Renaming

\* Every step keeps the types.
LEMMA TypesStep ==
  ASSUME TypeOK, PlaceInv, [Next]_vars
  PROVE  TypeOK'
<1>1. ASSUME NEW p \in Procs, LinkStart(p) PROVE TypeOK'
  <2>1. pc' \in [Procs -> Places] /\ aim' \in [Procs -> Aims]
    BY <1>1, RangeFacts, PlaceNames DEF TypeOK, Aims, LinkStart, Link, Turn, Go
  <2>2. at' \in [Procs -> [Parts -> 0 .. MaxNodes]] /\ to' \in [Procs -> [Parts -> 0 .. MaxNodes]]
    BY <1>1, RangeFacts DEF TypeOK, LinkStart, Link, Turn, Go
  <2>3. dir' \in [Parts -> 0 .. MaxNodes] /\ tmp' \in [Parts -> 0 .. MaxNodes]
    BY <1>1, RangeFacts DEF TypeOK, LinkStart, Link, Turn, Go
  <2>4. holds' \in [Parts -> [Nodes -> 0 .. MaxNodes]]
    BY <1>1, RangeFacts DEF TypeOK, LinkStart, Link, Turn, Go
  <2>5. /\ durable' \subseteq Nodes /\ dead' \subseteq Nodes
        /\ gate' \in [Nodes -> Procs \cup {None}] /\ lock' \in [Nodes -> Procs \cup {None}]
    BY <1>1, RangeFacts DEF TypeOK, PlaceInv, PlaceOk, Making, Before, After, Dropped,
       LinkStart, Link, Turn, Go
  <2>6. /\ new' \in [Procs -> 0 .. MaxNodes] /\ met' \in [Procs -> BOOLEAN]
        /\ made' \in Nat /\ jobs' \in Nat
    BY <1>1, RangeFacts DEF TypeOK, LinkStart, Link, Turn, Go
  <2> QED
    BY <2>1, <2>2, <2>3, <2>4, <2>5, <2>6 DEF TypeOK, Aims
<1>2. ASSUME NEW p \in Procs, OpenIndex(p) PROVE TypeOK'
  <2>1. pc' \in [Procs -> Places] /\ aim' \in [Procs -> Aims]
    BY <1>2, RangeFacts, PlaceNames DEF TypeOK, Aims, OpenIndex, Go, Open, Gives, Nodes
  <2>2. at' \in [Procs -> [Parts -> 0 .. MaxNodes]] /\ to' \in [Procs -> [Parts -> 0 .. MaxNodes]]
    <3>1. "index_shm" \in Parts
      BY RangeFacts
    <3>2. Gives("index_shm") \in 0 .. MaxNodes
      BY <3>1, RangeFacts
    <3>3. \/ to' = [to EXCEPT ![p]["index_shm"] = Gives("index_shm")]
          \/ made < MaxNodes /\ to' = [to EXCEPT ![p]["index_shm"] = made + 1]
      BY <1>2 DEF OpenIndex, Open
    <3>4. made < MaxNodes => made + 1 \in 0 .. MaxNodes
      BY ProcsAssumption DEF TypeOK
    <3>5. at' = at
      BY <1>2 DEF OpenIndex
    <3>6. \A n \in 0 .. MaxNodes :
            [to EXCEPT ![p]["index_shm"] = n] \in [Procs -> [Parts -> 0 .. MaxNodes]]
      BY <1>2, <3>1, PartSet DEF TypeOK
    <3> QED
      BY ZenonT(30), <3>2, <3>3, <3>4, <3>5, <3>6 DEF TypeOK
  <2>3. dir' \in [Parts -> 0 .. MaxNodes] /\ tmp' \in [Parts -> 0 .. MaxNodes]
    <3>1. dir' = dir \/ (made < MaxNodes /\ dir' = [dir EXCEPT !["index_shm"] = made + 1])
      BY <1>2 DEF OpenIndex
    <3>2. made < MaxNodes => made + 1 \in 0 .. MaxNodes
      BY ProcsAssumption DEF TypeOK
    <3> QED
      BY <1>2, <3>1, <3>2, RangeFacts DEF OpenIndex, TypeOK
  <2>4. holds' \in [Parts -> [Nodes -> 0 .. MaxNodes]]
    BY <1>2, RangeFacts DEF TypeOK, OpenIndex, Go, Open, Gives, Nodes
  <2>5. /\ durable' \subseteq Nodes /\ dead' \subseteq Nodes
        /\ gate' \in [Nodes -> Procs \cup {None}] /\ lock' \in [Nodes -> Procs \cup {None}]
    BY <1>2, RangeFacts DEF TypeOK, PlaceInv, PlaceOk, Making, Before, After, Dropped,
       OpenIndex, Go, Open, Gives, Nodes
  <2>6. /\ new' \in [Procs -> 0 .. MaxNodes] /\ met' \in [Procs -> BOOLEAN]
        /\ made' \in Nat /\ jobs' \in Nat
    BY <1>2, RangeFacts DEF TypeOK, OpenIndex, Go, Open, Gives, Nodes
  <2> QED
    BY <2>1, <2>2, <2>3, <2>4, <2>5, <2>6 DEF TypeOK, Aims
<1>3. ASSUME NEW p \in Procs, LockIndex(p) PROVE TypeOK'
  <2>1. pc' \in [Procs -> Places] /\ aim' \in [Procs -> Aims]
    <3>1. pc'[p] \in Places /\ aim'[p] \in Aims
      BY <1>3, PlaceNames DEF TypeOK, LockIndex, Go, Aims
    <3>2. \E v : pc' = [pc EXCEPT ![p] = v]
      BY <1>3 DEF LockIndex, Go
    <3>3. aim' = aim \/ \E v : aim' = [aim EXCEPT ![p] = v]
      BY <1>3 DEF LockIndex, Go
    <3> QED
      BY <3>1, <3>2, <3>3 DEF TypeOK, Aims
  <2>2. at' \in [Procs -> [Parts -> 0 .. MaxNodes]] /\ to' \in [Procs -> [Parts -> 0 .. MaxNodes]]
    BY <1>3, RangeFacts DEF TypeOK, LockIndex, Go
  <2>3. dir' \in [Parts -> 0 .. MaxNodes] /\ tmp' \in [Parts -> 0 .. MaxNodes]
    BY <1>3, RangeFacts DEF TypeOK, LockIndex, Go
  <2>4. holds' \in [Parts -> [Nodes -> 0 .. MaxNodes]]
    BY <1>3, RangeFacts DEF TypeOK, LockIndex, Go
  <2>5. /\ durable' \subseteq Nodes /\ dead' \subseteq Nodes
        /\ gate' \in [Nodes -> Procs \cup {None}] /\ lock' \in [Nodes -> Procs \cup {None}]
    <3>1. PICK n : n = to[p]["index_shm"]
      OBVIOUS
    <3> QED
      BY <1>3, <3>1 DEF LockIndex, TypeOK, Index, Share
  <2>6. /\ new' \in [Procs -> 0 .. MaxNodes] /\ met' \in [Procs -> BOOLEAN]
        /\ made' \in Nat /\ jobs' \in Nat
    BY <1>3, RangeFacts DEF TypeOK, LockIndex, Go
  <2> QED
    BY <2>1, <2>2, <2>3, <2>4, <2>5, <2>6 DEF TypeOK, Aims
<1>4. ASSUME NEW p \in Procs, Attach(p) PROVE TypeOK'
  <2>1. pc' \in [Procs -> Places] /\ aim' \in [Procs -> Aims]
    <3>1. pc'[p] \in Places /\ aim'[p] \in Aims
      BY <1>4, AttachFacts, PlaceNames DEF TypeOK, Becomes, Ended, Aims, Attaching
    <3>2. \E v : pc' = [pc EXCEPT ![p] = v]
      BY <1>4 DEF Attach, LinkMade, LinkFails, Turn, Go
    <3>3. aim' = aim \/ \E v : aim' = [aim EXCEPT ![p] = v]
      BY <1>4 DEF Attach, LinkMade, LinkFails, Turn, Go
    <3> QED
      BY <3>1, <3>2, <3>3 DEF TypeOK, Aims
  <2>2. at' \in [Procs -> [Parts -> 0 .. MaxNodes]] /\ to' \in [Procs -> [Parts -> 0 .. MaxNodes]]
    <3>1. pc[p] \in Parts /\ Gives(pc[p]) \in 0 .. MaxNodes
      BY <1>4, AttachFacts, RangeFacts DEF Attaching
    <3>2. [to[p] EXCEPT ![pc[p]] = Gives(pc[p])] \in [Parts -> 0 .. MaxNodes] /\ Nothing \in [Parts -> 0 .. MaxNodes]
      BY <3>1, RangeFacts DEF TypeOK, Nothing
    <3>3. \/ at' = at /\ to' = [to EXCEPT ![p] = Nothing]
          \/ at' = at /\ to' = [to EXCEPT ![p][pc[p]] = Gives(pc[p])]
          \/ /\ at' = [at EXCEPT ![p] = [to[p] EXCEPT ![pc[p]] = Gives(pc[p])]]
             /\ to' = [to EXCEPT ![p] = Nothing]
      BY <1>4 DEF Attach, LinkMade, LinkFails, Open
    <3> QED
      BY ZenonT(30), <3>1, <3>2, <3>3 DEF TypeOK
  <2>3. dir' \in [Parts -> 0 .. MaxNodes] /\ tmp' \in [Parts -> 0 .. MaxNodes]
    BY <1>4, RangeFacts DEF TypeOK, Attach, LinkMade, LinkFails, Turn, Go, Open, Nothing
  <2>4. holds' \in [Parts -> [Nodes -> 0 .. MaxNodes]]
    BY <1>4, RangeFacts DEF TypeOK, Attach, LinkMade, LinkFails, Turn, Go, Open, Nothing
  <2>5. /\ durable' \subseteq Nodes /\ dead' \subseteq Nodes
        /\ gate' \in [Nodes -> Procs \cup {None}] /\ lock' \in [Nodes -> Procs \cup {None}]
    BY <1>4, RangeFacts DEF TypeOK, PlaceInv, PlaceOk, Making, Before, After, Dropped,
       Attach, LinkMade, LinkFails, Turn, Go, Open, Nothing
  <2>6. /\ new' \in [Procs -> 0 .. MaxNodes] /\ met' \in [Procs -> BOOLEAN]
        /\ made' \in Nat /\ jobs' \in Nat
    BY <1>4, RangeFacts DEF TypeOK, Attach, LinkMade, LinkFails, Turn, Go, Open, Nothing
  <2> QED
    BY <2>1, <2>2, <2>3, <2>4, <2>5, <2>6 DEF TypeOK, Aims
<1>5. ASSUME NEW p \in Procs, FillIndex(p) PROVE TypeOK'
  <2>1. pc' \in [Procs -> Places] /\ aim' \in [Procs -> Aims]
    BY ZenonT(30), <1>5, RangeFacts, PlaceNames DEF TypeOK, Aims, FillIndex, LinkFails, Turn, Go,
       Open, Gives, Nothing
  <2>2. at' \in [Procs -> [Parts -> 0 .. MaxNodes]] /\ to' \in [Procs -> [Parts -> 0 .. MaxNodes]]
    <3>1. Gives("index_file") \in 0 .. MaxNodes /\ Nothing \in [Parts -> 0 .. MaxNodes]
      BY RangeFacts DEF Nothing
    <3>2. \/ at' = at /\ to' = [to EXCEPT ![p] = Nothing]
          \/ at' = at /\ to' = [to EXCEPT ![p]["index_file"] = Gives("index_file")]
      BY <1>5 DEF FillIndex, LinkFails, Open
    <3>3. [to EXCEPT ![p] = Nothing] \in [Procs -> [Parts -> 0 .. MaxNodes]]
      BY <1>5, <3>1 DEF TypeOK
    <3>4. "index_file" \in Parts
      BY RangeFacts
    <3>5. [to EXCEPT ![p]["index_file"] = Gives("index_file")] \in [Procs -> [Parts -> 0 .. MaxNodes]]
      BY <1>5, <3>1, <3>4, PartSet DEF TypeOK
    <3> QED
      BY <3>2, <3>3, <3>5 DEF TypeOK
  <2>3. dir' \in [Parts -> 0 .. MaxNodes] /\ tmp' \in [Parts -> 0 .. MaxNodes]
    BY <1>5, RangeFacts DEF TypeOK, FillIndex, LinkFails, Turn, Go, Open, Gives, Nothing
  <2>4. holds' \in [Parts -> [Nodes -> 0 .. MaxNodes]]
    <3>1. \/ holds' = holds
          \/ Written /\ holds' = [holds EXCEPT !["index_shm"][to[p]["index_shm"]] = DataOf("index_file")]
      BY <1>5 DEF FillIndex, Written, DataOf
    <3>2. Written => DataOf("index_file") \in 0 .. MaxNodes
      BY RangeFacts DEF Written, DataOf
    <3>3. Share(p) \in Nodes /\ "index_shm" \in Parts
      BY <1>5, RangeFacts DEF PlaceInv, PlaceOk, FillIndex, Opened, Opening
    <3>4. Written =>
            [holds EXCEPT !["index_shm"][to[p]["index_shm"]] = DataOf("index_file")]
            \in [Parts -> [Nodes -> 0 .. MaxNodes]]
      BY <3>2, <3>3, DataSet DEF TypeOK, Share
    <3> QED
      BY <3>1, <3>4 DEF TypeOK
  <2>5. /\ durable' \subseteq Nodes /\ dead' \subseteq Nodes
        /\ gate' \in [Nodes -> Procs \cup {None}] /\ lock' \in [Nodes -> Procs \cup {None}]
    BY ZenonT(30), <1>5, RangeFacts DEF TypeOK, PlaceInv, PlaceOk, Making, Before, After, Dropped,
       FillIndex, LinkFails, Turn, Go, Open, Gives, Nothing
  <2>6. /\ new' \in [Procs -> 0 .. MaxNodes] /\ met' \in [Procs -> BOOLEAN]
        /\ made' \in Nat /\ jobs' \in Nat
    BY <1>5, RangeFacts DEF TypeOK, FillIndex, LinkFails, Turn, Go, Open, Gives, Nothing
  <2> QED
    BY <2>1, <2>2, <2>3, <2>4, <2>5, <2>6 DEF TypeOK, Aims
<1>6. ASSUME NEW p \in Procs, FillPages(p) PROVE TypeOK'
  <2>1. pc' \in [Procs -> Places] /\ aim' \in [Procs -> Aims]
    BY <1>6, RangeFacts, PlaceNames DEF TypeOK, Aims, FillPages, Go, Open, Gives
  <2>2. at' \in [Procs -> [Parts -> 0 .. MaxNodes]] /\ to' \in [Procs -> [Parts -> 0 .. MaxNodes]]
    BY <1>6, RangeFacts DEF TypeOK, FillPages, Go, Open, Gives
  <2>3. dir' \in [Parts -> 0 .. MaxNodes] /\ tmp' \in [Parts -> 0 .. MaxNodes]
    BY <1>6, RangeFacts DEF TypeOK, FillPages, Go, Open, Gives
  <2>4. holds' \in [Parts -> [Nodes -> 0 .. MaxNodes]]
    <3>1. Share(p) # 0
      BY <1>6 DEF PlaceInv, PlaceOk, FillPages, Opened, Opening
    <3>2. PICK n \in Nodes : holds' = [holds EXCEPT !["pages_shm"][n] = 0]
      BY <1>6, <3>1, RangeFacts DEF FillPages, Share
    <3> QED
      BY <3>2, RangeFacts DEF TypeOK
  <2>5. /\ durable' \subseteq Nodes /\ dead' \subseteq Nodes
        /\ gate' \in [Nodes -> Procs \cup {None}] /\ lock' \in [Nodes -> Procs \cup {None}]
    BY <1>6, RangeFacts DEF TypeOK, PlaceInv, PlaceOk, Making, Before, After, Dropped,
       FillPages, Go, Open, Gives
  <2>6. /\ new' \in [Procs -> 0 .. MaxNodes] /\ met' \in [Procs -> BOOLEAN]
        /\ made' \in Nat /\ jobs' \in Nat
    BY <1>6, RangeFacts DEF TypeOK, FillPages, Go, Open, Gives
  <2> QED
    BY <2>1, <2>2, <2>3, <2>4, <2>5, <2>6 DEF TypeOK, Aims
<1>7. ASSUME NEW p \in Procs, FillPagesFile(p) PROVE TypeOK'
  <2>1. pc' \in [Procs -> Places] /\ aim' \in [Procs -> Aims]
    BY ZenonT(30), <1>7, RangeFacts, PlaceNames DEF TypeOK, Aims, FillPagesFile, LinkMade,
       LinkFails, Disturb, Turn, Go, Gives, Nothing
  <2>2. at' \in [Procs -> [Parts -> 0 .. MaxNodes]] /\ to' \in [Procs -> [Parts -> 0 .. MaxNodes]]
    <3>1. Gives("pages_file") \in 0 .. MaxNodes /\ Nothing \in [Parts -> 0 .. MaxNodes]
      BY RangeFacts DEF Nothing
    <3>2. [to[p] EXCEPT !["pages_file"] = Gives("pages_file")] \in [Parts -> 0 .. MaxNodes]
      BY <3>1 DEF TypeOK
    <3>3. /\ to' = [to EXCEPT ![p] = Nothing]
          /\ \/ at' = at
             \/ at' = [at EXCEPT ![p] = [to[p] EXCEPT !["pages_file"] = Gives("pages_file")]]
      BY <1>7 DEF FillPagesFile, LinkMade, LinkFails
    <3>4. [to EXCEPT ![p] = Nothing] \in [Procs -> [Parts -> 0 .. MaxNodes]]
      BY <1>7, <3>1 DEF TypeOK
    <3>5. [at EXCEPT ![p] = [to[p] EXCEPT !["pages_file"] = Gives("pages_file")]]
            \in [Procs -> [Parts -> 0 .. MaxNodes]]
      BY <1>7, <3>2 DEF TypeOK
    <3> QED
      BY <3>3, <3>4, <3>5 DEF TypeOK
  <2>3. dir' \in [Parts -> 0 .. MaxNodes] /\ tmp' \in [Parts -> 0 .. MaxNodes]
    BY <1>7, RangeFacts DEF TypeOK, FillPagesFile, LinkMade, LinkFails, Disturb, Turn,
       Go, Gives, Nothing
  <2>4. holds' \in [Parts -> [Nodes -> 0 .. MaxNodes]]
    <3>1. Gives("pages_file") # 0 => DataOf("pages_file") \in 0 .. MaxNodes
      BY RangeFacts DEF DataOf
    <3>2. \/ holds' = holds
          \/ /\ Gives("pages_file") # 0
             /\ holds' = [holds EXCEPT !["pages_shm"][to[p]["pages_shm"]] = DataOf("pages_file")]
      BY <1>7 DEF FillPagesFile, DataOf
    <3>3. to[p]["pages_shm"] \in Nodes /\ "pages_shm" \in Parts
      BY <1>7, RangeFacts DEF PlaceInv, PlaceOk, FillPagesFile
    <3>4. Gives("pages_file") # 0 =>
            [holds EXCEPT !["pages_shm"][to[p]["pages_shm"]] = DataOf("pages_file")]
              \in [Parts -> [Nodes -> 0 .. MaxNodes]]
      BY <3>1, <3>3, DataSet DEF TypeOK
    <3> QED
      BY <3>2, <3>4 DEF TypeOK
  <2>5. /\ durable' \subseteq Nodes /\ dead' \subseteq Nodes
        /\ gate' \in [Nodes -> Procs \cup {None}] /\ lock' \in [Nodes -> Procs \cup {None}]
    BY <1>7, RangeFacts DEF TypeOK, PlaceInv, PlaceOk, Making, Before, After, Dropped,
       FillPagesFile, LinkMade, LinkFails, Disturb, Turn, Go, Gives, Nothing
  <2>6. /\ new' \in [Procs -> 0 .. MaxNodes] /\ met' \in [Procs -> BOOLEAN]
        /\ made' \in Nat /\ jobs' \in Nat
    <3>1. met' = met \/ met' = [q \in Procs |-> met[q] \/ pc[q] \in Opening]
      BY <1>7 DEF FillPagesFile, Disturb
    <3> QED
      BY <1>7, <3>1 DEF FillPagesFile, TypeOK
  <2> QED
    BY <2>1, <2>2, <2>3, <2>4, <2>5, <2>6 DEF TypeOK, Aims
<1>8. ASSUME NEW p \in Procs, CallStart(p) PROVE TypeOK'
  <2>1. pc' \in [Procs -> Places] /\ aim' \in [Procs -> Aims]
    BY <1>8, RangeFacts, PlaceNames DEF TypeOK, Aims, CallStart, Turn, Go
  <2>2. at' \in [Procs -> [Parts -> 0 .. MaxNodes]] /\ to' \in [Procs -> [Parts -> 0 .. MaxNodes]]
    BY <1>8, RangeFacts DEF TypeOK, CallStart, Turn, Go
  <2>3. dir' \in [Parts -> 0 .. MaxNodes] /\ tmp' \in [Parts -> 0 .. MaxNodes]
    BY <1>8, RangeFacts DEF TypeOK, CallStart, Turn, Go
  <2>4. holds' \in [Parts -> [Nodes -> 0 .. MaxNodes]]
    BY <1>8, RangeFacts DEF TypeOK, CallStart, Turn, Go
  <2>5. /\ durable' \subseteq Nodes /\ dead' \subseteq Nodes
        /\ gate' \in [Nodes -> Procs \cup {None}] /\ lock' \in [Nodes -> Procs \cup {None}]
    BY <1>8, RangeFacts DEF TypeOK, PlaceInv, PlaceOk, Making, Before, After, Dropped,
       CallStart, Turn, Go
  <2>6. /\ new' \in [Procs -> 0 .. MaxNodes] /\ met' \in [Procs -> BOOLEAN]
        /\ made' \in Nat /\ jobs' \in Nat
    BY <1>8, RangeFacts DEF TypeOK, CallStart, Turn, Go
  <2> QED
    BY <2>1, <2>2, <2>3, <2>4, <2>5, <2>6 DEF TypeOK, Aims
<1>9. ASSUME NEW p \in Procs, CheckBad(p) PROVE TypeOK'
  <2>1. pc' \in [Procs -> Places] /\ aim' \in [Procs -> Aims]
    <3>1. pc'[p] \in Places /\ aim'[p] \in Aims
      BY <1>9, CheckBadFacts, PlaceNames DEF TypeOK, Becomes, Ended, Aims
    <3>2. \E v : pc' = [pc EXCEPT ![p] = v]
      BY <1>9 DEF CheckBad, Link, Turn, Go
    <3>3. aim' = aim \/ \E v : aim' = [aim EXCEPT ![p] = v]
      BY <1>9 DEF CheckBad, Link, Turn, Go
    <3> QED
      BY <3>1, <3>2, <3>3 DEF TypeOK, Aims
  <2>2. at' \in [Procs -> [Parts -> 0 .. MaxNodes]] /\ to' \in [Procs -> [Parts -> 0 .. MaxNodes]]
    BY <1>9, RangeFacts DEF TypeOK, CheckBad, Link, Turn, Go
  <2>3. dir' \in [Parts -> 0 .. MaxNodes] /\ tmp' \in [Parts -> 0 .. MaxNodes]
    BY <1>9, RangeFacts DEF TypeOK, CheckBad, Link, Turn, Go
  <2>4. holds' \in [Parts -> [Nodes -> 0 .. MaxNodes]]
    BY <1>9, RangeFacts DEF TypeOK, CheckBad, Link, Turn, Go
  <2>5. /\ durable' \subseteq Nodes /\ dead' \subseteq Nodes
        /\ gate' \in [Nodes -> Procs \cup {None}] /\ lock' \in [Nodes -> Procs \cup {None}]
    BY <1>9, RangeFacts DEF TypeOK, PlaceInv, PlaceOk, Making, Before, After, Dropped,
       CheckBad, Link, Turn, Go
  <2>6. /\ new' \in [Procs -> 0 .. MaxNodes] /\ met' \in [Procs -> BOOLEAN]
        /\ made' \in Nat /\ jobs' \in Nat
    BY <1>9, RangeFacts DEF TypeOK, CheckBad, Link, Turn, Go
  <2> QED
    BY <2>1, <2>2, <2>3, <2>4, <2>5, <2>6 DEF TypeOK, Aims
<1>10. ASSUME NEW p \in Procs, MutexLock(p) PROVE TypeOK'
  <2>1. pc' \in [Procs -> Places] /\ aim' \in [Procs -> Aims]
    BY ZenonT(30), <1>10, RangeFacts, PlaceNames DEF TypeOK, Aims, MutexLock, Go, Locked
  <2>2. at' \in [Procs -> [Parts -> 0 .. MaxNodes]] /\ to' \in [Procs -> [Parts -> 0 .. MaxNodes]]
    BY <1>10, RangeFacts DEF TypeOK, MutexLock, Go, Locked
  <2>3. dir' \in [Parts -> 0 .. MaxNodes] /\ tmp' \in [Parts -> 0 .. MaxNodes]
    BY <1>10, RangeFacts DEF TypeOK, MutexLock, Go, Locked
  <2>4. holds' \in [Parts -> [Nodes -> 0 .. MaxNodes]]
    BY <1>10, RangeFacts DEF TypeOK, MutexLock, Go, Locked
  <2>5. /\ durable' \subseteq Nodes /\ dead' \subseteq Nodes
        /\ gate' \in [Nodes -> Procs \cup {None}] /\ lock' \in [Nodes -> Procs \cup {None}]
    <3>1. PICK n : n = Index(p)
      OBVIOUS
    <3> QED
      BY <1>10, <3>1 DEF MutexLock, TypeOK, Index, Share
  <2>6. /\ new' \in [Procs -> 0 .. MaxNodes] /\ met' \in [Procs -> BOOLEAN]
        /\ made' \in Nat /\ jobs' \in Nat
    BY <1>10, RangeFacts DEF TypeOK, MutexLock, Go, Locked
  <2> QED
    BY <2>1, <2>2, <2>3, <2>4, <2>5, <2>6 DEF TypeOK, Aims
<1>11. ASSUME NEW p \in Procs, CallEnd(p) PROVE TypeOK'
  <2>1. pc' \in [Procs -> Places] /\ aim' \in [Procs -> Aims]
    BY <1>11, RangeFacts, PlaceNames DEF TypeOK, Aims, CallEnd, Turn, Go
  <2>2. at' \in [Procs -> [Parts -> 0 .. MaxNodes]] /\ to' \in [Procs -> [Parts -> 0 .. MaxNodes]]
    BY <1>11, RangeFacts DEF TypeOK, CallEnd, Turn, Go
  <2>3. dir' \in [Parts -> 0 .. MaxNodes] /\ tmp' \in [Parts -> 0 .. MaxNodes]
    BY <1>11, RangeFacts DEF TypeOK, CallEnd, Turn, Go
  <2>4. holds' \in [Parts -> [Nodes -> 0 .. MaxNodes]]
    BY <1>11, RangeFacts DEF TypeOK, CallEnd, Turn, Go
  <2>5. /\ durable' \subseteq Nodes /\ dead' \subseteq Nodes
        /\ gate' \in [Nodes -> Procs \cup {None}] /\ lock' \in [Nodes -> Procs \cup {None}]
    BY <1>11, RangeFacts DEF TypeOK, PlaceInv, PlaceOk, Making, Before, After, Dropped,
       CallEnd, Turn, Go
  <2>6. /\ new' \in [Procs -> 0 .. MaxNodes] /\ met' \in [Procs -> BOOLEAN]
        /\ made' \in Nat /\ jobs' \in Nat
    BY <1>11, RangeFacts DEF TypeOK, CallEnd, Turn, Go
  <2> QED
    BY <2>1, <2>2, <2>3, <2>4, <2>5, <2>6 DEF TypeOK, Aims
<1>12. ASSUME NEW p \in Procs, Unlink(p) PROVE TypeOK'
  <2>1. pc' \in [Procs -> Places] /\ aim' \in [Procs -> Aims]
    BY <1>12, RangeFacts, PlaceNames DEF TypeOK, Aims, Unlink, Go, Nothing
  <2>2. at' \in [Procs -> [Parts -> 0 .. MaxNodes]] /\ to' \in [Procs -> [Parts -> 0 .. MaxNodes]]
    BY <1>12, RangeFacts DEF TypeOK, Unlink, Go, Nothing
  <2>3. dir' \in [Parts -> 0 .. MaxNodes] /\ tmp' \in [Parts -> 0 .. MaxNodes]
    BY <1>12, RangeFacts DEF TypeOK, Unlink, Go, Nothing
  <2>4. holds' \in [Parts -> [Nodes -> 0 .. MaxNodes]]
    BY <1>12, RangeFacts DEF TypeOK, Unlink, Go, Nothing
  <2>5. /\ durable' \subseteq Nodes /\ dead' \subseteq Nodes
        /\ gate' \in [Nodes -> Procs \cup {None}] /\ lock' \in [Nodes -> Procs \cup {None}]
    BY <1>12, RangeFacts DEF TypeOK, PlaceInv, PlaceOk, Making, Before, After, Dropped,
       Unlink, Go, Nothing
  <2>6. /\ new' \in [Procs -> 0 .. MaxNodes] /\ met' \in [Procs -> BOOLEAN]
        /\ made' \in Nat /\ jobs' \in Nat
    BY <1>12, RangeFacts DEF TypeOK, Unlink, Go, Nothing
  <2> QED
    BY <2>1, <2>2, <2>3, <2>4, <2>5, <2>6 DEF TypeOK, Aims
<1>13. ASSUME NEW p \in Procs, CreateStart(p) PROVE TypeOK'
  <2>1. pc' \in [Procs -> Places] /\ aim' \in [Procs -> Aims]
    BY <1>13, RangeFacts, PlaceNames DEF TypeOK, Aims, CreateStart, Link, Turn, Go
  <2>2. at' \in [Procs -> [Parts -> 0 .. MaxNodes]] /\ to' \in [Procs -> [Parts -> 0 .. MaxNodes]]
    BY <1>13, RangeFacts DEF TypeOK, CreateStart, Link, Turn, Go
  <2>3. dir' \in [Parts -> 0 .. MaxNodes] /\ tmp' \in [Parts -> 0 .. MaxNodes]
    BY <1>13, RangeFacts DEF TypeOK, CreateStart, Link, Turn, Go
  <2>4. holds' \in [Parts -> [Nodes -> 0 .. MaxNodes]]
    BY <1>13, RangeFacts DEF TypeOK, CreateStart, Link, Turn, Go
  <2>5. /\ durable' \subseteq Nodes /\ dead' \subseteq Nodes
        /\ gate' \in [Nodes -> Procs \cup {None}] /\ lock' \in [Nodes -> Procs \cup {None}]
    BY <1>13, RangeFacts DEF TypeOK, PlaceInv, PlaceOk, Making, Before, After, Dropped,
       CreateStart, Link, Turn, Go
  <2>6. /\ new' \in [Procs -> 0 .. MaxNodes] /\ met' \in [Procs -> BOOLEAN]
        /\ made' \in Nat /\ jobs' \in Nat
    BY <1>13, RangeFacts DEF TypeOK, CreateStart, Link, Turn, Go
  <2> QED
    BY <2>1, <2>2, <2>3, <2>4, <2>5, <2>6 DEF TypeOK, Aims
<1>14. ASSUME NEW p \in Procs, CreateParts(p) PROVE TypeOK'
  <2>1. pc' \in [Procs -> Places] /\ aim' \in [Procs -> Aims]
    BY <1>14, RangeFacts, PlaceNames DEF TypeOK, Aims, CreateParts, Go, Nodes
  <2>2. at' \in [Procs -> [Parts -> 0 .. MaxNodes]] /\ to' \in [Procs -> [Parts -> 0 .. MaxNodes]]
    BY <1>14, RangeFacts DEF TypeOK, CreateParts, Go, Nodes
  <2>3. dir' \in [Parts -> 0 .. MaxNodes] /\ tmp' \in [Parts -> 0 .. MaxNodes]
    BY <1>14, RangeFacts DEF TypeOK, CreateParts, Go, Nodes
  <2>4. holds' \in [Parts -> [Nodes -> 0 .. MaxNodes]]
    BY SMTT(20), <1>14, RangeFacts DEF TypeOK, CreateParts, Go, Nodes
  <2>5. /\ durable' \subseteq Nodes /\ dead' \subseteq Nodes
        /\ gate' \in [Nodes -> Procs \cup {None}] /\ lock' \in [Nodes -> Procs \cup {None}]
    <3>1. made + 1 \in Nodes
      BY <1>14, ProcsAssumption DEF CreateParts, TypeOK, Nodes
    <3> QED
      BY <1>14, <3>1 DEF CreateParts, TypeOK
  <2>6. /\ new' \in [Procs -> 0 .. MaxNodes] /\ met' \in [Procs -> BOOLEAN]
        /\ made' \in Nat /\ jobs' \in Nat
    BY <1>14, RangeFacts DEF TypeOK, CreateParts, Go, Nodes
  <2> QED
    BY <2>1, <2>2, <2>3, <2>4, <2>5, <2>6 DEF TypeOK, Aims
<1>15. ASSUME NEW p \in Procs, CreateRefused(p) PROVE TypeOK'
  <2>1. pc' \in [Procs -> Places] /\ aim' \in [Procs -> Aims]
    BY <1>15, RangeFacts, PlaceNames DEF TypeOK, Aims, CreateRefused, Turn, Go, NoTmp,
       Nothing
  <2>2. at' \in [Procs -> [Parts -> 0 .. MaxNodes]] /\ to' \in [Procs -> [Parts -> 0 .. MaxNodes]]
    BY <1>15, RangeFacts DEF TypeOK, CreateRefused, Turn, Go, NoTmp, Nothing
  <2>3. dir' \in [Parts -> 0 .. MaxNodes] /\ tmp' \in [Parts -> 0 .. MaxNodes]
    BY <1>15, RangeFacts DEF TypeOK, CreateRefused, Turn, Go, NoTmp, Nothing
  <2>4. holds' \in [Parts -> [Nodes -> 0 .. MaxNodes]]
    BY <1>15, RangeFacts DEF TypeOK, CreateRefused, Turn, Go, NoTmp, Nothing
  <2>5. /\ durable' \subseteq Nodes /\ dead' \subseteq Nodes
        /\ gate' \in [Nodes -> Procs \cup {None}] /\ lock' \in [Nodes -> Procs \cup {None}]
    BY <1>15, RangeFacts DEF TypeOK, PlaceInv, PlaceOk, Making, Before, After, Dropped,
       CreateRefused, Turn, Go, NoTmp, Nothing
  <2>6. /\ new' \in [Procs -> 0 .. MaxNodes] /\ met' \in [Procs -> BOOLEAN]
        /\ made' \in Nat /\ jobs' \in Nat
    BY <1>15, RangeFacts DEF TypeOK, CreateRefused, Turn, Go, NoTmp, Nothing
  <2> QED
    BY <2>1, <2>2, <2>3, <2>4, <2>5, <2>6 DEF TypeOK, Aims
<1>16. ASSUME NEW p \in Procs, LoadEnds(p) PROVE TypeOK'
  <2>1. pc' \in [Procs -> Places] /\ aim' \in [Procs -> Aims]
    BY <1>16, RangeFacts, PlaceNames DEF TypeOK, Aims, LoadEnds, Go
  <2>2. at' \in [Procs -> [Parts -> 0 .. MaxNodes]] /\ to' \in [Procs -> [Parts -> 0 .. MaxNodes]]
    BY <1>16, RangeFacts DEF TypeOK, LoadEnds, Go
  <2>3. dir' \in [Parts -> 0 .. MaxNodes] /\ tmp' \in [Parts -> 0 .. MaxNodes]
    BY <1>16, RangeFacts DEF TypeOK, LoadEnds, Go
  <2>4. holds' \in [Parts -> [Nodes -> 0 .. MaxNodes]]
    BY <1>16, RangeFacts DEF TypeOK, LoadEnds, Go
  <2>5. /\ durable' \subseteq Nodes /\ dead' \subseteq Nodes
        /\ gate' \in [Nodes -> Procs \cup {None}] /\ lock' \in [Nodes -> Procs \cup {None}]
    BY <1>16, RangeFacts DEF TypeOK, PlaceInv, PlaceOk, Making, Before, After, Dropped,
       LoadEnds, Go
  <2>6. /\ new' \in [Procs -> 0 .. MaxNodes] /\ met' \in [Procs -> BOOLEAN]
        /\ made' \in Nat /\ jobs' \in Nat
    BY <1>16, RangeFacts DEF TypeOK, LoadEnds, Go
  <2> QED
    BY <2>1, <2>2, <2>3, <2>4, <2>5, <2>6 DEF TypeOK, Aims
<1>17. ASSUME NEW p \in Procs, MoveAway(p) PROVE TypeOK'
  <2>1. pc' \in [Procs -> Places] /\ aim' \in [Procs -> Aims]
    <3>1. pc'[p] \in Places /\ aim'[p] \in Aims
      BY <1>17, MoveAwayFacts, PlaceNames DEF TypeOK, Becomes, Ended, Aims
    <3>2. \E v : pc' = [pc EXCEPT ![p] = v]
      BY <1>17 DEF MoveAway, Go
    <3>3. aim' = aim \/ \E v : aim' = [aim EXCEPT ![p] = v]
      BY <1>17 DEF MoveAway, Go
    <3> QED
      BY <3>1, <3>2, <3>3 DEF TypeOK, Aims
  <2>2. at' \in [Procs -> [Parts -> 0 .. MaxNodes]] /\ to' \in [Procs -> [Parts -> 0 .. MaxNodes]]
    BY <1>17, RangeFacts DEF TypeOK, MoveAway, Go, Disturb
  <2>3. dir' \in [Parts -> 0 .. MaxNodes] /\ tmp' \in [Parts -> 0 .. MaxNodes]
    <3>1. PICK x : x = Aways[pc[p]]
      OBVIOUS
    <3>2. x \in Parts
      BY <1>17, <3>1, Names DEF MoveAway, Aways, Parts, Shares, Files
    <3> QED
      BY <1>17, <3>1, <3>2, RangeFacts DEF MoveAway, TypeOK
  <2>4. holds' \in [Parts -> [Nodes -> 0 .. MaxNodes]]
    BY <1>17, RangeFacts DEF TypeOK, MoveAway, Go, Disturb
  <2>5. /\ durable' \subseteq Nodes /\ dead' \subseteq Nodes
        /\ gate' \in [Nodes -> Procs \cup {None}] /\ lock' \in [Nodes -> Procs \cup {None}]
    BY <1>17, RangeFacts DEF TypeOK, PlaceInv, PlaceOk, Making, Before, After, Dropped,
       MoveAway, Go, Disturb
  <2>6. /\ new' \in [Procs -> 0 .. MaxNodes] /\ met' \in [Procs -> BOOLEAN]
        /\ made' \in Nat /\ jobs' \in Nat
    BY <1>17, RangeFacts DEF TypeOK, MoveAway, Go, Disturb
  <2> QED
    BY <2>1, <2>2, <2>3, <2>4, <2>5, <2>6 DEF TypeOK, Aims
<1>18. ASSUME NEW p \in Procs, Rename(p) PROVE TypeOK'
  <2>1. pc' \in [Procs -> Places] /\ aim' \in [Procs -> Aims]
    <3>1. pc'[p] \in Places /\ aim'[p] \in Aims
      BY <1>18, RenameFacts, PlaceNames DEF TypeOK, Becomes, Ended, Aims
    <3>2. \E v : pc' = [pc EXCEPT ![p] = v]
      BY <1>18 DEF Rename, Go
    <3>3. aim' = aim \/ \E v : aim' = [aim EXCEPT ![p] = v]
      BY <1>18 DEF Rename, Go
    <3> QED
      BY <3>1, <3>2, <3>3 DEF TypeOK, Aims
  <2>2. at' \in [Procs -> [Parts -> 0 .. MaxNodes]] /\ to' \in [Procs -> [Parts -> 0 .. MaxNodes]]
    BY <1>18, RangeFacts DEF TypeOK, Rename, Go, Disturb
  <2>3. dir' \in [Parts -> 0 .. MaxNodes] /\ tmp' \in [Parts -> 0 .. MaxNodes]
    <3>1. PICK x : x = Moves[pc[p]]
      OBVIOUS
    <3>2. x \in Parts
      BY <1>18, <3>1 DEF Rename, Moves, Parts, Shares, Files
    <3> QED
      BY <1>18, <3>1, <3>2, RangeFacts DEF Rename, TypeOK
  <2>4. holds' \in [Parts -> [Nodes -> 0 .. MaxNodes]]
    BY <1>18, RangeFacts DEF TypeOK, Rename, Go, Disturb
  <2>5. /\ durable' \subseteq Nodes /\ dead' \subseteq Nodes
        /\ gate' \in [Nodes -> Procs \cup {None}] /\ lock' \in [Nodes -> Procs \cup {None}]
    BY <1>18, RangeFacts DEF TypeOK, PlaceInv, PlaceOk, Making, Before, After, Dropped,
       Rename, Go, Disturb
  <2>6. /\ new' \in [Procs -> 0 .. MaxNodes] /\ met' \in [Procs -> BOOLEAN]
        /\ made' \in Nat /\ jobs' \in Nat
    BY <1>18, RangeFacts DEF TypeOK, Rename, Go, Disturb
  <2> QED
    BY <2>1, <2>2, <2>3, <2>4, <2>5, <2>6 DEF TypeOK, Aims
<1>19. ASSUME NEW p \in Procs, Retire(p) PROVE TypeOK'
  <2>1. pc' \in [Procs -> Places] /\ aim' \in [Procs -> Aims]
    BY <1>19, RangeFacts, PlaceNames DEF TypeOK, Aims, Retire, Go, Old
  <2>2. at' \in [Procs -> [Parts -> 0 .. MaxNodes]] /\ to' \in [Procs -> [Parts -> 0 .. MaxNodes]]
    BY <1>19, RangeFacts DEF TypeOK, Retire, Go, Old
  <2>3. dir' \in [Parts -> 0 .. MaxNodes] /\ tmp' \in [Parts -> 0 .. MaxNodes]
    BY <1>19, RangeFacts DEF TypeOK, Retire, Go, Old
  <2>4. holds' \in [Parts -> [Nodes -> 0 .. MaxNodes]]
    BY <1>19, RangeFacts DEF TypeOK, Retire, Go, Old
  <2>5. /\ durable' \subseteq Nodes /\ dead' \subseteq Nodes
        /\ gate' \in [Nodes -> Procs \cup {None}] /\ lock' \in [Nodes -> Procs \cup {None}]
    BY <1>19, RangeFacts DEF TypeOK, PlaceInv, PlaceOk, Making, Before, After, Dropped,
       Retire, Go, Old
  <2>6. /\ new' \in [Procs -> 0 .. MaxNodes] /\ met' \in [Procs -> BOOLEAN]
        /\ made' \in Nat /\ jobs' \in Nat
    BY <1>19, RangeFacts DEF TypeOK, Retire, Go, Old
  <2> QED
    BY <2>1, <2>2, <2>3, <2>4, <2>5, <2>6 DEF TypeOK, Aims
<1>20. ASSUME NEW p \in Procs, Finish(p) PROVE TypeOK'
  <2>1. pc' \in [Procs -> Places] /\ aim' \in [Procs -> Aims]
    BY <1>20, RangeFacts, PlaceNames DEF TypeOK, Aims, Finish, Turn, Go
  <2>2. at' \in [Procs -> [Parts -> 0 .. MaxNodes]] /\ to' \in [Procs -> [Parts -> 0 .. MaxNodes]]
    BY <1>20, RangeFacts DEF TypeOK, Finish, Turn, Go
  <2>3. dir' \in [Parts -> 0 .. MaxNodes] /\ tmp' \in [Parts -> 0 .. MaxNodes]
    BY <1>20, RangeFacts DEF TypeOK, Finish, Turn, Go
  <2>4. holds' \in [Parts -> [Nodes -> 0 .. MaxNodes]]
    BY <1>20, RangeFacts DEF TypeOK, Finish, Turn, Go
  <2>5. /\ durable' \subseteq Nodes /\ dead' \subseteq Nodes
        /\ gate' \in [Nodes -> Procs \cup {None}] /\ lock' \in [Nodes -> Procs \cup {None}]
    BY <1>20, RangeFacts DEF TypeOK, PlaceInv, PlaceOk, Making, Before, After, Dropped,
       Finish, Turn, Go
  <2>6. /\ new' \in [Procs -> 0 .. MaxNodes] /\ met' \in [Procs -> BOOLEAN]
        /\ made' \in Nat /\ jobs' \in Nat
    BY <1>20, RangeFacts DEF TypeOK, Finish, Turn, Go
  <2> QED
    BY <2>1, <2>2, <2>3, <2>4, <2>5, <2>6 DEF TypeOK, Aims
<1>21. ASSUME NEW p \in Procs, LoadFails(p) PROVE TypeOK'
  <2>1. pc' \in [Procs -> Places] /\ aim' \in [Procs -> Aims]
    BY <1>21, RangeFacts, PlaceNames DEF TypeOK, Aims, LoadFails, Forget, Turn, Go,
       NoTmp, Nothing
  <2>2. at' \in [Procs -> [Parts -> 0 .. MaxNodes]] /\ to' \in [Procs -> [Parts -> 0 .. MaxNodes]]
    BY <1>21, RangeFacts DEF TypeOK, LoadFails, Forget, Turn, Go, NoTmp, Nothing
  <2>3. dir' \in [Parts -> 0 .. MaxNodes] /\ tmp' \in [Parts -> 0 .. MaxNodes]
    BY <1>21, RangeFacts DEF TypeOK, LoadFails, Forget, Turn, Go, NoTmp, Nothing
  <2>4. holds' \in [Parts -> [Nodes -> 0 .. MaxNodes]]
    BY <1>21, RangeFacts DEF TypeOK, LoadFails, Forget, Turn, Go, NoTmp, Nothing
  <2>5. /\ durable' \subseteq Nodes /\ dead' \subseteq Nodes
        /\ gate' \in [Nodes -> Procs \cup {None}] /\ lock' \in [Nodes -> Procs \cup {None}]
    BY <1>21, RangeFacts DEF TypeOK, PlaceInv, PlaceOk, Making, Before, After, Dropped,
       LoadFails, Forget, Turn, Go, NoTmp, Nothing
  <2>6. /\ new' \in [Procs -> 0 .. MaxNodes] /\ met' \in [Procs -> BOOLEAN]
        /\ made' \in Nat /\ jobs' \in Nat
    BY <1>21, RangeFacts DEF TypeOK, LoadFails, Forget, Turn, Go, NoTmp, Nothing
  <2> QED
    BY <2>1, <2>2, <2>3, <2>4, <2>5, <2>6 DEF TypeOK, Aims
<1>22. ASSUME NEW p \in Procs, LoadDies(p) PROVE TypeOK'
  <2>1. pc' \in [Procs -> Places] /\ aim' \in [Procs -> Aims]
    BY <1>22, RangeFacts, PlaceNames DEF TypeOK, Aims, LoadDies, Forget, Turn, Go,
       Nothing
  <2>2. at' \in [Procs -> [Parts -> 0 .. MaxNodes]] /\ to' \in [Procs -> [Parts -> 0 .. MaxNodes]]
    BY <1>22, RangeFacts DEF TypeOK, LoadDies, Forget, Turn, Go, Nothing
  <2>3. dir' \in [Parts -> 0 .. MaxNodes] /\ tmp' \in [Parts -> 0 .. MaxNodes]
    BY <1>22, RangeFacts DEF TypeOK, LoadDies, Forget, Turn, Go, Nothing
  <2>4. holds' \in [Parts -> [Nodes -> 0 .. MaxNodes]]
    BY <1>22, RangeFacts DEF TypeOK, LoadDies, Forget, Turn, Go, Nothing
  <2>5. /\ durable' \subseteq Nodes /\ dead' \subseteq Nodes
        /\ gate' \in [Nodes -> Procs \cup {None}] /\ lock' \in [Nodes -> Procs \cup {None}]
    BY <1>22, RangeFacts DEF TypeOK, PlaceInv, PlaceOk, Making, Before, After, Dropped,
       LoadDies, Forget, Turn, Go, Nothing
  <2>6. /\ new' \in [Procs -> 0 .. MaxNodes] /\ met' \in [Procs -> BOOLEAN]
        /\ made' \in Nat /\ jobs' \in Nat
    BY <1>22, RangeFacts DEF TypeOK, LoadDies, Forget, Turn, Go, Nothing
  <2> QED
    BY <2>1, <2>2, <2>3, <2>4, <2>5, <2>6 DEF TypeOK, Aims
<1>23. ASSUME NEW p \in Procs, UnloadStart(p) PROVE TypeOK'
  <2>1. pc' \in [Procs -> Places] /\ aim' \in [Procs -> Aims]
    BY <1>23, RangeFacts, PlaceNames DEF TypeOK, Aims, UnloadStart, Turn, Go, Nothing
  <2>2. at' \in [Procs -> [Parts -> 0 .. MaxNodes]] /\ to' \in [Procs -> [Parts -> 0 .. MaxNodes]]
    <3>1. Nothing \in [Parts -> 0 .. MaxNodes]
      BY RangeFacts DEF Nothing
    <3>2. to' = to /\ (at' = at \/ at' = [at EXCEPT ![p] = Nothing])
      BY <1>23 DEF UnloadStart
    <3>3. [at EXCEPT ![p] = Nothing] \in [Procs -> [Parts -> 0 .. MaxNodes]]
      BY <1>23, <3>1 DEF TypeOK
    <3> QED
      BY <3>2, <3>3 DEF TypeOK
  <2>3. dir' \in [Parts -> 0 .. MaxNodes] /\ tmp' \in [Parts -> 0 .. MaxNodes]
    BY <1>23, RangeFacts DEF TypeOK, UnloadStart, Turn, Go, Nothing
  <2>4. holds' \in [Parts -> [Nodes -> 0 .. MaxNodes]]
    BY <1>23, RangeFacts DEF TypeOK, UnloadStart, Turn, Go, Nothing
  <2>5. /\ durable' \subseteq Nodes /\ dead' \subseteq Nodes
        /\ gate' \in [Nodes -> Procs \cup {None}] /\ lock' \in [Nodes -> Procs \cup {None}]
    BY <1>23, RangeFacts DEF TypeOK, PlaceInv, PlaceOk, Making, Before, After, Dropped,
       UnloadStart, Turn, Go, Nothing
  <2>6. /\ new' \in [Procs -> 0 .. MaxNodes] /\ met' \in [Procs -> BOOLEAN]
        /\ made' \in Nat /\ jobs' \in Nat
    BY <1>23, RangeFacts DEF TypeOK, UnloadStart, Turn, Go, Nothing
  <2> QED
    BY <2>1, <2>2, <2>3, <2>4, <2>5, <2>6 DEF TypeOK, Aims
<1>24. ASSUME NEW p \in Procs, Drop(p) PROVE TypeOK'
  <2>1. pc' \in [Procs -> Places] /\ aim' \in [Procs -> Aims]
    <3>1. pc'[p] \in Places /\ aim'[p] \in Aims
      BY <1>24, DropFacts, PlaceNames DEF TypeOK, Becomes, Ended, Aims
    <3>2. \E v : pc' = [pc EXCEPT ![p] = v]
      BY <1>24 DEF Drop, Go
    <3>3. aim' = aim \/ \E v : aim' = [aim EXCEPT ![p] = v]
      BY <1>24 DEF Drop, Go
    <3> QED
      BY <3>1, <3>2, <3>3 DEF TypeOK, Aims
  <2>2. at' \in [Procs -> [Parts -> 0 .. MaxNodes]] /\ to' \in [Procs -> [Parts -> 0 .. MaxNodes]]
    BY <1>24, RangeFacts DEF TypeOK, Drop, Go, Disturb
  <2>3. dir' \in [Parts -> 0 .. MaxNodes] /\ tmp' \in [Parts -> 0 .. MaxNodes]
    <3>1. PICK x : x = Drops[pc[p]]
      OBVIOUS
    <3>2. x \in Parts
      BY <1>24, <3>1, Names DEF Drop, Drops, Parts, Shares, Files
    <3> QED
      BY <1>24, <3>1, <3>2, RangeFacts DEF Drop, TypeOK
  <2>4. holds' \in [Parts -> [Nodes -> 0 .. MaxNodes]]
    BY <1>24, RangeFacts DEF TypeOK, Drop, Go, Disturb
  <2>5. /\ durable' \subseteq Nodes /\ dead' \subseteq Nodes
        /\ gate' \in [Nodes -> Procs \cup {None}] /\ lock' \in [Nodes -> Procs \cup {None}]
    BY <1>24, RangeFacts DEF TypeOK, PlaceInv, PlaceOk, Making, Before, After, Dropped,
       Drop, Go, Disturb
  <2>6. /\ new' \in [Procs -> 0 .. MaxNodes] /\ met' \in [Procs -> BOOLEAN]
        /\ made' \in Nat /\ jobs' \in Nat
    BY <1>24, RangeFacts DEF TypeOK, Drop, Go, Disturb
  <2> QED
    BY <2>1, <2>2, <2>3, <2>4, <2>5, <2>6 DEF TypeOK, Aims
<1>25. ASSUME NEW p \in Procs, MarkDeleted(p) PROVE TypeOK'
  <2>1. pc' \in [Procs -> Places] /\ aim' \in [Procs -> Aims]
    BY <1>25, RangeFacts, PlaceNames DEF TypeOK, Aims, MarkDeleted, Turn, Go, Nothing
  <2>2. at' \in [Procs -> [Parts -> 0 .. MaxNodes]] /\ to' \in [Procs -> [Parts -> 0 .. MaxNodes]]
    BY <1>25, RangeFacts DEF TypeOK, MarkDeleted, Turn, Go, Nothing
  <2>3. dir' \in [Parts -> 0 .. MaxNodes] /\ tmp' \in [Parts -> 0 .. MaxNodes]
    BY <1>25, RangeFacts DEF TypeOK, MarkDeleted, Turn, Go, Nothing
  <2>4. holds' \in [Parts -> [Nodes -> 0 .. MaxNodes]]
    BY <1>25, RangeFacts DEF TypeOK, MarkDeleted, Turn, Go, Nothing
  <2>5. /\ durable' \subseteq Nodes /\ dead' \subseteq Nodes
        /\ gate' \in [Nodes -> Procs \cup {None}] /\ lock' \in [Nodes -> Procs \cup {None}]
    BY <1>25, RangeFacts DEF TypeOK, PlaceInv, PlaceOk, Making, Before, After, Dropped,
       MarkDeleted, Turn, Go, Nothing
  <2>6. /\ new' \in [Procs -> 0 .. MaxNodes] /\ met' \in [Procs -> BOOLEAN]
        /\ made' \in Nat /\ jobs' \in Nat
    BY <1>25, RangeFacts DEF TypeOK, MarkDeleted, Turn, Go, Nothing
  <2> QED
    BY <2>1, <2>2, <2>3, <2>4, <2>5, <2>6 DEF TypeOK, Aims
<1>26. CASE UNCHANGED vars
  BY <1>26 DEF TypeOK, vars
<1> QED
  BY <1>1, <1>2, <1>3, <1>4, <1>5, <1>6, <1>7, <1>8, <1>9, <1>10, <1>11, <1>12, <1>13,
     <1>14, <1>15, <1>16, <1>17, <1>18, <1>19, <1>20, <1>21, <1>22, <1>23, <1>24, <1>25,
     <1>26 DEF Next, Steps, Starts, Links, Calls, Creates, Unloads

LEMMA PlaceFrame ==
  ASSUME NEW p \in Procs, NEW o \in Procs, o # p, PlaceOk(o), Others(p), dead \subseteq dead'
  PROVE  PlaceOk(o)'
BY DEF PlaceOk, Others, Index, Share

\* What each place asks of the one who is there.
LEMMA PlaceStep ==
  ASSUME TypeOK, PlaceInv, FileInv, FillInv, [Next]_vars
  PROVE  PlaceInv'
<1>1. ASSUME NEW p \in Procs, LinkStart(p) PROVE PlaceInv'
  <2>1. PlaceOk(p)'
    BY <1>1, LinkStartFacts, PartNames DEF PlaceInv, PlaceOk, Others, Becomes, Ended,
       NameMoves, Attaching, Locked, Making, Before, After, Dropping, Dropped, Opened,
       Opening, JobAims, Index, Share
  <2>2. ASSUME NEW o \in Procs, o # p PROVE PlaceOk(o)'
    BY <1>1, <2>2, LinkStartFacts, PlaceFrame DEF PlaceInv
  <2> QED
    BY <2>1, <2>2 DEF PlaceInv
<1>2. ASSUME NEW p \in Procs, OpenIndex(p) PROVE PlaceInv'
  <2>1. PlaceOk(p)'
    BY <1>2, OpenIndexFacts, PartNames DEF PlaceInv, PlaceOk, Others, Becomes, Ended,
       NameMoves, Attaching, Locked, Making, Before, After, Dropping, Dropped, Opened,
       Opening, JobAims, Index, Share
  <2>2. ASSUME NEW o \in Procs, o # p PROVE PlaceOk(o)'
    BY <1>2, <2>2, OpenIndexFacts, PlaceFrame DEF PlaceInv
  <2> QED
    BY <2>1, <2>2 DEF PlaceInv
<1>3. ASSUME NEW p \in Procs, LockIndex(p) PROVE PlaceInv'
  <2>1. PlaceOk(p)'
    BY <1>3, LockIndexFacts, PartNames DEF PlaceInv, PlaceOk, Others, Becomes, Ended,
       NameMoves, Attaching, Locked, Making, Before, After, Dropping, Dropped, Opened,
       Opening, JobAims, Index, Share
  <2>2. ASSUME NEW o \in Procs, o # p PROVE PlaceOk(o)'
    BY <1>3, <2>2, LockIndexFacts, PlaceFrame DEF PlaceInv
  <2> QED
    BY <2>1, <2>2 DEF PlaceInv
<1>4. ASSUME NEW p \in Procs, Attach(p) PROVE PlaceInv'
  <2>1. PlaceOk(p)'
    BY <1>4, AttachFacts, PartNames DEF PlaceInv, PlaceOk, Others, Becomes, Ended,
       NameMoves, Attaching, Locked, Making, Before, After, Dropping, Dropped, Opened,
       Opening, JobAims, Index, Share
  <2>2. ASSUME NEW o \in Procs, o # p PROVE PlaceOk(o)'
    BY <1>4, <2>2, AttachFacts, PlaceFrame DEF PlaceInv
  <2> QED
    BY <2>1, <2>2 DEF PlaceInv
<1>5. ASSUME NEW p \in Procs, FillIndex(p) PROVE PlaceInv'
  <2>1. PlaceOk(p)'
    BY <1>5, FillIndexFacts, PartNames DEF PlaceInv, PlaceOk, Others, Becomes, Ended,
       NameMoves, Attaching, Locked, Making, Before, After, Dropping, Dropped, Opened,
       Opening, JobAims, Index, Share
  <2>2. ASSUME NEW o \in Procs, o # p PROVE PlaceOk(o)'
    BY <1>5, <2>2, FillIndexFacts, PlaceFrame DEF PlaceInv
  <2> QED
    BY <2>1, <2>2 DEF PlaceInv
<1>6. ASSUME NEW p \in Procs, FillPages(p) PROVE PlaceInv'
  <2>1. PlaceOk(p)'
    BY <1>6, FillPagesFacts, PartNames DEF PlaceInv, PlaceOk, Others, Becomes, Ended,
       NameMoves, Attaching, Locked, Making, Before, After, Dropping, Dropped, Opened,
       Opening, JobAims, Index, Share
  <2>2. ASSUME NEW o \in Procs, o # p PROVE PlaceOk(o)'
    BY <1>6, <2>2, FillPagesFacts, PlaceFrame DEF PlaceInv
  <2> QED
    BY <2>1, <2>2 DEF PlaceInv
<1>7. ASSUME NEW p \in Procs, FillPagesFile(p) PROVE PlaceInv'
  <2>1. PlaceOk(p)'
    BY <1>7, FillPagesFileFacts, PartNames DEF PlaceInv, PlaceOk, Others, Becomes,
       Ended, NameMoves, Attaching, Locked, Making, Before, After, Dropping, Dropped,
       Opened, Opening, JobAims, Index, Share
  <2>2. ASSUME NEW o \in Procs, o # p PROVE PlaceOk(o)'
    BY <1>7, <2>2, FillPagesFileFacts, PlaceFrame DEF PlaceInv
  <2> QED
    BY <2>1, <2>2 DEF PlaceInv
<1>8. ASSUME NEW p \in Procs, CallStart(p) PROVE PlaceInv'
  <2>1. PlaceOk(p)'
    BY <1>8, CallStartFacts, PartNames DEF PlaceInv, PlaceOk, Others, Becomes, Ended,
       NameMoves, Attaching, Locked, Making, Before, After, Dropping, Dropped, Opened,
       Opening, JobAims, Index, Share
  <2>2. ASSUME NEW o \in Procs, o # p PROVE PlaceOk(o)'
    BY <1>8, <2>2, CallStartFacts, PlaceFrame DEF PlaceInv
  <2> QED
    BY <2>1, <2>2 DEF PlaceInv
<1>9. ASSUME NEW p \in Procs, CheckBad(p) PROVE PlaceInv'
  <2>1. PlaceOk(p)'
    BY <1>9, CheckBadFacts, PartNames DEF PlaceInv, PlaceOk, Others, Becomes, Ended,
       NameMoves, Attaching, Locked, Making, Before, After, Dropping, Dropped, Opened,
       Opening, JobAims, Index, Share
  <2>2. ASSUME NEW o \in Procs, o # p PROVE PlaceOk(o)'
    BY <1>9, <2>2, CheckBadFacts, PlaceFrame DEF PlaceInv
  <2> QED
    BY <2>1, <2>2 DEF PlaceInv
<1>10. ASSUME NEW p \in Procs, MutexLock(p) PROVE PlaceInv'
  <2>1. PlaceOk(p)'
    BY <1>10, MutexLockFacts, PartNames DEF PlaceInv, PlaceOk, Others, Becomes, Ended,
       NameMoves, Attaching, Locked, Making, Before, After, Dropping, Dropped, Opened,
       Opening, JobAims, Index, Share
  <2>2. ASSUME NEW o \in Procs, o # p PROVE PlaceOk(o)'
    BY <1>10, <2>2, MutexLockFacts, PlaceFrame DEF PlaceInv
  <2> QED
    BY <2>1, <2>2 DEF PlaceInv
<1>11. ASSUME NEW p \in Procs, CallEnd(p) PROVE PlaceInv'
  <2>1. PlaceOk(p)'
    BY <1>11, CallEndFacts, PartNames DEF PlaceInv, PlaceOk, Others, Becomes, Ended,
       NameMoves, Attaching, Locked, Making, Before, After, Dropping, Dropped, Opened,
       Opening, JobAims, Index, Share
  <2>2. ASSUME NEW o \in Procs, o # p PROVE PlaceOk(o)'
    BY <1>11, <2>2, CallEndFacts, PlaceFrame DEF PlaceInv
  <2> QED
    BY <2>1, <2>2 DEF PlaceInv
<1>12. ASSUME NEW p \in Procs, Unlink(p) PROVE PlaceInv'
  <2>1. PlaceOk(p)'
    BY <1>12, UnlinkFacts, PartNames DEF PlaceInv, PlaceOk, Others, Becomes, Ended,
       NameMoves, Attaching, Locked, Making, Before, After, Dropping, Dropped, Opened,
       Opening, JobAims, Index, Share
  <2>2. ASSUME NEW o \in Procs, o # p PROVE PlaceOk(o)'
    BY <1>12, <2>2, UnlinkFacts, PlaceFrame DEF PlaceInv
  <2> QED
    BY <2>1, <2>2 DEF PlaceInv
<1>13. ASSUME NEW p \in Procs, CreateStart(p) PROVE PlaceInv'
  <2>1. PlaceOk(p)'
    BY <1>13, CreateStartFacts, PartNames DEF PlaceInv, PlaceOk, Others, Becomes, Ended,
       NameMoves, Attaching, Locked, Making, Before, After, Dropping, Dropped, Opened,
       Opening, JobAims, Index, Share
  <2>2. ASSUME NEW o \in Procs, o # p PROVE PlaceOk(o)'
    BY <1>13, <2>2, CreateStartFacts, PlaceFrame DEF PlaceInv
  <2> QED
    BY <2>1, <2>2 DEF PlaceInv
<1>14. ASSUME NEW p \in Procs, CreateParts(p) PROVE PlaceInv'
  <2>1. PlaceOk(p)'
    BY <1>14, CreatePartsFacts, PartNames, RangeFacts DEF PlaceInv, PlaceOk, Others,
       Becomes, Ended, NameMoves, Attaching, Locked, Making, Before, After, Dropping,
       Dropped, Opened, Opening, JobAims, Index, Share
  <2>2. ASSUME NEW o \in Procs, o # p PROVE PlaceOk(o)'
    BY <1>14, <2>2, CreatePartsFacts, PlaceFrame DEF PlaceInv
  <2> QED
    BY <2>1, <2>2 DEF PlaceInv
<1>15. ASSUME NEW p \in Procs, CreateRefused(p) PROVE PlaceInv'
  <2>1. PlaceOk(p)'
    BY <1>15, CreateRefusedFacts, PartNames DEF PlaceInv, PlaceOk, Others, Becomes,
       Ended, NameMoves, Attaching, Locked, Making, Before, After, Dropping, Dropped,
       Opened, Opening, JobAims, Index, Share
  <2>2. ASSUME NEW o \in Procs, o # p PROVE PlaceOk(o)'
    BY <1>15, <2>2, CreateRefusedFacts, PlaceFrame DEF PlaceInv
  <2> QED
    BY <2>1, <2>2 DEF PlaceInv
<1>16. ASSUME NEW p \in Procs, LoadEnds(p) PROVE PlaceInv'
  <2>1. PlaceOk(p)'
    BY <1>16, LoadEndsFacts, PartNames DEF PlaceInv, PlaceOk, Others, Becomes, Ended,
       NameMoves, Attaching, Locked, Making, Before, After, Dropping, Dropped, Opened,
       Opening, JobAims, Index, Share
  <2>2. ASSUME NEW o \in Procs, o # p PROVE PlaceOk(o)'
    BY <1>16, <2>2, LoadEndsFacts, PlaceFrame DEF PlaceInv
  <2> QED
    BY <2>1, <2>2 DEF PlaceInv
<1>17. ASSUME NEW p \in Procs, MoveAway(p) PROVE PlaceInv'
  <2>1. PlaceOk(p)'
    BY <1>17, MoveAwayFacts, PartNames DEF PlaceInv, PlaceOk, Others, Becomes, Ended,
       NameMoves, Attaching, Locked, Making, Before, After, Dropping, Dropped, Opened,
       Opening, JobAims, Index, Share
  <2>2. ASSUME NEW o \in Procs, o # p PROVE PlaceOk(o)'
    BY <1>17, <2>2, MoveAwayFacts, PlaceFrame DEF PlaceInv
  <2> QED
    BY <2>1, <2>2 DEF PlaceInv
<1>18. ASSUME NEW p \in Procs, Rename(p) PROVE PlaceInv'
  <2>1. PlaceOk(p)'
    BY <1>18, RenameFacts, PartNames DEF PlaceInv, PlaceOk, Others, Becomes, Ended,
       NameMoves, Attaching, Locked, Making, Before, After, Dropping, Dropped, Opened,
       Opening, JobAims, Index, Share
  <2>2. ASSUME NEW o \in Procs, o # p PROVE PlaceOk(o)'
    BY <1>18, <2>2, RenameFacts, PlaceFrame DEF PlaceInv
  <2> QED
    BY <2>1, <2>2 DEF PlaceInv
<1>19. ASSUME NEW p \in Procs, Retire(p) PROVE PlaceInv'
  <2>1. PlaceOk(p)'
    BY <1>19, RetireFacts, PartNames DEF PlaceInv, PlaceOk, Others, Becomes, Ended,
       NameMoves, Attaching, Locked, Making, Before, After, Dropping, Dropped, Opened,
       Opening, JobAims, Index, Share
  <2>2. ASSUME NEW o \in Procs, o # p PROVE PlaceOk(o)'
    BY <1>19, <2>2, RetireFacts, PlaceFrame DEF PlaceInv
  <2> QED
    BY <2>1, <2>2 DEF PlaceInv
<1>20. ASSUME NEW p \in Procs, Finish(p) PROVE PlaceInv'
  <2>1. PlaceOk(p)'
    BY <1>20, FinishFacts, PartNames DEF PlaceInv, PlaceOk, Others, Becomes, Ended,
       NameMoves, Attaching, Locked, Making, Before, After, Dropping, Dropped, Opened,
       Opening, JobAims, Index, Share
  <2>2. ASSUME NEW o \in Procs, o # p PROVE PlaceOk(o)'
    BY <1>20, <2>2, FinishFacts, PlaceFrame DEF PlaceInv
  <2> QED
    BY <2>1, <2>2 DEF PlaceInv
<1>21. ASSUME NEW p \in Procs, LoadFails(p) PROVE PlaceInv'
  <2>1. PlaceOk(p)'
    BY <1>21, LoadFailsFacts, PartNames DEF PlaceInv, PlaceOk, Others, Becomes, Ended,
       NameMoves, Attaching, Locked, Making, Before, After, Dropping, Dropped, Opened,
       Opening, JobAims, Index, Share
  <2>2. ASSUME NEW o \in Procs, o # p PROVE PlaceOk(o)'
    BY <1>21, <2>2, LoadFailsFacts, PlaceFrame DEF PlaceInv
  <2> QED
    BY <2>1, <2>2 DEF PlaceInv
<1>22. ASSUME NEW p \in Procs, LoadDies(p) PROVE PlaceInv'
  <2>1. PlaceOk(p)'
    BY <1>22, LoadDiesFacts, PartNames DEF PlaceInv, PlaceOk, Others, Becomes, Ended,
       NameMoves, Attaching, Locked, Making, Before, After, Dropping, Dropped, Opened,
       Opening, JobAims, Index, Share
  <2>2. ASSUME NEW o \in Procs, o # p PROVE PlaceOk(o)'
    BY <1>22, <2>2, LoadDiesFacts, PlaceFrame DEF PlaceInv
  <2> QED
    BY <2>1, <2>2 DEF PlaceInv
<1>23. ASSUME NEW p \in Procs, UnloadStart(p) PROVE PlaceInv'
  <2>1. PlaceOk(p)'
    BY <1>23, UnloadStartFacts, PartNames DEF PlaceInv, PlaceOk, Others, Becomes, Ended,
       NameMoves, Attaching, Locked, Making, Before, After, Dropping, Dropped, Opened,
       Opening, JobAims, Index, Share
  <2>2. ASSUME NEW o \in Procs, o # p PROVE PlaceOk(o)'
    BY <1>23, <2>2, UnloadStartFacts, PlaceFrame DEF PlaceInv
  <2> QED
    BY <2>1, <2>2 DEF PlaceInv
<1>24. ASSUME NEW p \in Procs, Drop(p) PROVE PlaceInv'
  <2>1. PlaceOk(p)'
    BY <1>24, DropFacts, PartNames DEF PlaceInv, PlaceOk, Others, Becomes, Ended,
       NameMoves, Attaching, Locked, Making, Before, After, Dropping, Dropped, Opened,
       Opening, JobAims, Index, Share
  <2>2. ASSUME NEW o \in Procs, o # p PROVE PlaceOk(o)'
    BY <1>24, <2>2, DropFacts, PlaceFrame DEF PlaceInv
  <2> QED
    BY <2>1, <2>2 DEF PlaceInv
<1>25. ASSUME NEW p \in Procs, MarkDeleted(p) PROVE PlaceInv'
  <2>1. PlaceOk(p)'
    BY <1>25, MarkDeletedFacts, PartNames DEF PlaceInv, PlaceOk, Others, Becomes, Ended,
       NameMoves, Attaching, Locked, Making, Before, After, Dropping, Dropped, Opened,
       Opening, JobAims, Index, Share
  <2>2. ASSUME NEW o \in Procs, o # p PROVE PlaceOk(o)'
    BY <1>25, <2>2, MarkDeletedFacts, PlaceFrame DEF PlaceInv
  <2> QED
    BY <2>1, <2>2 DEF PlaceInv
<1>26. CASE UNCHANGED vars
  BY <1>26 DEF vars, PlaceInv, PlaceOk, Index, Share
<1> QED
  BY <1>1, <1>2, <1>3, <1>4, <1>5, <1>6, <1>7, <1>8, <1>9, <1>10, <1>11, <1>12, <1>13,
     <1>14, <1>15, <1>16, <1>17, <1>18, <1>19, <1>20, <1>21, <1>22, <1>23, <1>24, <1>25,
     <1>26 DEF Next, Steps, Starts, Links, Calls, Creates, Unloads

\* Only the process of the job changes names.
LEMMA Renamers ==
  ASSUME PlaceInv
  PROVE  \A p \in Procs :
           /\ pc[p] \in Renaming \cup Making \cup Dropping \cup Dropped \cup {"finish"} => aim[p] \in JobAims
           /\ Changing(p) => pc[p] \in Renaming
BY PlaceNames DEF PlaceInv, PlaceOk, Making, Before, After, Dropping, Dropped, JobAims,
   Changing

\* One job at a time.
LEMMA JobStep ==
  ASSUME TypeOK, PlaceInv, JobInv, FileInv, FillInv, [Next]_vars
  PROVE  JobInv'
<1>1. ASSUME NEW p \in Procs, LinkStart(p) PROVE JobInv'
  BY <1>1, LinkStartFacts, Renamers, PlaceNames DEF JobInv, Others, Becomes, Ended,
     NameMoves, Only, Disturbs, Marked, Forgets, JobAims, Opening
<1>2. ASSUME NEW p \in Procs, OpenIndex(p) PROVE JobInv'
  BY <1>2, OpenIndexFacts, Renamers, PlaceNames DEF JobInv, Others, Becomes, Ended,
     NameMoves, Only, Disturbs, Marked, Forgets, JobAims, Opening
<1>3. ASSUME NEW p \in Procs, LockIndex(p) PROVE JobInv'
  BY <1>3, LockIndexFacts, Renamers, PlaceNames DEF JobInv, Others, Becomes, Ended,
     NameMoves, Only, Disturbs, Marked, Forgets, JobAims, Opening
<1>4. ASSUME NEW p \in Procs, Attach(p) PROVE JobInv'
  <2>1. /\ aim'[p] \in {aim[p], "none"} /\ Others(p) /\ met' = met
        /\ pc'[p] \notin Renaming \cup {"finish"} /\ pc[p] \notin Renaming \cup {"finish"}
        /\ (pc'[p] \in Opening => pc[p] \in Opening)
    BY <1>4, AttachFacts, PlaceNames DEF Ended, Becomes, Attaching, Opening
  <2> QED
    BY <2>1 DEF JobInv, Others, JobAims
<1>5. ASSUME NEW p \in Procs, FillIndex(p) PROVE JobInv'
  BY <1>5, FillIndexFacts, Renamers, PlaceNames DEF JobInv, Others, Becomes, Ended,
     NameMoves, Only, Disturbs, Marked, Forgets, JobAims, Opening
<1>6. ASSUME NEW p \in Procs, FillPages(p) PROVE JobInv'
  BY <1>6, FillPagesFacts, Renamers, PlaceNames DEF JobInv, Others, Becomes, Ended,
     NameMoves, Only, Disturbs, Marked, Forgets, JobAims, Opening
<1>7. ASSUME NEW p \in Procs, FillPagesFile(p) PROVE JobInv'
  BY <1>7, FillPagesFileFacts, Renamers, PlaceNames DEF JobInv, Others, Becomes, Ended,
     NameMoves, Only, Disturbs, Marked, Forgets, JobAims, Opening
<1>8. ASSUME NEW p \in Procs, CallStart(p) PROVE JobInv'
  BY <1>8, CallStartFacts, Renamers, PlaceNames DEF JobInv, Others, Becomes, Ended,
     NameMoves, Only, Disturbs, Marked, Forgets, JobAims, Opening
<1>9. ASSUME NEW p \in Procs, CheckBad(p) PROVE JobInv'
  BY <1>9, CheckBadFacts, Renamers, PlaceNames DEF JobInv, Others, Becomes, Ended,
     NameMoves, Only, Disturbs, Marked, Forgets, JobAims, Opening
<1>10. ASSUME NEW p \in Procs, MutexLock(p) PROVE JobInv'
  BY <1>10, MutexLockFacts, Renamers, PlaceNames DEF JobInv, Locked, Others, Becomes,
     Ended, NameMoves, Only, Disturbs, Marked, Forgets, JobAims, Opening
<1>11. ASSUME NEW p \in Procs, CallEnd(p) PROVE JobInv'
  BY <1>11, CallEndFacts, Renamers, PlaceNames DEF JobInv, Others, Becomes, Ended,
     NameMoves, Only, Disturbs, Marked, Forgets, JobAims, Opening
<1>12. ASSUME NEW p \in Procs, Unlink(p) PROVE JobInv'
  BY <1>12, UnlinkFacts, Renamers, PlaceNames DEF JobInv, Others, Becomes, Ended,
     NameMoves, Only, Disturbs, Marked, Forgets, JobAims, Opening
<1>13. ASSUME NEW p \in Procs, CreateStart(p) PROVE JobInv'
  BY <1>13, CreateStartFacts, Renamers, PlaceNames DEF JobInv, Others, Becomes, Ended,
     NameMoves, Only, Disturbs, Marked, Forgets, JobAims, Opening
<1>14. ASSUME NEW p \in Procs, CreateParts(p) PROVE JobInv'
  BY <1>14, CreatePartsFacts, Renamers, PlaceNames DEF JobInv, Others, Becomes, Ended,
     NameMoves, Only, Disturbs, Marked, Forgets, JobAims, Opening
<1>15. ASSUME NEW p \in Procs, CreateRefused(p) PROVE JobInv'
  BY <1>15, CreateRefusedFacts, Renamers, PlaceNames DEF JobInv, Others, Becomes, Ended,
     NameMoves, Only, Disturbs, Marked, Forgets, JobAims, Opening
<1>16. ASSUME NEW p \in Procs, LoadEnds(p) PROVE JobInv'
  BY <1>16, LoadEndsFacts, Renamers, PlaceNames DEF JobInv, Others, Becomes, Ended,
     NameMoves, Only, Disturbs, Marked, Forgets, JobAims, Opening
<1>17. ASSUME NEW p \in Procs, MoveAway(p) PROVE JobInv'
  BY <1>17, MoveAwayFacts, Renamers, PlaceNames DEF JobInv, Others, Becomes, Ended,
     NameMoves, Only, Disturbs, Marked, Forgets, JobAims, Opening
<1>18. ASSUME NEW p \in Procs, Rename(p) PROVE JobInv'
  BY <1>18, RenameFacts, Renamers, PlaceNames DEF JobInv, Others, Becomes, Ended,
     NameMoves, Only, Disturbs, Marked, Forgets, JobAims, Opening
<1>19. ASSUME NEW p \in Procs, Retire(p) PROVE JobInv'
  BY <1>19, RetireFacts, Renamers, PlaceNames DEF JobInv, Others, Becomes, Ended,
     NameMoves, Only, Disturbs, Marked, Forgets, JobAims, Opening
<1>20. ASSUME NEW p \in Procs, Finish(p) PROVE JobInv'
  BY <1>20, FinishFacts, Renamers, PlaceNames DEF JobInv, Others, Becomes, Ended,
     NameMoves, Only, Disturbs, Marked, Forgets, JobAims, Opening
<1>21. ASSUME NEW p \in Procs, LoadFails(p) PROVE JobInv'
  BY <1>21, LoadFailsFacts, Renamers, PlaceNames DEF JobInv, Others, Becomes, Ended,
     NameMoves, Only, Disturbs, Marked, Forgets, JobAims, Opening
<1>22. ASSUME NEW p \in Procs, LoadDies(p) PROVE JobInv'
  BY <1>22, LoadDiesFacts, Renamers, PlaceNames DEF JobInv, Others, Becomes, Ended,
     NameMoves, Only, Disturbs, Marked, Forgets, JobAims, Opening
<1>23. ASSUME NEW p \in Procs, UnloadStart(p) PROVE JobInv'
  BY <1>23, UnloadStartFacts, Renamers, PlaceNames DEF JobInv, Others, Becomes, Ended,
     NameMoves, Only, Disturbs, Marked, Forgets, JobAims, Opening
<1>24. ASSUME NEW p \in Procs, Drop(p) PROVE JobInv'
  BY <1>24, DropFacts, Renamers, PlaceNames DEF JobInv, Others, Becomes, Ended,
     NameMoves, Only, Disturbs, Marked, Forgets, JobAims, Opening
<1>25. ASSUME NEW p \in Procs, MarkDeleted(p) PROVE JobInv'
  BY <1>25, MarkDeletedFacts, Renamers, PlaceNames DEF JobInv, Others, Becomes, Ended,
     NameMoves, Only, Disturbs, Marked, Forgets, JobAims, Opening
<1>26. CASE UNCHANGED vars
  BY <1>26 DEF vars, JobInv
<1> QED
  BY <1>1, <1>2, <1>3, <1>4, <1>5, <1>6, <1>7, <1>8, <1>9, <1>10, <1>11, <1>12, <1>13,
     <1>14, <1>15, <1>16, <1>17, <1>18, <1>19, <1>20, <1>21, <1>22, <1>23, <1>24, <1>25,
     <1>26 DEF Next, Steps, Starts, Links, Calls, Creates, Unloads

LEMMA KnownFacts ==
  ASSUME TypeOK
  PROVE  /\ 0 \in Known /\ made \in Known /\ Known \subseteq Nat
         /\ made' = made => Known' = Known
         /\ made' = made + 1 => Known' = Known \cup {made'} /\ made' \notin Known
BY DEF Known, TypeOK

LEMMA DataKnown ==
  ASSUME TypeOK, NodeInv
  PROVE  \A x \in Parts : DataOf(x) \in Known
BY RangeFacts, KnownFacts DEF NodeInv, DataOf

\* Nodes are made one after the other.
LEMMA NodeStep ==
  ASSUME TypeOK, PlaceInv, FileInv, FillInv, NodeInv, [Next]_vars
  PROVE  NodeInv'
<1>1. ASSUME NEW p \in Procs, LinkStart(p) PROVE NodeInv'
  <2>1. Known \subseteq Known' /\ Known' \subseteq Known \cup {made'} /\ 0 \in Known /\ made' \in Known'
    BY <1>1, LinkStartFacts, KnownFacts
  <2>2. \A n \in Nodes \ Known' : Unused(n)'
    BY <1>1, <2>1, LinkStartFacts, PartNames DEF NodeInv, Unused, Others, Becomes,
       Ended, NameMoves, Only, Disturbs, Marked, Forgets, Gives, Cur, Share, Data,
       DataOf, Written, Lasts, Index
  <2>3. \A x \in Parts : \A n \in Nodes : holds'[x][n] \in Known'
    BY <1>1, <2>1, LinkStartFacts, PartNames, DataKnown DEF NodeInv, Others, Becomes,
       Ended, NameMoves, Only, Disturbs, Marked, Forgets, Gives, Share, Index
  <2>4. \A x \in Parts : dir'[x] \in Known' /\ tmp'[x] \in Known'
    BY <1>1, <2>1, LinkStartFacts, PartNames DEF NodeInv, Others, Becomes, Ended,
       NameMoves, Only, Disturbs, Marked, Forgets, Gives, Cur, Share, Data, DataOf,
       Written, Lasts, Index
  <2>5. \A q \in Procs : \A x \in Parts : at'[q][x] \in Known' /\ to'[q][x] \in Known'
    BY <1>1, <2>1, LinkStartFacts, PartNames DEF NodeInv, Others, Becomes, Ended,
       NameMoves, Only, Disturbs, Marked, Forgets, Gives, Cur, Share, Data, DataOf,
       Written, Lasts, Index
  <2>6. \A q \in Procs : new'[q] \in Known'
    BY <1>1, <2>1, LinkStartFacts, PartNames DEF NodeInv, Others, Becomes, Ended,
       NameMoves, Only, Disturbs, Marked, Forgets, Gives, Cur, Share, Data, DataOf,
       Written, Lasts, Index
  <2> QED
    BY <2>2, <2>3, <2>4, <2>5, <2>6 DEF NodeInv
<1>2. ASSUME NEW p \in Procs, OpenIndex(p) PROVE NodeInv'
  <2>1. Known \subseteq Known' /\ Known' \subseteq Known \cup {made'} /\ 0 \in Known /\ made' \in Known'
    BY <1>2, OpenIndexFacts, KnownFacts
  <2>2. \A n \in Nodes \ Known' : Unused(n)'
    BY <1>2, <2>1, OpenIndexFacts, PartNames DEF NodeInv, Unused, Others, Becomes,
       Ended, NameMoves, Only, Disturbs, Marked, Forgets, Gives, Cur, Share, Data,
       DataOf, Written, Lasts, Index
  <2>3. \A x \in Parts : \A n \in Nodes : holds'[x][n] \in Known'
    BY <1>2, <2>1, OpenIndexFacts, PartNames, DataKnown DEF NodeInv, Others, Becomes,
       Ended, NameMoves, Only, Disturbs, Marked, Forgets, Gives, Share, Index
  <2>4. \A x \in Parts : dir'[x] \in Known' /\ tmp'[x] \in Known'
    BY <1>2, <2>1, OpenIndexFacts, PartNames DEF NodeInv, Others, Becomes, Ended,
       NameMoves, Only, Disturbs, Marked, Forgets, Gives, Cur, Share, Data, DataOf,
       Written, Lasts, Index
  <2>5. \A q \in Procs : \A x \in Parts : at'[q][x] \in Known' /\ to'[q][x] \in Known'
    BY <1>2, <2>1, OpenIndexFacts, PartNames DEF NodeInv, Others, Becomes, Ended,
       NameMoves, Only, Disturbs, Marked, Forgets, Gives, Cur, Share, Data, DataOf,
       Written, Lasts, Index
  <2>6. \A q \in Procs : new'[q] \in Known'
    BY <1>2, <2>1, OpenIndexFacts, PartNames DEF NodeInv, Others, Becomes, Ended,
       NameMoves, Only, Disturbs, Marked, Forgets, Gives, Cur, Share, Data, DataOf,
       Written, Lasts, Index
  <2> QED
    BY <2>2, <2>3, <2>4, <2>5, <2>6 DEF NodeInv
<1>3. ASSUME NEW p \in Procs, LockIndex(p) PROVE NodeInv'
  <2>1. Known \subseteq Known' /\ Known' \subseteq Known \cup {made'} /\ 0 \in Known /\ made' \in Known'
    BY <1>3, LockIndexFacts, KnownFacts
  <2>2. \A n \in Nodes \ Known' : Unused(n)'
    BY <1>3, <2>1, LockIndexFacts, PartNames DEF NodeInv, Unused, Others, Becomes,
       Ended, NameMoves, Only, Disturbs, Marked, Forgets, Gives, Cur, Share, Data,
       DataOf, Written, Lasts, Index
  <2>3. \A x \in Parts : \A n \in Nodes : holds'[x][n] \in Known'
    BY <1>3, <2>1, LockIndexFacts, PartNames, DataKnown DEF NodeInv, Others, Becomes,
       Ended, NameMoves, Only, Disturbs, Marked, Forgets, Gives, Share, Index
  <2>4. \A x \in Parts : dir'[x] \in Known' /\ tmp'[x] \in Known'
    BY <1>3, <2>1, LockIndexFacts, PartNames DEF NodeInv, Others, Becomes, Ended,
       NameMoves, Only, Disturbs, Marked, Forgets, Gives, Cur, Share, Data, DataOf,
       Written, Lasts, Index
  <2>5. \A q \in Procs : \A x \in Parts : at'[q][x] \in Known' /\ to'[q][x] \in Known'
    BY <1>3, <2>1, LockIndexFacts, PartNames DEF NodeInv, Others, Becomes, Ended,
       NameMoves, Only, Disturbs, Marked, Forgets, Gives, Cur, Share, Data, DataOf,
       Written, Lasts, Index
  <2>6. \A q \in Procs : new'[q] \in Known'
    BY <1>3, <2>1, LockIndexFacts, PartNames DEF NodeInv, Others, Becomes, Ended,
       NameMoves, Only, Disturbs, Marked, Forgets, Gives, Cur, Share, Data, DataOf,
       Written, Lasts, Index
  <2> QED
    BY <2>2, <2>3, <2>4, <2>5, <2>6 DEF NodeInv
<1>4. ASSUME NEW p \in Procs, Attach(p) PROVE NodeInv'
  <2>1. Known \subseteq Known' /\ Known' \subseteq Known \cup {made'} /\ 0 \in Known /\ made' \in Known'
    BY <1>4, AttachFacts, KnownFacts
  <2>2. \A n \in Nodes \ Known' : Unused(n)'
    BY <1>4, <2>1, AttachFacts, PartNames DEF NodeInv, Unused, Others, Becomes, Ended,
       NameMoves, Only, Disturbs, Marked, Forgets, Gives, Cur, Share, Data, DataOf,
       Written, Lasts, Index
  <2>3. \A x \in Parts : \A n \in Nodes : holds'[x][n] \in Known'
    BY <1>4, <2>1, AttachFacts, PartNames, DataKnown DEF NodeInv, Others, Becomes,
       Ended, NameMoves, Only, Disturbs, Marked, Forgets, Gives, Share, Index
  <2>4. \A x \in Parts : dir'[x] \in Known' /\ tmp'[x] \in Known'
    BY <1>4, <2>1, AttachFacts, PartNames DEF NodeInv, Others, Becomes, Ended,
       NameMoves, Only, Disturbs, Marked, Forgets, Gives, Cur, Share, Data, DataOf,
       Written, Lasts, Index
  <2>5. \A q \in Procs : \A x \in Parts : at'[q][x] \in Known' /\ to'[q][x] \in Known'
    BY <1>4, <2>1, AttachFacts, PartNames DEF NodeInv, Others, Becomes, Ended,
       NameMoves, Only, Disturbs, Marked, Forgets, Gives, Cur, Share, Data, DataOf,
       Written, Lasts, Index
  <2>6. \A q \in Procs : new'[q] \in Known'
    BY <1>4, <2>1, AttachFacts, PartNames DEF NodeInv, Others, Becomes, Ended,
       NameMoves, Only, Disturbs, Marked, Forgets, Gives, Cur, Share, Data, DataOf,
       Written, Lasts, Index
  <2> QED
    BY <2>2, <2>3, <2>4, <2>5, <2>6 DEF NodeInv
<1>5. ASSUME NEW p \in Procs, FillIndex(p) PROVE NodeInv'
  <2>1. Known \subseteq Known' /\ Known' \subseteq Known \cup {made'} /\ 0 \in Known /\ made' \in Known'
    BY <1>5, FillIndexFacts, KnownFacts
  <2>2. \A n \in Nodes \ Known' : Unused(n)'
    BY <1>5, <2>1, FillIndexFacts, PartNames DEF NodeInv, Unused, Others, Becomes,
       Ended, NameMoves, Only, Disturbs, Marked, Forgets, Gives, Cur, Share, Data,
       DataOf, Written, Lasts, Index
  <2>3. \A x \in Parts : \A n \in Nodes : holds'[x][n] \in Known'
    BY <1>5, <2>1, FillIndexFacts, PartNames, DataKnown DEF NodeInv, Others, Becomes,
       Ended, NameMoves, Only, Disturbs, Marked, Forgets, Gives, Share, Index
  <2>4. \A x \in Parts : dir'[x] \in Known' /\ tmp'[x] \in Known'
    BY <1>5, <2>1, FillIndexFacts, PartNames DEF NodeInv, Others, Becomes, Ended,
       NameMoves, Only, Disturbs, Marked, Forgets, Gives, Cur, Share, Data, DataOf,
       Written, Lasts, Index
  <2>5. \A q \in Procs : \A x \in Parts : at'[q][x] \in Known' /\ to'[q][x] \in Known'
    BY <1>5, <2>1, FillIndexFacts, PartNames DEF NodeInv, Others, Becomes, Ended,
       NameMoves, Only, Disturbs, Marked, Forgets, Gives, Cur, Share, Data, DataOf,
       Written, Lasts, Index
  <2>6. \A q \in Procs : new'[q] \in Known'
    BY <1>5, <2>1, FillIndexFacts, PartNames DEF NodeInv, Others, Becomes, Ended,
       NameMoves, Only, Disturbs, Marked, Forgets, Gives, Cur, Share, Data, DataOf,
       Written, Lasts, Index
  <2> QED
    BY <2>2, <2>3, <2>4, <2>5, <2>6 DEF NodeInv
<1>6. ASSUME NEW p \in Procs, FillPages(p) PROVE NodeInv'
  <2>1. Known \subseteq Known' /\ Known' \subseteq Known \cup {made'} /\ 0 \in Known /\ made' \in Known'
    BY <1>6, FillPagesFacts, KnownFacts
  <2>2. \A n \in Nodes \ Known' : Unused(n)'
    BY <1>6, <2>1, FillPagesFacts, PartNames DEF NodeInv, Unused, Others, Becomes,
       Ended, NameMoves, Only, Disturbs, Marked, Forgets, Gives, Cur, Share, Data,
       DataOf, Written, Lasts, Index
  <2>3. \A x \in Parts : \A n \in Nodes : holds'[x][n] \in Known'
    BY <1>6, <2>1, FillPagesFacts, PartNames, DataKnown DEF NodeInv, Others, Becomes,
       Ended, NameMoves, Only, Disturbs, Marked, Forgets, Gives, Share, Index
  <2>4. \A x \in Parts : dir'[x] \in Known' /\ tmp'[x] \in Known'
    BY <1>6, <2>1, FillPagesFacts, PartNames DEF NodeInv, Others, Becomes, Ended,
       NameMoves, Only, Disturbs, Marked, Forgets, Gives, Cur, Share, Data, DataOf,
       Written, Lasts, Index
  <2>5. \A q \in Procs : \A x \in Parts : at'[q][x] \in Known' /\ to'[q][x] \in Known'
    BY <1>6, <2>1, FillPagesFacts, PartNames DEF NodeInv, Others, Becomes, Ended,
       NameMoves, Only, Disturbs, Marked, Forgets, Gives, Cur, Share, Data, DataOf,
       Written, Lasts, Index
  <2>6. \A q \in Procs : new'[q] \in Known'
    BY <1>6, <2>1, FillPagesFacts, PartNames DEF NodeInv, Others, Becomes, Ended,
       NameMoves, Only, Disturbs, Marked, Forgets, Gives, Cur, Share, Data, DataOf,
       Written, Lasts, Index
  <2> QED
    BY <2>2, <2>3, <2>4, <2>5, <2>6 DEF NodeInv
<1>7. ASSUME NEW p \in Procs, FillPagesFile(p) PROVE NodeInv'
  <2>1. Known \subseteq Known' /\ Known' \subseteq Known \cup {made'} /\ 0 \in Known /\ made' \in Known'
    BY <1>7, FillPagesFileFacts, KnownFacts
  <2>2. \A n \in Nodes \ Known' : Unused(n)'
    BY <1>7, <2>1, FillPagesFileFacts, PartNames DEF NodeInv, Unused, Others, Becomes,
       Ended, NameMoves, Only, Disturbs, Marked, Forgets, Gives, Cur, Share, Data,
       DataOf, Written, Lasts, Index
  <2>3. \A x \in Parts : \A n \in Nodes : holds'[x][n] \in Known'
    BY <1>7, <2>1, FillPagesFileFacts, PartNames, DataKnown DEF NodeInv, Others,
       Becomes, Ended, NameMoves, Only, Disturbs, Marked, Forgets, Gives, Share, Index
  <2>4. \A x \in Parts : dir'[x] \in Known' /\ tmp'[x] \in Known'
    BY <1>7, <2>1, FillPagesFileFacts, PartNames DEF NodeInv, Others, Becomes, Ended,
       NameMoves, Only, Disturbs, Marked, Forgets, Gives, Cur, Share, Data, DataOf,
       Written, Lasts, Index
  <2>5. \A q \in Procs : \A x \in Parts : at'[q][x] \in Known' /\ to'[q][x] \in Known'
    BY <1>7, <2>1, FillPagesFileFacts, PartNames DEF NodeInv, Others, Becomes, Ended,
       NameMoves, Only, Disturbs, Marked, Forgets, Gives, Cur, Share, Data, DataOf,
       Written, Lasts, Index
  <2>6. \A q \in Procs : new'[q] \in Known'
    BY <1>7, <2>1, FillPagesFileFacts, PartNames DEF NodeInv, Others, Becomes, Ended,
       NameMoves, Only, Disturbs, Marked, Forgets, Gives, Cur, Share, Data, DataOf,
       Written, Lasts, Index
  <2> QED
    BY <2>2, <2>3, <2>4, <2>5, <2>6 DEF NodeInv
<1>8. ASSUME NEW p \in Procs, CallStart(p) PROVE NodeInv'
  <2>1. Known \subseteq Known' /\ Known' \subseteq Known \cup {made'} /\ 0 \in Known /\ made' \in Known'
    BY <1>8, CallStartFacts, KnownFacts
  <2>2. \A n \in Nodes \ Known' : Unused(n)'
    BY <1>8, <2>1, CallStartFacts, PartNames DEF NodeInv, Unused, Others, Becomes,
       Ended, NameMoves, Only, Disturbs, Marked, Forgets, Gives, Cur, Share, Data,
       DataOf, Written, Lasts, Index
  <2>3. \A x \in Parts : \A n \in Nodes : holds'[x][n] \in Known'
    BY <1>8, <2>1, CallStartFacts, PartNames, DataKnown DEF NodeInv, Others, Becomes,
       Ended, NameMoves, Only, Disturbs, Marked, Forgets, Gives, Share, Index
  <2>4. \A x \in Parts : dir'[x] \in Known' /\ tmp'[x] \in Known'
    BY <1>8, <2>1, CallStartFacts, PartNames DEF NodeInv, Others, Becomes, Ended,
       NameMoves, Only, Disturbs, Marked, Forgets, Gives, Cur, Share, Data, DataOf,
       Written, Lasts, Index
  <2>5. \A q \in Procs : \A x \in Parts : at'[q][x] \in Known' /\ to'[q][x] \in Known'
    BY <1>8, <2>1, CallStartFacts, PartNames DEF NodeInv, Others, Becomes, Ended,
       NameMoves, Only, Disturbs, Marked, Forgets, Gives, Cur, Share, Data, DataOf,
       Written, Lasts, Index
  <2>6. \A q \in Procs : new'[q] \in Known'
    BY <1>8, <2>1, CallStartFacts, PartNames DEF NodeInv, Others, Becomes, Ended,
       NameMoves, Only, Disturbs, Marked, Forgets, Gives, Cur, Share, Data, DataOf,
       Written, Lasts, Index
  <2> QED
    BY <2>2, <2>3, <2>4, <2>5, <2>6 DEF NodeInv
<1>9. ASSUME NEW p \in Procs, CheckBad(p) PROVE NodeInv'
  <2>1. Known \subseteq Known' /\ Known' \subseteq Known \cup {made'} /\ 0 \in Known /\ made' \in Known'
    BY <1>9, CheckBadFacts, KnownFacts
  <2>2. \A n \in Nodes \ Known' : Unused(n)'
    BY <1>9, <2>1, CheckBadFacts, PartNames DEF NodeInv, Unused, Others, Becomes, Ended,
       NameMoves, Only, Disturbs, Marked, Forgets, Gives, Cur, Share, Data, DataOf,
       Written, Lasts, Index
  <2>3. \A x \in Parts : \A n \in Nodes : holds'[x][n] \in Known'
    BY <1>9, <2>1, CheckBadFacts, PartNames, DataKnown DEF NodeInv, Others, Becomes,
       Ended, NameMoves, Only, Disturbs, Marked, Forgets, Gives, Share, Index
  <2>4. \A x \in Parts : dir'[x] \in Known' /\ tmp'[x] \in Known'
    BY <1>9, <2>1, CheckBadFacts, PartNames DEF NodeInv, Others, Becomes, Ended,
       NameMoves, Only, Disturbs, Marked, Forgets, Gives, Cur, Share, Data, DataOf,
       Written, Lasts, Index
  <2>5. \A q \in Procs : \A x \in Parts : at'[q][x] \in Known' /\ to'[q][x] \in Known'
    BY <1>9, <2>1, CheckBadFacts, PartNames DEF NodeInv, Others, Becomes, Ended,
       NameMoves, Only, Disturbs, Marked, Forgets, Gives, Cur, Share, Data, DataOf,
       Written, Lasts, Index
  <2>6. \A q \in Procs : new'[q] \in Known'
    BY <1>9, <2>1, CheckBadFacts, PartNames DEF NodeInv, Others, Becomes, Ended,
       NameMoves, Only, Disturbs, Marked, Forgets, Gives, Cur, Share, Data, DataOf,
       Written, Lasts, Index
  <2> QED
    BY <2>2, <2>3, <2>4, <2>5, <2>6 DEF NodeInv
<1>10. ASSUME NEW p \in Procs, MutexLock(p) PROVE NodeInv'
  <2>1. Known \subseteq Known' /\ Known' \subseteq Known \cup {made'} /\ 0 \in Known /\ made' \in Known'
    BY <1>10, MutexLockFacts, KnownFacts
  <2>2. \A n \in Nodes \ Known' : Unused(n)'
    BY <1>10, <2>1, MutexLockFacts, PartNames DEF NodeInv, Unused, Others, Becomes,
       Ended, NameMoves, Only, Disturbs, Marked, Forgets, Gives, Cur, Share, Data,
       DataOf, Written, Lasts, Index
  <2>3. \A x \in Parts : \A n \in Nodes : holds'[x][n] \in Known'
    BY <1>10, <2>1, MutexLockFacts, PartNames, DataKnown DEF NodeInv, Others, Becomes,
       Ended, NameMoves, Only, Disturbs, Marked, Forgets, Gives, Share, Index
  <2>4. \A x \in Parts : dir'[x] \in Known' /\ tmp'[x] \in Known'
    BY <1>10, <2>1, MutexLockFacts, PartNames DEF NodeInv, Others, Becomes, Ended,
       NameMoves, Only, Disturbs, Marked, Forgets, Gives, Cur, Share, Data, DataOf,
       Written, Lasts, Index
  <2>5. \A q \in Procs : \A x \in Parts : at'[q][x] \in Known' /\ to'[q][x] \in Known'
    BY <1>10, <2>1, MutexLockFacts, PartNames DEF NodeInv, Others, Becomes, Ended,
       NameMoves, Only, Disturbs, Marked, Forgets, Gives, Cur, Share, Data, DataOf,
       Written, Lasts, Index
  <2>6. \A q \in Procs : new'[q] \in Known'
    BY <1>10, <2>1, MutexLockFacts, PartNames DEF NodeInv, Others, Becomes, Ended,
       NameMoves, Only, Disturbs, Marked, Forgets, Gives, Cur, Share, Data, DataOf,
       Written, Lasts, Index
  <2> QED
    BY <2>2, <2>3, <2>4, <2>5, <2>6 DEF NodeInv
<1>11. ASSUME NEW p \in Procs, CallEnd(p) PROVE NodeInv'
  <2>1. Known \subseteq Known' /\ Known' \subseteq Known \cup {made'} /\ 0 \in Known /\ made' \in Known'
    BY <1>11, CallEndFacts, KnownFacts
  <2>2. \A n \in Nodes \ Known' : Unused(n)'
    BY <1>11, <2>1, CallEndFacts, PartNames DEF NodeInv, Unused, Others, Becomes, Ended,
       NameMoves, Only, Disturbs, Marked, Forgets, Gives, Cur, Share, Data, DataOf,
       Written, Lasts, Index
  <2>3. \A x \in Parts : \A n \in Nodes : holds'[x][n] \in Known'
    BY <1>11, <2>1, CallEndFacts, PartNames, DataKnown DEF NodeInv, Others, Becomes,
       Ended, NameMoves, Only, Disturbs, Marked, Forgets, Gives, Share, Index
  <2>4. \A x \in Parts : dir'[x] \in Known' /\ tmp'[x] \in Known'
    BY <1>11, <2>1, CallEndFacts, PartNames DEF NodeInv, Others, Becomes, Ended,
       NameMoves, Only, Disturbs, Marked, Forgets, Gives, Cur, Share, Data, DataOf,
       Written, Lasts, Index
  <2>5. \A q \in Procs : \A x \in Parts : at'[q][x] \in Known' /\ to'[q][x] \in Known'
    BY <1>11, <2>1, CallEndFacts, PartNames DEF NodeInv, Others, Becomes, Ended,
       NameMoves, Only, Disturbs, Marked, Forgets, Gives, Cur, Share, Data, DataOf,
       Written, Lasts, Index
  <2>6. \A q \in Procs : new'[q] \in Known'
    BY <1>11, <2>1, CallEndFacts, PartNames DEF NodeInv, Others, Becomes, Ended,
       NameMoves, Only, Disturbs, Marked, Forgets, Gives, Cur, Share, Data, DataOf,
       Written, Lasts, Index
  <2> QED
    BY <2>2, <2>3, <2>4, <2>5, <2>6 DEF NodeInv
<1>12. ASSUME NEW p \in Procs, Unlink(p) PROVE NodeInv'
  <2>1. Known \subseteq Known' /\ Known' \subseteq Known \cup {made'} /\ 0 \in Known /\ made' \in Known'
    BY <1>12, UnlinkFacts, KnownFacts
  <2>2. \A n \in Nodes \ Known' : Unused(n)'
    BY <1>12, <2>1, UnlinkFacts, PartNames DEF NodeInv, Unused, Others, Becomes, Ended,
       NameMoves, Only, Disturbs, Marked, Forgets, Gives, Cur, Share, Data, DataOf,
       Written, Lasts, Index
  <2>3. \A x \in Parts : \A n \in Nodes : holds'[x][n] \in Known'
    BY <1>12, <2>1, UnlinkFacts, PartNames, DataKnown DEF NodeInv, Others, Becomes,
       Ended, NameMoves, Only, Disturbs, Marked, Forgets, Gives, Share, Index
  <2>4. \A x \in Parts : dir'[x] \in Known' /\ tmp'[x] \in Known'
    BY <1>12, <2>1, UnlinkFacts, PartNames DEF NodeInv, Others, Becomes, Ended,
       NameMoves, Only, Disturbs, Marked, Forgets, Gives, Cur, Share, Data, DataOf,
       Written, Lasts, Index
  <2>5. \A q \in Procs : \A x \in Parts : at'[q][x] \in Known' /\ to'[q][x] \in Known'
    BY <1>12, <2>1, UnlinkFacts, PartNames DEF NodeInv, Others, Becomes, Ended,
       NameMoves, Only, Disturbs, Marked, Forgets, Gives, Cur, Share, Data, DataOf,
       Written, Lasts, Index
  <2>6. \A q \in Procs : new'[q] \in Known'
    BY <1>12, <2>1, UnlinkFacts, PartNames DEF NodeInv, Others, Becomes, Ended,
       NameMoves, Only, Disturbs, Marked, Forgets, Gives, Cur, Share, Data, DataOf,
       Written, Lasts, Index
  <2> QED
    BY <2>2, <2>3, <2>4, <2>5, <2>6 DEF NodeInv
<1>13. ASSUME NEW p \in Procs, CreateStart(p) PROVE NodeInv'
  <2>1. Known \subseteq Known' /\ Known' \subseteq Known \cup {made'} /\ 0 \in Known /\ made' \in Known'
    BY <1>13, CreateStartFacts, KnownFacts
  <2>2. \A n \in Nodes \ Known' : Unused(n)'
    BY <1>13, <2>1, CreateStartFacts, PartNames DEF NodeInv, Unused, Others, Becomes,
       Ended, NameMoves, Only, Disturbs, Marked, Forgets, Gives, Cur, Share, Data,
       DataOf, Written, Lasts, Index
  <2>3. \A x \in Parts : \A n \in Nodes : holds'[x][n] \in Known'
    BY <1>13, <2>1, CreateStartFacts, PartNames, DataKnown DEF NodeInv, Others, Becomes,
       Ended, NameMoves, Only, Disturbs, Marked, Forgets, Gives, Share, Index
  <2>4. \A x \in Parts : dir'[x] \in Known' /\ tmp'[x] \in Known'
    BY <1>13, <2>1, CreateStartFacts, PartNames DEF NodeInv, Others, Becomes, Ended,
       NameMoves, Only, Disturbs, Marked, Forgets, Gives, Cur, Share, Data, DataOf,
       Written, Lasts, Index
  <2>5. \A q \in Procs : \A x \in Parts : at'[q][x] \in Known' /\ to'[q][x] \in Known'
    BY <1>13, <2>1, CreateStartFacts, PartNames DEF NodeInv, Others, Becomes, Ended,
       NameMoves, Only, Disturbs, Marked, Forgets, Gives, Cur, Share, Data, DataOf,
       Written, Lasts, Index
  <2>6. \A q \in Procs : new'[q] \in Known'
    BY <1>13, <2>1, CreateStartFacts, PartNames DEF NodeInv, Others, Becomes, Ended,
       NameMoves, Only, Disturbs, Marked, Forgets, Gives, Cur, Share, Data, DataOf,
       Written, Lasts, Index
  <2> QED
    BY <2>2, <2>3, <2>4, <2>5, <2>6 DEF NodeInv
<1>14. ASSUME NEW p \in Procs, CreateParts(p) PROVE NodeInv'
  <2>1. Known \subseteq Known' /\ Known' \subseteq Known \cup {made'} /\ 0 \in Known /\ made' \in Known'
    BY <1>14, CreatePartsFacts, KnownFacts
  <2>2. \A n \in Nodes \ Known' : Unused(n)'
    BY <1>14, <2>1, CreatePartsFacts, PartNames DEF NodeInv, Unused, Others, Becomes,
       Ended, NameMoves, Only, Disturbs, Marked, Forgets, Gives, Cur, Share, Data,
       DataOf, Written, Lasts, Index
  <2>3. \A x \in Parts : \A n \in Nodes : holds'[x][n] \in Known'
    BY <1>14, <2>1, CreatePartsFacts, PartNames, DataKnown DEF NodeInv, Others, Becomes,
       Ended, NameMoves, Only, Disturbs, Marked, Forgets, Gives, Share, Index
  <2>4. \A x \in Parts : dir'[x] \in Known' /\ tmp'[x] \in Known'
    BY <1>14, <2>1, CreatePartsFacts, PartNames DEF NodeInv, Others, Becomes, Ended,
       NameMoves, Only, Disturbs, Marked, Forgets, Gives, Cur, Share, Data, DataOf,
       Written, Lasts, Index
  <2>5. \A q \in Procs : \A x \in Parts : at'[q][x] \in Known' /\ to'[q][x] \in Known'
    BY <1>14, <2>1, CreatePartsFacts, PartNames DEF NodeInv, Others, Becomes, Ended,
       NameMoves, Only, Disturbs, Marked, Forgets, Gives, Cur, Share, Data, DataOf,
       Written, Lasts, Index
  <2>6. \A q \in Procs : new'[q] \in Known'
    BY <1>14, <2>1, CreatePartsFacts, PartNames DEF NodeInv, Others, Becomes, Ended,
       NameMoves, Only, Disturbs, Marked, Forgets, Gives, Cur, Share, Data, DataOf,
       Written, Lasts, Index
  <2> QED
    BY <2>2, <2>3, <2>4, <2>5, <2>6 DEF NodeInv
<1>15. ASSUME NEW p \in Procs, CreateRefused(p) PROVE NodeInv'
  <2>1. Known \subseteq Known' /\ Known' \subseteq Known \cup {made'} /\ 0 \in Known /\ made' \in Known'
    BY <1>15, CreateRefusedFacts, KnownFacts
  <2>2. \A n \in Nodes \ Known' : Unused(n)'
    BY <1>15, <2>1, CreateRefusedFacts, PartNames DEF NodeInv, Unused, Others, Becomes,
       Ended, NameMoves, Only, Disturbs, Marked, Forgets, Gives, Cur, Share, Data,
       DataOf, Written, Lasts, Index
  <2>3. \A x \in Parts : \A n \in Nodes : holds'[x][n] \in Known'
    BY <1>15, <2>1, CreateRefusedFacts, PartNames, DataKnown DEF NodeInv, Others,
       Becomes, Ended, NameMoves, Only, Disturbs, Marked, Forgets, Gives, Share, Index
  <2>4. \A x \in Parts : dir'[x] \in Known' /\ tmp'[x] \in Known'
    BY <1>15, <2>1, CreateRefusedFacts, PartNames DEF NodeInv, Others, Becomes, Ended,
       NameMoves, Only, Disturbs, Marked, Forgets, Gives, Cur, Share, Data, DataOf,
       Written, Lasts, Index
  <2>5. \A q \in Procs : \A x \in Parts : at'[q][x] \in Known' /\ to'[q][x] \in Known'
    BY <1>15, <2>1, CreateRefusedFacts, PartNames DEF NodeInv, Others, Becomes, Ended,
       NameMoves, Only, Disturbs, Marked, Forgets, Gives, Cur, Share, Data, DataOf,
       Written, Lasts, Index
  <2>6. \A q \in Procs : new'[q] \in Known'
    BY <1>15, <2>1, CreateRefusedFacts, PartNames DEF NodeInv, Others, Becomes, Ended,
       NameMoves, Only, Disturbs, Marked, Forgets, Gives, Cur, Share, Data, DataOf,
       Written, Lasts, Index
  <2> QED
    BY <2>2, <2>3, <2>4, <2>5, <2>6 DEF NodeInv
<1>16. ASSUME NEW p \in Procs, LoadEnds(p) PROVE NodeInv'
  <2>1. Known \subseteq Known' /\ Known' \subseteq Known \cup {made'} /\ 0 \in Known /\ made' \in Known'
    BY <1>16, LoadEndsFacts, KnownFacts
  <2>2. \A n \in Nodes \ Known' : Unused(n)'
    BY <1>16, <2>1, LoadEndsFacts, PartNames DEF NodeInv, Unused, Others, Becomes,
       Ended, NameMoves, Only, Disturbs, Marked, Forgets, Gives, Cur, Share, Data,
       DataOf, Written, Lasts, Index
  <2>3. \A x \in Parts : \A n \in Nodes : holds'[x][n] \in Known'
    BY <1>16, <2>1, LoadEndsFacts, PartNames, DataKnown DEF NodeInv, Others, Becomes,
       Ended, NameMoves, Only, Disturbs, Marked, Forgets, Gives, Share, Index
  <2>4. \A x \in Parts : dir'[x] \in Known' /\ tmp'[x] \in Known'
    BY <1>16, <2>1, LoadEndsFacts, PartNames DEF NodeInv, Others, Becomes, Ended,
       NameMoves, Only, Disturbs, Marked, Forgets, Gives, Cur, Share, Data, DataOf,
       Written, Lasts, Index
  <2>5. \A q \in Procs : \A x \in Parts : at'[q][x] \in Known' /\ to'[q][x] \in Known'
    BY <1>16, <2>1, LoadEndsFacts, PartNames DEF NodeInv, Others, Becomes, Ended,
       NameMoves, Only, Disturbs, Marked, Forgets, Gives, Cur, Share, Data, DataOf,
       Written, Lasts, Index
  <2>6. \A q \in Procs : new'[q] \in Known'
    BY <1>16, <2>1, LoadEndsFacts, PartNames DEF NodeInv, Others, Becomes, Ended,
       NameMoves, Only, Disturbs, Marked, Forgets, Gives, Cur, Share, Data, DataOf,
       Written, Lasts, Index
  <2> QED
    BY <2>2, <2>3, <2>4, <2>5, <2>6 DEF NodeInv
<1>17. ASSUME NEW p \in Procs, MoveAway(p) PROVE NodeInv'
  <2>1. Known \subseteq Known' /\ Known' \subseteq Known \cup {made'} /\ 0 \in Known /\ made' \in Known'
    BY <1>17, MoveAwayFacts, KnownFacts
  <2>2. \A n \in Nodes \ Known' : Unused(n)'
    BY <1>17, <2>1, MoveAwayFacts, PartNames DEF NodeInv, Unused, Others, Becomes,
       Ended, NameMoves, Only, Disturbs, Marked, Forgets, Gives, Cur, Share, Data,
       DataOf, Written, Lasts, Index
  <2>3. \A x \in Parts : \A n \in Nodes : holds'[x][n] \in Known'
    BY <1>17, <2>1, MoveAwayFacts, PartNames, DataKnown DEF NodeInv, Others, Becomes,
       Ended, NameMoves, Only, Disturbs, Marked, Forgets, Gives, Share, Index
  <2>4. \A x \in Parts : dir'[x] \in Known' /\ tmp'[x] \in Known'
    BY <1>17, <2>1, MoveAwayFacts, PartNames DEF NodeInv, Others, Becomes, Ended,
       NameMoves, Only, Disturbs, Marked, Forgets, Gives, Cur, Share, Data, DataOf,
       Written, Lasts, Index
  <2>5. \A q \in Procs : \A x \in Parts : at'[q][x] \in Known' /\ to'[q][x] \in Known'
    BY <1>17, <2>1, MoveAwayFacts, PartNames DEF NodeInv, Others, Becomes, Ended,
       NameMoves, Only, Disturbs, Marked, Forgets, Gives, Cur, Share, Data, DataOf,
       Written, Lasts, Index
  <2>6. \A q \in Procs : new'[q] \in Known'
    BY <1>17, <2>1, MoveAwayFacts, PartNames DEF NodeInv, Others, Becomes, Ended,
       NameMoves, Only, Disturbs, Marked, Forgets, Gives, Cur, Share, Data, DataOf,
       Written, Lasts, Index
  <2> QED
    BY <2>2, <2>3, <2>4, <2>5, <2>6 DEF NodeInv
<1>18. ASSUME NEW p \in Procs, Rename(p) PROVE NodeInv'
  <2>1. Known \subseteq Known' /\ Known' \subseteq Known \cup {made'} /\ 0 \in Known /\ made' \in Known'
    BY <1>18, RenameFacts, KnownFacts
  <2>2. \A n \in Nodes \ Known' : Unused(n)'
    BY <1>18, <2>1, RenameFacts, PartNames DEF NodeInv, Unused, Others, Becomes, Ended,
       NameMoves, Only, Disturbs, Marked, Forgets, Gives, Cur, Share, Data, DataOf,
       Written, Lasts, Index
  <2>3. \A x \in Parts : \A n \in Nodes : holds'[x][n] \in Known'
    BY <1>18, <2>1, RenameFacts, PartNames, DataKnown DEF NodeInv, Others, Becomes,
       Ended, NameMoves, Only, Disturbs, Marked, Forgets, Gives, Share, Index
  <2>4. \A x \in Parts : dir'[x] \in Known' /\ tmp'[x] \in Known'
    BY <1>18, <2>1, RenameFacts, PartNames DEF NodeInv, Others, Becomes, Ended,
       NameMoves, Only, Disturbs, Marked, Forgets, Gives, Cur, Share, Data, DataOf,
       Written, Lasts, Index
  <2>5. \A q \in Procs : \A x \in Parts : at'[q][x] \in Known' /\ to'[q][x] \in Known'
    BY <1>18, <2>1, RenameFacts, PartNames DEF NodeInv, Others, Becomes, Ended,
       NameMoves, Only, Disturbs, Marked, Forgets, Gives, Cur, Share, Data, DataOf,
       Written, Lasts, Index
  <2>6. \A q \in Procs : new'[q] \in Known'
    BY <1>18, <2>1, RenameFacts, PartNames DEF NodeInv, Others, Becomes, Ended,
       NameMoves, Only, Disturbs, Marked, Forgets, Gives, Cur, Share, Data, DataOf,
       Written, Lasts, Index
  <2> QED
    BY <2>2, <2>3, <2>4, <2>5, <2>6 DEF NodeInv
<1>19. ASSUME NEW p \in Procs, Retire(p) PROVE NodeInv'
  <2>1. Known \subseteq Known' /\ Known' \subseteq Known \cup {made'} /\ 0 \in Known /\ made' \in Known'
    BY <1>19, RetireFacts, KnownFacts
  <2>2. \A n \in Nodes \ Known' : Unused(n)'
    BY <1>19, <2>1, RetireFacts, PartNames DEF NodeInv, Unused, Others, Becomes, Ended,
       NameMoves, Only, Disturbs, Marked, Forgets, Gives, Cur, Share, Data, DataOf,
       Written, Lasts, Index
  <2>3. \A x \in Parts : \A n \in Nodes : holds'[x][n] \in Known'
    BY <1>19, <2>1, RetireFacts, PartNames, DataKnown DEF NodeInv, Others, Becomes,
       Ended, NameMoves, Only, Disturbs, Marked, Forgets, Gives, Share, Index
  <2>4. \A x \in Parts : dir'[x] \in Known' /\ tmp'[x] \in Known'
    BY <1>19, <2>1, RetireFacts, PartNames DEF NodeInv, Others, Becomes, Ended,
       NameMoves, Only, Disturbs, Marked, Forgets, Gives, Cur, Share, Data, DataOf,
       Written, Lasts, Index
  <2>5. \A q \in Procs : \A x \in Parts : at'[q][x] \in Known' /\ to'[q][x] \in Known'
    BY <1>19, <2>1, RetireFacts, PartNames DEF NodeInv, Others, Becomes, Ended,
       NameMoves, Only, Disturbs, Marked, Forgets, Gives, Cur, Share, Data, DataOf,
       Written, Lasts, Index
  <2>6. \A q \in Procs : new'[q] \in Known'
    BY <1>19, <2>1, RetireFacts, PartNames DEF NodeInv, Others, Becomes, Ended,
       NameMoves, Only, Disturbs, Marked, Forgets, Gives, Cur, Share, Data, DataOf,
       Written, Lasts, Index
  <2> QED
    BY <2>2, <2>3, <2>4, <2>5, <2>6 DEF NodeInv
<1>20. ASSUME NEW p \in Procs, Finish(p) PROVE NodeInv'
  <2>1. Known \subseteq Known' /\ Known' \subseteq Known \cup {made'} /\ 0 \in Known /\ made' \in Known'
    BY <1>20, FinishFacts, KnownFacts
  <2>2. \A n \in Nodes \ Known' : Unused(n)'
    BY <1>20, <2>1, FinishFacts, PartNames DEF NodeInv, Unused, Others, Becomes, Ended,
       NameMoves, Only, Disturbs, Marked, Forgets, Gives, Cur, Share, Data, DataOf,
       Written, Lasts, Index
  <2>3. \A x \in Parts : \A n \in Nodes : holds'[x][n] \in Known'
    BY <1>20, <2>1, FinishFacts, PartNames, DataKnown DEF NodeInv, Others, Becomes,
       Ended, NameMoves, Only, Disturbs, Marked, Forgets, Gives, Share, Index
  <2>4. \A x \in Parts : dir'[x] \in Known' /\ tmp'[x] \in Known'
    BY <1>20, <2>1, FinishFacts, PartNames DEF NodeInv, Others, Becomes, Ended,
       NameMoves, Only, Disturbs, Marked, Forgets, Gives, Cur, Share, Data, DataOf,
       Written, Lasts, Index
  <2>5. \A q \in Procs : \A x \in Parts : at'[q][x] \in Known' /\ to'[q][x] \in Known'
    BY <1>20, <2>1, FinishFacts, PartNames DEF NodeInv, Others, Becomes, Ended,
       NameMoves, Only, Disturbs, Marked, Forgets, Gives, Cur, Share, Data, DataOf,
       Written, Lasts, Index
  <2>6. \A q \in Procs : new'[q] \in Known'
    BY <1>20, <2>1, FinishFacts, PartNames DEF NodeInv, Others, Becomes, Ended,
       NameMoves, Only, Disturbs, Marked, Forgets, Gives, Cur, Share, Data, DataOf,
       Written, Lasts, Index
  <2> QED
    BY <2>2, <2>3, <2>4, <2>5, <2>6 DEF NodeInv
<1>21. ASSUME NEW p \in Procs, LoadFails(p) PROVE NodeInv'
  <2>1. Known \subseteq Known' /\ Known' \subseteq Known \cup {made'} /\ 0 \in Known /\ made' \in Known'
    BY <1>21, LoadFailsFacts, KnownFacts
  <2>2. \A n \in Nodes \ Known' : Unused(n)'
    BY <1>21, <2>1, LoadFailsFacts, PartNames DEF NodeInv, Unused, Others, Becomes,
       Ended, NameMoves, Only, Disturbs, Marked, Forgets, Gives, Cur, Share, Data,
       DataOf, Written, Lasts, Index
  <2>3. \A x \in Parts : \A n \in Nodes : holds'[x][n] \in Known'
    BY <1>21, <2>1, LoadFailsFacts, PartNames, DataKnown DEF NodeInv, Others, Becomes,
       Ended, NameMoves, Only, Disturbs, Marked, Forgets, Gives, Share, Index
  <2>4. \A x \in Parts : dir'[x] \in Known' /\ tmp'[x] \in Known'
    BY <1>21, <2>1, LoadFailsFacts, PartNames DEF NodeInv, Others, Becomes, Ended,
       NameMoves, Only, Disturbs, Marked, Forgets, Gives, Cur, Share, Data, DataOf,
       Written, Lasts, Index
  <2>5. \A q \in Procs : \A x \in Parts : at'[q][x] \in Known' /\ to'[q][x] \in Known'
    BY <1>21, <2>1, LoadFailsFacts, PartNames DEF NodeInv, Others, Becomes, Ended,
       NameMoves, Only, Disturbs, Marked, Forgets, Gives, Cur, Share, Data, DataOf,
       Written, Lasts, Index
  <2>6. \A q \in Procs : new'[q] \in Known'
    BY <1>21, <2>1, LoadFailsFacts, PartNames DEF NodeInv, Others, Becomes, Ended,
       NameMoves, Only, Disturbs, Marked, Forgets, Gives, Cur, Share, Data, DataOf,
       Written, Lasts, Index
  <2> QED
    BY <2>2, <2>3, <2>4, <2>5, <2>6 DEF NodeInv
<1>22. ASSUME NEW p \in Procs, LoadDies(p) PROVE NodeInv'
  <2>1. Known \subseteq Known' /\ Known' \subseteq Known \cup {made'} /\ 0 \in Known /\ made' \in Known'
    BY <1>22, LoadDiesFacts, KnownFacts
  <2>2. \A n \in Nodes \ Known' : Unused(n)'
    BY <1>22, <2>1, LoadDiesFacts, PartNames DEF NodeInv, Unused, Others, Becomes,
       Ended, NameMoves, Only, Disturbs, Marked, Forgets, Gives, Cur, Share, Data,
       DataOf, Written, Lasts, Index
  <2>3. \A x \in Parts : \A n \in Nodes : holds'[x][n] \in Known'
    BY <1>22, <2>1, LoadDiesFacts, PartNames, DataKnown DEF NodeInv, Others, Becomes,
       Ended, NameMoves, Only, Disturbs, Marked, Forgets, Gives, Share, Index
  <2>4. \A x \in Parts : dir'[x] \in Known' /\ tmp'[x] \in Known'
    BY <1>22, <2>1, LoadDiesFacts, PartNames DEF NodeInv, Others, Becomes, Ended,
       NameMoves, Only, Disturbs, Marked, Forgets, Gives, Cur, Share, Data, DataOf,
       Written, Lasts, Index
  <2>5. \A q \in Procs : \A x \in Parts : at'[q][x] \in Known' /\ to'[q][x] \in Known'
    BY <1>22, <2>1, LoadDiesFacts, PartNames DEF NodeInv, Others, Becomes, Ended,
       NameMoves, Only, Disturbs, Marked, Forgets, Gives, Cur, Share, Data, DataOf,
       Written, Lasts, Index
  <2>6. \A q \in Procs : new'[q] \in Known'
    BY <1>22, <2>1, LoadDiesFacts, PartNames DEF NodeInv, Others, Becomes, Ended,
       NameMoves, Only, Disturbs, Marked, Forgets, Gives, Cur, Share, Data, DataOf,
       Written, Lasts, Index
  <2> QED
    BY <2>2, <2>3, <2>4, <2>5, <2>6 DEF NodeInv
<1>23. ASSUME NEW p \in Procs, UnloadStart(p) PROVE NodeInv'
  <2>1. Known \subseteq Known' /\ Known' \subseteq Known \cup {made'} /\ 0 \in Known /\ made' \in Known'
    BY <1>23, UnloadStartFacts, KnownFacts
  <2>2. \A n \in Nodes \ Known' : Unused(n)'
    BY <1>23, <2>1, UnloadStartFacts, PartNames DEF NodeInv, Unused, Others, Becomes,
       Ended, NameMoves, Only, Disturbs, Marked, Forgets, Gives, Cur, Share, Data,
       DataOf, Written, Lasts, Index
  <2>3. \A x \in Parts : \A n \in Nodes : holds'[x][n] \in Known'
    BY <1>23, <2>1, UnloadStartFacts, PartNames, DataKnown DEF NodeInv, Others, Becomes,
       Ended, NameMoves, Only, Disturbs, Marked, Forgets, Gives, Share, Index
  <2>4. \A x \in Parts : dir'[x] \in Known' /\ tmp'[x] \in Known'
    BY <1>23, <2>1, UnloadStartFacts, PartNames DEF NodeInv, Others, Becomes, Ended,
       NameMoves, Only, Disturbs, Marked, Forgets, Gives, Cur, Share, Data, DataOf,
       Written, Lasts, Index
  <2>5. \A q \in Procs : \A x \in Parts : at'[q][x] \in Known' /\ to'[q][x] \in Known'
    BY <1>23, <2>1, UnloadStartFacts, PartNames DEF NodeInv, Others, Becomes, Ended,
       NameMoves, Only, Disturbs, Marked, Forgets, Gives, Cur, Share, Data, DataOf,
       Written, Lasts, Index
  <2>6. \A q \in Procs : new'[q] \in Known'
    BY <1>23, <2>1, UnloadStartFacts, PartNames DEF NodeInv, Others, Becomes, Ended,
       NameMoves, Only, Disturbs, Marked, Forgets, Gives, Cur, Share, Data, DataOf,
       Written, Lasts, Index
  <2> QED
    BY <2>2, <2>3, <2>4, <2>5, <2>6 DEF NodeInv
<1>24. ASSUME NEW p \in Procs, Drop(p) PROVE NodeInv'
  <2>1. Known \subseteq Known' /\ Known' \subseteq Known \cup {made'} /\ 0 \in Known /\ made' \in Known'
    BY <1>24, DropFacts, KnownFacts
  <2>2. \A n \in Nodes \ Known' : Unused(n)'
    BY <1>24, <2>1, DropFacts, PartNames DEF NodeInv, Unused, Others, Becomes, Ended,
       NameMoves, Only, Disturbs, Marked, Forgets, Gives, Cur, Share, Data, DataOf,
       Written, Lasts, Index
  <2>3. \A x \in Parts : \A n \in Nodes : holds'[x][n] \in Known'
    BY <1>24, <2>1, DropFacts, PartNames, DataKnown DEF NodeInv, Others, Becomes, Ended,
       NameMoves, Only, Disturbs, Marked, Forgets, Gives, Share, Index
  <2>4. \A x \in Parts : dir'[x] \in Known' /\ tmp'[x] \in Known'
    BY <1>24, <2>1, DropFacts, PartNames DEF NodeInv, Others, Becomes, Ended, NameMoves,
       Only, Disturbs, Marked, Forgets, Gives, Cur, Share, Data, DataOf, Written, Lasts,
       Index
  <2>5. \A q \in Procs : \A x \in Parts : at'[q][x] \in Known' /\ to'[q][x] \in Known'
    BY <1>24, <2>1, DropFacts, PartNames DEF NodeInv, Others, Becomes, Ended, NameMoves,
       Only, Disturbs, Marked, Forgets, Gives, Cur, Share, Data, DataOf, Written, Lasts,
       Index
  <2>6. \A q \in Procs : new'[q] \in Known'
    BY <1>24, <2>1, DropFacts, PartNames DEF NodeInv, Others, Becomes, Ended, NameMoves,
       Only, Disturbs, Marked, Forgets, Gives, Cur, Share, Data, DataOf, Written, Lasts,
       Index
  <2> QED
    BY <2>2, <2>3, <2>4, <2>5, <2>6 DEF NodeInv
<1>25. ASSUME NEW p \in Procs, MarkDeleted(p) PROVE NodeInv'
  <2>1. Known \subseteq Known' /\ Known' \subseteq Known \cup {made'} /\ 0 \in Known /\ made' \in Known'
    BY <1>25, MarkDeletedFacts, KnownFacts
  <2>2. \A n \in Nodes \ Known' : Unused(n)'
    BY <1>25, <2>1, MarkDeletedFacts, PartNames DEF NodeInv, Unused, Others, Becomes,
       Ended, NameMoves, Only, Disturbs, Marked, Forgets, Gives, Cur, Share, Data,
       DataOf, Written, Lasts, Index
  <2>3. \A x \in Parts : \A n \in Nodes : holds'[x][n] \in Known'
    BY <1>25, <2>1, MarkDeletedFacts, PartNames, DataKnown DEF NodeInv, Others, Becomes,
       Ended, NameMoves, Only, Disturbs, Marked, Forgets, Gives, Share, Index
  <2>4. \A x \in Parts : dir'[x] \in Known' /\ tmp'[x] \in Known'
    BY <1>25, <2>1, MarkDeletedFacts, PartNames DEF NodeInv, Others, Becomes, Ended,
       NameMoves, Only, Disturbs, Marked, Forgets, Gives, Cur, Share, Data, DataOf,
       Written, Lasts, Index
  <2>5. \A q \in Procs : \A x \in Parts : at'[q][x] \in Known' /\ to'[q][x] \in Known'
    BY <1>25, <2>1, MarkDeletedFacts, PartNames DEF NodeInv, Others, Becomes, Ended,
       NameMoves, Only, Disturbs, Marked, Forgets, Gives, Cur, Share, Data, DataOf,
       Written, Lasts, Index
  <2>6. \A q \in Procs : new'[q] \in Known'
    BY <1>25, <2>1, MarkDeletedFacts, PartNames DEF NodeInv, Others, Becomes, Ended,
       NameMoves, Only, Disturbs, Marked, Forgets, Gives, Cur, Share, Data, DataOf,
       Written, Lasts, Index
  <2> QED
    BY <2>2, <2>3, <2>4, <2>5, <2>6 DEF NodeInv
<1>26. CASE UNCHANGED vars
  BY <1>26 DEF vars, NodeInv, Unused, Known
<1> QED
  BY <1>1, <1>2, <1>3, <1>4, <1>5, <1>6, <1>7, <1>8, <1>9, <1>10, <1>11, <1>12, <1>13,
     <1>14, <1>15, <1>16, <1>17, <1>18, <1>19, <1>20, <1>21, <1>22, <1>23, <1>24, <1>25,
     <1>26 DEF Next, Steps, Starts, Links, Calls, Creates, Unloads

LEMMA InNodes ==
  ASSUME TypeOK, PlaceInv
  PROVE  \A q \in Procs :
           /\ Index(q) # 0 => Index(q) \in Nodes
           /\ aim[q] \in {"call", "unload", "delete"} => Index(q) # 0
           /\ pc[q] \in Opened => Share(q) # 0 /\ Share(q) \in Nodes
           /\ pc[q] \in Making \ {"create"} => new[q] # 0 /\ new[q] \in Nodes
           /\ q # None
<1> SUFFICES ASSUME NEW q \in Procs
             PROVE  /\ Index(q) # 0 => Index(q) \in Nodes
                    /\ aim[q] \in {"call", "unload", "delete"} => Index(q) # 0
                    /\ pc[q] \in Opened => Share(q) # 0 /\ Share(q) \in Nodes
                    /\ pc[q] \in Making \ {"create"} => new[q] # 0 /\ new[q] \in Nodes
                    /\ q # None
  OBVIOUS
<1>1. Index(q) \in 0 .. MaxNodes /\ Share(q) \in 0 .. MaxNodes /\ new[q] \in 0 .. MaxNodes
  BY RangeFacts DEF TypeOK
<1>2. \A n \in 0 .. MaxNodes : n # 0 => n \in Nodes
  BY RangeFacts
<1> QED
  BY <1>1, <1>2, ProcsAssumption DEF PlaceInv, PlaceOk

\* Who works on a set has its mutex, and the set is not marked.
LEMMA LockStep ==
  ASSUME TypeOK, PlaceInv, FileInv, FillInv, ShareInv, NewInv, LockInv, [Next]_vars
  PROVE  LockInv'
<1>1. ASSUME NEW p \in Procs, LinkStart(p) PROVE LockInv'
  BY <1>1, LinkStartFacts, ProcsAssumption, PartNames DEF LockInv, Others, Becomes,
     Ended, NameMoves, Only, Disturbs, Marked, Forgets, Dropping, Dropped, Index,
     PlaceInv, PlaceOk, Attaching
<1>2. ASSUME NEW p \in Procs, OpenIndex(p) PROVE LockInv'
  BY <1>2, OpenIndexFacts, ProcsAssumption, PartNames DEF LockInv, Others, Becomes,
     Ended, NameMoves, Only, Disturbs, Marked, Forgets, Dropping, Dropped, Index,
     PlaceInv, PlaceOk, Attaching
<1>3. ASSUME NEW p \in Procs, LockIndex(p) PROVE LockInv'
  BY <1>3, LockIndexFacts, ProcsAssumption, PartNames DEF LockInv, Others, Becomes,
     Ended, NameMoves, Only, Disturbs, Marked, Forgets, Dropping, Dropped, Index,
     PlaceInv, PlaceOk, Attaching
<1>4. ASSUME NEW p \in Procs, Attach(p) PROVE LockInv'
  BY <1>4, AttachFacts, ProcsAssumption, PartNames DEF LockInv, Others, Becomes, Ended,
     NameMoves, Only, Disturbs, Marked, Forgets, Dropping, Dropped, Index, PlaceInv,
     PlaceOk, Attaching
<1>5. ASSUME NEW p \in Procs, FillIndex(p) PROVE LockInv'
  BY <1>5, FillIndexFacts, ProcsAssumption, PartNames DEF LockInv, Others, Becomes,
     Ended, NameMoves, Only, Disturbs, Marked, Forgets, Dropping, Dropped, Index,
     PlaceInv, PlaceOk, Attaching
<1>6. ASSUME NEW p \in Procs, FillPages(p) PROVE LockInv'
  BY <1>6, FillPagesFacts, ProcsAssumption, PartNames DEF LockInv, Others, Becomes,
     Ended, NameMoves, Only, Disturbs, Marked, Forgets, Dropping, Dropped, Index,
     PlaceInv, PlaceOk, Attaching
<1>7. ASSUME NEW p \in Procs, FillPagesFile(p) PROVE LockInv'
  BY <1>7, FillPagesFileFacts, ProcsAssumption, PartNames DEF LockInv, Others, Becomes,
     Ended, NameMoves, Only, Disturbs, Marked, Forgets, Dropping, Dropped, Index,
     PlaceInv, PlaceOk, Attaching
<1>8. ASSUME NEW p \in Procs, CallStart(p) PROVE LockInv'
  BY <1>8, CallStartFacts, ProcsAssumption, PartNames DEF LockInv, Others, Becomes,
     Ended, NameMoves, Only, Disturbs, Marked, Forgets, Dropping, Dropped, Index,
     PlaceInv, PlaceOk, Attaching
<1>9. ASSUME NEW p \in Procs, CheckBad(p) PROVE LockInv'
  BY <1>9, CheckBadFacts, ProcsAssumption, PartNames DEF LockInv, Others, Becomes,
     Ended, NameMoves, Only, Disturbs, Marked, Forgets, Dropping, Dropped, Index,
     PlaceInv, PlaceOk, Attaching
<1>10. ASSUME NEW p \in Procs, MutexLock(p) PROVE LockInv'
  <2>1. ASSUME NEW q \in Procs, pc'[q] \in {"busy"} \cup Dropping \cup Dropped
        PROVE  lock'[Index(q)'] = q /\ Index(q)' \notin dead'
    <3>1. Index(q)' = Index(q) /\ dead' = dead
      BY <1>10, MutexLockFacts DEF Others, Index
    <3>2. CASE q = p
      BY <1>10, <2>1, <3>1, <3>2, MutexLockFacts DEF Becomes, Only, Dropping, Dropped
    <3>3. CASE q # p
      <4>1. pc[q] = pc'[q] /\ lock[Index(q)] = q /\ Index(q) \notin dead /\ Index(q) \in Nodes /\ q # None
        BY <1>10, <2>1, <3>3, MutexLockFacts, InNodes DEF LockInv, Others, Dropping,
           Dropped, PlaceInv, PlaceOk
      <4>2. lock'[Index(q)] = q
        BY <1>10, <4>1, MutexLockFacts DEF Only
      <4> QED
        BY <3>1, <4>1, <4>2
    <3> QED
      BY <3>2, <3>3
  <2> QED
    BY <2>1 DEF LockInv
<1>11. ASSUME NEW p \in Procs, CallEnd(p) PROVE LockInv'
  <2>1. ASSUME NEW q \in Procs, pc'[q] \in {"busy"} \cup Dropping \cup Dropped
        PROVE  lock'[Index(q)'] = q /\ Index(q)' \notin dead'
    <3>1. q # p
      BY <1>11, <2>1, CallEndFacts DEF Becomes, Dropping, Dropped
    <3>2. Index(q)' = Index(q) /\ pc[q] = pc'[q]
      BY <1>11, <3>1, CallEndFacts DEF Others, Index
    <3>3. lock[Index(q)] = q /\ Index(q) \notin dead /\ Index(q) \in Nodes
      BY <2>1, <3>2, InNodes DEF LockInv, Dropping, Dropped, PlaceInv, PlaceOk
    <3>4. lock[Index(p)] = p
      BY <1>11, CallEndFacts DEF LockInv, Dropped
    <3>5. Index(q) # Index(p)
      BY <3>1, <3>3, <3>4
    <3> QED
      BY <1>11, <3>2, <3>3, <3>5, CallEndFacts DEF Only
  <2> QED
    BY <2>1 DEF LockInv
<1>12. ASSUME NEW p \in Procs, Unlink(p) PROVE LockInv'
  BY <1>12, UnlinkFacts, ProcsAssumption, PartNames DEF LockInv, Others, Becomes, Ended,
     NameMoves, Only, Disturbs, Marked, Forgets, Dropping, Dropped, Index, PlaceInv,
     PlaceOk, Attaching
<1>13. ASSUME NEW p \in Procs, CreateStart(p) PROVE LockInv'
  BY <1>13, CreateStartFacts, ProcsAssumption, PartNames DEF LockInv, Others, Becomes,
     Ended, NameMoves, Only, Disturbs, Marked, Forgets, Dropping, Dropped, Index,
     PlaceInv, PlaceOk, Attaching
<1>14. ASSUME NEW p \in Procs, CreateParts(p) PROVE LockInv'
  BY <1>14, CreatePartsFacts, ProcsAssumption, PartNames DEF LockInv, Others, Becomes,
     Ended, NameMoves, Only, Disturbs, Marked, Forgets, Dropping, Dropped, Index,
     PlaceInv, PlaceOk, Attaching
<1>15. ASSUME NEW p \in Procs, CreateRefused(p) PROVE LockInv'
  BY <1>15, CreateRefusedFacts, ProcsAssumption, PartNames DEF LockInv, Others, Becomes,
     Ended, NameMoves, Only, Disturbs, Marked, Forgets, Dropping, Dropped, Index,
     PlaceInv, PlaceOk, Attaching
<1>16. ASSUME NEW p \in Procs, LoadEnds(p) PROVE LockInv'
  BY <1>16, LoadEndsFacts, ProcsAssumption, PartNames DEF LockInv, Others, Becomes,
     Ended, NameMoves, Only, Disturbs, Marked, Forgets, Dropping, Dropped, Index,
     PlaceInv, PlaceOk, Attaching
<1>17. ASSUME NEW p \in Procs, MoveAway(p) PROVE LockInv'
  BY <1>17, MoveAwayFacts, ProcsAssumption, PartNames DEF LockInv, Others, Becomes,
     Ended, NameMoves, Only, Disturbs, Marked, Forgets, Dropping, Dropped, Index,
     PlaceInv, PlaceOk, Attaching
<1>18. ASSUME NEW p \in Procs, Rename(p) PROVE LockInv'
  BY <1>18, RenameFacts, ProcsAssumption, PartNames DEF LockInv, Others, Becomes, Ended,
     NameMoves, Only, Disturbs, Marked, Forgets, Dropping, Dropped, Index, PlaceInv,
     PlaceOk, Attaching
<1>19. ASSUME NEW p \in Procs, Retire(p) PROVE LockInv'
  BY <1>19, RetireFacts, ProcsAssumption, PartNames DEF LockInv, Others, Becomes, Ended,
     NameMoves, Only, Disturbs, Marked, Forgets, Dropping, Dropped, Index, PlaceInv,
     PlaceOk, Attaching
<1>20. ASSUME NEW p \in Procs, Finish(p) PROVE LockInv'
  BY <1>20, FinishFacts, ProcsAssumption, PartNames DEF LockInv, Others, Becomes, Ended,
     NameMoves, Only, Disturbs, Marked, Forgets, Dropping, Dropped, Index, PlaceInv,
     PlaceOk, Attaching
<1>21. ASSUME NEW p \in Procs, LoadFails(p) PROVE LockInv'
  <2>1. \A q \in Procs : Index(q) # 0 => Index(q) # new[p]
    <3>1. gate[new[p]] = p /\ p # None
      BY <1>21, LoadFailsFacts, ProcsAssumption DEF NewInv, NewOk, Making, Before
    <3> QED
      BY <3>1 DEF ShareInv, ShareOk
  <2>2. \A q \in Procs : aim[q] \in {"call", "unload", "delete"} => Index(q) # 0
    BY DEF PlaceInv, PlaceOk
  <2> QED
    BY <1>21, <2>1, <2>2, LoadFailsFacts DEF LockInv, Others, Becomes, Dropping,
       Dropped, Index, PlaceInv, PlaceOk
<1>22. ASSUME NEW p \in Procs, LoadDies(p) PROVE LockInv'
  BY <1>22, LoadDiesFacts, ProcsAssumption, PartNames DEF LockInv, Others, Becomes,
     Ended, NameMoves, Only, Disturbs, Marked, Forgets, Dropping, Dropped, Index,
     PlaceInv, PlaceOk, Attaching
<1>23. ASSUME NEW p \in Procs, UnloadStart(p) PROVE LockInv'
  BY <1>23, UnloadStartFacts, ProcsAssumption, PartNames DEF LockInv, Others, Becomes,
     Ended, NameMoves, Only, Disturbs, Marked, Forgets, Dropping, Dropped, Index,
     PlaceInv, PlaceOk, Attaching
<1>24. ASSUME NEW p \in Procs, Drop(p) PROVE LockInv'
  BY <1>24, DropFacts, ProcsAssumption, PartNames DEF LockInv, Others, Becomes, Ended,
     NameMoves, Only, Disturbs, Marked, Forgets, Dropping, Dropped, Index, PlaceInv,
     PlaceOk, Attaching
<1>25. ASSUME NEW p \in Procs, MarkDeleted(p) PROVE LockInv'
  <2>1. ASSUME NEW q \in Procs, pc'[q] \in {"busy"} \cup Dropping \cup Dropped
        PROVE  lock'[Index(q)'] = q /\ Index(q)' \notin dead'
    <3>1. q # p
      BY <1>25, <2>1, MarkDeletedFacts DEF Becomes, Dropping, Dropped
    <3>2. Index(q)' = Index(q) /\ pc[q] = pc'[q]
      BY <1>25, <3>1, MarkDeletedFacts DEF Others, Index
    <3>3. lock[Index(q)] = q /\ Index(q) \notin dead /\ Index(q) \in Nodes
      BY <2>1, <3>2, InNodes DEF LockInv, Dropping, Dropped, PlaceInv, PlaceOk
    <3>4. lock[Index(p)] = p
      BY <1>25, MarkDeletedFacts DEF LockInv, Dropped
    <3>5. Index(q) # Index(p)
      BY <3>1, <3>3, <3>4
    <3> QED
      BY <1>25, <3>2, <3>3, <3>5, MarkDeletedFacts DEF Only
  <2> QED
    BY <2>1 DEF LockInv
<1>26. CASE UNCHANGED vars
  BY <1>26 DEF vars, LockInv, Index
<1> QED
  BY <1>1, <1>2, <1>3, <1>4, <1>5, <1>6, <1>7, <1>8, <1>9, <1>10, <1>11, <1>12, <1>13,
     <1>14, <1>15, <1>16, <1>17, <1>18, <1>19, <1>20, <1>21, <1>22, <1>23, <1>24, <1>25,
     <1>26 DEF Next, Steps, Starts, Links, Calls, Creates, Unloads

\* What a step of p may do to the shares that others have.
Steady(p) ==
  \A n \in Nodes :
    /\ gate'[n] = gate[n] \/ gate[n] = p \/ (gate[n] = None /\ Data(n) = 0)
    /\ Data(n) # 0 => Data(n)' # 0
    /\ Data(n) = 0 /\ Data(n)' # 0 => gate[n] \in {p, None}

LEMMA ShareFrame ==
  ASSUME TypeOK, PlaceInv, NEW p \in Procs, NEW o \in Procs, o # p, ShareOk(o), Others(p), Steady(p)
  PROVE  ShareOk(o)'
<1>1. /\ pc'[o] = pc[o] /\ Index(o)' = Index(o) /\ Share(o)' = Share(o) /\ o # None
      /\ Index(o) # 0 => Index(o) \in Nodes
      /\ pc[o] \in Attaching \cup Fills \cup {"fill_index"} => Share(o) \in Nodes
  BY InNodes DEF Others, Index, Share, Attaching, Fills, Opened, Opening
<1>2. \A n \in Nodes : gate[n] # p /\ Data(n) # 0 => gate'[n] = gate[n] /\ Data(n)' # 0
  BY DEF Steady
<1>3. \A n \in Nodes : gate[n] = o => gate'[n] = o /\ (Data(n) = 0 <=> Data(n)' = 0)
  BY <1>1 DEF Steady
<1>4. Index(o)' # 0 => Data(Index(o))' # 0 /\ gate'[Index(o)'] = None
  BY <1>1, <1>2, InNodes DEF ShareOk, Data
<1>5. pc'[o] \in Attaching => Data(Share(o))' # 0 /\ gate'[Share(o)'] = None
  BY <1>1, <1>2, InNodes DEF ShareOk, Data
<1>6. pc'[o] = "fill_index" => Data(Share(o))' = 0 /\ gate'[Share(o)'] = o
  BY <1>1, <1>3 DEF ShareOk, Data
<1>7. pc'[o] \in Fills => Data(Share(o))' # 0 /\ gate'[Share(o)'] = o
  BY <1>1, <1>3 DEF ShareOk, Data
<1> QED
  BY <1>4, <1>5, <1>6, <1>7 DEF ShareOk

\* Who has a share that is filled, and who fills one.
LEMMA ShareStep ==
  ASSUME TypeOK, PlaceInv, NodeInv, FileInv, FillInv, NewInv, ShareInv, [Next]_vars
  PROVE  ShareInv'
<1>1. ASSUME NEW p \in Procs, LinkStart(p) PROVE ShareInv'
  <2>1. ShareOk(p)'
    BY <1>1, LinkStartFacts, PartNames, ProcsAssumption DEF ShareInv, ShareOk, PlaceInv,
       PlaceOk, Others, Becomes, Ended, NameMoves, Only, Disturbs, Marked, Forgets,
       Gives, Cur, Share, Data, DataOf, Written, Lasts, Index, Attaching, Opened,
       Opening, Fills
  <2>2. Steady(p) /\ Others(p)
    BY <1>1, LinkStartFacts DEF Steady, Data
  <2> QED
    BY <1>1, <2>1, <2>2, ShareFrame DEF ShareInv
<1>2. ASSUME NEW p \in Procs, OpenIndex(p) PROVE ShareInv'
  <2>1. ShareOk(p)'
    BY <1>2, OpenIndexFacts, PartNames, ProcsAssumption DEF ShareInv, ShareOk, PlaceInv,
       PlaceOk, Others, Becomes, Ended, NameMoves, Only, Disturbs, Marked, Forgets,
       Gives, Cur, Share, Data, DataOf, Written, Lasts, Index, Attaching, Opened,
       Opening, Fills
  <2>2. Steady(p) /\ Others(p)
    BY <1>2, OpenIndexFacts DEF Steady, Data
  <2> QED
    BY <1>2, <2>1, <2>2, ShareFrame DEF ShareInv
<1>3. ASSUME NEW p \in Procs, LockIndex(p) PROVE ShareInv'
  <2>1. ShareOk(p)'
    <3>1. Index(p)' = Index(p) /\ (Index(p) # 0 => Index(p) \in Nodes)
      BY <1>3, LockIndexFacts, InNodes DEF Index
    <3> QED
      BY <1>3, <3>1, LockIndexFacts DEF ShareInv, ShareOk, Only, Data, Attaching, Fills,
         Share
  <2>2. Steady(p) /\ Others(p)
    <3>0. Steady(p)
    BY <1>3, LockIndexFacts DEF Steady, Only, Data
    <3> QED
      BY <1>3, <3>0, LockIndexFacts
  <2> QED
    BY <1>3, <2>1, <2>2, ShareFrame DEF ShareInv
<1>4. ASSUME NEW p \in Procs, Attach(p) PROVE ShareInv'
  <2>1. ShareOk(p)'
    BY <1>4, AttachFacts, PartNames, ProcsAssumption DEF ShareInv, ShareOk, PlaceInv,
       PlaceOk, Others, Becomes, Ended, NameMoves, Only, Disturbs, Marked, Forgets,
       Gives, Cur, Share, Data, DataOf, Written, Lasts, Index, Attaching, Opened,
       Opening, Fills
  <2>2. Steady(p) /\ Others(p)
    BY <1>4, AttachFacts DEF Steady, Data
  <2> QED
    BY <1>4, <2>1, <2>2, ShareFrame DEF ShareInv
<1>5. ASSUME NEW p \in Procs, FillIndex(p) PROVE ShareInv'
  <2>1. ShareOk(p)'
    <3>1. /\ Index(p)' = Index(p) /\ (Index(p) # 0 =>
            Index(p) \in Nodes /\ Index(p) # Share(p))
          /\ gate[Share(p)] = p /\ Data(Share(p)) = 0
      BY <1>5, FillIndexFacts, InNodes DEF Index, ShareInv, ShareOk
    <3>2. pc'[p] = "fill_pages" => Share(p)' = Share(p)
      BY <1>5, FillIndexFacts, PartNames DEF Share, NameMoves, Ended, Becomes
    <3> QED
      BY <1>5, <3>1, <3>2, FillIndexFacts DEF ShareInv, ShareOk, Only, Data, Attaching,
         Fills, Written, Becomes, Ended
  <2>2. Steady(p) /\ Others(p)
    <3>0. Steady(p)
    <4>1. gate[Share(p)] = p /\ Data(Share(p)) = 0
        BY <1>5, FillIndexFacts DEF ShareInv, ShareOk
      <4> QED
        BY <1>5, <4>1, FillIndexFacts DEF Steady, Only, Data
    <3> QED
      BY <1>5, <3>0, FillIndexFacts
  <2> QED
    BY <1>5, <2>1, <2>2, ShareFrame DEF ShareInv
<1>6. ASSUME NEW p \in Procs, FillPages(p) PROVE ShareInv'
  <2>1. ShareOk(p)'
    BY <1>6, FillPagesFacts, PartNames, ProcsAssumption DEF ShareInv, ShareOk, PlaceInv,
       PlaceOk, Others, Becomes, Ended, NameMoves, Only, Disturbs, Marked, Forgets,
       Gives, Cur, Share, Data, DataOf, Written, Lasts, Index, Attaching, Opened,
       Opening, Fills
  <2>2. Steady(p) /\ Others(p)
    <3>0. Steady(p)
    <4>1. "index_shm" \in Parts
        BY PartNames
      <4> QED
        BY <1>6, <4>1, FillPagesFacts DEF Steady, Data
    <3> QED
      BY <1>6, <3>0, FillPagesFacts
  <2> QED
    BY <1>6, <2>1, <2>2, ShareFrame DEF ShareInv
<1>7. ASSUME NEW p \in Procs, FillPagesFile(p) PROVE ShareInv'
  <2>1. ShareOk(p)'
    BY <1>7, FillPagesFileFacts, PartNames, ProcsAssumption DEF ShareInv, ShareOk,
       PlaceInv, PlaceOk, Others, Becomes, Ended, NameMoves, Only, Disturbs, Marked,
       Forgets, Gives, Cur, Share, Data, DataOf, Written, Lasts, Index, Attaching,
       Opened, Opening, Fills
  <2>2. Steady(p) /\ Others(p)
    <3>0. Steady(p)
    <4>1. gate[Share(p)] = p /\ "index_shm" \in Parts
        BY <1>7, FillPagesFileFacts, PartNames DEF ShareInv, ShareOk, Fills
      <4> QED
        BY <1>7, <4>1, FillPagesFileFacts DEF Steady, Only, Data
    <3> QED
      BY <1>7, <3>0, FillPagesFileFacts
  <2> QED
    BY <1>7, <2>1, <2>2, ShareFrame DEF ShareInv
<1>8. ASSUME NEW p \in Procs, CallStart(p) PROVE ShareInv'
  <2>1. ShareOk(p)'
    BY <1>8, CallStartFacts, PartNames, ProcsAssumption DEF ShareInv, ShareOk, PlaceInv,
       PlaceOk, Others, Becomes, Ended, NameMoves, Only, Disturbs, Marked, Forgets,
       Gives, Cur, Share, Data, DataOf, Written, Lasts, Index, Attaching, Opened,
       Opening, Fills
  <2>2. Steady(p) /\ Others(p)
    BY <1>8, CallStartFacts DEF Steady, Data
  <2> QED
    BY <1>8, <2>1, <2>2, ShareFrame DEF ShareInv
<1>9. ASSUME NEW p \in Procs, CheckBad(p) PROVE ShareInv'
  <2>1. ShareOk(p)'
    BY <1>9, CheckBadFacts, PartNames, ProcsAssumption DEF ShareInv, ShareOk, PlaceInv,
       PlaceOk, Others, Becomes, Ended, NameMoves, Only, Disturbs, Marked, Forgets,
       Gives, Cur, Share, Data, DataOf, Written, Lasts, Index, Attaching, Opened,
       Opening, Fills
  <2>2. Steady(p) /\ Others(p)
    BY <1>9, CheckBadFacts DEF Steady, Data
  <2> QED
    BY <1>9, <2>1, <2>2, ShareFrame DEF ShareInv
<1>10. ASSUME NEW p \in Procs, MutexLock(p) PROVE ShareInv'
  <2>1. ShareOk(p)'
    BY <1>10, MutexLockFacts, PartNames DEF ShareInv, ShareOk, Becomes, Locked, Index,
       Share, Data, Attaching, Fills
  <2>2. Steady(p) /\ Others(p)
    BY <1>10, MutexLockFacts DEF Steady, Data
  <2> QED
    BY <1>10, <2>1, <2>2, ShareFrame DEF ShareInv
<1>11. ASSUME NEW p \in Procs, CallEnd(p) PROVE ShareInv'
  <2>1. ShareOk(p)'
    BY <1>11, CallEndFacts, PartNames, ProcsAssumption DEF ShareInv, ShareOk, PlaceInv,
       PlaceOk, Others, Becomes, Ended, NameMoves, Only, Disturbs, Marked, Forgets,
       Gives, Cur, Share, Data, DataOf, Written, Lasts, Index, Attaching, Opened,
       Opening, Fills
  <2>2. Steady(p) /\ Others(p)
    BY <1>11, CallEndFacts DEF Steady, Data
  <2> QED
    BY <1>11, <2>1, <2>2, ShareFrame DEF ShareInv
<1>12. ASSUME NEW p \in Procs, Unlink(p) PROVE ShareInv'
  <2>1. ShareOk(p)'
    BY <1>12, UnlinkFacts, PartNames, ProcsAssumption DEF ShareInv, ShareOk, PlaceInv,
       PlaceOk, Others, Becomes, Ended, NameMoves, Only, Disturbs, Marked, Forgets,
       Gives, Cur, Share, Data, DataOf, Written, Lasts, Index, Attaching, Opened,
       Opening, Fills
  <2>2. Steady(p) /\ Others(p)
    BY <1>12, UnlinkFacts DEF Steady, Data
  <2> QED
    BY <1>12, <2>1, <2>2, ShareFrame DEF ShareInv
<1>13. ASSUME NEW p \in Procs, CreateStart(p) PROVE ShareInv'
  <2>1. ShareOk(p)'
    BY <1>13, CreateStartFacts, PartNames, ProcsAssumption DEF ShareInv, ShareOk,
       PlaceInv, PlaceOk, Others, Becomes, Ended, NameMoves, Only, Disturbs, Marked,
       Forgets, Gives, Cur, Share, Data, DataOf, Written, Lasts, Index, Attaching,
       Opened, Opening, Fills
  <2>2. Steady(p) /\ Others(p)
    BY <1>13, CreateStartFacts DEF Steady, Data
  <2> QED
    BY <1>13, <2>1, <2>2, ShareFrame DEF ShareInv
<1>14. ASSUME NEW p \in Procs, CreateParts(p) PROVE ShareInv'
  <2>1. ShareOk(p)'
    <3>1. Index(p)' = Index(p) /\ (Index(p) # 0 =>
            Index(p) \in Nodes /\ Index(p) # made')
      BY <1>14, CreatePartsFacts, KnownFacts, InNodes, PartNames DEF NodeInv, Index
    <3> QED
      BY <1>14, <3>1, CreatePartsFacts, PartNames DEF ShareInv, ShareOk, Becomes, Only,
         Data, Attaching, Fills
  <2>2. Steady(p) /\ Others(p)
    <3>0. Steady(p)
    <4>1. gate[made'] = None /\ Data(made') = 0 /\ made' \in Nodes /\ made' # 0
        BY <1>14, CreatePartsFacts, KnownFacts, PartNames DEF NodeInv, Unused, Data
      <4>2. /\ Only(gate, gate', made', p) /\ Only(holds["index_shm"], holds'["index_shm"], made', made')
        BY <1>14, CreatePartsFacts, PartNames
      <4> QED
        BY <4>1, <4>2 DEF Steady, Only, Data
    <3> QED
      BY <1>14, <3>0, CreatePartsFacts
  <2> QED
    BY <1>14, <2>1, <2>2, ShareFrame DEF ShareInv
<1>15. ASSUME NEW p \in Procs, CreateRefused(p) PROVE ShareInv'
  <2>1. ShareOk(p)'
    BY <1>15, CreateRefusedFacts, PartNames, ProcsAssumption DEF ShareInv, ShareOk,
       PlaceInv, PlaceOk, Others, Becomes, Ended, NameMoves, Only, Disturbs, Marked,
       Forgets, Gives, Cur, Share, Data, DataOf, Written, Lasts, Index, Attaching,
       Opened, Opening, Fills
  <2>2. Steady(p) /\ Others(p)
    BY <1>15, CreateRefusedFacts DEF Steady, Data
  <2> QED
    BY <1>15, <2>1, <2>2, ShareFrame DEF ShareInv
<1>16. ASSUME NEW p \in Procs, LoadEnds(p) PROVE ShareInv'
  <2>1. ShareOk(p)'
    BY <1>16, LoadEndsFacts, PartNames, ProcsAssumption DEF ShareInv, ShareOk, PlaceInv,
       PlaceOk, Others, Becomes, Ended, NameMoves, Only, Disturbs, Marked, Forgets,
       Gives, Cur, Share, Data, DataOf, Written, Lasts, Index, Attaching, Opened,
       Opening, Fills
  <2>2. Steady(p) /\ Others(p)
    BY <1>16, LoadEndsFacts DEF Steady, Data
  <2> QED
    BY <1>16, <2>1, <2>2, ShareFrame DEF ShareInv
<1>17. ASSUME NEW p \in Procs, MoveAway(p) PROVE ShareInv'
  <2>1. ShareOk(p)'
    BY <1>17, MoveAwayFacts, PartNames, ProcsAssumption DEF ShareInv, ShareOk, PlaceInv,
       PlaceOk, Others, Becomes, Ended, NameMoves, Only, Disturbs, Marked, Forgets,
       Gives, Cur, Share, Data, DataOf, Written, Lasts, Index, Attaching, Opened,
       Opening, Fills
  <2>2. Steady(p) /\ Others(p)
    BY <1>17, MoveAwayFacts DEF Steady, Data
  <2> QED
    BY <1>17, <2>1, <2>2, ShareFrame DEF ShareInv
<1>18. ASSUME NEW p \in Procs, Rename(p) PROVE ShareInv'
  <2>1. ShareOk(p)'
    BY <1>18, RenameFacts, PartNames, ProcsAssumption DEF ShareInv, ShareOk, PlaceInv,
       PlaceOk, Others, Becomes, Ended, NameMoves, Only, Disturbs, Marked, Forgets,
       Gives, Cur, Share, Data, DataOf, Written, Lasts, Index, Attaching, Opened,
       Opening, Fills
  <2>2. Steady(p) /\ Others(p)
    BY <1>18, RenameFacts DEF Steady, Data
  <2> QED
    BY <1>18, <2>1, <2>2, ShareFrame DEF ShareInv
<1>19. ASSUME NEW p \in Procs, Retire(p) PROVE ShareInv'
  <2>1. ShareOk(p)'
    BY <1>19, RetireFacts, PartNames, ProcsAssumption DEF ShareInv, ShareOk, PlaceInv,
       PlaceOk, Others, Becomes, Ended, NameMoves, Only, Disturbs, Marked, Forgets,
       Gives, Cur, Share, Data, DataOf, Written, Lasts, Index, Attaching, Opened,
       Opening, Fills
  <2>2. Steady(p) /\ Others(p)
    BY <1>19, RetireFacts DEF Steady, Data
  <2> QED
    BY <1>19, <2>1, <2>2, ShareFrame DEF ShareInv
<1>20. ASSUME NEW p \in Procs, Finish(p) PROVE ShareInv'
  <2>1. ShareOk(p)'
    <3>1. Index(p)' = new[p] /\ gate'[new[p]] = None /\ holds'["index_shm"] = holds["index_shm"]
      BY <1>20, FinishFacts, PartNames DEF Index, Only
    <3>2. Data(new[p]) # 0
      BY <1>20, FinishFacts, InNodes, PartNames DEF NewInv, NewOk, Making, Data
    <3> QED
      BY <1>20, <3>1, <3>2, FinishFacts DEF ShareOk, Becomes, Data, Attaching, Fills
  <2>2. Steady(p) /\ Others(p)
    <3>0. Steady(p)
    <4>1. gate[new[p]] = p /\ holds'["index_shm"] = holds["index_shm"]
        BY <1>20, FinishFacts, PartNames DEF NewInv, NewOk, Making
      <4> QED
        BY <1>20, <4>1, FinishFacts DEF Steady, Only, Data
    <3> QED
      BY <1>20, <3>0, FinishFacts
  <2> QED
    BY <1>20, <2>1, <2>2, ShareFrame DEF ShareInv
<1>21. ASSUME NEW p \in Procs, LoadFails(p) PROVE ShareInv'
  <2>1. ShareOk(p)'
    BY <1>21, LoadFailsFacts, PartNames, ProcsAssumption DEF ShareInv, ShareOk,
       PlaceInv, PlaceOk, Others, Becomes, Ended, NameMoves, Only, Disturbs, Marked,
       Forgets, Gives, Cur, Share, Data, DataOf, Written, Lasts, Index, Attaching,
       Opened, Opening, Fills
  <2>2. Steady(p) /\ Others(p)
    <3>0. Steady(p)
    <4>1. gate[new[p]] = p
        BY <1>21, LoadFailsFacts DEF NewInv, NewOk, Making, Before
      <4> QED
        BY <1>21, <4>1, LoadFailsFacts DEF Steady, Only, Data
    <3> QED
      BY <1>21, <3>0, LoadFailsFacts
  <2> QED
    BY <1>21, <2>1, <2>2, ShareFrame DEF ShareInv
<1>22. ASSUME NEW p \in Procs, LoadDies(p) PROVE ShareInv'
  <2>1. ShareOk(p)'
    BY <1>22, LoadDiesFacts, PartNames, ProcsAssumption DEF ShareInv, ShareOk, PlaceInv,
       PlaceOk, Others, Becomes, Ended, NameMoves, Only, Disturbs, Marked, Forgets,
       Gives, Cur, Share, Data, DataOf, Written, Lasts, Index, Attaching, Opened,
       Opening, Fills
  <2>2. Steady(p) /\ Others(p)
    <3>0. Steady(p)
    <4>1. gate[new[p]] = p
        BY <1>22, LoadDiesFacts DEF NewInv, NewOk, Making, Before
      <4> QED
        BY <1>22, <4>1, LoadDiesFacts DEF Steady, Only, Data
    <3> QED
      BY <1>22, <3>0, LoadDiesFacts
  <2> QED
    BY <1>22, <2>1, <2>2, ShareFrame DEF ShareInv
<1>23. ASSUME NEW p \in Procs, UnloadStart(p) PROVE ShareInv'
  <2>1. ShareOk(p)'
    BY <1>23, UnloadStartFacts, PartNames, ProcsAssumption DEF ShareInv, ShareOk,
       PlaceInv, PlaceOk, Others, Becomes, Ended, NameMoves, Only, Disturbs, Marked,
       Forgets, Gives, Cur, Share, Data, DataOf, Written, Lasts, Index, Attaching,
       Opened, Opening, Fills
  <2>2. Steady(p) /\ Others(p)
    BY <1>23, UnloadStartFacts DEF Steady, Data
  <2> QED
    BY <1>23, <2>1, <2>2, ShareFrame DEF ShareInv
<1>24. ASSUME NEW p \in Procs, Drop(p) PROVE ShareInv'
  <2>1. ShareOk(p)'
    BY <1>24, DropFacts, PartNames, ProcsAssumption DEF ShareInv, ShareOk, PlaceInv,
       PlaceOk, Others, Becomes, Ended, NameMoves, Only, Disturbs, Marked, Forgets,
       Gives, Cur, Share, Data, DataOf, Written, Lasts, Index, Attaching, Opened,
       Opening, Fills
  <2>2. Steady(p) /\ Others(p)
    BY <1>24, DropFacts DEF Steady, Data
  <2> QED
    BY <1>24, <2>1, <2>2, ShareFrame DEF ShareInv
<1>25. ASSUME NEW p \in Procs, MarkDeleted(p) PROVE ShareInv'
  <2>1. ShareOk(p)'
    BY <1>25, MarkDeletedFacts, PartNames, ProcsAssumption DEF ShareInv, ShareOk,
       PlaceInv, PlaceOk, Others, Becomes, Ended, NameMoves, Only, Disturbs, Marked,
       Forgets, Gives, Cur, Share, Data, DataOf, Written, Lasts, Index, Attaching,
       Opened, Opening, Fills
  <2>2. Steady(p) /\ Others(p)
    BY <1>25, MarkDeletedFacts DEF Steady, Data
  <2> QED
    BY <1>25, <2>1, <2>2, ShareFrame DEF ShareInv
<1>26. CASE UNCHANGED vars
  BY <1>26 DEF vars, ShareInv, ShareOk, Index, Share, Data
<1> QED
  BY <1>1, <1>2, <1>3, <1>4, <1>5, <1>6, <1>7, <1>8, <1>9, <1>10, <1>11, <1>12, <1>13,
     <1>14, <1>15, <1>16, <1>17, <1>18, <1>19, <1>20, <1>21, <1>22, <1>23, <1>24, <1>25,
     <1>26 DEF Next, Steps, Starts, Links, Calls, Creates, Unloads

\* What a step of p leaves of the set that o creates.
Spares(p, o) ==
  LET n == new[o] IN
  /\ UNCHANGED <<durable, dead, tmp>>
  /\ gate'[n] = gate[n] /\ \A x \in Parts : holds'[x][n] = holds[x][n]
  /\ Index(o) # 0 => Data(Index(o))' = Data(Index(o))
  /\ \/ dir' = dir
     \/ Cur = 0 /\ Cur' \notin Known /\ \A x \in Parts : x # "index_shm" => Gives(x)' = Gives(x)

LEMMA NewFrame ==
  ASSUME TypeOK, PlaceInv, NodeInv, NEW p \in Procs, NEW o \in Procs, o # p,
         pc[o] \in Making \ {"create"}, NewOk(o), Others(p), Spares(p, o)
  PROVE  NewOk(o)'
<1>1. /\ pc'[o] = pc[o] /\ new'[o] = new[o] /\ Index(o)' = Index(o) /\ new[o] # 0 /\ new[o] \in Known
  BY InNodes DEF Others, Index, NodeInv
<1>2. (MovesAway(o)) => (MovesAway(o))'
  BY <1>1 DEF Spares, MovesAway, Lasts, Data
<1>3. /\ Cur # new[o] => Cur' # new[o]
      /\ Cur = new[o] => Cur' = new[o]
  BY <1>1 DEF Spares, Cur, Gives
<1>4. \A x \in Parts : x # "index_shm" => Gives(x)' = Gives(x)
  BY DEF Spares, Gives
<1>5. UNCHANGED <<durable, dead, tmp>>
  BY DEF Spares
<1>6. gate'[new[o]] = gate[new[o]] /\ \A x \in Parts : holds'[x][new[o]] = holds[x][new[o]]
  BY DEF Spares
<1> HIDE DEF Cur, MovesAway, Gives
<1> QED
  BY <1>1, <1>2, <1>3, <1>4, <1>5, <1>6, PartNames DEF NewOk

\* The set that is created has its names one after the other.
LEMMA NewStep ==
  ASSUME TypeOK, PlaceInv, JobInv, NodeInv, FileInv, FillInv, ShareInv, NewInv, [Next]_vars
  PROVE  NewInv'
<1>1. ASSUME NEW p \in Procs, LinkStart(p) PROVE NewInv'
  <2>1. pc'[p] \in Making \ {"create"} => NewOk(p)'
    BY <1>1, LinkStartFacts DEF Becomes, Ended, Making, Before, After, Locked, Attaching
  <2>2. ASSUME NEW o \in Procs, o # p, pc'[o] \in Making \ {"create"} PROVE NewOk(o)'
    <3>0. Others(p) /\ pc[o] \in Making \ {"create"} /\ NewOk(o)
      BY <1>1, <2>2, LinkStartFacts DEF Others, NewInv
    <3>1. Spares(p, o)
      BY <1>1, <2>2, <3>0, LinkStartFacts DEF Spares, Data, Index, Others
    <3> QED
      BY <1>1, <2>2, <3>0, <3>1, NewFrame
  <2> QED
    BY <2>1, <2>2 DEF NewInv
<1>2. ASSUME NEW p \in Procs, OpenIndex(p) PROVE NewInv'
  <2>1. pc'[p] \in Making \ {"create"} => NewOk(p)'
    BY <1>2, OpenIndexFacts DEF Becomes, Ended, Making, Before, After, Locked, Attaching
  <2>2. ASSUME NEW o \in Procs, o # p, pc'[o] \in Making \ {"create"} PROVE NewOk(o)'
    <3>0. Others(p) /\ pc[o] \in Making \ {"create"} /\ NewOk(o)
      BY <1>2, <2>2, OpenIndexFacts DEF Others, NewInv
    <3>1. Spares(p, o)
      <4>1. Cur' = made + 1 /\ made' = made + 1 => Cur' \notin Known
        BY KnownFacts
      <4>2. dir' = dir \/ (Cur = 0 /\ Cur' \notin Known /\ \A x \in Parts : x # "index_shm" =>
              Gives(x)' = Gives(x))
        BY <1>2, <4>1, OpenIndexFacts, PartNames DEF NameMoves, Gives, Cur
      <4> QED
        BY <1>2, <2>2, <3>0, <4>2, OpenIndexFacts DEF Spares, Data, Index, Others
    <3> QED
      BY <1>2, <2>2, <3>0, <3>1, NewFrame
  <2> QED
    BY <2>1, <2>2 DEF NewInv
<1>3. ASSUME NEW p \in Procs, LockIndex(p) PROVE NewInv'
  <2>1. pc'[p] \in Making \ {"create"} => NewOk(p)'
    BY <1>3, LockIndexFacts DEF Becomes, Ended, Making, Before, After, Locked, Attaching
  <2>2. ASSUME NEW o \in Procs, o # p, pc'[o] \in Making \ {"create"} PROVE NewOk(o)'
    <3>0. Others(p) /\ pc[o] \in Making \ {"create"} /\ NewOk(o)
      BY <1>3, <2>2, LockIndexFacts DEF Others, NewInv
    <3>1. Spares(p, o)
      <4>1. gate[new[o]] = o /\ new[o] \in Nodes /\ o # None
        BY <3>0, InNodes DEF NewOk
      <4> QED
        BY <1>3, <2>2, <3>0, <4>1, LockIndexFacts DEF Spares, Data, Only, Index, Others
    <3> QED
      BY <1>3, <2>2, <3>0, <3>1, NewFrame
  <2> QED
    BY <2>1, <2>2 DEF NewInv
<1>4. ASSUME NEW p \in Procs, Attach(p) PROVE NewInv'
  <2>1. pc'[p] \in Making \ {"create"} => NewOk(p)'
    BY <1>4, AttachFacts DEF Becomes, Ended, Making, Before, After, Locked, Attaching
  <2>2. ASSUME NEW o \in Procs, o # p, pc'[o] \in Making \ {"create"} PROVE NewOk(o)'
    <3>0. Others(p) /\ pc[o] \in Making \ {"create"} /\ NewOk(o)
      BY <1>4, <2>2, AttachFacts DEF Others, NewInv
    <3>1. Spares(p, o)
      BY <1>4, <2>2, <3>0, AttachFacts DEF Spares, Data, Index, Others
    <3> QED
      BY <1>4, <2>2, <3>0, <3>1, NewFrame
  <2> QED
    BY <2>1, <2>2 DEF NewInv
<1>5. ASSUME NEW p \in Procs, FillIndex(p) PROVE NewInv'
  <2>1. pc'[p] \in Making \ {"create"} => NewOk(p)'
    BY <1>5, FillIndexFacts DEF Becomes, Ended, Making, Before, After, Locked, Attaching
  <2>2. ASSUME NEW o \in Procs, o # p, pc'[o] \in Making \ {"create"} PROVE NewOk(o)'
    <3>0. Others(p) /\ pc[o] \in Making \ {"create"} /\ NewOk(o)
      BY <1>5, <2>2, FillIndexFacts DEF Others, NewInv
    <3>1. Spares(p, o)
      <4>1. gate[new[o]] = o /\ new[o] \in Nodes
        BY <3>0, InNodes DEF NewOk
      <4>2. gate[Share(p)] = p /\ Data(Share(p)) = 0
        BY <1>5, FillIndexFacts DEF ShareInv, ShareOk
      <4>3. Index(o) # 0 => Index(o) \in Nodes /\ Data(Index(o)) # 0
        BY InNodes DEF ShareInv, ShareOk
      <4>a. /\ \A x \in Parts : x # "index_shm" => holds'[x] = holds[x]
            /\ \A m \in Nodes : m # Share(p) => holds'["index_shm"][m] = holds["index_shm"][m]
        BY <1>5, FillIndexFacts DEF Only
      <4>4. \A x \in Parts : holds'[x][new[o]] = holds[x][new[o]]
        BY <2>2, <4>a, <4>1, <4>2
      <4>5. Index(o) # 0 => Data(Index(o))' = Data(Index(o))
        BY <2>2, <3>0, <4>a, <4>2, <4>3 DEF Data, Others, Index
      <4>6. gate'[new[o]] = gate[new[o]] /\ UNCHANGED <<durable, dead, tmp, dir>>
        BY <1>5, <2>2, <4>1, <4>2, FillIndexFacts DEF Only
      <4> QED
        BY <4>4, <4>5, <4>6 DEF Spares
    <3> QED
      BY <1>5, <2>2, <3>0, <3>1, NewFrame
  <2> QED
    BY <2>1, <2>2 DEF NewInv
<1>6. ASSUME NEW p \in Procs, FillPages(p) PROVE NewInv'
  <2>1. pc'[p] \in Making \ {"create"} => NewOk(p)'
    BY <1>6, FillPagesFacts DEF Becomes, Ended, Making, Before, After, Locked, Attaching
  <2>2. ASSUME NEW o \in Procs, o # p, pc'[o] \in Making \ {"create"} PROVE NewOk(o)'
    BY <1>6, <2>2, FillPagesFacts DEF FillInv, FillAlone, Fills, Others
  <2> QED
    BY <2>1, <2>2 DEF NewInv
<1>7. ASSUME NEW p \in Procs, FillPagesFile(p) PROVE NewInv'
  <2>1. pc'[p] \in Making \ {"create"} => NewOk(p)'
    BY <1>7, FillPagesFileFacts DEF Becomes, Ended, Making, Before, After, Locked,
       Attaching
  <2>2. ASSUME NEW o \in Procs, o # p, pc'[o] \in Making \ {"create"} PROVE NewOk(o)'
    BY <1>7, <2>2, FillPagesFileFacts DEF FillInv, FillAlone, Fills, Others
  <2> QED
    BY <2>1, <2>2 DEF NewInv
<1>8. ASSUME NEW p \in Procs, CallStart(p) PROVE NewInv'
  <2>1. pc'[p] \in Making \ {"create"} => NewOk(p)'
    BY <1>8, CallStartFacts DEF Becomes, Ended, Making, Before, After, Locked, Attaching
  <2>2. ASSUME NEW o \in Procs, o # p, pc'[o] \in Making \ {"create"} PROVE NewOk(o)'
    <3>0. Others(p) /\ pc[o] \in Making \ {"create"} /\ NewOk(o)
      BY <1>8, <2>2, CallStartFacts DEF Others, NewInv
    <3>1. Spares(p, o)
      BY <1>8, <2>2, <3>0, CallStartFacts DEF Spares, Data, Index, Others
    <3> QED
      BY <1>8, <2>2, <3>0, <3>1, NewFrame
  <2> QED
    BY <2>1, <2>2 DEF NewInv
<1>9. ASSUME NEW p \in Procs, CheckBad(p) PROVE NewInv'
  <2>1. pc'[p] \in Making \ {"create"} => NewOk(p)'
    BY <1>9, CheckBadFacts DEF Becomes, Ended, Making, Before, After, Locked, Attaching
  <2>2. ASSUME NEW o \in Procs, o # p, pc'[o] \in Making \ {"create"} PROVE NewOk(o)'
    <3>0. Others(p) /\ pc[o] \in Making \ {"create"} /\ NewOk(o)
      BY <1>9, <2>2, CheckBadFacts DEF Others, NewInv
    <3>1. Spares(p, o)
      BY <1>9, <2>2, <3>0, CheckBadFacts DEF Spares, Data, Index, Others
    <3> QED
      BY <1>9, <2>2, <3>0, <3>1, NewFrame
  <2> QED
    BY <2>1, <2>2 DEF NewInv
<1>10. ASSUME NEW p \in Procs, MutexLock(p) PROVE NewInv'
  <2>1. pc'[p] \in Making \ {"create"} => NewOk(p)'
    BY <1>10, MutexLockFacts DEF Becomes, Ended, Making, Before, After, Locked,
       Attaching
  <2>2. ASSUME NEW o \in Procs, o # p, pc'[o] \in Making \ {"create"} PROVE NewOk(o)'
    <3>0. Others(p) /\ pc[o] \in Making \ {"create"} /\ NewOk(o)
      BY <1>10, <2>2, MutexLockFacts DEF Others, NewInv
    <3>1. Spares(p, o)
      BY <1>10, <2>2, <3>0, MutexLockFacts DEF Spares, Data, Index, Others
    <3> QED
      BY <1>10, <2>2, <3>0, <3>1, NewFrame
  <2> QED
    BY <2>1, <2>2 DEF NewInv
<1>11. ASSUME NEW p \in Procs, CallEnd(p) PROVE NewInv'
  <2>1. pc'[p] \in Making \ {"create"} => NewOk(p)'
    BY <1>11, CallEndFacts DEF Becomes, Ended, Making, Before, After, Locked, Attaching
  <2>2. ASSUME NEW o \in Procs, o # p, pc'[o] \in Making \ {"create"} PROVE NewOk(o)'
    <3>0. Others(p) /\ pc[o] \in Making \ {"create"} /\ NewOk(o)
      BY <1>11, <2>2, CallEndFacts DEF Others, NewInv
    <3>1. Spares(p, o)
      BY <1>11, <2>2, <3>0, CallEndFacts DEF Spares, Data, Index, Others
    <3> QED
      BY <1>11, <2>2, <3>0, <3>1, NewFrame
  <2> QED
    BY <2>1, <2>2 DEF NewInv
<1>12. ASSUME NEW p \in Procs, Unlink(p) PROVE NewInv'
  <2>1. pc'[p] \in Making \ {"create"} => NewOk(p)'
    BY <1>12, UnlinkFacts DEF Becomes, Ended, Making, Before, After, Locked, Attaching
  <2>2. ASSUME NEW o \in Procs, o # p, pc'[o] \in Making \ {"create"} PROVE NewOk(o)'
    <3>0. Others(p) /\ pc[o] \in Making \ {"create"} /\ NewOk(o)
      BY <1>12, <2>2, UnlinkFacts DEF Others, NewInv
    <3>1. Spares(p, o)
      BY <1>12, <2>2, <3>0, UnlinkFacts DEF Spares, Data, Index, Others
    <3> QED
      BY <1>12, <2>2, <3>0, <3>1, NewFrame
  <2> QED
    BY <2>1, <2>2 DEF NewInv
<1>13. ASSUME NEW p \in Procs, CreateStart(p) PROVE NewInv'
  <2>1. pc'[p] \in Making \ {"create"} => NewOk(p)'
    BY <1>13, CreateStartFacts DEF Becomes, Ended, Making, Before, After, Locked,
       Attaching
  <2>2. ASSUME NEW o \in Procs, o # p, pc'[o] \in Making \ {"create"} PROVE NewOk(o)'
    BY <1>13, <2>2, CreateStartFacts, Renamers DEF Others
  <2> QED
    BY <2>1, <2>2 DEF NewInv
<1>14. ASSUME NEW p \in Procs, CreateParts(p) PROVE NewInv'
  <2>1. pc'[p] \in Making \ {"create"} => NewOk(p)'
    <3>1. new'[p] = made' /\ Cur' = Cur /\ Cur # made' /\ made' \notin dead /\ pc'[p] = "load" /\ dead' = dead
      BY <1>14, CreatePartsFacts, KnownFacts, PartNames DEF NodeInv, Unused, Cur, Gives,
         Becomes
    <3>2. gate'[made'] = p /\ \A x \in Parts : holds'[x][made'] = IF x \in Shares THEN made' ELSE 0
      BY <1>14, CreatePartsFacts DEF Only
    <3>3. tmp'["index_shm"] = made' /\ tmp'["pages_shm"] = made'
      BY <1>14, CreatePartsFacts, PartNames
    <3>4. made' \in durable' => \A x \in Parts : tmp'[x] = made'
      <4>1. made' \notin durable
        BY <1>14, CreatePartsFacts, KnownFacts DEF NodeInv, Unused
      <4> QED
        BY <1>14, <4>1, CreatePartsFacts
    <3> QED
      BY <3>1, <3>2, <3>3, <3>4, PartNames DEF NewOk, Before
  <2>2. ASSUME NEW o \in Procs, o # p, pc'[o] \in Making \ {"create"} PROVE NewOk(o)'
    BY <1>14, <2>2, CreatePartsFacts, Renamers, PlaceNames DEF JobInv, Others, Making,
       Before, After, Dropping, Dropped
  <2> QED
    BY <2>1, <2>2 DEF NewInv
<1>15. ASSUME NEW p \in Procs, CreateRefused(p) PROVE NewInv'
  <2>1. pc'[p] \in Making \ {"create"} => NewOk(p)'
    BY <1>15, CreateRefusedFacts DEF Becomes, Ended, Making, Before, After, Locked,
       Attaching
  <2>2. ASSUME NEW o \in Procs, o # p, pc'[o] \in Making \ {"create"} PROVE NewOk(o)'
    BY <1>15, <2>2, CreateRefusedFacts, Renamers, PlaceNames DEF JobInv, Others, Making,
       Before, After, Dropping, Dropped
  <2> QED
    BY <2>1, <2>2 DEF NewInv
<1>16. ASSUME NEW p \in Procs, LoadEnds(p) PROVE NewInv'
  <2>1. pc'[p] \in Making \ {"create"} => NewOk(p)'
    <3>1. MovesAway(p)' = MovesAway(p) /\ Cur' = Cur
      BY <1>16, LoadEndsFacts DEF MovesAway, Index, Lasts, Cur, Gives
    <3> HIDE DEF MovesAway, Cur
    <3> QED
      BY <1>16, <3>1, LoadEndsFacts DEF NewInv, NewOk, Becomes, Making, Before, Gives
  <2>2. ASSUME NEW o \in Procs, o # p, pc'[o] \in Making \ {"create"} PROVE NewOk(o)'
    BY <1>16, <2>2, LoadEndsFacts, Renamers, PlaceNames DEF JobInv, Others, Making,
       Before, After, Dropping, Dropped
  <2> QED
    BY <2>1, <2>2 DEF NewInv
<1>17. ASSUME NEW p \in Procs, MoveAway(p) PROVE NewInv'
  <2>1. pc'[p] \in Making \ {"create"} => NewOk(p)'
    <3>1. MovesAway(p)' = MovesAway(p) /\ Cur' = Cur
      BY <1>17, MoveAwayFacts, PartNames DEF MovesAway, Index, Lasts, Cur, Gives,
         NameMoves
    <3> HIDE DEF MovesAway, Cur
    <3> QED
      BY <1>17, <3>1, MoveAwayFacts DEF NewInv, NewOk, Becomes, Making, Before, Gives
  <2>2. ASSUME NEW o \in Procs, o # p, pc'[o] \in Making \ {"create"} PROVE NewOk(o)'
    BY <1>17, <2>2, MoveAwayFacts, Renamers, PlaceNames DEF JobInv, Others, Making,
       Before, After, Dropping, Dropped
  <2> QED
    BY <2>1, <2>2 DEF NewInv
<1>18. ASSUME NEW p \in Procs, Rename(p) PROVE NewInv'
  <2>1. pc'[p] \in Making \ {"create"} => NewOk(p)'
    BY <1>18, RenameFacts, PartNames DEF NewInv, NewOk, Becomes, Making, Before, After,
       Gives, Cur, NameMoves
  <2>2. ASSUME NEW o \in Procs, o # p, pc'[o] \in Making \ {"create"} PROVE NewOk(o)'
    BY <1>18, <2>2, RenameFacts, Renamers, PlaceNames DEF JobInv, Others, Making,
       Before, After, Dropping, Dropped
  <2> QED
    BY <2>1, <2>2 DEF NewInv
<1>19. ASSUME NEW p \in Procs, Retire(p) PROVE NewInv'
  <2>1. pc'[p] \in Making \ {"create"} => NewOk(p)'
    <3>1. Index(p) # 0 => Index(p) # new[p]
      BY <1>19, RetireFacts, InNodes DEF NewInv, NewOk, Making, After, ShareInv, ShareOk
    <3>2. new[p] # 0 /\ NewOk(p)
      BY <1>19, RetireFacts, InNodes DEF NewInv, Making, After
    <3> QED
      BY <1>19, <3>1, <3>2, RetireFacts DEF NewOk, Becomes, Before, Gives, Cur
  <2>2. ASSUME NEW o \in Procs, o # p, pc'[o] \in Making \ {"create"} PROVE NewOk(o)'
    BY <1>19, <2>2, RetireFacts, Renamers, PlaceNames DEF JobInv, Others, Making,
       Before, After, Dropping, Dropped
  <2> QED
    BY <2>1, <2>2 DEF NewInv
<1>20. ASSUME NEW p \in Procs, Finish(p) PROVE NewInv'
  <2>1. pc'[p] \in Making \ {"create"} => NewOk(p)'
    BY <1>20, FinishFacts DEF Becomes, Ended, Making, Before, After, Locked, Attaching
  <2>2. ASSUME NEW o \in Procs, o # p, pc'[o] \in Making \ {"create"} PROVE NewOk(o)'
    BY <1>20, <2>2, FinishFacts, Renamers, PlaceNames DEF JobInv, Others, Making,
       Before, After, Dropping, Dropped
  <2> QED
    BY <2>1, <2>2 DEF NewInv
<1>21. ASSUME NEW p \in Procs, LoadFails(p) PROVE NewInv'
  <2>1. pc'[p] \in Making \ {"create"} => NewOk(p)'
    BY <1>21, LoadFailsFacts DEF Becomes, Ended, Making, Before, After, Locked,
       Attaching
  <2>2. ASSUME NEW o \in Procs, o # p, pc'[o] \in Making \ {"create"} PROVE NewOk(o)'
    BY <1>21, <2>2, LoadFailsFacts, Renamers, PlaceNames DEF JobInv, Others, Making,
       Before, After, Dropping, Dropped
  <2> QED
    BY <2>1, <2>2 DEF NewInv
<1>22. ASSUME NEW p \in Procs, LoadDies(p) PROVE NewInv'
  <2>1. pc'[p] \in Making \ {"create"} => NewOk(p)'
    BY <1>22, LoadDiesFacts DEF Becomes, Ended, Making, Before, After, Locked, Attaching
  <2>2. ASSUME NEW o \in Procs, o # p, pc'[o] \in Making \ {"create"} PROVE NewOk(o)'
    BY <1>22, <2>2, LoadDiesFacts, Renamers, PlaceNames DEF JobInv, Others, Making,
       Before, After, Dropping, Dropped
  <2> QED
    BY <2>1, <2>2 DEF NewInv
<1>23. ASSUME NEW p \in Procs, UnloadStart(p) PROVE NewInv'
  <2>1. pc'[p] \in Making \ {"create"} => NewOk(p)'
    BY <1>23, UnloadStartFacts DEF Becomes, Ended, Making, Before, After, Locked,
       Attaching
  <2>2. ASSUME NEW o \in Procs, o # p, pc'[o] \in Making \ {"create"} PROVE NewOk(o)'
    BY <1>23, <2>2, UnloadStartFacts, Renamers DEF Others
  <2> QED
    BY <2>1, <2>2 DEF NewInv
<1>24. ASSUME NEW p \in Procs, Drop(p) PROVE NewInv'
  <2>1. pc'[p] \in Making \ {"create"} => NewOk(p)'
    BY <1>24, DropFacts DEF Becomes, Ended, Making, Before, After, Locked, Attaching
  <2>2. ASSUME NEW o \in Procs, o # p, pc'[o] \in Making \ {"create"} PROVE NewOk(o)'
    BY <1>24, <2>2, DropFacts, Renamers, PlaceNames DEF JobInv, Others, Making, Before,
       After, Dropping, Dropped
  <2> QED
    BY <2>1, <2>2 DEF NewInv
<1>25. ASSUME NEW p \in Procs, MarkDeleted(p) PROVE NewInv'
  <2>1. pc'[p] \in Making \ {"create"} => NewOk(p)'
    BY <1>25, MarkDeletedFacts DEF Becomes, Ended, Making, Before, After, Locked,
       Attaching
  <2>2. ASSUME NEW o \in Procs, o # p, pc'[o] \in Making \ {"create"} PROVE NewOk(o)'
    BY <1>25, <2>2, MarkDeletedFacts, Renamers, PlaceNames DEF JobInv, Others, Making,
       Before, After, Dropping, Dropped
  <2> QED
    BY <2>1, <2>2 DEF NewInv
<1>26. CASE UNCHANGED vars
  BY <1>26 DEF vars, NewInv, NewOk, MovesAway, Index, Lasts, Cur, Gives
<1> QED
  BY <1>1, <1>2, <1>3, <1>4, <1>5, <1>6, <1>7, <1>8, <1>9, <1>10, <1>11, <1>12, <1>13,
     <1>14, <1>15, <1>16, <1>17, <1>18, <1>19, <1>20, <1>21, <1>22, <1>23, <1>24, <1>25,
     <1>26 DEF Next, Steps, Starts, Links, Calls, Creates, Unloads

LEMMA FileFrame ==
  ASSUME \A x \in Files : Gives(x)' = Gives(x) /\ DataOf(x)' = DataOf(x), durable \subseteq durable', FileInv
  PROVE  FileInv'
BY PartNames DEF FileInv, Written

LEMMA NotWritten ==
  ASSUME DataOf("index_file")' = 0
  PROVE  FileInv' /\ ~Written'
BY DEF FileInv, Written

\* The files that have names are of one set.
LEMMA FileStep ==
  ASSUME TypeOK, PlaceInv, JobInv, NodeInv, FileInv, GoneInv, FillInv, NewInv, [Next]_vars
  PROVE  FileInv'
<1>1. ASSUME NEW p \in Procs, LinkStart(p) PROVE FileInv'
  <2>1. \A x \in Files : Gives(x)' = Gives(x) /\ DataOf(x)' = DataOf(x)
    BY <1>1, LinkStartFacts, PartNames DEF Gives, DataOf, NameMoves
  <2>2. durable \subseteq durable'
    BY <1>1, LinkStartFacts
  <2> QED
    BY <2>1, <2>2, FileFrame
<1>2. ASSUME NEW p \in Procs, OpenIndex(p) PROVE FileInv'
  <2>1. \A x \in Files : Gives(x)' = Gives(x) /\ DataOf(x)' = DataOf(x)
    BY <1>2, OpenIndexFacts, PartNames DEF Gives, DataOf, NameMoves
  <2>2. durable \subseteq durable'
    BY <1>2, OpenIndexFacts
  <2> QED
    BY <2>1, <2>2, FileFrame
<1>3. ASSUME NEW p \in Procs, LockIndex(p) PROVE FileInv'
  <2>1. \A x \in Files : Gives(x)' = Gives(x) /\ DataOf(x)' = DataOf(x)
    BY <1>3, LockIndexFacts, PartNames DEF Gives, DataOf, NameMoves
  <2>2. durable \subseteq durable'
    BY <1>3, LockIndexFacts
  <2> QED
    BY <2>1, <2>2, FileFrame
<1>4. ASSUME NEW p \in Procs, Attach(p) PROVE FileInv'
  <2>1. \A x \in Files : Gives(x)' = Gives(x) /\ DataOf(x)' = DataOf(x)
    BY <1>4, AttachFacts, PartNames DEF Gives, DataOf, NameMoves
  <2>2. durable \subseteq durable'
    BY <1>4, AttachFacts
  <2> QED
    BY <2>1, <2>2, FileFrame
<1>5. ASSUME NEW p \in Procs, FillIndex(p) PROVE FileInv'
  <2>1. \A x \in Files : Gives(x)' = Gives(x) /\ DataOf(x)' = DataOf(x)
    BY <1>5, FillIndexFacts, PartNames DEF Gives, DataOf, NameMoves
  <2>2. durable \subseteq durable'
    BY <1>5, FillIndexFacts
  <2> QED
    BY <2>1, <2>2, FileFrame
<1>6. ASSUME NEW p \in Procs, FillPages(p) PROVE FileInv'
  <2>1. \A x \in Files : Gives(x)' = Gives(x) /\ DataOf(x)' = DataOf(x)
    BY <1>6, FillPagesFacts, PartNames DEF Gives, DataOf, NameMoves
  <2>2. durable \subseteq durable'
    BY <1>6, FillPagesFacts
  <2> QED
    BY <2>1, <2>2, FileFrame
<1>7. ASSUME NEW p \in Procs, FillPagesFile(p) PROVE FileInv'
  <2>1. \A x \in Files : Gives(x)' = Gives(x) /\ DataOf(x)' = DataOf(x)
    BY <1>7, FillPagesFileFacts, PartNames DEF Gives, DataOf, NameMoves
  <2>2. durable \subseteq durable'
    BY <1>7, FillPagesFileFacts
  <2> QED
    BY <2>1, <2>2, FileFrame
<1>8. ASSUME NEW p \in Procs, CallStart(p) PROVE FileInv'
  <2>1. \A x \in Files : Gives(x)' = Gives(x) /\ DataOf(x)' = DataOf(x)
    BY <1>8, CallStartFacts, PartNames DEF Gives, DataOf, NameMoves
  <2>2. durable \subseteq durable'
    BY <1>8, CallStartFacts
  <2> QED
    BY <2>1, <2>2, FileFrame
<1>9. ASSUME NEW p \in Procs, CheckBad(p) PROVE FileInv'
  <2>1. \A x \in Files : Gives(x)' = Gives(x) /\ DataOf(x)' = DataOf(x)
    BY <1>9, CheckBadFacts, PartNames DEF Gives, DataOf, NameMoves
  <2>2. durable \subseteq durable'
    BY <1>9, CheckBadFacts
  <2> QED
    BY <2>1, <2>2, FileFrame
<1>10. ASSUME NEW p \in Procs, MutexLock(p) PROVE FileInv'
  <2>1. \A x \in Files : Gives(x)' = Gives(x) /\ DataOf(x)' = DataOf(x)
    BY <1>10, MutexLockFacts, PartNames DEF Gives, DataOf, NameMoves
  <2>2. durable \subseteq durable'
    BY <1>10, MutexLockFacts
  <2> QED
    BY <2>1, <2>2, FileFrame
<1>11. ASSUME NEW p \in Procs, CallEnd(p) PROVE FileInv'
  <2>1. \A x \in Files : Gives(x)' = Gives(x) /\ DataOf(x)' = DataOf(x)
    BY <1>11, CallEndFacts, PartNames DEF Gives, DataOf, NameMoves
  <2>2. durable \subseteq durable'
    BY <1>11, CallEndFacts
  <2> QED
    BY <2>1, <2>2, FileFrame
<1>12. ASSUME NEW p \in Procs, Unlink(p) PROVE FileInv'
  <2>1. \A x \in Files : Gives(x)' = Gives(x) /\ DataOf(x)' = DataOf(x)
    BY <1>12, UnlinkFacts, PartNames DEF Gives, DataOf, NameMoves
  <2>2. durable \subseteq durable'
    BY <1>12, UnlinkFacts
  <2> QED
    BY <2>1, <2>2, FileFrame
<1>13. ASSUME NEW p \in Procs, CreateStart(p) PROVE FileInv'
  <2>1. \A x \in Files : Gives(x)' = Gives(x) /\ DataOf(x)' = DataOf(x)
    BY <1>13, CreateStartFacts, PartNames DEF Gives, DataOf, NameMoves
  <2>2. durable \subseteq durable'
    BY <1>13, CreateStartFacts
  <2> QED
    BY <2>1, <2>2, FileFrame
<1>14. ASSUME NEW p \in Procs, CreateParts(p) PROVE FileInv'
  <2>1. \A x \in Files : Gives(x)' = Gives(x) /\ DataOf(x)' = DataOf(x)
    <3>1. dir' = dir /\ \A x \in Files : Gives(x) # made' /\ (Gives(x) # 0 =>
            Gives(x) \in Nodes)
      BY <1>14, CreatePartsFacts, PartNames, KnownFacts, RangeFacts DEF NodeInv, Gives
    <3> QED
      BY <1>14, <3>1, CreatePartsFacts, PartNames DEF Gives, DataOf, Only
  <2>2. durable \subseteq durable'
    BY <1>14, CreatePartsFacts
  <2> QED
    BY <2>1, <2>2, FileFrame
<1>15. ASSUME NEW p \in Procs, CreateRefused(p) PROVE FileInv'
  <2>1. \A x \in Files : Gives(x)' = Gives(x) /\ DataOf(x)' = DataOf(x)
    BY <1>15, CreateRefusedFacts, PartNames DEF Gives, DataOf, NameMoves
  <2>2. durable \subseteq durable'
    BY <1>15, CreateRefusedFacts
  <2> QED
    BY <2>1, <2>2, FileFrame
<1>16. ASSUME NEW p \in Procs, LoadEnds(p) PROVE FileInv'
  <2>1. \A x \in Files : Gives(x)' = Gives(x) /\ DataOf(x)' = DataOf(x)
    BY <1>16, LoadEndsFacts, PartNames DEF Gives, DataOf, NameMoves
  <2>2. durable \subseteq durable'
    BY <1>16, LoadEndsFacts
  <2> QED
    BY <2>1, <2>2, FileFrame
<1>17. ASSUME NEW p \in Procs, MoveAway(p) PROVE FileInv'
  <2>1. CASE pc[p] = "away_index_file"
    BY <1>17, <2>1, MoveAwayFacts, NotWritten DEF DataOf, Gives, NameMoves
  <2>2. CASE pc[p] = "away_pages_file"
    BY <1>17, <2>2, MoveAwayFacts, NotWritten, PartNames DEF DataOf, Gives, NameMoves,
       GoneInv
  <2> QED
    BY <1>17, <2>1, <2>2, MoveAwayFacts
<1>18. ASSUME NEW p \in Procs, Rename(p) PROVE FileInv'
  <2>1. CASE pc[p] \in {"move_index", "move_pages"}
    <3>1. \A x \in Files : Gives(x)' = Gives(x) /\ DataOf(x)' = DataOf(x)
      BY <1>18, <2>1, RenameFacts, PartNames DEF Gives, DataOf, NameMoves
    <3> QED
      BY <1>18, <3>1, RenameFacts, FileFrame
  <2>2. CASE pc[p] \in {"move_index_file", "move_pages_file"}
    <3>1. new[p] \in durable /\ holds["index_file"][new[p]] = 0
      BY <2>2, PartNames DEF NewInv, NewOk, Making, After
    <3>2. Gives("index_file")' = new[p]
      BY <1>18, <2>2, <3>1, RenameFacts, PartNames DEF NewInv, NewOk, Making, Before,
         After, Gives, NameMoves
    <3> QED
      BY <1>18, <3>1, <3>2, RenameFacts, NotWritten DEF DataOf, Gives
  <2> QED
    BY <1>18, <2>1, <2>2, RenameFacts
<1>19. ASSUME NEW p \in Procs, Retire(p) PROVE FileInv'
  <2>1. \A x \in Files : Gives(x)' = Gives(x) /\ DataOf(x)' = DataOf(x)
    BY <1>19, RetireFacts, PartNames DEF Gives, DataOf, NameMoves
  <2>2. durable \subseteq durable'
    BY <1>19, RetireFacts
  <2> QED
    BY <2>1, <2>2, FileFrame
<1>20. ASSUME NEW p \in Procs, Finish(p) PROVE FileInv'
  <2>1. CASE new[p] \in durable
    <3>1. new[p] # 0 /\ Gives("index_file") = new[p] /\ Gives("pages_file") = new[p]
      BY <1>20, <2>1, FinishFacts, InNodes DEF NewInv, NewOk, Making, Before
    <3>2. \A x \in Files : DataOf(x)' = new[p]
      BY <1>20, <2>1, <3>1, FinishFacts, PartNames DEF DataOf, Gives, Only
    <3> QED
      BY <1>20, <2>1, <3>1, <3>2, FinishFacts, PartNames DEF FileInv, Gives
  <2>2. CASE new[p] \notin durable
    <3>1. \A x \in Files : Gives(x)' = Gives(x) /\ DataOf(x)' = DataOf(x)
      BY <1>20, <2>2, FinishFacts, PartNames DEF Gives, DataOf
    <3> QED
      BY <1>20, <3>1, FinishFacts, FileFrame
  <2> QED
    BY <2>1, <2>2
<1>21. ASSUME NEW p \in Procs, LoadFails(p) PROVE FileInv'
  <2>1. \A x \in Files : Gives(x)' = Gives(x) /\ DataOf(x)' = DataOf(x)
    BY <1>21, LoadFailsFacts, PartNames DEF Gives, DataOf, NameMoves
  <2>2. durable \subseteq durable'
    BY <1>21, LoadFailsFacts
  <2> QED
    BY <2>1, <2>2, FileFrame
<1>22. ASSUME NEW p \in Procs, LoadDies(p) PROVE FileInv'
  <2>1. \A x \in Files : Gives(x)' = Gives(x) /\ DataOf(x)' = DataOf(x)
    BY <1>22, LoadDiesFacts, PartNames DEF Gives, DataOf, NameMoves
  <2>2. durable \subseteq durable'
    BY <1>22, LoadDiesFacts
  <2> QED
    BY <2>1, <2>2, FileFrame
<1>23. ASSUME NEW p \in Procs, UnloadStart(p) PROVE FileInv'
  <2>1. \A x \in Files : Gives(x)' = Gives(x) /\ DataOf(x)' = DataOf(x)
    BY <1>23, UnloadStartFacts, PartNames DEF Gives, DataOf, NameMoves
  <2>2. durable \subseteq durable'
    BY <1>23, UnloadStartFacts
  <2> QED
    BY <2>1, <2>2, FileFrame
<1>24. ASSUME NEW p \in Procs, Drop(p) PROVE FileInv'
  <2>1. CASE pc[p] = "drop_index_file"
    BY <1>24, <2>1, DropFacts, NotWritten DEF DataOf, Gives, NameMoves
  <2>2. CASE pc[p] = "drop_pages_file"
    BY <1>24, <2>2, DropFacts, NotWritten, PartNames DEF DataOf, Gives, NameMoves,
       GoneInv
  <2>3. CASE pc[p] \in {"drop_index", "drop_pages"}
    <3>1. \A x \in Files : Gives(x)' = Gives(x) /\ DataOf(x)' = DataOf(x)
      BY <1>24, <2>3, DropFacts, PartNames DEF Gives, DataOf, NameMoves
    <3> QED
      BY <1>24, <3>1, DropFacts, FileFrame
  <2> QED
    BY <1>24, <2>1, <2>2, <2>3, DropFacts
<1>25. ASSUME NEW p \in Procs, MarkDeleted(p) PROVE FileInv'
  <2>1. \A x \in Files : Gives(x)' = Gives(x) /\ DataOf(x)' = DataOf(x)
    BY <1>25, MarkDeletedFacts, PartNames DEF Gives, DataOf, NameMoves
  <2>2. durable \subseteq durable'
    BY <1>25, MarkDeletedFacts
  <2> QED
    BY <2>1, <2>2, FileFrame
<1>26. CASE UNCHANGED vars
  <2>1. \A x \in Files : Gives(x)' = Gives(x) /\ DataOf(x)' = DataOf(x)
    BY <1>26 DEF vars, Gives, DataOf
  <2> QED
    BY <1>26, <2>1, FileFrame DEF vars
<1> QED
  BY <1>1, <1>2, <1>3, <1>4, <1>5, <1>6, <1>7, <1>8, <1>9, <1>10, <1>11, <1>12, <1>13,
     <1>14, <1>15, <1>16, <1>17, <1>18, <1>19, <1>20, <1>21, <1>22, <1>23, <1>24, <1>25,
     <1>26 DEF Next, Steps, Starts, Links, Calls, Creates, Unloads

\* Files are taken away index first.
LEMMA GoneStep ==
  ASSUME TypeOK, PlaceInv, JobInv, FileInv, FillInv, GoneInv, [Next]_vars
  PROVE  GoneInv'
<1>1. ASSUME NEW p \in Procs, LinkStart(p) PROVE GoneInv'
  <2>1. Gives("index_file")' = Gives("index_file")
    BY <1>1, LinkStartFacts, PartNames DEF Gives, NameMoves
  <2>2. pc'[p] \notin {"away_pages_file", "drop_pages_file"}
    BY <1>1, LinkStartFacts DEF Becomes, Ended, Locked, Attaching
  <2> QED
    BY <1>1, <2>1, <2>2, LinkStartFacts DEF GoneInv, Others
<1>2. ASSUME NEW p \in Procs, OpenIndex(p) PROVE GoneInv'
  <2>1. Gives("index_file")' = Gives("index_file")
    BY <1>2, OpenIndexFacts, PartNames DEF Gives, NameMoves
  <2>2. pc'[p] \notin {"away_pages_file", "drop_pages_file"}
    BY <1>2, OpenIndexFacts DEF Becomes, Ended, Locked, Attaching
  <2> QED
    BY <1>2, <2>1, <2>2, OpenIndexFacts DEF GoneInv, Others
<1>3. ASSUME NEW p \in Procs, LockIndex(p) PROVE GoneInv'
  <2>1. Gives("index_file")' = Gives("index_file")
    BY <1>3, LockIndexFacts, PartNames DEF Gives, NameMoves
  <2>2. pc'[p] \notin {"away_pages_file", "drop_pages_file"}
    BY <1>3, LockIndexFacts DEF Becomes, Ended, Locked, Attaching
  <2> QED
    BY <1>3, <2>1, <2>2, LockIndexFacts DEF GoneInv, Others
<1>4. ASSUME NEW p \in Procs, Attach(p) PROVE GoneInv'
  <2>1. Gives("index_file")' = Gives("index_file")
    BY <1>4, AttachFacts, PartNames DEF Gives, NameMoves
  <2>2. pc'[p] \notin {"away_pages_file", "drop_pages_file"}
    BY <1>4, AttachFacts DEF Becomes, Ended, Locked, Attaching
  <2> QED
    BY <1>4, <2>1, <2>2, AttachFacts DEF GoneInv, Others
<1>5. ASSUME NEW p \in Procs, FillIndex(p) PROVE GoneInv'
  <2>1. Gives("index_file")' = Gives("index_file")
    BY <1>5, FillIndexFacts, PartNames DEF Gives, NameMoves
  <2>2. pc'[p] \notin {"away_pages_file", "drop_pages_file"}
    BY <1>5, FillIndexFacts DEF Becomes, Ended, Locked, Attaching
  <2> QED
    BY <1>5, <2>1, <2>2, FillIndexFacts DEF GoneInv, Others
<1>6. ASSUME NEW p \in Procs, FillPages(p) PROVE GoneInv'
  <2>1. Gives("index_file")' = Gives("index_file")
    BY <1>6, FillPagesFacts, PartNames DEF Gives, NameMoves
  <2>2. pc'[p] \notin {"away_pages_file", "drop_pages_file"}
    BY <1>6, FillPagesFacts DEF Becomes, Ended, Locked, Attaching
  <2> QED
    BY <1>6, <2>1, <2>2, FillPagesFacts DEF GoneInv, Others
<1>7. ASSUME NEW p \in Procs, FillPagesFile(p) PROVE GoneInv'
  <2>1. Gives("index_file")' = Gives("index_file")
    BY <1>7, FillPagesFileFacts, PartNames DEF Gives, NameMoves
  <2>2. pc'[p] \notin {"away_pages_file", "drop_pages_file"}
    BY <1>7, FillPagesFileFacts DEF Becomes, Ended, Locked, Attaching
  <2> QED
    BY <1>7, <2>1, <2>2, FillPagesFileFacts DEF GoneInv, Others
<1>8. ASSUME NEW p \in Procs, CallStart(p) PROVE GoneInv'
  <2>1. Gives("index_file")' = Gives("index_file")
    BY <1>8, CallStartFacts, PartNames DEF Gives, NameMoves
  <2>2. pc'[p] \notin {"away_pages_file", "drop_pages_file"}
    BY <1>8, CallStartFacts DEF Becomes, Ended, Locked, Attaching
  <2> QED
    BY <1>8, <2>1, <2>2, CallStartFacts DEF GoneInv, Others
<1>9. ASSUME NEW p \in Procs, CheckBad(p) PROVE GoneInv'
  <2>1. Gives("index_file")' = Gives("index_file")
    BY <1>9, CheckBadFacts, PartNames DEF Gives, NameMoves
  <2>2. pc'[p] \notin {"away_pages_file", "drop_pages_file"}
    BY <1>9, CheckBadFacts DEF Becomes, Ended, Locked, Attaching
  <2> QED
    BY <1>9, <2>1, <2>2, CheckBadFacts DEF GoneInv, Others
<1>10. ASSUME NEW p \in Procs, MutexLock(p) PROVE GoneInv'
  <2>1. Gives("index_file")' = Gives("index_file")
    BY <1>10, MutexLockFacts, PartNames DEF Gives, NameMoves
  <2>2. pc'[p] \notin {"away_pages_file", "drop_pages_file"}
    BY <1>10, MutexLockFacts DEF Becomes, Ended, Locked, Attaching
  <2> QED
    BY <1>10, <2>1, <2>2, MutexLockFacts DEF GoneInv, Others
<1>11. ASSUME NEW p \in Procs, CallEnd(p) PROVE GoneInv'
  <2>1. Gives("index_file")' = Gives("index_file")
    BY <1>11, CallEndFacts, PartNames DEF Gives, NameMoves
  <2>2. pc'[p] \notin {"away_pages_file", "drop_pages_file"}
    BY <1>11, CallEndFacts DEF Becomes, Ended, Locked, Attaching
  <2> QED
    BY <1>11, <2>1, <2>2, CallEndFacts DEF GoneInv, Others
<1>12. ASSUME NEW p \in Procs, Unlink(p) PROVE GoneInv'
  <2>1. Gives("index_file")' = Gives("index_file")
    BY <1>12, UnlinkFacts, PartNames DEF Gives, NameMoves
  <2>2. pc'[p] \notin {"away_pages_file", "drop_pages_file"}
    BY <1>12, UnlinkFacts DEF Becomes, Ended, Locked, Attaching
  <2> QED
    BY <1>12, <2>1, <2>2, UnlinkFacts DEF GoneInv, Others
<1>13. ASSUME NEW p \in Procs, CreateStart(p) PROVE GoneInv'
  <2>1. Gives("index_file")' = Gives("index_file")
    BY <1>13, CreateStartFacts, PartNames DEF Gives, NameMoves
  <2>2. pc'[p] \notin {"away_pages_file", "drop_pages_file"}
    BY <1>13, CreateStartFacts DEF Becomes, Ended, Locked, Attaching
  <2> QED
    BY <1>13, <2>1, <2>2, CreateStartFacts DEF GoneInv, Others
<1>14. ASSUME NEW p \in Procs, CreateParts(p) PROVE GoneInv'
  <2>1. Gives("index_file")' = Gives("index_file")
    BY <1>14, CreatePartsFacts, PartNames DEF Gives, NameMoves
  <2>2. pc'[p] \notin {"away_pages_file", "drop_pages_file"}
    BY <1>14, CreatePartsFacts DEF Becomes, Ended, Locked, Attaching
  <2> QED
    BY <1>14, <2>1, <2>2, CreatePartsFacts DEF GoneInv, Others
<1>15. ASSUME NEW p \in Procs, CreateRefused(p) PROVE GoneInv'
  <2>1. Gives("index_file")' = Gives("index_file")
    BY <1>15, CreateRefusedFacts, PartNames DEF Gives, NameMoves
  <2>2. pc'[p] \notin {"away_pages_file", "drop_pages_file"}
    BY <1>15, CreateRefusedFacts DEF Becomes, Ended, Locked, Attaching
  <2> QED
    BY <1>15, <2>1, <2>2, CreateRefusedFacts DEF GoneInv, Others
<1>16. ASSUME NEW p \in Procs, LoadEnds(p) PROVE GoneInv'
  <2>1. Gives("index_file")' = Gives("index_file")
    BY <1>16, LoadEndsFacts, PartNames DEF Gives, NameMoves
  <2>2. pc'[p] \notin {"away_pages_file", "drop_pages_file"}
    BY <1>16, LoadEndsFacts DEF Becomes, Ended, Locked, Attaching
  <2> QED
    BY <1>16, <2>1, <2>2, LoadEndsFacts DEF GoneInv, Others
<1>17. ASSUME NEW p \in Procs, MoveAway(p) PROVE GoneInv'
  <2>1. \A q \in Procs : q # p => pc'[q] \notin {"away_pages_file", "drop_pages_file"}
    BY <1>17, MoveAwayFacts, Renamers, PlaceNames DEF JobInv, Others
  <2>2. pc'[p] \in {"away_pages_file", "drop_pages_file"} => Gives("index_file")' = 0
    BY <1>17, MoveAwayFacts DEF Becomes, NameMoves, Gives
  <2> QED
    BY <2>1, <2>2 DEF GoneInv
<1>18. ASSUME NEW p \in Procs, Rename(p) PROVE GoneInv'
  <2>1. \A q \in Procs : q # p => pc'[q] \notin {"away_pages_file", "drop_pages_file"}
    BY <1>18, RenameFacts, Renamers, PlaceNames DEF JobInv, Others
  <2>2. pc'[p] \in {"away_pages_file", "drop_pages_file"} => Gives("index_file")' = 0
    BY <1>18, RenameFacts DEF Becomes, NameMoves, Gives
  <2> QED
    BY <2>1, <2>2 DEF GoneInv
<1>19. ASSUME NEW p \in Procs, Retire(p) PROVE GoneInv'
  <2>1. Gives("index_file")' = Gives("index_file")
    BY <1>19, RetireFacts, PartNames DEF Gives, NameMoves
  <2>2. pc'[p] \notin {"away_pages_file", "drop_pages_file"}
    BY <1>19, RetireFacts DEF Becomes, Ended, Locked, Attaching
  <2> QED
    BY <1>19, <2>1, <2>2, RetireFacts DEF GoneInv, Others
<1>20. ASSUME NEW p \in Procs, Finish(p) PROVE GoneInv'
  <2>1. Gives("index_file")' = Gives("index_file")
    BY <1>20, FinishFacts, PartNames DEF Gives, NameMoves
  <2>2. pc'[p] \notin {"away_pages_file", "drop_pages_file"}
    BY <1>20, FinishFacts DEF Becomes, Ended, Locked, Attaching
  <2> QED
    BY <1>20, <2>1, <2>2, FinishFacts DEF GoneInv, Others
<1>21. ASSUME NEW p \in Procs, LoadFails(p) PROVE GoneInv'
  <2>1. Gives("index_file")' = Gives("index_file")
    BY <1>21, LoadFailsFacts, PartNames DEF Gives, NameMoves
  <2>2. pc'[p] \notin {"away_pages_file", "drop_pages_file"}
    BY <1>21, LoadFailsFacts DEF Becomes, Ended, Locked, Attaching
  <2> QED
    BY <1>21, <2>1, <2>2, LoadFailsFacts DEF GoneInv, Others
<1>22. ASSUME NEW p \in Procs, LoadDies(p) PROVE GoneInv'
  <2>1. Gives("index_file")' = Gives("index_file")
    BY <1>22, LoadDiesFacts, PartNames DEF Gives, NameMoves
  <2>2. pc'[p] \notin {"away_pages_file", "drop_pages_file"}
    BY <1>22, LoadDiesFacts DEF Becomes, Ended, Locked, Attaching
  <2> QED
    BY <1>22, <2>1, <2>2, LoadDiesFacts DEF GoneInv, Others
<1>23. ASSUME NEW p \in Procs, UnloadStart(p) PROVE GoneInv'
  <2>1. Gives("index_file")' = Gives("index_file")
    BY <1>23, UnloadStartFacts, PartNames DEF Gives, NameMoves
  <2>2. pc'[p] \notin {"away_pages_file", "drop_pages_file"}
    BY <1>23, UnloadStartFacts DEF Becomes, Ended, Locked, Attaching
  <2> QED
    BY <1>23, <2>1, <2>2, UnloadStartFacts DEF GoneInv, Others
<1>24. ASSUME NEW p \in Procs, Drop(p) PROVE GoneInv'
  <2>1. \A q \in Procs : q # p => pc'[q] \notin {"away_pages_file", "drop_pages_file"}
    BY <1>24, DropFacts, Renamers, PlaceNames DEF JobInv, Others
  <2>2. pc'[p] \in {"away_pages_file", "drop_pages_file"} => Gives("index_file")' = 0
    BY <1>24, DropFacts DEF Becomes, NameMoves, Gives
  <2> QED
    BY <2>1, <2>2 DEF GoneInv
<1>25. ASSUME NEW p \in Procs, MarkDeleted(p) PROVE GoneInv'
  <2>1. Gives("index_file")' = Gives("index_file")
    BY <1>25, MarkDeletedFacts, PartNames DEF Gives, NameMoves
  <2>2. pc'[p] \notin {"away_pages_file", "drop_pages_file"}
    BY <1>25, MarkDeletedFacts DEF Becomes, Ended, Locked, Attaching
  <2> QED
    BY <1>25, <2>1, <2>2, MarkDeletedFacts DEF GoneInv, Others
<1>26. CASE UNCHANGED vars
  BY <1>26 DEF vars, GoneInv, Gives
<1> QED
  BY <1>1, <1>2, <1>3, <1>4, <1>5, <1>6, <1>7, <1>8, <1>9, <1>10, <1>11, <1>12, <1>13,
     <1>14, <1>15, <1>16, <1>17, <1>18, <1>19, <1>20, <1>21, <1>22, <1>23, <1>24, <1>25,
     <1>26 DEF Next, Steps, Starts, Links, Calls, Creates, Unloads
=============================================================================
