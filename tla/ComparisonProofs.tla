-------------------------- MODULE ComparisonProofs --------------------------
(***************************************************************************)
(* Proofs about Comparison, for any keys, files, counters and callers: a   *)
(* comparison leaves and shows every key as it should (Compared), and the  *)
(* marks agree between the calls (MarksAgree).                             *)
(*                                                                         *)
(* The argument: one comparison at a time has the marks (LockInv), so that *)
(* the mark of the set is its own until it ends.  A key of the file has    *)
(* that mark once its line was visited (FileInv); a key without a line has *)
(* the old one until its chain was visited (RestInv), and a part of the    *)
(* table that was left out has no key with the old one, because no more    *)
(* keys were counted there than have the new mark (CountInv).              *)
(***************************************************************************)
EXTENDS Comparison, FiniteSetTheorems, TLAPS

\* Other calls do not delete beside a comparison of a set with counters, as far
\* as both are inside at once (else a part of the table may be left out with keys
\* that the file does not have).
NoDeletesBesideCounts == \A u \in Usages : u.parallel /\ u.counted => ~u.deletes

Busy  == {"lines", "part", "chain", "ends"}
Walks == {"part", "chain", "ends"}
Signs == {"+", "-", "!", "="}

Jobs ==
  [at : {"out", "marks"} \cup Busy, op : Ops, file : Seq(Lines), mark : 0 .. 1, pos : Nat,
   met : [Parts -> Nat], part : Nat \ {0}, chains : SUBSET ChainNumbers,
   shown : SUBSET (Signs \X Keys \X (Values \cup {Gone})), failed : BOOLEAN,
   before : UNION {[D -> Values \cup {Gone}] : D \in SUBSET Keys}]

Calls == [kind : {"none", "file", "single", "over"}, mark : 0 .. 1]

Headers == [Keys -> Header \cup {Gone}]

Types ==
  /\ usage \in Usages /\ heads \in Headers /\ diff \in 0 .. 1 /\ dirty \subseteq Keys
  /\ copy \in [heads : Headers, diff : 0 .. 1]
  /\ marks_lock \in BOOLEAN /\ mixed \in BOOLEAN
  /\ job \in [Comparers -> Jobs] /\ call \in [Others -> Calls]

\* Unless calls run side by side, one is inside.
TurnInv ==
  ~usage.parallel =>
    /\ \A c, d \in Comparers : job[c].at # "out" /\ job[d].at # "out" => c = d
    /\ \A c \in Comparers, o \in Others : job[c].at # "out" => call[o] = NoCall
    /\ \A o, q \in Others : call[o] # NoCall /\ call[q] # NoCall => o = q

\* One comparison has the marks, and the set has its mark.
LockInv ==
  \A c \in Comparers : job[c].at \in Busy =>
    /\ marks_lock /\ job[c].mark = diff /\ (job[c].failed => mixed)
    /\ \A d \in Comparers : job[d].at \in Busy => d = c

\* The lines come before the chains, and every part of the table before the end.
WalkOk(j) ==
  /\ j.pos <= Len(j.file)
  /\ j.at \in Walks /\ ~j.failed => j.pos = Len(j.file)
  /\ j.at = "chain" => \A n \in j.chains : PartOf[n] < j.part
  /\ j.at = "ends" /\ ~j.failed => \A p \in Parts : p < j.part
  /\ j.failed => j.at = "ends"
  /\ j.at \in {"marks", "lines"} => j.part = 1
  /\ j.at = "marks" => j.pos = 0 /\ j.shown = {} /\ \A p \in Parts : j.met[p] = 0

WalkInv == \A c \in Comparers : WalkOk(job[c])

\* A comparison is through with the chain of a key, or has left it out.
Passed(j, k) ==
  /\ j.at \in Walks /\ PartOf[ChainOf[k]] < j.part
  /\ j.at = "chain" => ChainOf[k] \notin j.chains

Marked(k) == heads[k] # Gone /\ heads[k].mark = diff
MarkedIn(p) == {k \in Keys : PartOf[ChainOf[k]] = p /\ Marked(k)}

\* No key has been counted that has not the mark.
CountInv ==
  ~mixed /\ usage.counted =>
    \A c \in Comparers : job[c].at \in Busy =>
      \A p \in Parts : job[c].met[p] <= Cardinality(MarkedIn(p))

\* The marks agree but for a comparison that is on its way, and behind it.
AgreeInv ==
  ~mixed =>
    /\ (\A c \in Comparers : job[c].at \notin Busy) =>
          \A k \in Keys : heads[k] # Gone => Marked(k)
    /\ \A c \in Comparers : job[c].at \in Busy =>
          \A k \in Keys : Passed(job[c], k) /\ heads[k] # Gone => Marked(k)

\* What is so of a key of this header whose lines have been visited ..
FileDone(j, k, h) ==
  LET was == j.before[k]
      places == Seen(j.file, j.pos, k)
  IN  /\ h # Gone => h.mark = j.mark
      /\ Value(h) = Result(j.op, was, j.file, places)
      /\ j.op = "intersect_replace" => (h = Gone <=> was = Gone)
      /\ j.op \in Shows =>
           /\ \A v \in Values \cup {Gone} : <<"-", k, v>> \notin Told(j, k)
           /\ Once(places) => Told(j, k) = Difference(was, j.file, k, places)

FileInv ==
  \A c \in Comparers : job[c].at \in Busy /\ ~job[c].failed =>
    \A k \in DOMAIN job[c].before :
      /\ Seen(job[c].file, job[c].pos, k) # {} => FileDone(job[c], k, heads[k])
      /\ Seen(job[c].file, job[c].pos, k) = {} /\ job[c].at = "lines" =>
           Value(heads[k]) = job[c].before[k] /\ Told(job[c], k) = {}

\* .. and of one that has none.
RestDone(j, k, h) ==
  LET was == j.before[k]
  IN  IF Passed(j, k)
      THEN /\ Value(h) = Result(j.op, was, j.file, {})
           /\ j.op \in Shows => Told(j, k) = Difference(was, j.file, k, {})
      ELSE /\ h # Gone => h.mark # j.mark
           /\ Value(h) = was /\ Told(j, k) = {}

RestInv ==
  ~mixed =>
    \A c \in Comparers : job[c].at \in Busy =>
      \A k \in DOMAIN job[c].before :
        Seen(job[c].file, job[c].pos, k) = {} => RestDone(job[c], k, heads[k])

\* What the copy has not is marked as changed, and the marks of the copy agree.
CopyInv ==
  ~mixed /\ usage.kept =>
    /\ ~usage.parallel => \A k \in Keys \ dirty : heads[k] = copy.heads[k]
    /\ \A k \in Keys : copy.heads[k] # Gone => copy.heads[k].mark = copy.diff

CompareInv ==
  /\ Types /\ TurnInv /\ LockInv /\ WalkInv /\ CountInv /\ AgreeInv
  /\ FileInv /\ RestInv /\ CopyInv

-----------------------------------------------------------------------------
(* Values, marks and parts.                                                 *)

LEMMA ValueFacts ==
  ASSUME NEW h \in Header \cup {Gone}
  PROVE  /\ Value(h) \in Values \cup {Gone} /\ (Value(h) = Gone <=> h = Gone)
         /\ h # Gone => h \in Header /\ Value(h) = h.value
                       /\ h.mark \in 0 .. 1 /\ h.value \in Values
BY ComparisonAssumption DEF Value, Header

LEMMA VisitedType ==
  ASSUME NEW h \in Header \cup {Gone}, NEW l \in Lines, NEW m \in 0 .. 1, NEW allowed
  PROVE  /\ Visited(h, l, m, allowed) \in Header \cup {Gone}
         /\ h # Gone => Visited(h, l, m, allowed) # Gone
<1>1. l.value \in Values
  BY DEF Lines
<1> QED
  BY <1>1, ValueFacts, ComparisonAssumption DEF Visited, Header

LEMMA PartFacts ==
  /\ \A k \in Keys : ChainOf[k] \in ChainNumbers /\ PartOf[ChainOf[k]] \in Parts
  /\ \A n \in ChainNumbers : PartOf[n] \in Parts
  /\ \A p \in Parts : p \in Nat \ {0}
BY ComparisonAssumption DEF Parts

LEMMA UsageFacts ==
  ASSUME Types
  PROVE  /\ usage.comparers \subseteq Comparers /\ usage.ops \subseteq Ops
         /\ usage.calls \subseteq {"file", "single"} /\ usage.last \subseteq Keys
         /\ usage.files \subseteq Seq(Lines)
         /\ usage.parallel \in BOOLEAN /\ usage.counted \in BOOLEAN /\ usage.kept \in BOOLEAN
         /\ usage.deletes \in BOOLEAN
BY ComparisonAssumption DEF Types

LEMMA LineFacts ==
  ASSUME Types, NEW c \in Comparers, job[c].pos < Len(job[c].file)
  PROVE  /\ job[c].file[job[c].pos + 1] \in Lines
         /\ job[c].file[job[c].pos + 1].key \in Keys
         /\ job[c].file[job[c].pos + 1].value \in Values
<1>1. job[c].file \in Seq(Lines) /\ job[c].pos \in Nat
  BY DEF Types, Jobs
<1>2. job[c].pos + 1 \in 1 .. Len(job[c].file)
  BY <1>1
<1>3. job[c].file[job[c].pos + 1] \in Lines
  BY <1>1, <1>2
<1> QED
  BY <1>3 DEF Lines

LEMMA NoJobType == NoJob \in Jobs
<1>1. [p \in Parts |-> 0] \in [Parts -> Nat]
  OBVIOUS
<1>2. [k \in {} |-> Gone] \in UNION {[D -> Values \cup {Gone}] : D \in SUBSET Keys}
  <2>1. {} \in SUBSET Keys /\ [k \in {} |-> Gone] \in [{} -> Values \cup {Gone}]
    OBVIOUS
  <2> QED
    BY <2>1
<1>3. <<>> \in Seq(Lines)
  OBVIOUS
<1> QED
  BY <1>1, <1>2, <1>3 DEF NoJob, Jobs, Busy, Ops

-----------------------------------------------------------------------------
(* What each step does to the comparisons.                                  *)

\* Only the comparison of c changes, and of it what is written.
Only(c) == \A d \in Comparers : d # c => job'[d] = job[d]

SameLines(c) ==
  /\ job'[c].op = job[c].op /\ job'[c].file = job[c].file /\ job'[c].mark = job[c].mark
  /\ job'[c].pos = job[c].pos /\ job'[c].before = job[c].before
  /\ job'[c].failed = job[c].failed

LEMMA BecomesType ==
  ASSUME Types, NEW hs \in Headers, NEW unmarked, Becomes(hs, unmarked)
  PROVE  /\ heads' = hs /\ diff' = diff /\ copy' = copy /\ heads' \in Headers
         /\ dirty' \subseteq Keys /\ diff' \in 0 .. 1 /\ copy' \in [heads : Headers, diff : 0 .. 1]
BY DEF Types, Becomes

LEMMA LeaveType ==
  ASSUME Types, Leave
  PROVE  /\ heads' = heads /\ diff' = diff /\ dirty' \subseteq Keys
         /\ copy' \in [heads : Headers, diff : 0 .. 1]
<1>1. [k \in Keys |-> IF k \in dirty THEN heads[k] ELSE copy.heads[k]] \in Headers
  BY DEF Types, Headers
<1> QED
  BY <1>1 DEF Types, Leave, Flush, content

LEMMA EnterFacts ==
  ASSUME Types, NEW c \in Comparers, Enter(c)
  PROVE  /\ Only(c) /\ job' \in [Comparers -> Jobs]
         /\ job[c].at = "out" /\ MayEnter /\ job'[c].at = "marks" /\ job'[c].pos = 0
         /\ job'[c].part = 1 /\ ~job'[c].failed /\ job'[c].shown = {}
         /\ \A p \in Parts : job'[c].met[p] = 0
         /\ UNCHANGED <<usage, mixed, heads, diff, copy, dirty, marks_lock, call>>
<1>1. PICK op \in usage.ops, f \in usage.files :
        job' = [job EXCEPT ![c] = [NoJob EXCEPT !.at = "marks", !.op = op, !.file = f]]
  BY DEF Enter
<1>2. op \in Ops /\ f \in Seq(Lines)
  BY UsageFacts
<1> DEFINE new == [NoJob EXCEPT !.at = "marks", !.op = op, !.file = f]
<1>3. /\ new \in Jobs /\ new.at = "marks" /\ new.pos = 0 /\ new.part = 1 /\ ~new.failed
      /\ new.shown = {} /\ \A p \in Parts : new.met[p] = 0
  BY <1>2, NoJobType DEF Jobs, NoJob
<1> HIDE DEF new
<1>4. job' = [job EXCEPT ![c] = new]
  BY <1>1 DEF new
<1> QED
  BY <1>3, <1>4 DEF Enter, Only, Types, content

LEMMA FlipFacts ==
  ASSUME Types, NEW c \in Comparers, Flip(c)
  PROVE  /\ Only(c) /\ job' \in [Comparers -> Jobs]
         /\ job[c].at = "marks" /\ ~marks_lock /\ marks_lock'
         /\ diff' = 1 - diff /\ diff' \in 0 .. 1
         /\ job'[c].at = "lines" /\ job'[c].mark = diff' /\ job'[c].pos = job[c].pos
         /\ job'[c].file = job[c].file /\ job'[c].part = job[c].part
         /\ job'[c].failed = job[c].failed /\ job'[c].met = job[c].met
         /\ job'[c].shown = job[c].shown
         /\ DOMAIN job'[c].before = Keys /\ \A k \in Keys : job'[c].before[k] = Value(heads[k])
         /\ UNCHANGED <<usage, mixed, heads, copy, dirty, call>>
<1>1. Content \in [Keys -> Values \cup {Gone}] /\ \A k \in Keys : Content[k] = Value(heads[k])
  BY ValueFacts DEF Content, Types, Headers
<1>2. Content \in UNION {[D -> Values \cup {Gone}] : D \in SUBSET Keys}
  BY <1>1
<1>3. diff' \in 0 .. 1
  BY DEF Flip, Types
<1> HIDE DEF Content
<1> DEFINE new == [job[c] EXCEPT !.at = "lines", !.mark = diff', !.before = Content]
<1>4. job[c] \in Jobs
  BY DEF Types
<1>5. /\ new \in Jobs /\ new.at = "lines" /\ new.mark = diff' /\ new.before = Content
      /\ new.pos = job[c].pos /\ new.file = job[c].file /\ new.part = job[c].part
      /\ new.failed = job[c].failed /\ new.met = job[c].met /\ new.shown = job[c].shown
  BY <1>2, <1>3, <1>4 DEF Jobs, Busy
<1>6. job' = [job EXCEPT ![c] = new]
  BY DEF Flip
<1> HIDE DEF new
<1>7. Only(c) /\ job'[c] = new /\ job' \in [Comparers -> Jobs]
  BY <1>5, <1>6 DEF Only, Types
<1> QED
  BY <1>1, <1>3, <1>5, <1>7 DEF Flip

\* A visit of a line, in an operation that allows this.
LineKey(c)  == job[c].file[job[c].pos + 1].key
NewHead(c)  ==
  Visited(heads[LineKey(c)], job[c].file[job[c].pos + 1], job[c].mark, Allowed(job[c].op))
LineShown(c) == Shown(c, heads[LineKey(c)], job[c].file[job[c].pos + 1])

LEMMA NewHeadFacts ==
  ASSUME Types, NEW c \in Comparers, job[c].pos < Len(job[c].file)
  PROVE  LET k == LineKey(c)
             l == job[c].file[job[c].pos + 1]
             allowed == Allowed(job[c].op)
         IN  /\ k \in Keys /\ heads[k] \in Header \cup {Gone}
             /\ NewHead(c) \in Header \cup {Gone}
             /\ NewHead(c) # Gone => NewHead(c).mark = job[c].mark
             /\ NewHead(c) = Gone <=> heads[k] = Gone /\ "add" \notin allowed
             /\ heads[k] # Gone =>
                  NewHead(c).value = (IF "replace" \in allowed THEN l.value ELSE heads[k].value)
             /\ heads[k] = Gone /\ "add" \in allowed => NewHead(c).value = l.value
<1>1. LineKey(c) \in Keys /\ job[c].file[job[c].pos + 1] \in Lines
  BY LineFacts DEF LineKey
<1>2. heads[LineKey(c)] \in Header \cup {Gone} /\ job[c].mark \in 0 .. 1
  BY <1>1 DEF Types, Headers, Jobs
<1> DEFINE h == heads[LineKey(c)]
           l == job[c].file[job[c].pos + 1]
           allowed == Allowed(job[c].op)
<1>3. NewHead(c) = Visited(h, l, job[c].mark, allowed)
  BY DEF NewHead
<1>4. h \in Header \cup {Gone} /\ l \in Lines /\ allowed \in SUBSET {"add", "replace"}
  BY <1>1, <1>2 DEF Allowed
<1> HIDE DEF h, l, allowed
<1> DEFINE new == NewHead(c)
<1> HIDE DEF new
<1>6. new = Visited(h, l, job[c].mark, allowed)
  BY <1>3 DEF new
<1>5. /\ new \in Header \cup {Gone}
      /\ new # Gone => new.mark = job[c].mark
      /\ new = Gone <=> h = Gone /\ "add" \notin allowed
      /\ h # Gone => new.value = (IF "replace" \in allowed THEN l.value ELSE h.value)
      /\ h = Gone /\ "add" \in allowed => new.value = l.value
  <2>1. l.value \in Values
    BY <1>4 DEF Lines
  <2>2. CASE h = Gone
    BY <1>2, <1>6, <2>1, <2>2, ComparisonAssumption DEF Visited, Header
  <2>3. CASE h # Gone
    BY <1>2, <1>4, <1>6, <2>1, <2>3, ValueFacts, ComparisonAssumption DEF Visited,
       Header
  <2> QED
    BY <2>2, <2>3
<1> QED
  BY <1>1, <1>4, <1>5 DEF h, l, allowed, new

LEMMA ShownType ==
  ASSUME Types, NEW c \in Comparers, job[c].pos < Len(job[c].file)
  PROVE  /\ LineShown(c) \in SUBSET (Signs \X Keys \X (Values \cup {Gone}))
         /\ \A s \in LineShown(c) : s[2] = LineKey(c)
<1>1. heads[LineKey(c)] \in Header \cup {Gone}
  BY LineFacts DEF LineKey, Types, Headers
<1> DEFINE l == job[c].file[job[c].pos + 1]
           h == heads[LineKey(c)]
<1>2. l.key = LineKey(c) /\ l.key \in Keys /\ l.value \in Values /\ LineShown(c) = Shown(c, h, l)
  BY LineFacts DEF LineKey, LineShown
<1>3. h # Gone => h.value \in Values
  BY <1>1, ValueFacts
<1> HIDE DEF l, h
<1> QED
  BY <1>2, <1>3 DEF Shown, Signs

LEMMA VisitLineFacts ==
  ASSUME Types, NEW c \in Comparers, VisitLine(c)
  PROVE  LET k == LineKey(c) IN
         /\ Only(c) /\ job' \in [Comparers -> Jobs]
         /\ job[c].at = "lines" /\ job[c].pos < Len(job[c].file) /\ k \in Keys
         /\ heads' = [heads EXCEPT ![k] = NewHead(c)] /\ heads' \in Headers
         /\ dirty' = (IF usage.kept THEN dirty \cup {i \in Keys : heads'[i] # heads[i]} ELSE {})
         /\ dirty' \subseteq Keys
         /\ job'[c].at = "lines" /\ job'[c].pos = job[c].pos + 1 /\ job'[c].op = job[c].op
         /\ job'[c].file = job[c].file /\ job'[c].mark = job[c].mark
         /\ job'[c].part = job[c].part /\ job'[c].failed = job[c].failed
         /\ job'[c].before = job[c].before
         /\ job'[c].shown = job[c].shown \cup LineShown(c)
         /\ job'[c].met = [job[c].met EXCEPT
              ![PartOf[ChainOf[k]]] = @ + (IF GotMark(heads[k], NewHead(c)) THEN 1 ELSE 0)]
         /\ UNCHANGED <<usage, mixed, diff, copy, marks_lock, call>>
<1> DEFINE k == LineKey(c)
<1>1. /\ job[c].at = "lines" /\ job[c].pos < Len(job[c].file) /\ job[c] \in Jobs
      /\ k \in Keys /\ job[c].file[job[c].pos + 1] \in Lines /\ PartOf[ChainOf[k]] \in Parts
  BY LineFacts, PartFacts DEF VisitLine, LineKey, Types
<1>2. NewHead(c) \in Header \cup {Gone} /\ [heads EXCEPT ![k] = NewHead(c)] \in Headers
  <2>1. heads[k] \in Header \cup {Gone} /\ job[c].mark \in 0 .. 1
    BY <1>1 DEF Types, Headers, Jobs
  <2>2. NewHead(c) \in Header \cup {Gone}
    BY <1>1, NewHeadFacts
  <2> QED
    BY <2>2 DEF Types, Headers
<1>3. LineShown(c) \in SUBSET (Signs \X Keys \X (Values \cup {Gone}))
  BY <1>1, ShownType
<1> DEFINE gain == IF GotMark(heads[k], NewHead(c)) THEN 1 ELSE 0
           met  == [job[c].met EXCEPT ![PartOf[ChainOf[k]]] = @ + gain]
           new  == [job[c] EXCEPT !.pos = @ + 1, !.met = met, !.shown = @ \cup LineShown(c)]
<1>4. gain \in Nat /\ job[c].met \in [Parts -> Nat]
  BY <1>1 DEF Jobs
<1>5. met \in [Parts -> Nat]
  BY <1>1, <1>4
<1>6. Becomes([heads EXCEPT ![k] = NewHead(c)], {}) /\ job' = [job EXCEPT ![c] = new]
  BY <1>1 DEF VisitLine, LineKey, NewHead, LineShown, Types, Jobs
<1> HIDE DEF k, met
<1>7. /\ new \in Jobs /\ new.at = "lines" /\ new.pos = job[c].pos + 1 /\ new.op = job[c].op
      /\ new.file = job[c].file /\ new.mark = job[c].mark /\ new.part = job[c].part
      /\ new.failed = job[c].failed /\ new.before = job[c].before
      /\ new.shown = job[c].shown \cup LineShown(c) /\ new.met = met
  <2>1. job[c].pos + 1 \in Nat /\ job[c].shown \in SUBSET (Signs \X Keys \X (Values \cup {Gone}))
    BY <1>1 DEF Jobs
  <2> DEFINE shown == job[c].shown \cup LineShown(c)
  <2>2. shown \in SUBSET (Signs \X Keys \X (Values \cup {Gone}))
    BY <1>3, <2>1
  <2> HIDE DEF shown
  <2>3. [job[c] EXCEPT !.pos = @ + 1, !.met = met, !.shown = shown] \in Jobs
    BY <1>1, <1>5, <2>1, <2>2 DEF Jobs
  <2>4. new = [job[c] EXCEPT !.pos = @ + 1, !.met = met, !.shown = shown]
    BY DEF shown
  <2> QED
    BY <1>1, <2>3, <2>4 DEF Jobs, shown
<1> HIDE DEF new
<1>8. Only(c) /\ job'[c] = new /\ job' \in [Comparers -> Jobs]
  BY <1>6, <1>7 DEF Only, Types
<1>9. UNCHANGED <<usage, mixed, marks_lock, call>>
  BY DEF VisitLine
<1> QED
  BY <1>1, <1>2, <1>6, <1>7, <1>8, <1>9, BecomesType DEF Becomes, k, met

\* The comparison ends.
LEMMA LineFailsFacts ==
  ASSUME Types, NEW c \in Comparers, LineFails(c)
  PROVE  /\ Only(c) /\ job' \in [Comparers -> Jobs]
         /\ job[c].at = "lines" /\ heads' \in Headers /\ dirty' \subseteq Keys
         /\ job'[c].at = "ends" /\ job'[c].pos = job[c].pos /\ job'[c].file = job[c].file
         /\ job'[c].mark = job[c].mark /\ job'[c].failed /\ mixed'
         /\ UNCHANGED <<usage, diff, copy, marks_lock, call>>
<1>1. /\ job[c].at = "lines" /\ job[c].pos < Len(job[c].file) /\ job[c] \in Jobs
      /\ LineKey(c) \in Keys /\ job[c].file[job[c].pos + 1] \in Lines
  BY LineFacts DEF LineFails, LineKey, Types
<1>2. heads[LineKey(c)] \in Header \cup {Gone} /\ job[c].mark \in 0 .. 1
  BY <1>1 DEF Types, Headers, Jobs
<1> DEFINE kept == Visited(heads[LineKey(c)], job[c].file[job[c].pos + 1], job[c].mark, {})
           new  == [job[c] EXCEPT !.at = "ends", !.failed = TRUE]
<1>3. kept \in Header \cup {Gone}
  BY <1>2, ValueFacts DEF Visited, Header
<1>4. Becomes([heads EXCEPT ![LineKey(c)] = kept], {}) /\ job' = [job EXCEPT ![c] = new]
  BY DEF LineFails, LineKey
<1> HIDE DEF kept
<1>5. [heads EXCEPT ![LineKey(c)] = kept] \in Headers
  BY <1>1, <1>3 DEF Types, Headers
<1>6. /\ new \in Jobs /\ new.at = "ends" /\ new.pos = job[c].pos /\ new.file = job[c].file
      /\ new.mark = job[c].mark /\ new.failed
  BY <1>1 DEF Jobs, Busy
<1> HIDE DEF new
<1>7. Only(c) /\ job'[c] = new /\ job' \in [Comparers -> Jobs]
  BY <1>4, <1>6 DEF Only, Types
<1> QED
  BY <1>1, <1>4, <1>5, <1>6, <1>7, BecomesType DEF LineFails

LEMMA LinesEndFacts ==
  ASSUME Types, NEW c \in Comparers, LinesEnd(c)
  PROVE  /\ Only(c) /\ job' \in [Comparers -> Jobs]
         /\ job[c].at = "lines" /\ job[c].pos = Len(job[c].file) /\ job'[c].at = "part"
         /\ SameLines(c) /\ job'[c].part = job[c].part /\ job'[c].chains = job[c].chains
         /\ job'[c].met = job[c].met /\ job'[c].shown = job[c].shown
         /\ UNCHANGED <<usage, mixed, heads, diff, copy, dirty, marks_lock, call>>
<1> DEFINE new == [job[c] EXCEPT !.at = "part"]
<1>1. job' = [job EXCEPT ![c] = new] /\ job[c] \in Jobs
  BY DEF LinesEnd, Types
<1>2. /\ new \in Jobs /\ new.at = "part" /\ new.pos = job[c].pos /\ new.file = job[c].file
      /\ new.mark = job[c].mark /\ new.failed = job[c].failed /\ new.op = job[c].op
      /\ new.before = job[c].before /\ new.part = job[c].part /\ new.chains = job[c].chains
      /\ new.met = job[c].met /\ new.shown = job[c].shown
  BY <1>1 DEF Jobs, Busy
<1> HIDE DEF new
<1>3. Only(c) /\ job'[c] = new /\ job' \in [Comparers -> Jobs]
  BY <1>1, <1>2 DEF Only, Types
<1> QED
  BY <1>2, <1>3 DEF LinesEnd, SameLines, content

\* A part is left out, or its chains are next, or there is none.
LEMMA NextPartFacts ==
  ASSUME Types, NEW c \in Comparers, NextPart(c)
  PROVE  LET p == job[c].part IN
         /\ Only(c) /\ job' \in [Comparers -> Jobs]
         /\ job[c].at = "part" /\ SameLines(c)
         /\ job'[c].met = job[c].met /\ job'[c].shown = job[c].shown
         /\ \/ p \notin Parts /\ job'[c].at = "ends" /\ job'[c].part = p
            \/ /\ p \in Parts /\ job'[c].at = "part" /\ job'[c].part = p + 1
               /\ usage.counted /\ Counter(p) <= job[c].met[p]
            \/ /\ p \in Parts /\ job'[c].at = "chain" /\ job'[c].part = p + 1
               /\ job'[c].chains = {n \in ChainNumbers : PartOf[n] = p}
         /\ UNCHANGED <<usage, mixed, heads, diff, copy, dirty, marks_lock, call>>
<1> DEFINE p == job[c].part
           new == IF p \notin Parts THEN [job[c] EXCEPT !.at = "ends"]
                  ELSE IF usage.counted /\ Counter(p) <= job[c].met[p]
                  THEN [job[c] EXCEPT !.part = p + 1]
                  ELSE [job[c] EXCEPT !.at = "chain", !.part = p + 1,
                                      !.chains = {n \in ChainNumbers : PartOf[n] = p}]
<1>1. job[c] \in Jobs /\ job[c].at = "part" /\ p \in Nat \ {0} /\ p + 1 \in Nat \ {0}
  BY DEF NextPart, Types, Jobs
<1>2. job' = [job EXCEPT ![c] = new]
  BY <1>1 DEF NextPart
<1>3. /\ new \in Jobs /\ new.pos = job[c].pos /\ new.file = job[c].file
      /\ new.mark = job[c].mark /\ new.failed = job[c].failed /\ new.op = job[c].op
      /\ new.before = job[c].before /\ new.met = job[c].met /\ new.shown = job[c].shown
  BY <1>1 DEF Jobs, Busy
<1>4. \/ p \notin Parts /\ new.at = "ends" /\ new.part = p
      \/ /\ p \in Parts /\ new.at = "part" /\ new.part = p + 1
         /\ usage.counted /\ Counter(p) <= job[c].met[p]
      \/ /\ p \in Parts /\ new.at = "chain" /\ new.part = p + 1
         /\ new.chains = {n \in ChainNumbers : PartOf[n] = p}
  BY <1>1 DEF Jobs
<1> HIDE DEF new
<1>5. Only(c) /\ job'[c] = new /\ job' \in [Comparers -> Jobs]
  BY <1>2, <1>3 DEF Only, Types
<1> QED
  BY <1>1, <1>3, <1>4, <1>5 DEF NextPart, SameLines, content

\* What is written about a chain.
Missing(c, n) == IF job[c].op \notin Shows THEN {}
                 ELSE {<<"-", k, heads[k].value>> : k \in Unmet(n) \cap DOMAIN job[c].before}

\* The comparison is through with one of its chains.
ChainFacts(c, n) ==
  /\ Only(c) /\ job' \in [Comparers -> Jobs]
  /\ job[c].at = "chain" /\ n \in job[c].chains /\ n \in ChainNumbers
  /\ SameLines(c) /\ job'[c].part = job[c].part /\ job'[c].met = job[c].met
  /\ job'[c].chains = job[c].chains \ {n}
  /\ job'[c].at \in {"part", "chain"} /\ (job'[c].at = "part" => job[c].chains = {n})
  /\ job'[c].shown = job[c].shown \cup Missing(c, n)

LEMMA ChainDoneFacts ==
  ASSUME Types, NEW c \in Comparers, NEW n \in job[c].chains,
         job[c].at = "chain", job' = ChainDone(c, n)
  PROVE  ChainFacts(c, n)
<1> DEFINE new == [job[c] EXCEPT !.chains = @ \ {n},
                                 !.at = IF job[c].chains = {n} THEN "part" ELSE "chain",
                                 !.shown = @ \cup Missing(c, n)]
<1>1. job[c] \in Jobs /\ n \in ChainNumbers
  BY DEF Types, Jobs
<1>2. job' = [job EXCEPT ![c] = new]
  BY <1>1 DEF ChainDone, Missing, Types, Jobs
<1>3. Missing(c, n) \subseteq (Signs \X Keys \X (Values \cup {Gone}))
  <2>1. \A k \in Unmet(n) : k \in Keys /\ heads[k].value \in Values
    BY ValueFacts DEF Unmet, Types, Headers
  <2> QED
    BY <2>1 DEF Missing, Signs
<1> DEFINE shown == job[c].shown \cup Missing(c, n)
           chains == job[c].chains \ {n}
           at == IF job[c].chains = {n} THEN "part" ELSE "chain"
<1>4. /\ shown \in SUBSET (Signs \X Keys \X (Values \cup {Gone}))
      /\ chains \in SUBSET ChainNumbers /\ at \in {"part", "chain"}
  BY <1>1, <1>3 DEF Jobs
<1>5. new = [job[c] EXCEPT !.chains = chains, !.at = at, !.shown = shown]
  BY <1>1 DEF Jobs
<1>6. at = "part" => job[c].chains = {n}
  OBVIOUS
<1> HIDE DEF new, shown, chains, at
<1>7. /\ new \in Jobs /\ new.pos = job[c].pos /\ new.file = job[c].file
      /\ new.mark = job[c].mark /\ new.failed = job[c].failed /\ new.op = job[c].op
      /\ new.before = job[c].before /\ new.met = job[c].met /\ new.part = job[c].part
      /\ new.shown = shown /\ new.chains = chains /\ new.at = at
  BY <1>1, <1>4, <1>5 DEF Jobs, Busy
<1>8. Only(c) /\ job'[c] = new /\ job' \in [Comparers -> Jobs]
  BY <1>2, <1>7 DEF Only, Types
<1> QED
  BY <1>1, <1>4, <1>6, <1>7, <1>8 DEF ChainFacts, SameLines, shown, chains

\* The headers after a visit of a chain that marks the unmet keys, or deletes them.
ShownHeads(n) == [k \in Keys |-> IF k \in Unmet(n) THEN [heads[k] EXCEPT !.mark = diff]
                                                   ELSE heads[k]]
LeftHeads(n)  == [k \in Keys |-> IF k \in Unmet(n) THEN Gone ELSE heads[k]]

LEMMA ShowUnmetFacts ==
  ASSUME Types, NEW c \in Comparers, ShowUnmet(c)
  PROVE  /\ job[c].op = "diff"
         /\ \E n \in ChainNumbers :
              /\ ChainFacts(c, n) /\ Becomes(ShownHeads(n), usage.last)
              /\ mixed' = (mixed \/ (usage.kept /\ Unmet(n) \cap usage.last # {}))
         /\ heads' \in Headers /\ dirty' \subseteq Keys /\ mixed' \in BOOLEAN
         /\ UNCHANGED <<usage, diff, copy, marks_lock, call>>
<1>1. PICK n \in job[c].chains :
        /\ Becomes(ShownHeads(n), usage.last)
        /\ mixed' = (mixed \/ (usage.kept /\ Unmet(n) \cap usage.last # {}))
        /\ job' = ChainDone(c, n)
  BY DEF ShowUnmet, ShownHeads
<1>2. ChainFacts(c, n)
  BY <1>1, ChainDoneFacts DEF ShowUnmet
<1>3. ShownHeads(n) \in Headers
  <2>1. \A k \in Keys : heads[k] \in Header \cup {Gone}
    BY DEF Types, Headers
  <2>2. \A k \in Unmet(n) : heads[k] \in Header /\ [heads[k] EXCEPT !.mark = diff] \in Header
    BY <2>1 DEF Unmet, Types, Header
  <2> QED
    BY <2>1, <2>2 DEF ShownHeads, Headers
<1>4. mixed' \in BOOLEAN /\ n \in ChainNumbers
  BY <1>1, <1>2 DEF ChainFacts
<1> QED
  BY <1>1, <1>2, <1>3, <1>4, BecomesType DEF ShowUnmet

LEMMA DeleteUnmetFacts ==
  ASSUME Types, NEW c \in Comparers, DeleteUnmet(c)
  PROVE  /\ job[c].op # "diff"
         /\ \E n \in ChainNumbers : ChainFacts(c, n) /\ Becomes(LeftHeads(n), {})
         /\ heads' \in Headers /\ dirty' \subseteq Keys
         /\ UNCHANGED <<usage, mixed, diff, copy, marks_lock, call>>
<1>1. PICK n \in job[c].chains : Becomes(LeftHeads(n), {}) /\ job' = ChainDone(c, n)
  BY DEF DeleteUnmet, LeftHeads
<1>2. ChainFacts(c, n)
  BY <1>1, ChainDoneFacts DEF DeleteUnmet
<1>3. LeftHeads(n) \in Headers
  BY DEF LeftHeads, Types, Headers
<1>4. n \in ChainNumbers
  BY <1>2 DEF ChainFacts
<1> QED
  BY <1>1, <1>2, <1>3, <1>4, BecomesType DEF DeleteUnmet

LEMMA CompareEndsFacts ==
  ASSUME Types, NEW c \in Comparers, CompareEnds(c)
  PROVE  /\ Only(c) /\ job' \in [Comparers -> Jobs] /\ job[c].at = "ends" /\ job'[c] = NoJob
         /\ ~marks_lock' /\ marks_lock' \in BOOLEAN /\ Leave
         /\ heads' = heads /\ diff' = diff /\ dirty' \subseteq Keys
         /\ copy' \in [heads : Headers, diff : 0 .. 1]
         /\ UNCHANGED <<usage, mixed, call>>
<1>1. job' = [job EXCEPT ![c] = NoJob] /\ Leave /\ marks_lock' = FALSE
  BY DEF CompareEnds
<1> QED
  BY <1>1, LeaveType, NoJobType DEF CompareEnds, Only, Types

-----------------------------------------------------------------------------
(* What the other calls do to them.                                         *)

LEMMA CallBeginsFacts ==
  ASSUME Types, NEW o \in Others, CallBegins(o)
  PROVE  /\ call' \in [Others -> Calls] /\ call[o] = NoCall /\ MayEnter
         /\ \A q \in Others : q # o => call'[q] = call[q]
         /\ UNCHANGED <<usage, mixed, heads, diff, copy, dirty, marks_lock, job>>
<1>1. PICK kind \in usage.calls :
        call' = [call EXCEPT ![o] = [kind |-> kind, mark |-> IF kind = "file" THEN diff ELSE 0]]
  BY DEF CallBegins
<1>2. [kind |-> kind, mark |-> IF kind = "file" THEN diff ELSE 0] \in Calls
  BY UsageFacts DEF Types, Calls
<1> QED
  BY <1>1, <1>2 DEF CallBegins, Types, content

\* A key changes: of it nothing is told any more.
Touched(k) ==
  /\ job' \in [Comparers -> Jobs]
  /\ \A c \in Comparers :
       /\ job'[c].at = job[c].at /\ job'[c].op = job[c].op /\ job'[c].file = job[c].file
       /\ job'[c].mark = job[c].mark /\ job'[c].pos = job[c].pos
       /\ job'[c].met = job[c].met /\ job'[c].part = job[c].part
       /\ job'[c].chains = job[c].chains /\ job'[c].failed = job[c].failed
       /\ DOMAIN job'[c].before \subseteq DOMAIN job[c].before
       /\ job'[c].shown \subseteq job[c].shown
       /\ \A i \in DOMAIN job'[c].before :
            /\ job'[c].before[i] = job[c].before[i]
            /\ heads'[k] # heads[k] => i # k
            /\ \A s : s[2] = i => (s \in job'[c].shown <=> s \in job[c].shown)

LEMMA TouchFacts ==
  ASSUME Types, NEW k \in Keys, Touch(k)
  PROVE  Touched(k)
<1>1. CASE heads'[k] = heads[k]
  BY <1>1 DEF Touch, Touched, Types
<1>2. CASE heads'[k] # heads[k]
  <2> DEFINE Cut(j) == [j EXCEPT !.before = [i \in DOMAIN @ \ {k} |-> @[i]],
                                 !.shown = {s \in @ : s[2] # k}]
  <2>1. job' = [c \in Comparers |-> Cut(job[c])]
    BY <1>2 DEF Touch
  <2>2. ASSUME NEW j \in Jobs
        PROVE  /\ Cut(j) \in Jobs
               /\ Cut(j).at = j.at /\ Cut(j).op = j.op /\ Cut(j).file = j.file
               /\ Cut(j).mark = j.mark /\ Cut(j).pos = j.pos /\ Cut(j).met = j.met
               /\ Cut(j).part = j.part /\ Cut(j).chains = j.chains /\ Cut(j).failed = j.failed
               /\ Cut(j).before = [i \in DOMAIN j.before \ {k} |-> j.before[i]]
               /\ Cut(j).shown = {s \in j.shown : s[2] # k}
    <3> DEFINE before == [i \in DOMAIN j.before \ {k} |-> j.before[i]]
               shown == {s \in j.shown : s[2] # k}
    <3>1. before \in UNION {[D -> Values \cup {Gone}] : D \in SUBSET Keys}
      <4>1. PICK D \in SUBSET Keys : j.before \in [D -> Values \cup {Gone}]
        BY DEF Jobs
      <4>2. D \ {k} \in SUBSET Keys /\ before \in [D \ {k} -> Values \cup {Gone}]
        BY <4>1
      <4> QED
        BY <4>2
    <3>2. shown \in SUBSET (Signs \X Keys \X (Values \cup {Gone}))
      BY DEF Jobs
    <3> HIDE DEF before, shown
    <3>3. Cut(j) = [j EXCEPT !.before = before, !.shown = shown]
      BY DEF before, shown, Jobs
    <3> QED
      BY <3>1, <3>2, <3>3 DEF Jobs, before, shown
  <2> HIDE DEF Cut
  <2>3. \A c \in Comparers : job[c] \in Jobs /\ job'[c] = Cut(job[c])
    BY <2>1 DEF Types
  <2>4. job' \in [Comparers -> Jobs]
    BY <2>1, <2>2, <2>3
  <2>5. ASSUME NEW c \in Comparers
        PROVE  /\ DOMAIN job'[c].before \subseteq DOMAIN job[c].before
               /\ \A i \in DOMAIN job'[c].before : job'[c].before[i] = job[c].before[i] /\ i # k
               /\ job'[c].shown = {s \in job[c].shown : s[2] # k}
    <3>1. job'[c].before = [i \in DOMAIN job[c].before \ {k} |-> job[c].before[i]]
      BY <2>2, <2>3
    <3>2. job'[c].shown = {s \in job[c].shown : s[2] # k}
      BY <2>2, <2>3
    <3> QED
      BY <3>1, <3>2
  <2>6. ASSUME NEW c \in Comparers
        PROVE  /\ job'[c].at = job[c].at /\ job'[c].op = job[c].op /\ job'[c].file = job[c].file
               /\ job'[c].mark = job[c].mark /\ job'[c].pos = job[c].pos
               /\ job'[c].met = job[c].met /\ job'[c].part = job[c].part
               /\ job'[c].chains = job[c].chains /\ job'[c].failed = job[c].failed
    <3>1. job[c] \in Jobs /\ job'[c] = Cut(job[c])
      BY <2>3
    <3> QED
      BY <2>2, <3>1, ZenonT(30)
  <2>7. ASSUME NEW c \in Comparers, NEW i \in DOMAIN job'[c].before, NEW s, s[2] = i
        PROVE  s \in job'[c].shown <=> s \in job[c].shown
    BY <2>5, <2>7
  <2> QED
    BY <2>4, <2>5, <2>6, <2>7 DEF Touched
<1> QED
  BY <1>1, <1>2

LEMMA OneVisitType ==
  ASSUME Types, NEW o \in Others, call[o].kind \in {"file", "single"}, OneVisit(o)
  PROVE  /\ call' \in [Others -> Calls] /\ \A q \in Others : q # o => call'[q] = call[q]
         /\ call[o] # NoCall
BY DEF Types, Calls, OneVisit, NoCall

\* The key k has the header `new' then.
CallSetsTo(o, k, new) ==
  /\ new \in Header \cup {Gone} /\ Becomes([heads EXCEPT ![k] = new], {}) /\ Touched(k)

LEMMA CallSetsFacts ==
  ASSUME Types, NEW o \in Others, CallSets(o)
  PROVE  /\ \E k \in Keys, new \in Header \cup {Gone} :
              /\ CallSetsTo(o, k, new) /\ (heads[k] # Gone => new # Gone)
              /\ mixed' = (mixed \/ (new # Gone /\ new.mark # diff))
         /\ call[o] # NoCall /\ call' \in [Others -> Calls]
         /\ \A q \in Others : q # o => call'[q] = call[q]
         /\ job' \in [Comparers -> Jobs] /\ heads' \in Headers /\ dirty' \subseteq Keys
         /\ mixed' \in BOOLEAN
         /\ UNCHANGED <<usage, diff, copy, marks_lock>>
<1>1. PICK l \in Lines, allowed \in {{"add"}, {"add", "replace"}} :
        /\ Becomes([heads EXCEPT ![l.key] = Visited(@, l, call[o].mark, allowed)], {})
        /\ Touch(l.key)
        /\ mixed' = (mixed \/ (heads'[l.key] # Gone /\ heads'[l.key].mark # diff))
  BY DEF CallSets
<1>2. l.key \in Keys /\ call[o].mark \in 0 .. 1 /\ heads[l.key] \in Header \cup {Gone}
  BY DEF Lines, Types, Calls, Headers
<1> DEFINE new == Visited(heads[l.key], l, call[o].mark, allowed)
<1>3. new \in Header \cup {Gone} /\ (heads[l.key] # Gone => new # Gone)
  BY <1>2, VisitedType
<1>4. Becomes([heads EXCEPT ![l.key] = new], {})
  BY <1>1, <1>2 DEF Types, Headers
<1> HIDE DEF new
<1>5. [heads EXCEPT ![l.key] = new] \in Headers
  BY <1>2, <1>3 DEF Types, Headers
<1>6. Touched(l.key)
  BY <1>1, <1>2, TouchFacts
<1>7. heads'[l.key] = new
  BY <1>2, <1>4 DEF Becomes, Types, Headers
<1>8. CallSetsTo(o, l.key, new) /\ mixed' = (mixed \/ (new # Gone /\ new.mark # diff))
  BY <1>1, <1>3, <1>4, <1>6, <1>7 DEF CallSetsTo
<1>9. mixed' \in BOOLEAN /\ job' \in [Comparers -> Jobs]
  BY <1>6, <1>8 DEF Touched
<1>10. call[o] # NoCall /\ call' \in [Others -> Calls] /\ \A q \in Others : q # o =>
        call'[q] = call[q]
  BY OneVisitType DEF CallSets
<1> QED
  BY <1>2, <1>3, <1>4, <1>5, <1>8, <1>9, <1>10, BecomesType DEF CallSets

LEMMA CallDeletesFacts ==
  ASSUME Types, NEW o \in Others, CallDeletes(o)
  PROVE  /\ usage.deletes /\ \E k \in Keys : CallSetsTo(o, k, Gone)
         /\ call[o] # NoCall /\ call' \in [Others -> Calls]
         /\ \A q \in Others : q # o => call'[q] = call[q]
         /\ job' \in [Comparers -> Jobs] /\ heads' \in Headers /\ dirty' \subseteq Keys
         /\ UNCHANGED <<usage, mixed, diff, copy, marks_lock>>
<1>1. PICK k \in Keys : Becomes([heads EXCEPT ![k] = Gone], {}) /\ Touch(k)
  BY DEF CallDeletes
<1>2. [heads EXCEPT ![k] = Gone] \in Headers
  BY DEF Types, Headers
<1>3. Touched(k)
  BY <1>1, TouchFacts
<1>4. call[o] # NoCall /\ call' \in [Others -> Calls] /\ \A q \in Others : q # o =>
        call'[q] = call[q]
  BY OneVisitType DEF CallDeletes
<1>5. CallSetsTo(o, k, Gone) /\ job' \in [Comparers -> Jobs]
  BY <1>1, <1>3 DEF CallSetsTo, Touched
<1> QED
  BY <1>1, <1>2, <1>4, <1>5, BecomesType DEF CallDeletes

LEMMA CallEndsFacts ==
  ASSUME Types, NEW o \in Others, CallEnds(o)
  PROVE  /\ call' \in [Others -> Calls] /\ call[o] # NoCall /\ call'[o] = NoCall /\ Leave
         /\ \A q \in Others : q # o => call'[q] = call[q]
         /\ heads' = heads /\ diff' = diff /\ dirty' \subseteq Keys
         /\ copy' \in [heads : Headers, diff : 0 .. 1]
         /\ UNCHANGED <<usage, mixed, marks_lock, job>>
<1>1. NoCall \in Calls
  BY DEF NoCall, Calls
<1>2. call' = [call EXCEPT ![o] = NoCall] /\ call[o].kind \in {"file", "over"} /\ Leave
  BY DEF CallEnds
<1>3. call[o] # NoCall
  BY <1>2 DEF NoCall
<1> QED
  BY <1>1, <1>2, <1>3, LeaveType DEF CallEnds, Types

\* Of those inside, which is one, one dies.
LEMMA DiesFacts ==
  ASSUME Types, TurnInv, NEW t \in Comparers \cup Others, Dies(t)
  PROVE  /\ usage.kept /\ ~usage.parallel
         /\ \A c \in Comparers : job[c].at # "out" => c = t
         /\ \A c \in Comparers : job'[c].at = "out"
         /\ \A o \in Others : call'[o] = NoCall
         /\ \A c \in Comparers : job'[c] = NoJob \/ job'[c] = job[c]
         /\ job' \in [Comparers -> Jobs] /\ call' \in [Others -> Calls]
         /\ heads' \in Headers /\ dirty' = {} /\ diff' \in 0 .. 1 /\ mixed' \in BOOLEAN
         /\ UNCHANGED <<usage, copy, marks_lock>>
<1>1. /\ usage.kept /\ ~usage.parallel /\ t \in Inside
      /\ job' = [c \in Comparers |-> IF c = t THEN NoJob ELSE job[c]]
      /\ call' = [o \in Others |-> IF o = t THEN NoCall ELSE call[o]]
  BY DEF Dies
<1>2. (t \in Comparers /\ job[t].at # "out") \/ (t \in Others /\ call[t] # NoCall)
  BY <1>1 DEF Inside
<1>3. /\ \A c \in Comparers : job[c].at # "out" => c = t
      /\ \A o \in Others : call[o] # NoCall => o = t
  BY <1>1, <1>2 DEF TurnInv
<1>4. NoJob.at = "out" /\ NoCall \in Calls
  BY DEF NoJob, NoCall, Calls
<1>5. /\ \A c \in Comparers : job'[c] = IF c = t THEN NoJob ELSE job[c]
      /\ \A o \in Others : call'[o] = IF o = t THEN NoCall ELSE call[o]
      /\ job' \in [Comparers -> Jobs] /\ call' \in [Others -> Calls]
  BY <1>1, <1>4, NoJobType DEF Types
<1>6. heads' \in Headers /\ diff' \in 0 .. 1
  <2>1. heads' = [k \in Keys |-> IF k \in dirty THEN copy.heads[k] ELSE heads[k]]
    BY DEF Dies
  <2>2. copy.heads \in Headers /\ copy.diff \in 0 .. 1 /\ heads \in Headers
    BY DEF Types
  <2> QED
    BY <2>1, <2>2 DEF Dies, Types, Headers
<1>7. mixed' \in BOOLEAN /\ dirty' = {} /\ UNCHANGED <<usage, copy, marks_lock>>
  BY DEF Dies
<1> QED
  BY <1>1, <1>3, <1>4, <1>5, <1>6, <1>7

LEMMA RestartFacts ==
  ASSUME Types, Restart
  PROVE  /\ usage.kept /\ Inside = {} /\ heads' = copy.heads /\ diff' = copy.diff /\ dirty' = {}
         /\ heads' \in Headers /\ diff' \in 0 .. 1 /\ marks_lock' \in BOOLEAN
         /\ \A c \in Comparers : job[c].at = "out"
         /\ UNCHANGED <<usage, mixed, copy, job, call>>
BY DEF Types, Restart, Inside

-----------------------------------------------------------------------------
(* The types, and whose turn it is.                                         *)

\* Every step keeps the types.
LEMMA TypesStep ==
  Types /\ TurnInv /\ [CompareNext]_compareVars => Types'
<1> SUFFICES ASSUME Types, TurnInv, [CompareNext]_compareVars PROVE Types'
  OBVIOUS
<1>1. ASSUME NEW c \in Comparers, Enter(c) PROVE Types'
  BY <1>1, EnterFacts DEF Types
<1>2. ASSUME NEW c \in Comparers, Flip(c) PROVE Types'
  BY <1>2, FlipFacts DEF Types
<1>3. ASSUME NEW c \in Comparers, VisitLine(c) PROVE Types'
  BY <1>3, VisitLineFacts DEF Types
<1>4. ASSUME NEW c \in Comparers, LineFails(c) PROVE Types'
  BY <1>4, LineFailsFacts DEF Types
<1>5. ASSUME NEW c \in Comparers, LinesEnd(c) PROVE Types'
  BY <1>5, LinesEndFacts DEF Types
<1>6. ASSUME NEW c \in Comparers, NextPart(c) PROVE Types'
  BY <1>6, NextPartFacts DEF Types
<1>7. ASSUME NEW c \in Comparers, ShowUnmet(c) PROVE Types'
  BY <1>7, ShowUnmetFacts DEF Types, ChainFacts
<1>8. ASSUME NEW c \in Comparers, DeleteUnmet(c) PROVE Types'
  BY <1>8, DeleteUnmetFacts DEF Types, ChainFacts
<1>9. ASSUME NEW c \in Comparers, CompareEnds(c) PROVE Types'
  BY <1>9, CompareEndsFacts DEF Types
<1>10. ASSUME NEW o \in Others, CallBegins(o) PROVE Types'
  BY <1>10, CallBeginsFacts DEF Types
<1>11. ASSUME NEW o \in Others, CallSets(o) PROVE Types'
  BY <1>11, CallSetsFacts DEF Types
<1>12. ASSUME NEW o \in Others, CallDeletes(o) PROVE Types'
  BY <1>12, CallDeletesFacts DEF Types
<1>13. ASSUME NEW o \in Others, CallEnds(o) PROVE Types'
  BY <1>13, CallEndsFacts DEF Types
<1>14. ASSUME NEW t \in Comparers \cup Others, Dies(t) PROVE Types'
  BY <1>14, DiesFacts DEF Types
<1>15. ASSUME Restart PROVE Types'
  BY <1>15, RestartFacts DEF Types
<1>16. CASE UNCHANGED compareVars
  BY <1>16 DEF compareVars, content, Types
<1> QED
  BY <1>1, <1>2, <1>3, <1>4, <1>5, <1>6, <1>7, <1>8, <1>9, <1>10, <1>11, <1>12, <1>13,
     <1>14, <1>15, <1>16 DEF CompareNext, Compares, Changes

\* Who enters looks whether somebody is inside.
LEMMA TurnStep ==
  Types /\ TurnInv /\ [CompareNext]_compareVars => TurnInv'
<1> SUFFICES ASSUME Types, TurnInv, [CompareNext]_compareVars PROVE TurnInv'
  OBVIOUS
<1>1. ASSUME NEW c \in Comparers, Enter(c) PROVE TurnInv'
  BY <1>1, EnterFacts DEF TurnInv, Types, Only, MayEnter, Inside
<1>2. ASSUME NEW c \in Comparers, Flip(c) PROVE TurnInv'
  BY <1>2, FlipFacts DEF TurnInv, Types, Only
<1>3. ASSUME NEW c \in Comparers, VisitLine(c) PROVE TurnInv'
  <2>1. usage' = usage /\ call' = call
    BY <1>3, VisitLineFacts
  <2>2. \A d \in Comparers : job'[d].at = job[d].at
    BY <1>3, VisitLineFacts DEF Only
  <2> QED
    BY <2>1, <2>2 DEF TurnInv
<1>4. ASSUME NEW c \in Comparers, LineFails(c) PROVE TurnInv'
  BY <1>4, LineFailsFacts DEF TurnInv, Types, Only
<1>5. ASSUME NEW c \in Comparers, LinesEnd(c) PROVE TurnInv'
  BY <1>5, LinesEndFacts DEF TurnInv, Types, Only
<1>6. ASSUME NEW c \in Comparers, NextPart(c) PROVE TurnInv'
  BY <1>6, NextPartFacts DEF TurnInv, Types, Only
<1>7. ASSUME NEW c \in Comparers, ShowUnmet(c) PROVE TurnInv'
  BY <1>7, ShowUnmetFacts DEF TurnInv, Types, ChainFacts, Only
<1>8. ASSUME NEW c \in Comparers, DeleteUnmet(c) PROVE TurnInv'
  BY <1>8, DeleteUnmetFacts DEF TurnInv, Types, ChainFacts, Only
<1>9. ASSUME NEW c \in Comparers, CompareEnds(c) PROVE TurnInv'
  BY <1>9, CompareEndsFacts DEF TurnInv, Types, Only, NoJob
<1>10. ASSUME NEW o \in Others, CallBegins(o) PROVE TurnInv'
  BY <1>10, CallBeginsFacts DEF TurnInv, Types, MayEnter, Inside
<1>11. ASSUME NEW o \in Others, CallSets(o) PROVE TurnInv'
  <2>1. \A c \in Comparers : job'[c].at = job[c].at
    BY <1>11, CallSetsFacts DEF CallSetsTo, Touched
  <2>2. call[o] # NoCall /\ usage' = usage /\ \A q \in Others : q # o =>
          call'[q] = call[q]
    BY <1>11, CallSetsFacts
  <2> QED
    BY <2>1, <2>2 DEF TurnInv
<1>12. ASSUME NEW o \in Others, CallDeletes(o) PROVE TurnInv'
  <2>1. \A c \in Comparers : job'[c].at = job[c].at
    BY <1>12, CallDeletesFacts DEF CallSetsTo, Touched
  <2>2. call[o] # NoCall /\ usage' = usage /\ \A q \in Others : q # o =>
          call'[q] = call[q]
    BY <1>12, CallDeletesFacts
  <2> QED
    BY <2>1, <2>2 DEF TurnInv
<1>13. ASSUME NEW o \in Others, CallEnds(o) PROVE TurnInv'
  BY <1>13, CallEndsFacts DEF TurnInv
<1>14. ASSUME NEW t \in Comparers \cup Others, Dies(t) PROVE TurnInv'
  BY <1>14, DiesFacts DEF TurnInv
<1>15. ASSUME Restart PROVE TurnInv'
  BY <1>15, RestartFacts DEF TurnInv
<1>16. CASE UNCHANGED compareVars
  BY <1>16 DEF compareVars, content, TurnInv
<1> QED
  BY <1>1, <1>2, <1>3, <1>4, <1>5, <1>6, <1>7, <1>8, <1>9, <1>10, <1>11, <1>12, <1>13,
     <1>14, <1>15, <1>16 DEF CompareNext, Compares, Changes

\* The mark of the set changes with the marks_lock.
LEMMA LockStep ==
  Types /\ TurnInv /\ WalkInv /\ LockInv /\ [CompareNext]_compareVars => LockInv'
<1> SUFFICES ASSUME Types, TurnInv, WalkInv, LockInv, [CompareNext]_compareVars
             PROVE  LockInv'
  OBVIOUS
<1>1. ASSUME NEW c \in Comparers, Enter(c) PROVE LockInv'
  BY <1>1, EnterFacts DEF LockInv, Types, Only, SameLines, Busy
<1>2. ASSUME NEW c \in Comparers, Flip(c) PROVE LockInv'
  <2>1. /\ \A d \in Comparers : d # c => job'[d] = job[d] /\ job[d].at \notin Busy
        /\ job'[c].mark = diff' /\ ~job'[c].failed /\ marks_lock'
    <3>1. ~marks_lock /\ \A d \in Comparers : job[d].at \notin Busy
      BY <1>2, FlipFacts DEF LockInv
    <3>2. ~job[c].failed
      BY <1>2, FlipFacts DEF WalkInv, WalkOk
    <3> QED
      BY <1>2, <3>1, <3>2, FlipFacts DEF Only
  <2> QED
    BY <2>1 DEF LockInv
<1>3. ASSUME NEW c \in Comparers, VisitLine(c) PROVE LockInv'
  <2>1. UNCHANGED <<diff, marks_lock, mixed>>
    BY <1>3, VisitLineFacts
  <2>2. \A d \in Comparers : job'[d].at = job[d].at /\ job'[d].mark = job[d].mark
                             /\ job'[d].failed = job[d].failed
    BY <1>3, VisitLineFacts DEF Only
  <2> QED
    BY <2>1, <2>2 DEF LockInv
<1>4. ASSUME NEW c \in Comparers, LineFails(c) PROVE LockInv'
  BY <1>4, LineFailsFacts DEF LockInv, Types, Only, SameLines, Busy
<1>5. ASSUME NEW c \in Comparers, LinesEnd(c) PROVE LockInv'
  BY <1>5, LinesEndFacts DEF LockInv, Types, Only, SameLines, Busy
<1>6. ASSUME NEW c \in Comparers, NextPart(c) PROVE LockInv'
  BY <1>6, NextPartFacts DEF LockInv, Types, Only, SameLines, Busy
<1>7. ASSUME NEW c \in Comparers, ShowUnmet(c) PROVE LockInv'
  BY <1>7, ShowUnmetFacts DEF LockInv, Types, ChainFacts, Only, SameLines, Busy
<1>8. ASSUME NEW c \in Comparers, DeleteUnmet(c) PROVE LockInv'
  BY <1>8, DeleteUnmetFacts DEF LockInv, Types, ChainFacts, Only, SameLines, Busy
<1>9. ASSUME NEW c \in Comparers, CompareEnds(c) PROVE LockInv'
  BY <1>9, CompareEndsFacts DEF LockInv, Types, Only, NoJob, Busy
<1>10. ASSUME NEW o \in Others, CallBegins(o) PROVE LockInv'
  BY <1>10, CallBeginsFacts DEF LockInv
<1>11. ASSUME NEW o \in Others, CallSets(o) PROVE LockInv'
  <2>1. \A c \in Comparers : job'[c].at = job[c].at /\ job'[c].mark = job[c].mark
                               /\ job'[c].failed = job[c].failed
    BY <1>11, CallSetsFacts DEF CallSetsTo, Touched
  <2>2. diff' = diff /\ marks_lock' = marks_lock /\ (mixed => mixed')
    BY <1>11, CallSetsFacts
  <2> QED
    BY <2>1, <2>2 DEF LockInv
<1>12. ASSUME NEW o \in Others, CallDeletes(o) PROVE LockInv'
  <2>1. \A c \in Comparers : job'[c].at = job[c].at /\ job'[c].mark = job[c].mark
                               /\ job'[c].failed = job[c].failed
    BY <1>12, CallDeletesFacts DEF CallSetsTo, Touched
  <2>2. diff' = diff /\ marks_lock' = marks_lock /\ (mixed => mixed')
    BY <1>12, CallDeletesFacts
  <2> QED
    BY <2>1, <2>2 DEF LockInv
<1>13. ASSUME NEW o \in Others, CallEnds(o) PROVE LockInv'
  BY <1>13, CallEndsFacts DEF LockInv
<1>14. ASSUME NEW t \in Comparers \cup Others, Dies(t) PROVE LockInv'
  BY <1>14, DiesFacts DEF LockInv, Busy
<1>15. ASSUME Restart PROVE LockInv'
  BY <1>15, RestartFacts DEF LockInv, Busy
<1>16. CASE UNCHANGED compareVars
  BY <1>16 DEF compareVars, content, LockInv
<1> QED
  BY <1>1, <1>2, <1>3, <1>4, <1>5, <1>6, <1>7, <1>8, <1>9, <1>10, <1>11, <1>12, <1>13,
     <1>14, <1>15, <1>16 DEF CompareNext, Compares, Changes

\* The comparison comes to the chains after the lines, and to every part.
LEMMA WalkStep ==
  Types /\ TurnInv /\ WalkInv /\ [CompareNext]_compareVars => WalkInv'
<1> SUFFICES ASSUME Types, TurnInv, WalkInv, [CompareNext]_compareVars PROVE WalkInv'
  OBVIOUS
<1>1. ASSUME NEW c \in Comparers, Enter(c) PROVE WalkInv'
  <2>1. \A d \in Comparers : d # c => job'[d] = job[d]
    BY <1>1, EnterFacts DEF Only
  <2>2. job[c].pos \in Nat /\ Len(job[c].file) \in Nat /\ Len(job'[c].file) \in Nat
    BY <1>1, EnterFacts DEF Types, Jobs
  <2>3. WalkOk(job[c])
    BY DEF WalkInv
  <2>4. WalkOk(job'[c])
    BY <1>1, <2>2, <2>3, EnterFacts DEF WalkOk, SameLines, Walks
  <2> QED
    BY <2>1, <2>4 DEF WalkInv
<1>2. ASSUME NEW c \in Comparers, Flip(c) PROVE WalkInv'
  <2>1. \A d \in Comparers : d # c => job'[d] = job[d]
    BY <1>2, FlipFacts DEF Only
  <2>2. job[c].pos \in Nat /\ Len(job[c].file) \in Nat /\ Len(job'[c].file) \in Nat
    BY <1>2, FlipFacts DEF Types, Jobs
  <2>3. WalkOk(job[c])
    BY DEF WalkInv
  <2>4. WalkOk(job'[c])
    BY <1>2, <2>2, <2>3, FlipFacts DEF WalkOk, SameLines, Walks
  <2> QED
    BY <2>1, <2>4 DEF WalkInv
<1>3. ASSUME NEW c \in Comparers, VisitLine(c) PROVE WalkInv'
  <2>1. \A d \in Comparers : d # c => job'[d] = job[d]
    BY <1>3, VisitLineFacts DEF Only
  <2>2. job[c].pos \in Nat /\ Len(job[c].file) \in Nat /\ Len(job'[c].file) \in Nat
    BY <1>3, VisitLineFacts DEF Types, Jobs
  <2>3. WalkOk(job[c])
    BY DEF WalkInv
  <2>5. /\ job'[c].at = "lines" /\ job[c].at = "lines" /\ job'[c].pos = job[c].pos + 1
        /\ job'[c].file = job[c].file /\ job'[c].part = job[c].part
        /\ job'[c].failed = job[c].failed /\ job[c].pos < Len(job[c].file)
    BY <1>3, VisitLineFacts
  <2>4. WalkOk(job'[c])
    BY <2>2, <2>3, <2>5 DEF WalkOk, Walks
  <2> QED
    BY <2>1, <2>4 DEF WalkInv
<1>4. ASSUME NEW c \in Comparers, LineFails(c) PROVE WalkInv'
  <2>1. \A d \in Comparers : d # c => job'[d] = job[d]
    BY <1>4, LineFailsFacts DEF Only
  <2>2. job[c].pos \in Nat /\ Len(job[c].file) \in Nat /\ Len(job'[c].file) \in Nat
    BY <1>4, LineFailsFacts DEF Types, Jobs
  <2>3. WalkOk(job[c])
    BY DEF WalkInv
  <2>4. WalkOk(job'[c])
    BY <1>4, <2>2, <2>3, LineFailsFacts DEF WalkOk, SameLines, Walks
  <2> QED
    BY <2>1, <2>4 DEF WalkInv
<1>5. ASSUME NEW c \in Comparers, LinesEnd(c) PROVE WalkInv'
  <2>1. \A d \in Comparers : d # c => job'[d] = job[d]
    BY <1>5, LinesEndFacts DEF Only
  <2>2. job[c].pos \in Nat /\ Len(job[c].file) \in Nat /\ Len(job'[c].file) \in Nat
    BY <1>5, LinesEndFacts DEF Types, Jobs
  <2>3. WalkOk(job[c])
    BY DEF WalkInv
  <2>4. WalkOk(job'[c])
    BY <1>5, <2>2, <2>3, LinesEndFacts DEF WalkOk, SameLines, Walks
  <2> QED
    BY <2>1, <2>4 DEF WalkInv
<1>6. ASSUME NEW c \in Comparers, NextPart(c) PROVE WalkInv'
  <2>1. \A d \in Comparers : d # c => job'[d] = job[d]
    BY <1>6, NextPartFacts DEF Only
  <2>2. /\ job'[c].pos <= Len(job'[c].file) /\ job'[c].pos = Len(job'[c].file) /\ ~job'[c].failed
        /\ job'[c].at \in Walks
    BY <1>6, NextPartFacts DEF WalkInv, WalkOk, SameLines, Walks, Jobs, Types
  <2>3. job'[c].at = "chain" => \A n \in job'[c].chains : PartOf[n] < job'[c].part
    BY <1>6, NextPartFacts, PartFacts
  <2>4. job'[c].at = "ends" => \A p \in Parts : p < job'[c].part
    <3>1. SUFFICES ASSUME job'[c].at = "ends", NEW p \in Parts PROVE p < job'[c].part
      OBVIOUS
    <3>2. job'[c].part = job[c].part /\ job[c].part \notin Parts /\ job[c].part \in Nat \ {0}
      BY <1>6, <3>1, NextPartFacts DEF Types, Jobs
    <3>3. p \in Nat \ {0} /\ 1 .. p \subseteq Parts
      BY ComparisonAssumption
    <3> QED
      BY <3>2, <3>3
  <2> QED
    BY <2>1, <2>2, <2>3, <2>4 DEF WalkInv, WalkOk, Walks
<1>7. ASSUME NEW c \in Comparers, ShowUnmet(c) PROVE WalkInv'
  <2>1. PICK n \in ChainNumbers : ChainFacts(c, n)
    BY <1>7, ShowUnmetFacts
  <2> QED
    BY <2>1 DEF WalkInv, WalkOk, ChainFacts, SameLines, Walks, Only
<1>8. ASSUME NEW c \in Comparers, DeleteUnmet(c) PROVE WalkInv'
  <2>1. PICK n \in ChainNumbers : ChainFacts(c, n)
    BY <1>8, DeleteUnmetFacts
  <2> QED
    BY <2>1 DEF WalkInv, WalkOk, ChainFacts, SameLines, Walks, Only
<1>9. ASSUME NEW c \in Comparers, CompareEnds(c) PROVE WalkInv'
  BY <1>9, CompareEndsFacts DEF WalkInv, WalkOk, NoJob, Only, Walks
<1>10. ASSUME NEW o \in Others, CallBegins(o) PROVE WalkInv'
  BY <1>10, CallBeginsFacts DEF WalkInv, WalkOk
<1>11. ASSUME NEW o \in Others, CallSets(o) PROVE WalkInv'
  <2>1. \A c \in Comparers :
          /\ job'[c].at = job[c].at /\ job'[c].file = job[c].file /\ job'[c].pos = job[c].pos
          /\ job'[c].part = job[c].part /\ job'[c].chains = job[c].chains
          /\ job'[c].failed = job[c].failed /\ job'[c].met = job[c].met
          /\ job'[c].shown \subseteq job[c].shown
    BY <1>11, CallSetsFacts DEF CallSetsTo, Touched
  <2>2. ASSUME NEW c \in Comparers PROVE WalkOk(job'[c])
    <3>1. WalkOk(job[c])
      BY DEF WalkInv
    <3>2. \A p \in Parts : job'[c].met[p] = job[c].met[p]
      BY <2>1
    <3> QED
      BY <2>1, <3>1, <3>2 DEF WalkOk
  <2> QED
    BY <2>2 DEF WalkInv
<1>12. ASSUME NEW o \in Others, CallDeletes(o) PROVE WalkInv'
  <2>1. \A c \in Comparers :
          /\ job'[c].at = job[c].at /\ job'[c].file = job[c].file /\ job'[c].pos = job[c].pos
          /\ job'[c].part = job[c].part /\ job'[c].chains = job[c].chains
          /\ job'[c].failed = job[c].failed /\ job'[c].met = job[c].met
          /\ job'[c].shown \subseteq job[c].shown
    BY <1>12, CallDeletesFacts DEF CallSetsTo, Touched
  <2>2. ASSUME NEW c \in Comparers PROVE WalkOk(job'[c])
    <3>1. WalkOk(job[c])
      BY DEF WalkInv
    <3>2. \A p \in Parts : job'[c].met[p] = job[c].met[p]
      BY <2>1
    <3> QED
      BY <2>1, <3>1, <3>2 DEF WalkOk
  <2> QED
    BY <2>2 DEF WalkInv
<1>13. ASSUME NEW o \in Others, CallEnds(o) PROVE WalkInv'
  BY <1>13, CallEndsFacts DEF WalkInv, WalkOk
<1>14. ASSUME NEW t \in Comparers \cup Others, Dies(t) PROVE WalkInv'
  BY <1>14, DiesFacts DEF WalkInv, WalkOk, NoJob, Walks
<1>15. ASSUME Restart PROVE WalkInv'
  BY <1>15, RestartFacts DEF WalkInv, WalkOk
<1>16. CASE UNCHANGED compareVars
  BY <1>16 DEF compareVars, content, WalkInv, WalkOk
<1> QED
  BY <1>1, <1>2, <1>3, <1>4, <1>5, <1>6, <1>7, <1>8, <1>9, <1>10, <1>11, <1>12, <1>13,
     <1>14, <1>15, <1>16 DEF CompareNext, Compares, Changes

-----------------------------------------------------------------------------
(* The counted keys.                                                        *)

LEMMA MarkedFinite ==
  \A p \in Parts : IsFiniteSet(MarkedIn(p)) /\ Cardinality(MarkedIn(p)) \in Nat
<1>1. \A p \in Parts : MarkedIn(p) \subseteq Keys
  BY DEF MarkedIn
<1> QED
  BY <1>1, ComparisonAssumption, FS_Subset, FS_CardinalityType

LEMMA MarkedFiniteNext ==
  \A p \in Parts : IsFiniteSet(MarkedIn(p)') /\ Cardinality(MarkedIn(p)') \in Nat
<1>1. \A p \in Parts : MarkedIn(p)' \subseteq Keys
  BY DEF MarkedIn
<1> QED
  BY <1>1, ComparisonAssumption, FS_Subset, FS_CardinalityType

LEMMA MoreMarked ==
  ASSUME \A k \in Keys : Marked(k) => Marked(k)', NEW p \in Parts
  PROVE  Cardinality(MarkedIn(p)) <= Cardinality(MarkedIn(p)')
<1>1. MarkedIn(p) \subseteq MarkedIn(p)'
  BY DEF MarkedIn
<1>3. IsFiniteSet(MarkedIn(p)')
  BY MarkedFiniteNext
<1> QED
  BY <1>1, <1>3, FS_Subset

LEMMA CountKept ==
  ASSUME Types, Types', CountInv, ~mixed' => ~mixed, usage' = usage,
         ~mixed' => \A k \in Keys : Marked(k) => Marked(k)',
         \A d \in Comparers : job'[d].at \in Busy =>
           job[d].at \in Busy /\ job'[d].met = job[d].met
  PROVE  CountInv'
<1> SUFFICES ASSUME ~mixed', usage'.counted, NEW d \in Comparers, job'[d].at \in Busy,
                    NEW p \in Parts
             PROVE  job'[d].met[p] <= Cardinality(MarkedIn(p)')
  BY DEF CountInv
<1>1. job[d].met[p] <= Cardinality(MarkedIn(p)) /\ job'[d].met[p] = job[d].met[p]
  BY DEF CountInv
<1>2. Cardinality(MarkedIn(p)) <= Cardinality(MarkedIn(p)')
  BY MoreMarked
<1>3. Cardinality(MarkedIn(p)) \in Nat
  BY MarkedFinite
<1>5. Cardinality(MarkedIn(p)') \in Nat
  BY MarkedFiniteNext
<1>6. job[d].met[p] \in Nat
  BY DEF Types, Jobs
<1> QED
  BY <1>1, <1>2, <1>3, <1>5, <1>6

\* A key is counted when it gets the mark, and keeps it then.
LEMMA CountStep ==
  NoDeletesBesideCounts /\ Types /\ Types' /\ TurnInv /\ LockInv /\ WalkInv /\ CountInv
    /\ [CompareNext]_compareVars => CountInv'
<1> SUFFICES ASSUME NoDeletesBesideCounts, Types, Types', TurnInv, LockInv, WalkInv,
                    CountInv, [CompareNext]_compareVars
             PROVE  CountInv'
  OBVIOUS
<1>1. ASSUME NEW c \in Comparers, Enter(c) PROVE CountInv'
  <2>1. /\ \A d \in Comparers : job'[d].at \in Busy =>
          job[d].at \in Busy /\ job'[d].met = job[d].met
        /\ usage' = usage /\ mixed' = mixed /\ heads' = heads /\ diff' = diff
    BY <1>1, EnterFacts DEF Only, Busy
  <2> QED
    BY <2>1 DEF CountInv, MarkedIn, Marked
<1>2. ASSUME NEW c \in Comparers, Flip(c) PROVE CountInv'
  <2>1. \A d \in Comparers : d # c => job'[d] = job[d] /\ job[d].at \notin Busy
    BY <1>2, FlipFacts DEF LockInv, Only
  <2>2. \A p \in Parts : job'[c].met[p] = 0
    BY <1>2, FlipFacts DEF WalkInv, WalkOk
  <2>3. \A p \in Parts : 0 <= Cardinality(MarkedIn(p)')
    BY MarkedFiniteNext
  <2> QED
    BY <2>1, <2>2, <2>3 DEF CountInv
<1>3. ASSUME NEW c \in Comparers, VisitLine(c) PROVE CountInv'
  <2> DEFINE k == LineKey(c)
             q == PartOf[ChainOf[k]]
  <2>1. /\ heads' = [heads EXCEPT ![k] = NewHead(c)] /\ k \in Keys /\ heads \in Headers
        /\ UNCHANGED <<usage, mixed, diff>> /\ q \in Parts
    BY <1>3, VisitLineFacts, PartFacts DEF Types
  <2>2. NewHead(c) # Gone => NewHead(c).mark = diff
    BY <1>3, NewHeadFacts DEF LockInv, Busy, VisitLine
  <2>3. heads[k] # Gone => NewHead(c) # Gone
    BY <1>3, NewHeadFacts DEF VisitLine
  <2> HIDE DEF k, q
  <2>4. \A i \in Keys : Marked(i) => Marked(i)'
    BY <2>1, <2>2, <2>3 DEF Marked, Headers
  <2>5. /\ \A d \in Comparers : d # c => job'[d] = job[d]
        /\ job[c].at \in Busy /\ job[c].met \in [Parts -> Nat]
        /\ job'[c].met = [job[c].met EXCEPT
           ![q] = @ + (IF GotMark(heads[k], NewHead(c)) THEN 1 ELSE 0)]
    BY <1>3, VisitLineFacts DEF Only, Types, Jobs, Busy, k, q
  <2> SUFFICES ASSUME ~mixed', usage'.counted, NEW d \in Comparers, job'[d].at \in Busy,
                      NEW p \in Parts
               PROVE  job'[d].met[p] <= Cardinality(MarkedIn(p)')
    BY DEF CountInv
  <2>6. d = c
    BY <2>5 DEF LockInv
  <2>7. job[c].met[p] <= Cardinality(MarkedIn(p)) /\ job[c].met[p] \in Nat
    BY <2>1, <2>5 DEF CountInv
  <2>8. /\ Cardinality(MarkedIn(p)) <= Cardinality(MarkedIn(p)') /\ Cardinality(MarkedIn(p)) \in Nat
        /\ Cardinality(MarkedIn(p)') \in Nat
    BY <2>4, MoreMarked, MarkedFinite, MarkedFiniteNext
  <2>9. CASE p = q /\ GotMark(heads[k], NewHead(c))
    <3>1. k \notin MarkedIn(p) /\ k \in MarkedIn(p)'
      BY <2>1, <2>2, <2>9 DEF GotMark, MarkedIn, Marked, Headers, q
    <3>2. MarkedIn(p) \cup {k} \subseteq MarkedIn(p)' /\ MarkedIn(p)' \subseteq Keys
      BY <2>4, <3>1 DEF MarkedIn
    <3>3. IsFiniteSet(MarkedIn(p)) /\ IsFiniteSet(MarkedIn(p)')
      BY <3>2, ComparisonAssumption, FS_Subset, MarkedFinite
    <3>4. Cardinality(MarkedIn(p) \cup {k}) = Cardinality(MarkedIn(p)) + 1
      BY <3>1, <3>3, FS_AddElement
    <3>5. Cardinality(MarkedIn(p) \cup {k}) <= Cardinality(MarkedIn(p)')
      BY <3>2, <3>3, FS_Subset
    <3>6. job'[c].met[p] = job[c].met[p] + 1
      BY <2>5, <2>9
    <3> QED
      BY <2>6, <2>7, <2>8, <3>4, <3>5, <3>6
  <2>10. CASE ~(p = q /\ GotMark(heads[k], NewHead(c)))
    <3>1. job'[c].met[p] = job[c].met[p]
      BY <2>5, <2>10
    <3> QED
      BY <2>6, <2>7, <2>8, <3>1
  <2> QED
    BY <2>9, <2>10
<1>4. ASSUME NEW c \in Comparers, LineFails(c) PROVE CountInv'
  BY <1>4, LineFailsFacts DEF CountInv
<1>5. ASSUME NEW c \in Comparers, LinesEnd(c) PROVE CountInv'
  <2>1. /\ \A d \in Comparers : job'[d].at \in Busy =>
          job[d].at \in Busy /\ job'[d].met = job[d].met
        /\ usage' = usage /\ mixed' = mixed /\ heads' = heads /\ diff' = diff
    BY <1>5, LinesEndFacts DEF Only, Busy
  <2> QED
    BY <2>1 DEF CountInv, MarkedIn, Marked
<1>6. ASSUME NEW c \in Comparers, NextPart(c) PROVE CountInv'
  <2>1. /\ \A d \in Comparers : job'[d].at \in Busy =>
          job[d].at \in Busy /\ job'[d].met = job[d].met
        /\ usage' = usage /\ mixed' = mixed /\ heads' = heads /\ diff' = diff
    BY <1>6, NextPartFacts DEF Only, Busy
  <2> QED
    BY <2>1 DEF CountInv, MarkedIn, Marked
<1>7. ASSUME NEW c \in Comparers, ShowUnmet(c) PROVE CountInv'
  <2>1. PICK n \in ChainNumbers : ChainFacts(c, n) /\ heads' = ShownHeads(n)
    BY <1>7, ShowUnmetFacts DEF Becomes
  <2>2. diff' = diff /\ usage' = usage /\ (mixed => mixed') /\ heads \in Headers
    BY <1>7, ShowUnmetFacts DEF Types
  <2>3. \A k \in Keys : Marked(k) => Marked(k)'
    BY <2>1, <2>2 DEF ShownHeads, Unmet, Marked
  <2>4. \A d \in Comparers : job'[d].at \in Busy =>
          job[d].at \in Busy /\ job'[d].met = job[d].met
    BY <2>1 DEF ChainFacts, Only, Busy
  <2> QED
    BY <2>2, <2>3, <2>4, CountKept
<1>8. ASSUME NEW c \in Comparers, DeleteUnmet(c) PROVE CountInv'
  <2>1. PICK n \in ChainNumbers : ChainFacts(c, n) /\ heads' = LeftHeads(n)
    BY <1>8, DeleteUnmetFacts DEF Becomes
  <2>2. diff' = diff /\ usage' = usage /\ (mixed => mixed') /\ heads \in Headers
    BY <1>8, DeleteUnmetFacts DEF Types
  <2>3. \A k \in Keys : Marked(k) => Marked(k)'
    BY <2>1, <2>2 DEF LeftHeads, Unmet, Marked
  <2>4. \A d \in Comparers : job'[d].at \in Busy =>
          job[d].at \in Busy /\ job'[d].met = job[d].met
    BY <2>1 DEF ChainFacts, Only, Busy
  <2> QED
    BY <2>2, <2>3, <2>4, CountKept
<1>9. ASSUME NEW c \in Comparers, CompareEnds(c) PROVE CountInv'
  <2>1. /\ \A d \in Comparers : job'[d].at \in Busy =>
          job[d].at \in Busy /\ job'[d].met = job[d].met
        /\ usage' = usage /\ mixed' = mixed /\ heads' = heads /\ diff' = diff
    BY <1>9, CompareEndsFacts DEF Only, Busy, NoJob
  <2> QED
    BY <2>1 DEF CountInv, MarkedIn, Marked
<1>10. ASSUME NEW o \in Others, CallBegins(o) PROVE CountInv'
  BY <1>10, CallBeginsFacts DEF CountInv, MarkedIn, Marked
<1>11. ASSUME NEW o \in Others, CallSets(o) PROVE CountInv'
  <2>1. PICK k \in Keys, new \in Header \cup {Gone} :
          /\ CallSetsTo(o, k, new) /\ (heads[k] # Gone => new # Gone)
          /\ mixed' = (mixed \/ (new # Gone /\ new.mark # diff))
    BY <1>11, CallSetsFacts
  <2>2. diff' = diff /\ usage' = usage /\ heads' = [heads EXCEPT ![k] = new] /\ heads \in Headers
    BY <1>11, <2>1, CallSetsFacts DEF CallSetsTo, Becomes, Types
  <2>3. ~mixed' => \A i \in Keys : Marked(i) => Marked(i)'
    BY <2>1, <2>2 DEF Marked, Headers
  <2>4. \A d \in Comparers : job'[d].at \in Busy =>
          job[d].at \in Busy /\ job'[d].met = job[d].met
    BY <2>1 DEF CallSetsTo, Touched
  <2> QED
    BY <2>1, <2>2, <2>3, <2>4, CountKept
<1>12. ASSUME NEW o \in Others, CallDeletes(o) PROVE CountInv'
  <2>1. usage.deletes /\ call[o] # NoCall /\ usage' = usage /\ usage \in Usages
    BY <1>12, CallDeletesFacts DEF Types
  <2>2. usage.counted => ~usage.parallel
    BY <2>1 DEF NoDeletesBesideCounts
  <2>3. usage.counted => \A c \in Comparers : job[c].at = "out"
    BY <2>1, <2>2 DEF TurnInv
  <2>4. \A c \in Comparers : job'[c].at = job[c].at
    BY <1>12, CallDeletesFacts DEF CallSetsTo, Touched
  <2> QED
    BY <2>1, <2>3, <2>4 DEF CountInv, Busy
<1>13. ASSUME NEW o \in Others, CallEnds(o) PROVE CountInv'
  BY <1>13, CallEndsFacts DEF CountInv, MarkedIn, Marked
<1>14. ASSUME NEW t \in Comparers \cup Others, Dies(t) PROVE CountInv'
  BY <1>14, DiesFacts DEF CountInv, Busy
<1>15. ASSUME Restart PROVE CountInv'
  BY <1>15, RestartFacts DEF CountInv, Busy
<1>16. CASE UNCHANGED compareVars
  BY <1>16 DEF compareVars, content, CountInv, MarkedIn, Marked
<1> QED
  BY <1>1, <1>2, <1>3, <1>4, <1>5, <1>6, <1>7, <1>8, <1>9, <1>10, <1>11, <1>12, <1>13,
     <1>14, <1>15, <1>16 DEF CompareNext, Compares, Changes

-----------------------------------------------------------------------------
(* The marks.                                                               *)

\* A comparison that is through with every part has met every key.
LEMMA EndAgrees ==
  ASSUME Types, LockInv, WalkInv, AgreeInv, ~mixed, NEW c \in Comparers, job[c].at = "ends"
  PROVE  \A k \in Keys : heads[k] # Gone => Marked(k)
<1>1. ~job[c].failed
  BY DEF LockInv, Busy
<1>2. \A p \in Parts : p < job[c].part
  BY <1>1 DEF WalkInv, WalkOk
<1>3. \A k \in Keys : Passed(job[c], k)
  BY <1>2, PartFacts DEF Passed, Walks
<1> QED
  BY <1>3 DEF AgreeInv, Busy

\* A part that is left out has no unmet key.
LEMMA LeftOutMarked ==
  ASSUME Types, CountInv, ~mixed, usage.counted, NEW c \in Comparers, job[c].at \in Busy,
         NEW p \in Parts, Counter(p) <= job[c].met[p]
  PROVE  \A k \in Keys : PartOf[ChainOf[k]] = p /\ heads[k] # Gone => Marked(k)
<1> DEFINE all == {k \in Keys : heads[k] # Gone /\ PartOf[ChainOf[k]] = p}
<1>1. Counter(p) = Cardinality(all)
  BY DEF Counter
<1>2. all \subseteq Keys /\ MarkedIn(p) \subseteq all
  BY DEF MarkedIn, Marked
<1>3. IsFiniteSet(all) /\ IsFiniteSet(MarkedIn(p))
  BY <1>2, ComparisonAssumption, MarkedFinite, FS_Subset
<1>4. job[c].met[p] <= Cardinality(MarkedIn(p)) /\ job[c].met[p] \in Nat
  BY DEF CountInv, Types, Jobs
<1> HIDE DEF all
<1>5. Cardinality(all) \in Nat /\ Cardinality(MarkedIn(p)) \in Nat
  BY <1>3, FS_CardinalityType
<1>6. Cardinality(all) <= Cardinality(MarkedIn(p))
  BY <1>1, <1>4, <1>5
<1>7. /\ Cardinality(MarkedIn(p)) <= Cardinality(all)
      /\ Cardinality(all) = Cardinality(MarkedIn(p)) => all = MarkedIn(p)
  BY <1>2, <1>3, FS_Subset
<1>8. MarkedIn(p) = all
  BY <1>5, <1>6, <1>7
<1> QED
  BY <1>8 DEF all, MarkedIn

\* Who is through with what, after a chain ..
LEMMA PassedChain ==
  ASSUME Types, NEW c \in Comparers, NEW n \in ChainNumbers, ChainFacts(c, n), NEW k \in Keys
  PROVE  Passed(job'[c], k) <=> Passed(job[c], k) \/ (ChainOf[k] = n /\ PartOf[n] < job[c].part)
BY DEF ChainFacts, Passed, Walks

\* .. and after the next part.
LEMMA PassedPart ==
  ASSUME Types, NEW c \in Comparers, NextPart(c), NEW k \in Keys
  PROVE  Passed(job'[c], k) <=>
           \/ Passed(job[c], k)
           \/ job'[c].at = "part" /\ PartOf[ChainOf[k]] = job[c].part
<1>1. /\ ChainOf[k] \in ChainNumbers /\ PartOf[ChainOf[k]] \in Nat \ {0}
      /\ job[c].part \in Nat \ {0} /\ PartOf[ChainOf[k]] \in Parts
  BY PartFacts DEF Types, Jobs
<1> QED
  BY <1>1, NextPartFacts DEF Passed, Walks


\* Whoever gives a mark without `mixed' gives the mark of the set.
LEMMA AgreeStep ==
  Types /\ TurnInv /\ LockInv /\ WalkInv /\ CountInv /\ CopyInv /\ AgreeInv
    /\ [CompareNext]_compareVars => AgreeInv'
<1> SUFFICES ASSUME Types, TurnInv, LockInv, WalkInv, CountInv, CopyInv, AgreeInv,
                    [CompareNext]_compareVars
             PROVE  AgreeInv'
  OBVIOUS
<1>1. ASSUME NEW c \in Comparers, Enter(c) PROVE AgreeInv'
  <2>1. \A d \in Comparers : (job'[d].at \in Busy <=> job[d].at \in Busy)
                             /\ (job[d].at \in Busy => job'[d] = job[d])
    BY <1>1, EnterFacts DEF Only, Busy
  <2>2. UNCHANGED <<heads, diff, mixed>>
    BY <1>1, EnterFacts
  <2> QED
    BY <2>1, <2>2 DEF AgreeInv, Marked, Passed
<1>2. ASSUME NEW c \in Comparers, Flip(c) PROVE AgreeInv'
  <2>1. job'[c].at = "lines" /\ \A d \in Comparers : d # c =>
          job'[d] = job[d] /\ job[d].at \notin Busy
    BY <1>2, FlipFacts DEF Only, LockInv
  <2> QED
    BY <2>1 DEF AgreeInv, Passed, Busy, Walks
<1>3. ASSUME NEW c \in Comparers, VisitLine(c) PROVE AgreeInv'
  <2>1. /\ job'[c].at = "lines" /\ \A d \in Comparers : d # c =>
          job'[d] = job[d] /\ job[d].at \notin Busy
    BY <1>3, VisitLineFacts DEF Only, LockInv, Busy
  <2> QED
    BY <2>1 DEF AgreeInv, Passed, Busy, Walks
<1>4. ASSUME NEW c \in Comparers, LineFails(c) PROVE AgreeInv'
  BY <1>4, LineFailsFacts DEF AgreeInv
<1>5. ASSUME NEW c \in Comparers, LinesEnd(c) PROVE AgreeInv'
  <2>1. /\ job'[c].at = "part" /\ job'[c].part = 1
        /\ \A d \in Comparers : d # c => job'[d] = job[d] /\ job[d].at \notin Busy
    BY <1>5, LinesEndFacts DEF Only, LockInv, Busy, WalkInv, WalkOk
  <2>2. \A k \in Keys : ~(PartOf[ChainOf[k]] < 1)
    BY PartFacts
  <2> QED
    BY <2>1, <2>2 DEF AgreeInv, Passed, Busy, Walks
<1>6. ASSUME NEW c \in Comparers, NextPart(c) PROVE AgreeInv'
  <2>1. /\ job'[c].at \in Busy /\ job[c].at \in Busy
        /\ \A d \in Comparers : d # c => job'[d] = job[d] /\ job[d].at \notin Busy
    BY <1>6, NextPartFacts DEF Only, LockInv, Busy
  <2>2. UNCHANGED <<heads, diff, mixed>>
    BY <1>6, NextPartFacts
  <2>3. ASSUME ~mixed, NEW k \in Keys, Passed(job'[c], k), heads[k] # Gone PROVE Marked(k)
    <3>1. CASE Passed(job[c], k)
      BY <2>1, <2>3, <3>1 DEF AgreeInv
    <3>2. CASE ~Passed(job[c], k)
      <4>1. job'[c].at = "part" /\ PartOf[ChainOf[k]] = job[c].part
        BY <1>6, <2>3, <3>2, PassedPart
      <4>2. job[c].part \in Parts /\ usage.counted /\ Counter(job[c].part) <= job[c].met[job[c].part]
        BY <1>6, <4>1, NextPartFacts
      <4> QED
        BY <2>1, <2>3, <4>1, <4>2, LeftOutMarked
    <3> QED
      BY <3>1, <3>2
  <2> QED
    BY <2>1, <2>2, <2>3 DEF AgreeInv, Marked
<1>7. ASSUME NEW c \in Comparers, ShowUnmet(c) PROVE AgreeInv'
  <2>1. PICK n \in ChainNumbers : ChainFacts(c, n) /\ heads' = ShownHeads(n)
    BY <1>7, ShowUnmetFacts DEF Becomes
  <2>2. diff' = diff /\ (mixed => mixed') /\ heads \in Headers
    BY <1>7, ShowUnmetFacts DEF Types
  <2>3. /\ job'[c].at \in Busy /\ job[c].at \in Busy
        /\ \A d \in Comparers : d # c => job'[d] = job[d] /\ job[d].at \notin Busy
    BY <2>1 DEF ChainFacts, Only, LockInv, Busy
  <2>4. ASSUME ~mixed, NEW k \in Keys, Passed(job'[c], k), heads'[k] # Gone PROVE Marked(k)'
    <3>1. CASE ChainOf[k] = n
      BY <2>1, <2>2, <2>4, <3>1 DEF ShownHeads, Unmet, Marked, Headers, Header
    <3>2. CASE ChainOf[k] # n
      <4>1. Passed(job[c], k) /\ heads'[k] = heads[k]
        BY <2>1, <2>4, <3>2, PassedChain DEF ShownHeads, Unmet
      <4> QED
        BY <2>2, <2>3, <2>4, <4>1 DEF AgreeInv, Marked
    <3> QED
      BY <3>1, <3>2
  <2> QED
    BY <2>2, <2>3, <2>4 DEF AgreeInv
<1>8. ASSUME NEW c \in Comparers, DeleteUnmet(c) PROVE AgreeInv'
  <2>1. PICK n \in ChainNumbers : ChainFacts(c, n) /\ heads' = LeftHeads(n)
    BY <1>8, DeleteUnmetFacts DEF Becomes
  <2>2. diff' = diff /\ (mixed => mixed') /\ heads \in Headers
    BY <1>8, DeleteUnmetFacts DEF Types
  <2>3. /\ job'[c].at \in Busy /\ job[c].at \in Busy
        /\ \A d \in Comparers : d # c => job'[d] = job[d] /\ job[d].at \notin Busy
    BY <2>1 DEF ChainFacts, Only, LockInv, Busy
  <2>4. ASSUME ~mixed, NEW k \in Keys, Passed(job'[c], k), heads'[k] # Gone PROVE Marked(k)'
    <3>1. CASE ChainOf[k] = n
      BY <2>1, <2>2, <2>4, <3>1 DEF LeftHeads, Unmet, Marked, Headers, Header
    <3>2. CASE ChainOf[k] # n
      <4>1. Passed(job[c], k) /\ heads'[k] = heads[k]
        BY <2>1, <2>4, <3>2, PassedChain DEF LeftHeads, Unmet
      <4> QED
        BY <2>2, <2>3, <2>4, <4>1 DEF AgreeInv, Marked
    <3> QED
      BY <3>1, <3>2
  <2> QED
    BY <2>2, <2>3, <2>4 DEF AgreeInv
<1>9. ASSUME NEW c \in Comparers, CompareEnds(c) PROVE AgreeInv'
  <2>1. \A d \in Comparers : job'[d].at \notin Busy
    BY <1>9, CompareEndsFacts DEF Only, LockInv, Busy, NoJob
  <2>2. UNCHANGED <<heads, diff, mixed>> /\ job[c].at = "ends"
    BY <1>9, CompareEndsFacts
  <2> QED
    BY <2>1, <2>2, EndAgrees DEF AgreeInv, Marked
<1>10. ASSUME NEW o \in Others, CallBegins(o) PROVE AgreeInv'
  BY <1>10, CallBeginsFacts DEF AgreeInv, Marked, Passed
<1>11. ASSUME NEW o \in Others, CallSets(o) PROVE AgreeInv'
  <2>1. PICK k \in Keys, new \in Header \cup {Gone} :
          CallSetsTo(o, k, new) /\ mixed' = (mixed \/ (new # Gone /\ new.mark # diff))
    BY <1>11, CallSetsFacts
  <2>2. diff' = diff /\ heads' = [heads EXCEPT ![k] = new] /\ heads \in Headers /\ (mixed =>
          mixed')
    BY <1>11, <2>1, CallSetsFacts DEF CallSetsTo, Becomes, Types
  <2>3. \A d \in Comparers :
          job'[d].at = job[d].at /\ \A i \in Keys : Passed(job'[d], i) <=> Passed(job[d], i)
    BY <2>1 DEF CallSetsTo, Touched, Passed
  <2>4. ~mixed' =>
          \A i \in Keys : heads'[i] # Gone /\ (heads[i] # Gone => Marked(i)) => Marked(i)'
    BY <2>1, <2>2 DEF Marked, Headers
  <2>5. \A i \in Keys : heads[i] = Gone /\ heads'[i] # Gone /\ ~mixed' => Marked(i)'
    BY <2>1, <2>2 DEF Marked, Headers
  <2>6. \A i \in Keys : ~mixed' /\ Marked(i) /\ heads'[i] # Gone => Marked(i)'
    BY <2>4
  <2> QED
    BY <2>2, <2>3, <2>5, <2>6 DEF AgreeInv
<1>12. ASSUME NEW o \in Others, CallDeletes(o) PROVE AgreeInv'
  <2>1. PICK k \in Keys : CallSetsTo(o, k, Gone)
    BY <1>12, CallDeletesFacts
  <2> DEFINE new == Gone
  <2>2. diff' = diff /\ heads' = [heads EXCEPT ![k] = new] /\ heads \in Headers /\ (mixed =>
          mixed')
    BY <1>12, <2>1, CallDeletesFacts DEF CallSetsTo, Becomes, Types
  <2>3. \A d \in Comparers :
          job'[d].at = job[d].at /\ \A i \in Keys : Passed(job'[d], i) <=> Passed(job[d], i)
    BY <2>1 DEF CallSetsTo, Touched, Passed
  <2>4. ~mixed' =>
          \A i \in Keys : heads'[i] # Gone /\ (heads[i] # Gone => Marked(i)) => Marked(i)'
    BY <2>1, <2>2 DEF Marked, Headers
  <2>5. \A i \in Keys : heads[i] = Gone /\ heads'[i] # Gone /\ ~mixed' => Marked(i)'
    BY <2>1, <2>2 DEF Marked, Headers
  <2>6. \A i \in Keys : ~mixed' /\ Marked(i) /\ heads'[i] # Gone => Marked(i)'
    BY <2>4
  <2> QED
    BY <2>2, <2>3, <2>5, <2>6 DEF AgreeInv
<1>13. ASSUME NEW o \in Others, CallEnds(o) PROVE AgreeInv'
  BY <1>13, CallEndsFacts DEF AgreeInv, Marked, Passed
<1>14. ASSUME NEW t \in Comparers \cup Others, Dies(t) PROVE AgreeInv'
  <2> SUFFICES ASSUME ~mixed'
               PROVE  \A k \in Keys : heads'[k] # Gone => heads'[k].mark = diff'
    BY <1>14, DiesFacts DEF AgreeInv, Marked, Busy
  <2>1. ~mixed /\ heads' = [k \in Keys |-> IF k \in dirty THEN copy.heads[k] ELSE heads[k]]
        /\ diff' = (IF dirty = {} THEN diff ELSE copy.diff)
        /\ (t \in Comparers /\ dirty = {} => job[t].at \notin {"lines", "part", "chain"})
    BY <1>14 DEF Dies
  <2>2. /\ \A k \in Keys \ dirty : heads[k] = copy.heads[k]
        /\ \A k \in Keys : copy.heads[k] # Gone => copy.heads[k].mark = copy.diff
    BY <1>14, <2>1, DiesFacts DEF CopyInv
  <2>3. CASE dirty # {}
    BY <2>1, <2>2, <2>3
  <2>4. CASE dirty = {}
    <3>1. \A k \in Keys : heads[k] # Gone => Marked(k)
      <4>1. CASE t \in Comparers /\ job[t].at = "ends"
        BY <2>1, <4>1, EndAgrees
      <4>2. CASE ~(t \in Comparers /\ job[t].at = "ends")
        <5>1. \A c \in Comparers : job[c].at \notin Busy
          BY <1>14, <2>1, <2>4, <4>2, DiesFacts DEF Busy
        <5> QED
          BY <2>1, <5>1 DEF AgreeInv
      <4> QED
        BY <4>1, <4>2
    <3> QED
      BY <2>1, <2>4, <3>1 DEF Marked
  <2> QED
    BY <2>3, <2>4
<1>15. ASSUME Restart PROVE AgreeInv'
  BY <1>15, RestartFacts DEF AgreeInv, CopyInv, Marked, Busy
<1>16. CASE UNCHANGED compareVars
  BY <1>16 DEF compareVars, content, AgreeInv, Marked, Passed
<1> QED
  BY <1>1, <1>2, <1>3, <1>4, <1>5, <1>6, <1>7, <1>8, <1>9, <1>10, <1>11, <1>12, <1>13,
     <1>14, <1>15, <1>16 DEF CompareNext, Compares, Changes

-----------------------------------------------------------------------------
(* The keys of the file, and the others.                                    *)

\* What was found out about a key stays so while nobody touches it.
Kept(c) ==
  job'[c].at \in Busy /\ ~job'[c].failed =>
    /\ job[c].at \in Busy /\ ~job[c].failed /\ (job'[c].at = "lines" => job[c].at = "lines")
    /\ job'[c].op = job[c].op /\ job'[c].file = job[c].file /\ job'[c].pos = job[c].pos
    /\ job'[c].mark = job[c].mark
    /\ \A k \in DOMAIN job'[c].before :
         /\ k \in DOMAIN job[c].before /\ job'[c].before[k] = job[c].before[k]
         /\ Told(job'[c], k) = Told(job[c], k) /\ heads'[k] = heads[k]

LEMMA FileKept ==
  ASSUME NEW j, NEW m, NEW k, NEW h, m.op = j.op, m.file = j.file, m.pos = j.pos,
         m.mark = j.mark, m.before[k] = j.before[k], Told(m, k) = Told(j, k), FileDone(j, k, h)
  PROVE  FileDone(m, k, h)
BY DEF FileDone

LEMMA RestKept ==
  ASSUME NEW j, NEW m, NEW k, NEW h, m.op = j.op, m.file = j.file, m.mark = j.mark,
         m.before[k] = j.before[k], Told(m, k) = Told(j, k), Passed(m, k) <=> Passed(j, k),
         RestDone(j, k, h)
  PROVE  RestDone(m, k, h)
BY DEF RestDone

\* FileInv and RestInv for one comparison.
FileOf(j, hs) ==
  j.at \in Busy /\ ~j.failed =>
    \A k \in DOMAIN j.before :
      /\ Seen(j.file, j.pos, k) # {} => FileDone(j, k, hs[k])
      /\ Seen(j.file, j.pos, k) = {} /\ j.at = "lines" =>
           Value(hs[k]) = j.before[k] /\ Told(j, k) = {}

RestOf(j, hs) ==
  j.at \in Busy =>
    \A k \in DOMAIN j.before : Seen(j.file, j.pos, k) = {} => RestDone(j, k, hs[k])

LEMMA FileForEach ==
  /\ FileInv <=> \A c \in Comparers : FileOf(job[c], heads)
  /\ FileInv' <=> \A c \in Comparers : FileOf(job'[c], heads')
  /\ RestInv <=> (~mixed => \A c \in Comparers : RestOf(job[c], heads))
  /\ RestInv' <=> (~mixed' => \A c \in Comparers : RestOf(job'[c], heads'))
BY DEF FileInv, RestInv, FileOf, RestOf

LEMMA FileFrame ==
  ASSUME NEW c \in Comparers, Kept(c), FileOf(job[c], heads)
  PROVE  FileOf(job'[c], heads')
<1> SUFFICES ASSUME job'[c].at \in Busy, ~job'[c].failed, NEW k \in DOMAIN job'[c].before
             PROVE  /\ Seen(job'[c].file, job'[c].pos, k) # {} => FileDone(job'[c], k, heads'[k])
                    /\ Seen(job'[c].file, job'[c].pos, k) = {} /\ job'[c].at = "lines" =>
                         Value(heads'[k]) = job'[c].before[k] /\ Told(job'[c], k) = {}
  BY DEF FileOf
<1>1. /\ job[c].at \in Busy /\ ~job[c].failed /\ (job'[c].at = "lines" =>
        job[c].at = "lines")
      /\ job'[c].op = job[c].op /\ job'[c].file = job[c].file /\ job'[c].pos = job[c].pos
      /\ job'[c].mark = job[c].mark
      /\ k \in DOMAIN job[c].before /\ job'[c].before[k] = job[c].before[k]
      /\ Told(job'[c], k) = Told(job[c], k) /\ heads'[k] = heads[k]
  BY DEF Kept
<1>2. /\ Seen(job[c].file, job[c].pos, k) # {} => FileDone(job[c], k, heads[k])
      /\ Seen(job[c].file, job[c].pos, k) = {} /\ job[c].at = "lines" =>
           Value(heads[k]) = job[c].before[k] /\ Told(job[c], k) = {}
  BY <1>1 DEF FileOf
<1>3. Seen(job[c].file, job[c].pos, k) # {} => FileDone(job'[c], k, heads[k])
  BY <1>1, <1>2, FileKept
<1> QED
  BY <1>1, <1>2, <1>3

LEMMA RestFrame ==
  ASSUME NEW c \in Comparers, Kept(c), ~job'[c].failed, RestOf(job[c], heads),
         \A k \in DOMAIN job'[c].before : Passed(job'[c], k) <=> Passed(job[c], k)
  PROVE  RestOf(job'[c], heads')
<1> SUFFICES ASSUME job'[c].at \in Busy, NEW k \in DOMAIN job'[c].before,
                    Seen(job'[c].file, job'[c].pos, k) = {}
             PROVE  RestDone(job'[c], k, heads'[k])
  BY DEF RestOf
<1>1. /\ job[c].at \in Busy
      /\ job'[c].op = job[c].op /\ job'[c].file = job[c].file /\ job'[c].pos = job[c].pos
      /\ job'[c].mark = job[c].mark
      /\ k \in DOMAIN job[c].before /\ job'[c].before[k] = job[c].before[k]
      /\ Told(job'[c], k) = Told(job[c], k) /\ heads'[k] = heads[k]
  BY DEF Kept
<1>2. RestDone(job[c], k, heads[k])
  BY <1>1 DEF RestOf
<1> QED
  BY <1>1, <1>2, RestKept

\* A comparison that does not change, and a key that a call touches.
LEMMA SameKept ==
  ASSUME NEW c \in Comparers, job'[c].at \in Busy => job'[c] = job[c] /\ heads' = heads
  PROVE  Kept(c)
BY DEF Kept

LEMMA TouchedKept ==
  ASSUME NEW k \in Keys, Touched(k), heads \in Headers, NEW new, heads' = [heads EXCEPT ![k] = new],
         NEW c \in Comparers
  PROVE  Kept(c)
<1>1. /\ job'[c].at = job[c].at /\ job'[c].op = job[c].op /\ job'[c].file = job[c].file
      /\ job'[c].mark = job[c].mark /\ job'[c].pos = job[c].pos /\ job'[c].failed = job[c].failed
  BY DEF Touched
<1>2. ASSUME NEW i \in DOMAIN job'[c].before
      PROVE  /\ i \in DOMAIN job[c].before /\ job'[c].before[i] = job[c].before[i]
             /\ heads'[i] = heads[i]
             /\ \A s : s[2] = i => (s \in job'[c].shown <=> s \in job[c].shown)
  BY DEF Touched, Headers
<1>3. ASSUME NEW i \in DOMAIN job'[c].before PROVE Told(job'[c], i) = Told(job[c], i)
  BY <1>2 DEF Told
<1> QED
  BY <1>1, <1>2, <1>3 DEF Kept

\* The places of a key after the next line.
LEMMA SeenNext ==
  ASSUME NEW f, NEW n \in Nat, NEW k
  PROVE  /\ f[n + 1].key = k => Seen(f, n + 1, k) = Seen(f, n, k) \cup {n + 1}
         /\ f[n + 1].key # k => Seen(f, n + 1, k) = Seen(f, n, k)
<1>1. 1 .. n + 1 = (1 .. n) \cup {n + 1}
  OBVIOUS
<1> QED
  BY <1>1 DEF Seen

LEMMA LastNext ==
  ASSUME NEW f, NEW n \in Nat, NEW k, f[n + 1].key = k
  PROVE  LastOf(f, Seen(f, n + 1, k)) = f[n + 1].value
<1> DEFINE places == Seen(f, n + 1, k)
           last == CHOOSE i \in places : \A j \in places : j <= i
<1>1. n + 1 \in places /\ \A j \in places : j \in Nat /\ j <= n + 1
  BY DEF Seen
<1>2. \E i \in places : \A j \in places : j <= i
  BY <1>1
<1>3. last \in places /\ \A j \in places : j <= last
  BY <1>2
<1>4. last = n + 1
  BY <1>1, <1>3
<1> QED
  BY <1>4 DEF LastOf

LEMMA VisitFile ==
  ASSUME Types, LockInv, NEW c \in Comparers, VisitLine(c), FileOf(job[c], heads)
  PROVE  FileOf(job'[c], heads')
<1> DEFINE key == LineKey(c)
           l == job[c].file[job[c].pos + 1]
<1>1. /\ job[c].at = "lines" /\ job[c].pos < Len(job[c].file) /\ key \in Keys /\ heads \in Headers
      /\ job[c].pos \in Nat /\ job[c].mark \in 0 .. 1 /\ job[c].op \in Ops
      /\ l \in Lines /\ l.key = key /\ l.value \in Values /\ heads[key] \in Header \cup {Gone}
  BY VisitLineFacts, LineFacts DEF Types, Jobs, Headers, LineKey
<1>2. /\ heads' = [heads EXCEPT ![key] = NewHead(c)]
      /\ job'[c].at = "lines" /\ job'[c].pos = job[c].pos + 1 /\ job'[c].op = job[c].op
      /\ job'[c].file = job[c].file /\ job'[c].mark = job[c].mark
      /\ job'[c].failed = job[c].failed /\ job'[c].before = job[c].before
      /\ job'[c].shown = job[c].shown \cup LineShown(c)
  BY VisitLineFacts
<1>3. \A s \in LineShown(c) : s[2] = key
  BY <1>1, ShownType
<1> SUFFICES ASSUME ~job[c].failed, NEW k \in DOMAIN job[c].before
             PROVE  /\ Seen(job'[c].file, job'[c].pos, k) # {} => FileDone(job'[c], k, heads'[k])
                    /\ Seen(job'[c].file, job'[c].pos, k) = {} =>
                         Value(heads'[k]) = job'[c].before[k] /\ Told(job'[c], k) = {}
  BY <1>2 DEF FileOf
<1>4. /\ Seen(job[c].file, job[c].pos, k) # {} => FileDone(job[c], k, heads[k])
      /\ Seen(job[c].file, job[c].pos, k) = {} =>
           Value(heads[k]) = job[c].before[k] /\ Told(job[c], k) = {}
  BY <1>1 DEF FileOf, Busy
<1>5. k \in Keys /\ job[c].before[k] \in Values \cup {Gone}
  BY DEF Types, Jobs
<1>6. CASE k # key
  <2>1. Seen(job'[c].file, job'[c].pos, k) = Seen(job[c].file, job[c].pos, k)
    <3>1. job'[c].file[job[c].pos + 1].key # k
      BY <1>1, <1>2, <1>6
    <3>2. Seen(job[c].file, job[c].pos + 1, k) = Seen(job[c].file, job[c].pos, k)
      BY <1>1, <1>2, <3>1, SeenNext
    <3> QED
      BY <1>2, <3>2
  <2>2. heads'[k] = heads[k]
    BY <1>1, <1>2, <1>5, <1>6 DEF Headers
  <2>3. Told(job'[c], k) = Told(job[c], k)
    BY <1>2, <1>3, <1>6 DEF Told
  <2>4. Seen(job[c].file, job[c].pos, k) # {} => FileDone(job'[c], k, heads[k])
    <3> DEFINE m == job'[c]
    <3>1. /\ m.op = job[c].op /\ m.file = job[c].file /\ m.mark = job[c].mark
          /\ m.before[k] = job[c].before[k] /\ Told(m, k) = Told(job[c], k)
          /\ Seen(m.file, m.pos, k) = Seen(job[c].file, job[c].pos, k)
      BY <1>2, <2>1, <2>3
    <3> HIDE DEF m
    <3> QED
      BY <1>4, <3>1 DEF FileDone, m
  <2> QED
    BY <1>2, <1>4, <2>1, <2>2, <2>3, <2>4
<1>7. CASE k = key
  <2> DEFINE j == job[c]
             m == job'[c]
             h == heads[k]
             new == NewHead(c)
             was == j.before[k]
             before == Seen(j.file, j.pos, k)
             places == Seen(m.file, m.pos, k)
             allowed == Allowed(j.op)
  <2>1. places = before \cup {j.pos + 1} /\ LastOf(m.file, places) = l.value
        /\ \A i \in before : i # j.pos + 1
    <3>1. m.file = j.file /\ m.pos = j.pos + 1 /\ j.pos \in Nat /\ j.file[j.pos + 1].key = k
      BY <1>1, <1>2, <1>7
    <3>2. \A i \in before : i # j.pos + 1
      BY <3>1 DEF Seen
    <3>3. Seen(j.file, j.pos + 1, k) = before \cup {j.pos + 1}
      BY <3>1, SMTT(30) DEF before, Seen
    <3>4. LastOf(j.file, Seen(j.file, j.pos + 1, k)) = l.value
      BY <3>1, LastNext
    <3> QED
      BY <3>1, <3>2, <3>3, <3>4
  <2>2. /\ new \in Header \cup {Gone} /\ (new # Gone => new.mark = j.mark)
        /\ (new = Gone <=> h = Gone /\ "add" \notin allowed)
        /\ h # Gone => new.value = (IF "replace" \in allowed THEN l.value ELSE h.value)
        /\ h = Gone /\ "add" \in allowed => new.value = l.value
    BY <1>1, <1>7, NewHeadFacts
  <2>3. heads'[k] = new
    BY <1>1, <1>2, <1>7 DEF Headers
  <2>4. /\ (before # {} => Value(h) = Result(j.op, was, j.file, before))
        /\ (before # {} /\ j.op = "intersect_replace" => (h = Gone <=> was = Gone))
        /\ (before # {} /\ j.op \in Shows =>
              \A v \in Values \cup {Gone} : <<"-", k, v>> \notin Told(j, k))
        /\ (before = {} => Value(h) = was /\ Told(j, k) = {})
    BY <1>4 DEF FileDone
  <2>5. /\ m.op = j.op /\ m.mark = j.mark /\ m.before[k] = was /\ j.op \in Ops
        /\ Told(m, k) = Told(j, k) \cup LineShown(c)
    BY <1>1, <1>2, <1>3, <1>7 DEF Told
  <2>6. /\ Value(h) = IF h = Gone THEN Gone ELSE h.value
        /\ Value(new) = IF new = Gone THEN Gone ELSE new.value
        /\ h # Gone => h.value \in Values /\ h.value # Gone
        /\ l.value \in Values /\ l.value # Gone
    BY <1>1, <1>7, ComparisonAssumption, ValueFacts DEF Value
  <2>7. LineShown(c) = IF j.op \notin Shows \/ Value(h) = l.value THEN {}
                       ELSE IF h = Gone THEN {<<"+", k, l.value>>}
                       ELSE {<<"!", k, h.value>>, <<"=", k, l.value>>}
    BY <1>1, <1>7 DEF LineShown, Shown
  <2> HIDE DEF j, m, h, new, was, before, places, l
  <2>8. Value(new) = Result(m.op, m.before[k], m.file, places)
    <3>1. CASE j.op = "diff"
      BY <2>1, <2>2, <2>4, <2>5, <2>6, <3>1 DEF Result, Allowed
    <3>2. CASE j.op = "diff_replace"
      BY <2>1, <2>2, <2>4, <2>5, <2>6, <3>2 DEF Result, Allowed
    <3>3. CASE j.op = "intersect"
      BY <2>1, <2>2, <2>4, <2>5, <2>6, <3>3 DEF Result, Allowed
    <3>4. CASE j.op = "intersect_replace"
      BY <2>1, <2>2, <2>4, <2>5, <2>6, <3>4 DEF Result, Allowed
    <3> QED
      BY <2>5, <3>1, <3>2, <3>3, <3>4 DEF Ops
  <2>9. m.op = "intersect_replace" => (new = Gone <=> m.before[k] = Gone)
    BY <2>2, <2>4, <2>5, <2>6 DEF Allowed
  <2>10. m.op \in Shows => \A v \in Values \cup {Gone} : <<"-", k, v>> \notin Told(m, k)
    BY <2>4, <2>5, <2>7
  <2>11. ASSUME m.op \in Shows, Once(places)
         PROVE  Told(m, k) = Difference(m.before[k], m.file, k, places)
    <3>1. before = {}
      BY <2>1, <2>11 DEF Once
    <3>2. Told(m, k) = LineShown(c) /\ Value(h) = was /\ places # {}
      BY <2>1, <2>4, <2>5, <3>1
    <3> QED
      BY <2>1, <2>5, <2>6, <2>7, <2>11, <3>2 DEF Difference
  <2>12. FileDone(m, k, new)
    BY <2>2, <2>5, <2>8, <2>9, <2>10, <2>11 DEF FileDone, places
  <2> QED
    BY <2>1, <2>3, <2>12 DEF m, places
<1> QED
  BY <1>6, <1>7

\* A visit of a chain leaves the keys that have been met.
LEMMA ChainFile ==
  ASSUME Types, LockInv, NEW c \in Comparers, NEW n \in ChainNumbers, ChainFacts(c, n),
         \A k \in Keys : k \notin Unmet(n) => heads'[k] = heads[k], FileOf(job[c], heads)
  PROVE  FileOf(job'[c], heads')
<1>1. /\ job[c].at = "chain" /\ job'[c].at \in {"part", "chain"} /\ job'[c].op = job[c].op
      /\ job'[c].file = job[c].file /\ job'[c].mark = job[c].mark /\ job'[c].pos = job[c].pos
      /\ job'[c].before = job[c].before /\ job'[c].failed = job[c].failed
      /\ job'[c].shown = job[c].shown \cup Missing(c, n) /\ job[c].mark = diff
  BY DEF ChainFacts, SameLines, LockInv, Busy
<1> SUFFICES ASSUME ~job[c].failed, NEW k \in DOMAIN job[c].before,
                    Seen(job[c].file, job[c].pos, k) # {}
             PROVE  FileDone(job'[c], k, heads'[k])
  BY <1>1 DEF FileOf
<1>2. FileDone(job[c], k, heads[k]) /\ k \in Keys
  BY <1>1 DEF FileOf, Busy, Types, Jobs
<1>3. k \notin Unmet(n)
  BY <1>1, <1>2 DEF FileDone, Unmet
<1>4. \A s \in Missing(c, n) : s[2] # k
  BY <1>3 DEF Missing
<1>5. Told(job'[c], k) = Told(job[c], k)
  BY <1>1, <1>4 DEF Told
<1>6. heads'[k] = heads[k]
  BY <1>2, <1>3
<1> QED
  BY <1>1, <1>2, <1>5, <1>6, FileKept


\* Nobody gives a key of the file another mark, nor deletes it for its mark.
LEMMA FileStep ==
  Types /\ TurnInv /\ LockInv /\ WalkInv /\ FileInv /\ [CompareNext]_compareVars => FileInv'
<1> SUFFICES ASSUME Types, TurnInv, LockInv, WalkInv, FileInv, [CompareNext]_compareVars
             PROVE  FileInv'
  OBVIOUS
<1>1. ASSUME NEW c \in Comparers, Enter(c) PROVE FileInv'
  <2>1. ASSUME NEW d \in Comparers PROVE Kept(d)
    <3>1. job'[d].at \in Busy => job'[d] = job[d] /\ heads' = heads
      BY <1>1, EnterFacts DEF Only, Busy
    <3> QED
      BY <3>1, SameKept
  <2> QED
    BY <2>1, FileForEach, FileFrame
<1>2. ASSUME NEW c \in Comparers, Flip(c) PROVE FileInv'
  <2>1. ASSUME NEW d \in Comparers, d # c PROVE FileOf(job'[d], heads')
    <3>1. job'[d] = job[d] /\ job[d].at \notin Busy
      BY <1>2, <2>1, FlipFacts DEF Only, LockInv
    <3> QED
      BY <3>1 DEF FileOf
  <2>2. FileOf(job'[c], heads')
    <3>1. /\ job'[c].at = "lines" /\ job'[c].pos = 0
          /\ job'[c].shown = {} /\ heads' = heads
      BY <1>2, FlipFacts DEF WalkInv, WalkOk
    <3>2. \A k : Seen(job'[c].file, job'[c].pos, k) = {} /\ Told(job'[c], k) = {}
      BY <3>1 DEF Seen, Told
    <3>3. \A k \in DOMAIN job'[c].before : job'[c].before[k] = Value(heads'[k])
      BY <1>2, <3>1, FlipFacts
    <3> QED
      BY <3>2, <3>3 DEF FileOf
  <2> QED
    BY <2>1, <2>2, FileForEach
<1>3. ASSUME NEW c \in Comparers, VisitLine(c) PROVE FileInv'
  <2>1. ASSUME NEW d \in Comparers, d # c PROVE FileOf(job'[d], heads')
    <3>1. job'[d] = job[d] /\ job[d].at \notin Busy
      BY <1>3, <2>1, VisitLineFacts DEF Only, LockInv, Busy
    <3> QED
      BY <3>1 DEF FileOf
  <2>2. FileOf(job'[c], heads')
    BY <1>3, FileForEach, VisitFile
  <2> QED
    BY <2>1, <2>2, FileForEach
<1>4. ASSUME NEW c \in Comparers, LineFails(c) PROVE FileInv'
  <2>1. ASSUME NEW d \in Comparers, d # c PROVE FileOf(job'[d], heads')
    <3>1. job'[d] = job[d] /\ job[d].at \notin Busy
      BY <1>4, <2>1, LineFailsFacts DEF Only, LockInv, Busy
    <3> QED
      BY <3>1 DEF FileOf
  <2>2. FileOf(job'[c], heads')
    BY <1>4, LineFailsFacts DEF FileOf
  <2> QED
    BY <2>1, <2>2, FileForEach
<1>5. ASSUME NEW c \in Comparers, LinesEnd(c) PROVE FileInv'
  <2>1. ASSUME NEW d \in Comparers PROVE Kept(d)
    BY <1>5, LinesEndFacts DEF Kept, Only, SameLines, Busy, Told
  <2> QED
    BY <2>1, FileForEach, FileFrame
<1>6. ASSUME NEW c \in Comparers, NextPart(c) PROVE FileInv'
  <2>1. ASSUME NEW d \in Comparers PROVE Kept(d)
    BY <1>6, NextPartFacts DEF Kept, Only, SameLines, Busy, Told
  <2> QED
    BY <2>1, FileForEach, FileFrame
<1>7. ASSUME NEW c \in Comparers, ShowUnmet(c) PROVE FileInv'
  <2>2. PICK n \in ChainNumbers : ChainFacts(c, n) /\ heads' = ShownHeads(n)
    BY <1>7, ShowUnmetFacts DEF Becomes
  <2>1. ASSUME NEW d \in Comparers, d # c PROVE FileOf(job'[d], heads')
    <3>1. job'[d] = job[d] /\ job[d].at \notin Busy
      BY <2>1, <2>2 DEF ChainFacts, Only, LockInv, Busy
    <3> QED
      BY <3>1 DEF FileOf
  <2>3. FileOf(job'[c], heads')
    BY <1>7, <2>2, FileForEach, ChainFile DEF ShownHeads
  <2> QED
    BY <2>1, <2>3, FileForEach
<1>8. ASSUME NEW c \in Comparers, DeleteUnmet(c) PROVE FileInv'
  <2>2. PICK n \in ChainNumbers : ChainFacts(c, n) /\ heads' = LeftHeads(n)
    BY <1>8, DeleteUnmetFacts DEF Becomes
  <2>1. ASSUME NEW d \in Comparers, d # c PROVE FileOf(job'[d], heads')
    <3>1. job'[d] = job[d] /\ job[d].at \notin Busy
      BY <2>1, <2>2 DEF ChainFacts, Only, LockInv, Busy
    <3> QED
      BY <3>1 DEF FileOf
  <2>3. FileOf(job'[c], heads')
    BY <1>8, <2>2, FileForEach, ChainFile DEF LeftHeads
  <2> QED
    BY <2>1, <2>3, FileForEach
<1>9. ASSUME NEW c \in Comparers, CompareEnds(c) PROVE FileInv'
  <2>1. ASSUME NEW d \in Comparers PROVE Kept(d)
    <3>1. job'[d].at \in Busy => job'[d] = job[d] /\ heads' = heads
      BY <1>9, CompareEndsFacts DEF Only, Busy, NoJob
    <3> QED
      BY <3>1, SameKept
  <2> QED
    BY <2>1, FileForEach, FileFrame
<1>10. ASSUME NEW o \in Others, CallBegins(o) PROVE FileInv'
  <2>1. ASSUME NEW d \in Comparers PROVE Kept(d)
    BY <1>10, CallBeginsFacts, SameKept
  <2> QED
    BY <2>1, FileForEach, FileFrame
<1>11. ASSUME NEW o \in Others, CallSets(o) PROVE FileInv'
  <2>1. PICK k \in Keys, new \in Header \cup {Gone} : CallSetsTo(o, k, new)
    BY <1>11, CallSetsFacts
  <2>2. Touched(k) /\ heads' = [heads EXCEPT ![k] = new] /\ heads \in Headers
    BY <2>1 DEF CallSetsTo, Becomes, Types
  <2> QED
    BY <2>2, TouchedKept, FileForEach, FileFrame
<1>12. ASSUME NEW o \in Others, CallDeletes(o) PROVE FileInv'
  <2>1. PICK k \in Keys : CallSetsTo(o, k, Gone)
    BY <1>12, CallDeletesFacts
  <2>2. Touched(k) /\ heads' = [heads EXCEPT ![k] = Gone] /\ heads \in Headers
    BY <2>1 DEF CallSetsTo, Becomes, Types
  <2> QED
    BY <2>2, TouchedKept, FileForEach, FileFrame
<1>13. ASSUME NEW o \in Others, CallEnds(o) PROVE FileInv'
  <2>1. ASSUME NEW d \in Comparers PROVE Kept(d)
    BY <1>13, CallEndsFacts, SameKept
  <2> QED
    BY <2>1, FileForEach, FileFrame
<1>14. ASSUME NEW t \in Comparers \cup Others, Dies(t) PROVE FileInv'
  <2>1. ASSUME NEW d \in Comparers PROVE Kept(d)
    BY <1>14, DiesFacts DEF Kept, Busy
  <2> QED
    BY <2>1, FileForEach, FileFrame
<1>15. ASSUME Restart PROVE FileInv'
  <2>1. ASSUME NEW d \in Comparers PROVE Kept(d)
    BY <1>15, RestartFacts DEF Kept, Busy
  <2> QED
    BY <2>1, FileForEach, FileFrame
<1>16. CASE UNCHANGED compareVars
  <2>1. ASSUME NEW d \in Comparers PROVE Kept(d)
    BY <1>16, SameKept DEF compareVars, content
  <2> QED
    BY <2>1, FileForEach, FileFrame
<1> QED
  BY <1>1, <1>2, <1>3, <1>4, <1>5, <1>6, <1>7, <1>8, <1>9, <1>10, <1>11, <1>12, <1>13,
     <1>14, <1>15, <1>16 DEF CompareNext, Compares, Changes

\* The marks are the old ones when a comparison gets the new one.
LEMMA FlipRest ==
  ASSUME Types, LockInv, WalkInv, AgreeInv, ~mixed, NEW c \in Comparers, Flip(c)
  PROVE  RestOf(job'[c], heads')
<1>1. /\ job'[c].at = "lines" /\ job'[c].shown = {} /\ heads' = heads /\ job'[c].mark = 1 - diff
      /\ diff \in 0 .. 1 /\ \A d \in Comparers : job[d].at \notin Busy
  BY FlipFacts DEF Types, WalkInv, WalkOk, LockInv
<1>2. \A k \in Keys : heads[k] # Gone => heads[k].mark = diff
  BY <1>1 DEF AgreeInv, Marked
<1>3. ASSUME NEW k \in DOMAIN job'[c].before
      PROVE  /\ ~Passed(job'[c], k) /\ Told(job'[c], k) = {} /\ k \in Keys
             /\ Value(heads'[k]) = job'[c].before[k]
             /\ heads'[k] # Gone => heads'[k].mark # job'[c].mark
  <2>1. k \in Keys /\ job'[c].before[k] = Value(heads[k])
    BY FlipFacts
  <2>2. heads[k] # Gone => heads[k].mark = diff
    BY <1>2, <2>1
  <2>3. Told(job'[c], k) = {} /\ ~Passed(job'[c], k)
    BY <1>1 DEF Told, Passed, Walks
  <2> QED
    BY <1>1, <2>1, <2>2, <2>3
<1> QED
  BY <1>3 DEF RestOf, RestDone

\* A key that no line has is not visited with the lines.
LEMMA VisitRest ==
  ASSUME Types, NEW c \in Comparers, VisitLine(c), RestOf(job[c], heads)
  PROVE  RestOf(job'[c], heads')
<1> DEFINE key == LineKey(c)
<1>1. /\ job[c].at = "lines" /\ job[c].pos \in Nat /\ heads \in Headers /\ key \in Keys
      /\ heads' = [heads EXCEPT ![key] = NewHead(c)] /\ job[c].pos < Len(job[c].file)
      /\ job'[c].at = "lines" /\ job'[c].pos = job[c].pos + 1 /\ job'[c].op = job[c].op
      /\ job'[c].file = job[c].file /\ job'[c].mark = job[c].mark
      /\ job'[c].before = job[c].before
      /\ job'[c].shown = job[c].shown \cup LineShown(c)
  BY VisitLineFacts DEF Types, Jobs
<1>2. \A s \in LineShown(c) : s[2] = key
  BY <1>1, ShownType
<1>3. job[c].file[job[c].pos + 1].key = key
  BY DEF LineKey
<1> HIDE DEF key
<1> SUFFICES ASSUME NEW k \in DOMAIN job[c].before, Seen(job'[c].file, job'[c].pos, k) = {}
             PROVE  RestDone(job'[c], k, heads'[k])
  BY <1>1 DEF RestOf
<1>4. Seen(job[c].file, job[c].pos + 1, k) = {}
  BY <1>1
<1>5. Seen(job[c].file, job[c].pos, k) = {} /\ k # key
  <2>1. key = k => job[c].pos + 1 \in Seen(job[c].file, job[c].pos + 1, k)
    BY <1>1, <1>3 DEF Seen
  <2>2. key # k =>
          Seen(job[c].file, job[c].pos + 1, k) = Seen(job[c].file, job[c].pos, k)
    BY <1>1, <1>3, SeenNext
  <2> QED
    BY <1>4, <2>1, <2>2
<1>6. RestDone(job[c], k, heads[k])
  BY <1>1, <1>5 DEF RestOf, Busy
<1>7. heads'[k] = heads[k] /\ Told(job'[c], k) = Told(job[c], k)
  <2>1. k \in Keys
    BY DEF Types, Jobs
  <2>2. heads'[k] = heads[k]
    BY <1>1, <1>5, <2>1 DEF Headers
  <2> QED
    BY <1>1, <1>2, <1>5, <2>2 DEF Told
<1>8. Passed(job'[c], k) <=> Passed(job[c], k)
  BY <1>1 DEF Passed, Walks
<1>9. job'[c].before[k] = job[c].before[k]
  BY <1>1
<1> QED
  BY <1>1, <1>6, <1>7, <1>8, <1>9, RestKept

\* A part is left out: its keys that have no line have been there in vain.
LEMMA PartRest ==
  ASSUME Types, LockInv, CountInv, ~mixed, NEW c \in Comparers, NextPart(c), RestOf(job[c], heads)
  PROVE  RestOf(job'[c], heads')
<1>1. /\ job[c].at = "part" /\ job'[c].at \in Busy /\ heads' = heads
      /\ job'[c].op = job[c].op /\ job'[c].file = job[c].file /\ job'[c].mark = job[c].mark
      /\ job'[c].pos = job[c].pos /\ job'[c].before = job[c].before
      /\ job'[c].shown = job[c].shown /\ job[c].mark = diff
  BY NextPartFacts DEF SameLines, Busy, LockInv
<1> SUFFICES ASSUME NEW k \in DOMAIN job[c].before, Seen(job[c].file, job[c].pos, k) = {}
             PROVE  RestDone(job'[c], k, heads[k])
  BY <1>1 DEF RestOf
<1>2. RestDone(job[c], k, heads[k]) /\ k \in Keys
  BY <1>1 DEF RestOf, Busy, Types, Jobs
<1>3. Told(job'[c], k) = Told(job[c], k) /\ job'[c].before[k] = job[c].before[k]
  BY <1>1 DEF Told
<1>4. CASE Passed(job'[c], k) <=> Passed(job[c], k)
  BY <1>1, <1>2, <1>3, <1>4, RestKept
<1>5. CASE ~(Passed(job'[c], k) <=> Passed(job[c], k))
  <2>1. /\ Passed(job'[c], k) /\ ~Passed(job[c], k) /\ job'[c].at = "part"
        /\ PartOf[ChainOf[k]] = job[c].part
    BY <1>2, <1>5, PassedPart
  <2>2. job[c].part \in Parts /\ usage.counted /\ Counter(job[c].part) <= job[c].met[job[c].part]
    BY <2>1, NextPartFacts
  <2>3. heads[k] # Gone => Marked(k)
    BY <1>1, <1>2, <2>1, <2>2, LeftOutMarked DEF Busy
  <2>4. /\ heads[k] # Gone => heads[k].mark # job[c].mark
        /\ Value(heads[k]) = job[c].before[k] /\ Told(job[c], k) = {}
    BY <1>2, <2>1 DEF RestDone
  <2>5. heads[k] = Gone /\ Value(heads[k]) = Gone /\ job[c].before[k] = Gone
    BY <1>1, <2>3, <2>4 DEF Marked, Value
  <2>6. job'[c].op \in Ops
    BY <1>1 DEF Types, Jobs
  <2> QED
    BY <1>3, <2>1, <2>4, <2>5, <2>6 DEF RestDone, Result, Difference, Ops
<1> QED
  BY <1>4, <1>5

\* A visit of a chain: its keys that have the old mark are shown, and deleted.
LEMMA ChainRest ==
  ASSUME Types, LockInv, WalkInv, ~mixed, NEW c \in Comparers, NEW n \in ChainNumbers,
         ChainFacts(c, n), ~job[c].failed, RestOf(job[c], heads),
         \A k \in Keys : k \notin Unmet(n) => heads'[k] = heads[k],
         \A k \in Unmet(n) :
           Value(heads'[k]) = IF job[c].op = "diff" THEN Value(heads[k]) ELSE Gone
  PROVE  RestOf(job'[c], heads')
<1>1. /\ job[c].at = "chain" /\ job'[c].at \in {"part", "chain"} /\ job'[c].op = job[c].op
      /\ job'[c].file = job[c].file /\ job'[c].mark = job[c].mark /\ job'[c].pos = job[c].pos
      /\ job'[c].before = job[c].before /\ n \in job[c].chains
      /\ job'[c].shown = job[c].shown \cup Missing(c, n) /\ job[c].mark = diff
  BY DEF ChainFacts, SameLines, LockInv, Busy
<1>2. PartOf[n] < job[c].part
  BY <1>1 DEF WalkInv, WalkOk
<1> SUFFICES ASSUME NEW k \in DOMAIN job[c].before, Seen(job[c].file, job[c].pos, k) = {}
             PROVE  RestDone(job'[c], k, heads'[k])
  BY <1>1 DEF RestOf
<1>3. RestDone(job[c], k, heads[k]) /\ k \in Keys /\ job[c].op \in Ops
  BY <1>1 DEF RestOf, Busy, Types, Jobs
<1>4. job'[c].before[k] = job[c].before[k]
  BY <1>1
<1>5. CASE ChainOf[k] # n
  <2>1. k \notin Unmet(n) /\ heads'[k] = heads[k]
    BY <1>3, <1>5 DEF Unmet
  <2>2. Told(job'[c], k) = Told(job[c], k)
    BY <1>1, <2>1 DEF Told, Missing
  <2>3. Passed(job'[c], k) <=> Passed(job[c], k)
    BY <1>3, <1>5, PassedChain
  <2> QED
    BY <1>1, <1>3, <1>4, <2>1, <2>2, <2>3, RestKept
<1>6. CASE ChainOf[k] = n
  <2>1. Passed(job'[c], k)
    BY <1>2, <1>3, <1>6, PassedChain
  <2>2. ~Passed(job[c], k)
    BY <1>1, <1>6 DEF Passed
  <2>3. /\ heads[k] # Gone => heads[k].mark # diff
        /\ Value(heads[k]) = job[c].before[k] /\ Told(job[c], k) = {}
    BY <1>1, <1>3, <2>2 DEF RestDone
  <2>4. k \in Unmet(n) <=> heads[k] # Gone
    BY <1>3, <1>6, <2>3 DEF Unmet
  <2>5. Value(heads[k]) = IF heads[k] = Gone THEN Gone ELSE heads[k].value
    BY DEF Value
  <2>6. heads[k] # Gone => heads[k].value # Gone
    BY <1>3, ValueFacts, ComparisonAssumption DEF Types, Headers
  <2>7. Value(heads'[k]) = Result(job'[c].op, job'[c].before[k], job'[c].file, {})
    BY <1>1, <1>3, <1>4, <2>3, <2>4, <2>5 DEF Result, Ops
  <2>8. ASSUME job'[c].op \in Shows
        PROVE  Told(job'[c], k) = Difference(job'[c].before[k], job'[c].file, k, {})
    <3>1. Told(job'[c], k) = {s \in Missing(c, n) : s[2] = k}
      BY <1>1, <2>3 DEF Told
    <3>2. Missing(c, n) = {<<"-", i, heads[i].value>> : i \in Unmet(n) \cap DOMAIN job[c].before}
      BY <1>1, <2>8 DEF Missing
    <3>3. CASE heads[k] = Gone
      <4>1. {s \in Missing(c, n) : s[2] = k} = {}
        BY <2>4, <3>2, <3>3
      <4> QED
        BY <1>4, <2>3, <2>5, <3>1, <3>3, <4>1 DEF Difference
    <3>4. CASE heads[k] # Gone
      <4>1. {s \in Missing(c, n) : s[2] = k} = {<<"-", k, heads[k].value>>}
        BY <2>4, <3>2, <3>4
      <4> QED
        BY <1>4, <2>3, <2>5, <2>6, <3>1, <3>4, <4>1 DEF Difference
    <3> QED
      BY <3>3, <3>4
  <2> QED
    BY <2>1, <2>7, <2>8 DEF RestDone
<1> QED
  BY <1>5, <1>6

\* The others have nothing to do with the marks.
LEMMA OthersRest ==
  ASSUME LockInv, NEW c \in Comparers, Only(c), job[c].at \in Busy \/ ~marks_lock,
         RestOf(job'[c], heads')
  PROVE  \A d \in Comparers : RestOf(job'[d], heads')
BY DEF LockInv, Only, RestOf


LEMMA RestAll ==
  ASSUME RestInv, LockInv', mixed' \/ ~mixed,
         \A d \in Comparers : job'[d].at \in Busy =>
           Kept(d) /\ \A k \in DOMAIN job'[d].before : Passed(job'[d], k) <=> Passed(job[d], k)
  PROVE  RestInv'
<1> SUFFICES ASSUME ~mixed', NEW d \in Comparers, job'[d].at \in Busy
             PROVE  RestOf(job'[d], heads')
  BY FileForEach DEF RestOf
<1>1. ~job'[d].failed
  BY DEF LockInv
<1>2. RestOf(job[d], heads)
  BY FileForEach
<1> QED
  BY <1>1, <1>2, RestFrame


\* A key that no line has keeps the old mark until its chain is visited.
LEMMA RestStep ==
  Types /\ TurnInv /\ LockInv /\ LockInv' /\ WalkInv /\ CountInv /\ AgreeInv /\ RestInv
    /\ [CompareNext]_compareVars => RestInv'
<1> SUFFICES ASSUME Types, TurnInv, LockInv, LockInv', WalkInv, CountInv, AgreeInv,
                    RestInv, [CompareNext]_compareVars
             PROVE  RestInv'
  OBVIOUS
<1>1. ASSUME NEW c \in Comparers, Enter(c) PROVE RestInv'
  <2>1. ASSUME NEW d \in Comparers, job'[d].at \in Busy
        PROVE  Kept(d) /\ \A k \in DOMAIN job'[d].before : Passed(job'[d], k) <=> Passed(job[d], k)
    <3>1. job'[d] = job[d] /\ heads' = heads
      BY <1>1, <2>1, EnterFacts DEF Only, Busy
    <3> QED
      BY <3>1, SameKept
  <2>2. mixed \in BOOLEAN /\ (mixed => mixed')
    BY <1>1, EnterFacts DEF Types
  <2> QED
    BY <2>1, <2>2, RestAll
<1>2. ASSUME NEW c \in Comparers, Flip(c) PROVE RestInv'
  <2> SUFFICES ASSUME ~mixed' PROVE \A d \in Comparers : RestOf(job'[d], heads')
    BY FileForEach
  <2>1. Only(c) /\ (job[c].at \in Busy \/ ~marks_lock) /\ ~mixed
    BY <1>2, FlipFacts
  <2>2. RestOf(job'[c], heads')
    BY <1>2, <2>1, FlipRest
  <2> QED
    BY <2>1, <2>2, OthersRest
<1>3. ASSUME NEW c \in Comparers, VisitLine(c) PROVE RestInv'
  <2> SUFFICES ASSUME ~mixed' PROVE \A d \in Comparers : RestOf(job'[d], heads')
    BY FileForEach
  <2>1. Only(c) /\ (job[c].at \in Busy \/ ~marks_lock) /\ ~mixed
    BY <1>3, VisitLineFacts DEF Busy
  <2>2. RestOf(job'[c], heads')
    BY <1>3, <2>1, FileForEach, VisitRest
  <2> QED
    BY <2>1, <2>2, OthersRest
<1>4. ASSUME NEW c \in Comparers, LineFails(c) PROVE RestInv'
  BY <1>4, LineFailsFacts DEF RestInv
<1>5. ASSUME NEW c \in Comparers, LinesEnd(c) PROVE RestInv'
  <2>1. \A k \in Keys : ~(PartOf[ChainOf[k]] < 1)
    BY PartFacts
  <2>2. job[c].part = 1 /\ job[c] \in Jobs
    BY <1>5, LinesEndFacts DEF WalkInv, WalkOk, Types
  <2>3. Kept(c) /\ \A d \in Comparers : d # c => job'[d] = job[d]
    BY <1>5, LinesEndFacts DEF Kept, Only, SameLines, Busy, Told
  <2>4. \A k \in DOMAIN job'[c].before : k \in Keys /\ ~Passed(job'[c], k) /\ ~Passed(job[c], k)
    BY <1>5, <2>1, <2>2, LinesEndFacts DEF Passed, Walks, SameLines, Jobs
  <2>5. heads' = heads /\ (mixed' <=> mixed)
    BY <1>5, LinesEndFacts
  <2>6. \A d \in Comparers :
          Kept(d) /\ \A k \in DOMAIN job'[d].before : Passed(job'[d], k) <=> Passed(job[d], k)
    BY <2>3, <2>4, <2>5, SameKept
  <2> QED
    BY <2>5, <2>6, RestAll
<1>6. ASSUME NEW c \in Comparers, NextPart(c) PROVE RestInv'
  <2> SUFFICES ASSUME ~mixed' PROVE \A d \in Comparers : RestOf(job'[d], heads')
    BY FileForEach
  <2>1. Only(c) /\ (job[c].at \in Busy \/ ~marks_lock) /\ ~mixed
    BY <1>6, NextPartFacts DEF Busy
  <2>2. RestOf(job'[c], heads')
    BY <1>6, <2>1, FileForEach, PartRest
  <2> QED
    BY <2>1, <2>2, OthersRest
<1>7. ASSUME NEW c \in Comparers, ShowUnmet(c) PROVE RestInv'
  <2> SUFFICES ASSUME ~mixed' PROVE \A d \in Comparers : RestOf(job'[d], heads')
    BY FileForEach
  <2>1. PICK n \in ChainNumbers : ChainFacts(c, n) /\ heads' = ShownHeads(n) /\ (mixed =>
          mixed')
    BY <1>7, ShowUnmetFacts DEF Becomes
  <2>2. Only(c) /\ job[c].at = "chain" /\ job[c].at \in Busy /\ ~mixed /\ ~job[c].failed
    BY <2>1 DEF ChainFacts, Busy, WalkInv, WalkOk
  <2>3. job[c].op = "diff" /\ heads \in Headers
    BY <1>7, ShowUnmetFacts DEF Types
  <2>4. \A k \in Keys : k \notin Unmet(n) => heads'[k] = heads[k]
    BY <2>1 DEF ShownHeads
  <2>5. \A k \in Unmet(n) :
          Value(heads'[k]) = IF job[c].op = "diff" THEN Value(heads[k]) ELSE Gone
    <3>1. SUFFICES ASSUME NEW k \in Unmet(n)
                   PROVE  Value(heads'[k]) = IF job[c].op = "diff" THEN Value(heads[k]) ELSE Gone
      OBVIOUS
    <3>2. k \in Keys /\ heads[k] \in Header /\ heads[k] # Gone /\ diff \in 0 .. 1
      BY <2>3 DEF Unmet, Headers, Types
    <3>3. /\ [heads[k] EXCEPT !.mark = diff] \in Header
          /\ [heads[k] EXCEPT !.mark = diff].value = heads[k].value
      BY <3>2 DEF Header
    <3>4. Gone \notin Header
      BY ComparisonAssumption
    <3> QED
      BY <2>1, <2>3, <3>2, <3>3, <3>4 DEF ShownHeads, Value
  <2>6. RestOf(job'[c], heads')
    BY <2>1, <2>2, <2>4, <2>5, FileForEach, ChainRest
  <2> QED
    BY <2>2, <2>6, OthersRest
<1>8. ASSUME NEW c \in Comparers, DeleteUnmet(c) PROVE RestInv'
  <2> SUFFICES ASSUME ~mixed' PROVE \A d \in Comparers : RestOf(job'[d], heads')
    BY FileForEach
  <2>1. PICK n \in ChainNumbers : ChainFacts(c, n) /\ heads' = LeftHeads(n) /\ (mixed =>
          mixed')
    BY <1>8, DeleteUnmetFacts DEF Becomes
  <2>2. Only(c) /\ job[c].at = "chain" /\ job[c].at \in Busy /\ ~mixed /\ ~job[c].failed
    BY <2>1 DEF ChainFacts, Busy, WalkInv, WalkOk
  <2>3. job[c].op # "diff" /\ heads \in Headers
    BY <1>8, DeleteUnmetFacts DEF Types
  <2>4. \A k \in Keys : k \notin Unmet(n) => heads'[k] = heads[k]
    BY <2>1 DEF LeftHeads
  <2>5. \A k \in Unmet(n) :
          Value(heads'[k]) = IF job[c].op = "diff" THEN Value(heads[k]) ELSE Gone
    <3>1. SUFFICES ASSUME NEW k \in Unmet(n)
                   PROVE  Value(heads'[k]) = IF job[c].op = "diff" THEN Value(heads[k]) ELSE Gone
      OBVIOUS
    <3>2. k \in Keys /\ heads[k] \in Header /\ heads[k] # Gone /\ diff \in 0 .. 1
      BY <2>3 DEF Unmet, Headers, Types
    <3>3. /\ [heads[k] EXCEPT !.mark = diff] \in Header
          /\ [heads[k] EXCEPT !.mark = diff].value = heads[k].value
      BY <3>2 DEF Header
    <3>4. Gone \notin Header
      BY ComparisonAssumption
    <3> QED
      BY <2>1, <2>3, <3>2, <3>3, <3>4 DEF LeftHeads, Value
  <2>6. RestOf(job'[c], heads')
    BY <2>1, <2>2, <2>4, <2>5, FileForEach, ChainRest
  <2> QED
    BY <2>2, <2>6, OthersRest
<1>9. ASSUME NEW c \in Comparers, CompareEnds(c) PROVE RestInv'
  <2>1. ASSUME NEW d \in Comparers, job'[d].at \in Busy
        PROVE  Kept(d) /\ \A k \in DOMAIN job'[d].before : Passed(job'[d], k) <=> Passed(job[d], k)
    <3>1. job'[d] = job[d] /\ heads' = heads
      BY <1>9, <2>1, CompareEndsFacts DEF Only, Busy, NoJob
    <3> QED
      BY <3>1, SameKept
  <2>2. mixed \in BOOLEAN /\ (mixed => mixed')
    BY <1>9, CompareEndsFacts DEF Types
  <2> QED
    BY <2>1, <2>2, RestAll
<1>10. ASSUME NEW o \in Others, CallBegins(o) PROVE RestInv'
  <2>1. ASSUME NEW d \in Comparers, job'[d].at \in Busy
        PROVE  Kept(d) /\ \A k \in DOMAIN job'[d].before : Passed(job'[d], k) <=> Passed(job[d], k)
    <3>1. job'[d] = job[d] /\ heads' = heads
      BY <1>10, <2>1, CallBeginsFacts
    <3> QED
      BY <3>1, SameKept
  <2>2. mixed \in BOOLEAN /\ (mixed => mixed')
    BY <1>10, CallBeginsFacts DEF Types
  <2> QED
    BY <2>1, <2>2, RestAll
<1>11. ASSUME NEW o \in Others, CallSets(o) PROVE RestInv'
  <2>1. PICK k \in Keys, new \in Header \cup {Gone} : CallSetsTo(o, k, new)
    BY <1>11, CallSetsFacts
  <2>2. Touched(k) /\ heads' = [heads EXCEPT ![k] = new] /\ heads \in Headers
    BY <2>1 DEF CallSetsTo, Becomes, Types
  <2>3. \A d \in Comparers : Kept(d) /\ \A i : Passed(job'[d], i) <=> Passed(job[d], i)
    BY <2>2, TouchedKept DEF Touched, Passed
  <2>4. mixed \in BOOLEAN /\ (mixed => mixed')
    BY <1>11, CallSetsFacts DEF Types
  <2> QED
    BY <2>3, <2>4, RestAll
<1>12. ASSUME NEW o \in Others, CallDeletes(o) PROVE RestInv'
  <2>1. PICK k \in Keys : CallSetsTo(o, k, Gone)
    BY <1>12, CallDeletesFacts
  <2>2. Touched(k) /\ heads' = [heads EXCEPT ![k] = Gone] /\ heads \in Headers
    BY <2>1 DEF CallSetsTo, Becomes, Types
  <2>3. \A d \in Comparers : Kept(d) /\ \A i : Passed(job'[d], i) <=> Passed(job[d], i)
    BY <2>2, TouchedKept DEF Touched, Passed
  <2>4. mixed \in BOOLEAN /\ (mixed => mixed')
    BY <1>12, CallDeletesFacts DEF Types
  <2> QED
    BY <2>3, <2>4, RestAll
<1>13. ASSUME NEW o \in Others, CallEnds(o) PROVE RestInv'
  <2>1. ASSUME NEW d \in Comparers, job'[d].at \in Busy
        PROVE  Kept(d) /\ \A k \in DOMAIN job'[d].before : Passed(job'[d], k) <=> Passed(job[d], k)
    <3>1. job'[d] = job[d] /\ heads' = heads
      BY <1>13, <2>1, CallEndsFacts
    <3> QED
      BY <3>1, SameKept
  <2>2. mixed \in BOOLEAN /\ (mixed => mixed')
    BY <1>13, CallEndsFacts DEF Types
  <2> QED
    BY <2>1, <2>2, RestAll
<1>14. ASSUME NEW t \in Comparers \cup Others, Dies(t) PROVE RestInv'
  BY <1>14, DiesFacts DEF RestInv, Busy
<1>15. ASSUME Restart PROVE RestInv'
  BY <1>15, RestartFacts DEF RestInv, Busy
<1>16. CASE UNCHANGED compareVars
  <2>1. ASSUME NEW d \in Comparers, job'[d].at \in Busy
        PROVE  Kept(d) /\ \A k \in DOMAIN job'[d].before : Passed(job'[d], k) <=> Passed(job[d], k)
    <3>1. job'[d] = job[d] /\ heads' = heads
      BY <1>16, <2>1 DEF compareVars, content
    <3> QED
      BY <3>1, SameKept
  <2>2. mixed \in BOOLEAN /\ (mixed => mixed')
    BY <1>16 DEF compareVars, Types
  <2> QED
    BY <2>1, <2>2, RestAll
<1> QED
  BY <1>1, <1>2, <1>3, <1>4, <1>5, <1>6, <1>7, <1>8, <1>9, <1>10, <1>11, <1>12, <1>13,
     <1>14, <1>15, <1>16 DEF CompareNext, Compares, Changes

-----------------------------------------------------------------------------
(* The copy on disk.                                                        *)

\* A change under a page that is marked, or of nothing.
LEMMA CopyFrame ==
  ASSUME Types, CopyInv, mixed' \/ ~mixed, usage' = usage, copy' = copy, usage.kept =>
         \A k \in Keys \ dirty' : k \notin dirty /\ heads'[k] = heads[k]
  PROVE  CopyInv'
BY DEF CopyInv

LEMMA BecomesCopy ==
  ASSUME Types, CopyInv, mixed' \/ ~mixed, usage' = usage, NEW hs \in Headers, NEW unmarked,
         Becomes(hs, unmarked), usage.kept => \A k \in unmarked \cap Keys : hs[k] = heads[k]
  PROVE  CopyInv'
BY CopyFrame DEF Becomes

\* At the end of a call every mark is the set's.
LEMMA LeaveCopy ==
  ASSUME Types, CopyInv, mixed' \/ ~mixed, usage' = usage, Leave,
         ~mixed /\ ~usage.parallel => \A k \in Keys : heads[k] # Gone => Marked(k)
  PROVE  CopyInv'
<1>1. CASE usage.kept /\ ~usage.parallel
  <2>1. heads' = heads /\ diff' = diff /\ dirty' = {}
        /\ copy' = IF dirty = {} THEN copy
                   ELSE [heads |-> [k \in Keys |-> IF k \in dirty THEN heads[k] ELSE copy.heads[k]],
                         diff |-> diff]
    BY <1>1 DEF Leave, Flush
  <2>2. CASE dirty = {}
    BY <1>1, <2>1, <2>2 DEF CopyInv
  <2>3. CASE dirty # {}
    <3>1. /\ copy'.diff = diff
          /\ copy'.heads = [k \in Keys |-> IF k \in dirty THEN heads[k] ELSE copy.heads[k]]
      BY <2>1, <2>3
    <3>2. ~mixed' => \A k \in Keys : copy'.heads[k] = heads[k]
      BY <1>1, <3>1 DEF CopyInv
    <3> QED
      BY <1>1, <2>1, <3>1, <3>2 DEF CopyInv, Marked
  <2> QED
    BY <2>2, <2>3
<1>2. CASE ~(usage.kept /\ ~usage.parallel)
  BY <1>2, CopyFrame DEF Leave, content
<1> QED
  BY <1>1, <1>2


\* The copy gets what is marked as changed, between the comparisons.
LEMMA CopyStep ==
  Types /\ TurnInv /\ LockInv /\ WalkInv /\ AgreeInv /\ CopyInv
    /\ [CompareNext]_compareVars => CopyInv'
<1> SUFFICES ASSUME Types, TurnInv, LockInv, WalkInv, AgreeInv, CopyInv,
                    [CompareNext]_compareVars
             PROVE  CopyInv'
  OBVIOUS
<1>1. ASSUME NEW c \in Comparers, Enter(c) PROVE CopyInv'
  <2>1. UNCHANGED <<usage, mixed, heads, copy, dirty>>
    BY <1>1, EnterFacts
  <2> QED
    BY <2>1 DEF CopyInv
<1>2. ASSUME NEW c \in Comparers, Flip(c) PROVE CopyInv'
  <2>1. UNCHANGED <<usage, mixed, heads, copy, dirty>>
    BY <1>2, FlipFacts
  <2> QED
    BY <2>1 DEF CopyInv
<1>3. ASSUME NEW c \in Comparers, VisitLine(c) PROVE CopyInv'
  <2>1. /\ UNCHANGED <<usage, mixed, copy>>
        /\ dirty' = (IF usage.kept THEN dirty \cup {i \in Keys : heads'[i] # heads[i]} ELSE {})
    BY <1>3, VisitLineFacts
  <2>2. mixed \in BOOLEAN
    BY DEF Types
  <2> QED
    BY <2>1, <2>2, CopyFrame
<1>4. ASSUME NEW c \in Comparers, LineFails(c) PROVE CopyInv'
  BY <1>4, LineFailsFacts DEF CopyInv
<1>5. ASSUME NEW c \in Comparers, LinesEnd(c) PROVE CopyInv'
  <2>1. UNCHANGED <<usage, mixed, heads, copy, dirty>>
    BY <1>5, LinesEndFacts
  <2> QED
    BY <2>1 DEF CopyInv
<1>6. ASSUME NEW c \in Comparers, NextPart(c) PROVE CopyInv'
  <2>1. UNCHANGED <<usage, mixed, heads, copy, dirty>>
    BY <1>6, NextPartFacts
  <2> QED
    BY <2>1 DEF CopyInv
<1>7. ASSUME NEW c \in Comparers, ShowUnmet(c) PROVE CopyInv'
  <2>1. PICK n \in ChainNumbers :
          /\ ChainFacts(c, n) /\ Becomes(ShownHeads(n), usage.last)
          /\ mixed' = (mixed \/ (usage.kept /\ Unmet(n) \cap usage.last # {}))
    BY <1>7, ShowUnmetFacts
  <2>2. usage' = usage /\ heads' \in Headers /\ mixed \in BOOLEAN /\ heads' = ShownHeads(n)
    BY <1>7, <2>1, ShowUnmetFacts DEF Types, Becomes
  <2>3. CASE mixed'
    BY <2>3 DEF CopyInv
  <2>4. CASE ~mixed'
    <3>1. usage.kept => \A k \in usage.last \cap Keys : ShownHeads(n)[k] = heads[k]
      BY <2>1, <2>4 DEF ShownHeads
    <3> QED
      BY <2>1, <2>2, <3>1, BecomesCopy
  <2> QED
    BY <2>3, <2>4
<1>8. ASSUME NEW c \in Comparers, DeleteUnmet(c) PROVE CopyInv'
  <2>1. PICK n \in ChainNumbers : Becomes(LeftHeads(n), {})
    BY <1>8, DeleteUnmetFacts
  <2>2. usage' = usage /\ heads' \in Headers /\ mixed \in BOOLEAN /\ mixed' = mixed /\ heads' = LeftHeads(n)
    BY <1>8, <2>1, DeleteUnmetFacts DEF Types, Becomes
  <2> QED
    BY <2>1, <2>2, BecomesCopy
<1>9. ASSUME NEW c \in Comparers, CompareEnds(c) PROVE CopyInv'
  <2>1. usage' = usage /\ mixed' = mixed /\ Leave /\ job[c].at = "ends" /\ mixed \in BOOLEAN
    BY <1>9, CompareEndsFacts DEF Types
  <2> QED
    BY <2>1, EndAgrees, LeaveCopy
<1>10. ASSUME NEW o \in Others, CallBegins(o) PROVE CopyInv'
  <2>1. UNCHANGED <<usage, mixed, heads, copy, dirty>>
    BY <1>10, CallBeginsFacts
  <2> QED
    BY <2>1 DEF CopyInv
<1>11. ASSUME NEW o \in Others, CallSets(o) PROVE CopyInv'
  <2>1. PICK k \in Keys, new \in Header \cup {Gone} : Becomes([heads EXCEPT ![k] = new], {})
    BY <1>11, CallSetsFacts DEF CallSetsTo
  <2>2. /\ usage' = usage /\ heads' \in Headers /\ mixed \in BOOLEAN /\ (mixed =>
          mixed')
        /\ heads' = [heads EXCEPT ![k] = new]
    BY <1>11, <2>1, CallSetsFacts DEF Types, Becomes
  <2> QED
    BY <2>1, <2>2, BecomesCopy
<1>12. ASSUME NEW o \in Others, CallDeletes(o) PROVE CopyInv'
  <2>1. PICK k \in Keys : Becomes([heads EXCEPT ![k] = Gone], {})
    BY <1>12, CallDeletesFacts DEF CallSetsTo
  <2>2. /\ usage' = usage /\ heads' \in Headers /\ mixed \in BOOLEAN /\ mixed' = mixed
        /\ heads' = [heads EXCEPT ![k] = Gone]
    BY <1>12, <2>1, CallDeletesFacts DEF Types, Becomes
  <2> QED
    BY <2>1, <2>2, BecomesCopy
<1>13. ASSUME NEW o \in Others, CallEnds(o) PROVE CopyInv'
  <2>1. usage' = usage /\ mixed' = mixed /\ Leave /\ call[o] # NoCall /\ mixed \in BOOLEAN
    BY <1>13, CallEndsFacts DEF Types
  <2>2. ~mixed /\ ~usage.parallel => \A k \in Keys : heads[k] # Gone => Marked(k)
    BY <2>1 DEF TurnInv, AgreeInv, Busy
  <2> QED
    BY <2>1, <2>2, LeaveCopy
<1>14. ASSUME NEW t \in Comparers \cup Others, Dies(t) PROVE CopyInv'
  <2>1. /\ UNCHANGED <<usage, copy>> /\ mixed \in BOOLEAN /\ (mixed => mixed')
        /\ heads' = [k \in Keys |-> IF k \in dirty THEN copy.heads[k] ELSE heads[k]]
    BY <1>14 DEF Dies, Types
  <2> QED
    BY <2>1 DEF CopyInv
<1>15. ASSUME Restart PROVE CopyInv'
  BY <1>15, RestartFacts DEF CopyInv
<1>16. CASE UNCHANGED compareVars
  BY <1>16 DEF compareVars, content, CopyInv
<1> QED
  BY <1>1, <1>2, <1>3, <1>4, <1>5, <1>6, <1>7, <1>8, <1>9, <1>10, <1>11, <1>12, <1>13,
     <1>14, <1>15, <1>16 DEF CompareNext, Compares, Changes

-----------------------------------------------------------------------------
(* The theorems.                                                            *)

LEMMA CompareInvInit == CompareInit => CompareInv
<1> SUFFICES ASSUME CompareInit PROVE CompareInv
  OBVIOUS
<1>1. /\ usage \in Usages /\ heads = [k \in Keys |-> Gone] /\ diff = 0
      /\ copy = [heads |-> heads, diff |-> 0] /\ dirty = {} /\ ~marks_lock /\ ~mixed
      /\ marks_lock \in BOOLEAN /\ mixed \in BOOLEAN
      /\ job = [c \in Comparers |-> NoJob] /\ call = [o \in Others |-> NoCall]
  BY DEF CompareInit
<1>2. /\ \A c \in Comparers : job[c] = NoJob /\ job[c].at = "out" /\ job[c].at \notin Busy
      /\ \A o \in Others : call[o] = NoCall
      /\ \A k \in Keys : heads[k] = Gone
      /\ copy.heads = heads
  BY <1>1 DEF NoJob, Busy
<1>3. Types
  <2>1. heads \in Headers /\ NoCall \in Calls /\ diff \in 0 .. 1
    BY <1>1 DEF Headers, NoCall, Calls
  <2>2. copy \in [heads : Headers, diff : 0 .. 1]
    BY <1>1, <2>1
  <2> QED
    BY <1>1, <2>1, <2>2, NoJobType DEF Types
<1>4. WalkInv
  BY <1>2 DEF WalkInv, WalkOk, NoJob, Walks
<1>5. TurnInv /\ LockInv /\ CountInv
  BY <1>2 DEF TurnInv, LockInv, CountInv
<1>6. AgreeInv /\ CopyInv
  BY <1>2 DEF AgreeInv, CopyInv
<1>7. FileInv /\ RestInv
  BY <1>2 DEF FileInv, RestInv
<1> QED
  BY <1>3, <1>4, <1>5, <1>6, <1>7 DEF CompareInv

LEMMA CompareInvStep ==
  NoDeletesBesideCounts /\ CompareInv /\ [CompareNext]_compareVars => CompareInv'
<1> SUFFICES ASSUME NoDeletesBesideCounts, CompareInv, [CompareNext]_compareVars
             PROVE  CompareInv'
  OBVIOUS
<1>1. /\ Types /\ TurnInv /\ LockInv /\ WalkInv /\ CountInv /\ AgreeInv
      /\ FileInv /\ RestInv /\ CopyInv
  BY DEF CompareInv
<1>2. Types' /\ TurnInv' /\ LockInv' /\ WalkInv'
  BY <1>1, TypesStep, TurnStep, LockStep, WalkStep
<1>3. CountInv' /\ AgreeInv'
  BY <1>1, <1>2, CountStep, AgreeStep
<1>4. FileInv' /\ RestInv' /\ CopyInv'
  BY <1>1, <1>2, FileStep, RestStep, CopyStep
<1> QED
  BY <1>2, <1>3, <1>4 DEF CompareInv

LEMMA CompareInvHolds ==
  ASSUME NoDeletesBesideCounts
  PROVE  CompareSpec => []CompareInv
<1>1. CompareInv /\ [CompareNext]_compareVars => CompareInv'
  BY CompareInvStep
<1> QED
  BY <1>1, CompareInvInit, PTL DEF CompareSpec

LEMMA InvCompared == CompareInv => Compared
<1> SUFFICES ASSUME CompareInv, NEW c \in Comparers, job[c].at = "ends", ~job[c].failed,
                    NEW k \in DOMAIN job[c].before,
                    ~mixed \/ Seen(job[c].file, Len(job[c].file), k) # {}
             PROVE  LET j == job[c]
                        was == j.before[k]
                        places == Seen(j.file, Len(j.file), k)
                    IN  /\ Value(heads[k]) = Result(j.op, was, j.file, places)
                        /\ j.op \in Shows =>
                             /\ <<"-", k, was>> \in Told(j, k) <=> was # Gone /\ places = {}
                             /\ Once(places) => Told(j, k) = Difference(was, j.file, k, places)
  BY DEF Compared
<1>1. /\ job[c].pos = Len(job[c].file) /\ job[c].at \in Busy
      /\ \A p \in Parts : p < job[c].part
  BY DEF CompareInv, WalkInv, WalkOk, Walks, Busy
<1>2. k \in Keys /\ job[c].before[k] \in Values \cup {Gone}
  BY DEF CompareInv, Types, Jobs
<1>3. CASE Seen(job[c].file, Len(job[c].file), k) # {}
  <2>1. FileDone(job[c], k, heads[k])
    BY <1>1, <1>3 DEF CompareInv, FileInv
  <2> QED
    BY <1>1, <1>2, <1>3, <2>1 DEF FileDone
<1>4. CASE Seen(job[c].file, Len(job[c].file), k) = {}
  <2>1. RestDone(job[c], k, heads[k])
    BY <1>1, <1>4 DEF CompareInv, RestInv
  <2>2. Passed(job[c], k)
    BY <1>1, <1>2, PartFacts DEF Passed, Walks
  <2> QED
    BY <1>4, <2>1, <2>2 DEF RestDone, Difference
<1> QED
  BY <1>3, <1>4

LEMMA InvMarksAgree == CompareInv => MarksAgree
<1> SUFFICES ASSUME CompareInv, ~mixed PROVE MarksAgree
  BY DEF MarksAgree
<1>1. Inside = {} => \A c \in Comparers : job[c].at \notin Busy
  BY DEF Inside, Busy
<1> QED
  BY <1>1 DEF CompareInv, AgreeInv, CopyInv, MarksAgree, Marked

\* A comparison finds every key that has changed and leaves each as its
\* documentation says, whatever other calls set meanwhile (_sing_marks_work,
\* idx_process_unmarked).
THEOREM ComparedHolds ==
  ASSUME NoDeletesBesideCounts
  PROVE  CompareSpec => []Compared
BY CompareInvHolds, InvCompared, PTL

\* Between the calls the marks of the keys are the mark of the set, in memory and
\* on disk, but for the things that MarksAgree lists (check_element).
THEOREM MarksAgreeHolds ==
  ASSUME NoDeletesBesideCounts
  PROVE  CompareSpec => []MarksAgree
BY CompareInvHolds, InvMarksAgree, PTL
=============================================================================
