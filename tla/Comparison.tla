----------------------------- MODULE Comparison -----------------------------
(***************************************************************************)
(* The comparison of a set with a file (rc_singularity.c,                  *)
(* _sing_marks_work), beside the other calls that change the set.          *)
(*                                                                         *)
(* Every header has a bit, diff_or_phantom_mark, and the set has one,      *)
(* SF_DIFF_MARK; between two comparisons they all agree.  A comparison     *)
(* changes the bit of the set, gives it to every key that is in the file,  *)
(* and then goes through the chains for the keys that still have the old   *)
(* one.  With SING_UF_COUNTERS it leaves out a part of the table in which  *)
(* it has met as many keys as there are.                                   *)
(*                                                                         *)
(* Chains are visited under their locks (ChainLock), in the order of the   *)
(* source (Pipeline): a visit is a step.  What a visit does to a chain is  *)
(* in HashChain, how the copy on disk is written in SyncedSet.             *)
(***************************************************************************)
EXTENDS Naturals, Sequences, FiniteSets

CONSTANTS
  Keys, Values,
  ChainOf,    \* [Keys -> 1 .. the number of chains]: tdata->hash
  PartOf,     \* [chains -> 1 .. the number of counters]: HASH_TO_COUNTER
  Comparers,  \* threads that compare
  Others,     \* threads that change the set
  Gone,       \* no header
  Usages      \* see usage

ChainNumbers == DOMAIN PartOf
Parts        == {PartOf[n] : n \in ChainNumbers}
Shows        == {"diff", "diff_replace"} \* operations that write the differences
Ops          == {"diff", "diff_replace", "intersect", "intersect_replace"}
Lines        == [key : Keys, value : Values]
Header       == [value : Values, mark : 0 .. 1]

ASSUME ComparisonAssumption ==
  /\ \A k \in Keys : ChainOf[k] \in ChainNumbers
  /\ IsFiniteSet(Keys) /\ Gone \notin Values \cup Header
  /\ \A p \in Parts : p \in Nat \ {0} /\ 1 .. p \subseteq Parts
  /\ \A u \in Usages :
       /\ {u.parallel, u.counted, u.kept, u.deletes, u.fails} \subseteq BOOLEAN
       /\ u.comparers \subseteq Comparers
       /\ u.ops \subseteq Ops /\ u.calls \subseteq {"file", "single"}
       /\ u.last \subseteq Keys
       /\ u.files \subseteq Seq(Lines)

VARIABLES
  usage,      \* one of Usages: whether calls run side by side (parallel, not in
              \* SING_LM_SIMPLE), SING_UF_COUNTERS (counted), a copy on disk (kept), the
              \* comparisons (comparers, ops, files), the other calls, whether these
              \* delete, keys whose header is in the last place of a block (last), and
              \* comparisons that run out of memory (fails)
  heads,      \* the header of each key: its value and its mark
  diff,       \* SF_DIFF_MARK
  copy,       \* both in the copy on disk
  dirty,      \* keys whose page is marked as changed
  marks_lock,
  job,        \* what each comparer does
  call,       \* and each other thread
  mixed       \* history: a key has been left with another mark than the set's

compareVars == <<usage, heads, diff, copy, dirty, marks_lock, job, call, mixed>>
content     == <<heads, diff, copy, dirty>>

Value(h) == IF h = Gone THEN Gone ELSE h.value
Content  == [k \in Keys |-> Value(heads[k])]

NoJob ==
  [at |-> "out", op |-> "diff", file |-> <<>>,
   mark |-> 0, pos |-> 0,         \* the mark and the place of the pipeline
   met |-> [p \in Parts |-> 0],   \* new_counters
   part |-> 1, chains |-> {},     \* the part of the table, its chains still to do
   shown |-> {}, failed |-> FALSE,
   before |-> [k \in {} |-> Gone]] \* history: the keys that nobody else has changed since the new mark,
                    \* with their values then
NoCall == [kind |-> "none", mark |-> 0]

Inside == {c \in Comparers : job[c].at # "out"} \cup {o \in Others : call[o] # NoCall}

\* lck_processLock: threads side by side, or one process at a time.
MayEnter == usage.parallel \/ Inside = {}

-----------------------------------------------------------------------------
(* The headers.                                                             *)

\* A visit that may add a key or replace its value, and gives it the mark.
Visited(h, l, mark, allowed) ==
  IF h = Gone
  THEN IF "add" \in allowed THEN [value |-> l.value, mark |-> mark] ELSE Gone
  ELSE [value |-> IF "replace" \in allowed THEN l.value ELSE h.value, mark |-> mark]

\* KS_MARKED: the key has the mark now and had not.
GotMark(old, new) == new # Gone /\ (old = Gone \/ old.mark # new.mark)

\* The headers become hs; the pages of the keys `unmarked' are not marked.
Becomes(hs, unmarked) ==
  /\ heads' = hs
  /\ dirty' = IF usage.kept THEN dirty \cup {k \in Keys \ unmarked : hs[k] # heads[k]} ELSE {}
  /\ UNCHANGED <<diff, copy>>

\* cp_flush at the end of a call in SING_LM_SIMPLE: with nothing marked the head
\* is not written either.
Flush ==
  /\ copy' = IF dirty = {} THEN copy
             ELSE [heads |-> [k \in Keys |-> IF k \in dirty THEN heads[k] ELSE copy.heads[k]],
                   diff |-> diff]
  /\ dirty' = {} /\ UNCHANGED <<heads, diff>>

\* lck_processUnlock.
Leave == IF usage.kept /\ ~usage.parallel THEN Flush ELSE UNCHANGED content

-----------------------------------------------------------------------------
(* A comparison.                                                            *)

Enter(c) ==
  /\ job[c].at = "out" /\ c \in usage.comparers /\ MayEnter
  /\ \E op \in usage.ops, f \in usage.files :
       job' = [job EXCEPT ![c] = [NoJob EXCEPT !.at = "marks", !.op = op, !.file = f]]
  /\ UNCHANGED <<usage, mixed, content, marks_lock, call>>

\* A mistake: two comparisons at once.
FlipFreely(c) ==
  /\ job[c].at = "marks"
  /\ marks_lock' = TRUE /\ diff' = 1 - diff
  /\ job' = [job EXCEPT ![c].at = "lines", ![c].mark = diff', ![c].before = Content]
  /\ UNCHANGED <<usage, mixed, heads, copy, dirty, call>>

\* marks_lock, the new mark of the set, which the pipeline reads then.
Flip(c) ==
  /\ job[c].at = "marks"
  /\ ~marks_lock /\ marks_lock' = TRUE /\ diff' = 1 - diff
  /\ job' = [job EXCEPT ![c].at = "lines", ![c].mark = diff', ![c].before = Content]
  /\ UNCHANGED <<usage, mixed, heads, copy, dirty, call>>

\* What the callback of each operation asks of the set.
Allowed(op) ==
  CASE op = "diff_replace" -> {"add", "replace"}
    [] op = "intersect_replace" -> {"replace"}
    [] OTHER -> {}

\* What is written about a line (and is still of interest).
Shown(c, h, l) ==
  IF job[c].op \notin Shows \/ l.key \notin DOMAIN job[c].before \/ Value(h) = l.value THEN {}
  ELSE IF h = Gone THEN {<<"+", l.key, l.value>>}
  ELSE {<<"!", l.key, h.value>>, <<"=", l.key, l.value>>}

\* A mistake: a key that is in the file twice is counted twice.
VisitCountsAll(c) ==
  LET j == job[c]
      l == j.file[j.pos + 1]
      new == Visited(heads[l.key], l, j.mark, Allowed(j.op))
      part == PartOf[ChainOf[l.key]]
  IN  /\ j.at = "lines" /\ j.pos < Len(j.file)
      /\ Becomes([heads EXCEPT ![l.key] = new], {})
      /\ job' = [job EXCEPT ![c].pos = @ + 1,
                            ![c].met[part] = @ + (IF new # Gone THEN 1 ELSE 0),
                            ![c].shown = @ \cup Shown(c, heads[l.key], l)]
      /\ UNCHANGED <<usage, mixed, marks_lock, call>>

VisitLine(c) ==
  LET j == job[c]
      l == j.file[j.pos + 1]
      new == Visited(heads[l.key], l, j.mark, Allowed(j.op))
      part == PartOf[ChainOf[l.key]]
  IN  /\ j.at = "lines" /\ j.pos < Len(j.file)
      /\ Becomes([heads EXCEPT ![l.key] = new], {})
      /\ job' = [job EXCEPT ![c].pos = @ + 1,
                            ![c].met[part] = @ + (IF GotMark(heads[l.key], new) THEN 1 ELSE 0),
                            ![c].shown = @ \cup Shown(c, heads[l.key], l)]
      /\ UNCHANGED <<usage, mixed, marks_lock, call>>

\* No memory for a value or a key: a key that was found has its mark already, and
\* the chains are not gone through.
LineFails(c) ==
  LET j == job[c]
      l == j.file[j.pos + 1]
  IN  /\ usage.fails /\ j.at = "lines" /\ j.pos < Len(j.file)
      /\ Value(Visited(heads[l.key], l, j.mark, Allowed(j.op))) # Value(heads[l.key])
      /\ Becomes([heads EXCEPT ![l.key] = Visited(@, l, j.mark, {})], {})
      /\ job' = [job EXCEPT ![c].at = "ends", ![c].failed = TRUE]
      /\ mixed' = TRUE /\ UNCHANGED <<usage, marks_lock, call>>

LinesEnd(c) ==
  /\ job[c].at = "lines" /\ job[c].pos = Len(job[c].file)
  /\ job' = [job EXCEPT ![c].at = "part"]
  /\ UNCHANGED <<usage, mixed, content, marks_lock, call>>

\* index->counters, which every change keeps.
Counter(p) == Cardinality({k \in Keys : heads[k] # Gone /\ PartOf[ChainOf[k]] = p})

\* The next part of the table, left out if all of its keys have been met.
NextPart(c) ==
  LET p == job[c].part
  IN  /\ job[c].at = "part"
      /\ IF p \notin Parts THEN job' = [job EXCEPT ![c].at = "ends"]
         ELSE IF usage.counted /\ Counter(p) <= job[c].met[p]
         THEN job' = [job EXCEPT ![c].part = @ + 1]
         ELSE job' = [job EXCEPT ![c].at = "chain", ![c].part = @ + 1,
                                 ![c].chains = {n \in ChainNumbers : PartOf[n] = p}]
      /\ UNCHANGED <<usage, mixed, content, marks_lock, call>>

Unmet(n) == {k \in Keys : ChainOf[k] = n /\ heads[k] # Gone /\ heads[k].mark # diff}

ChainDone(c, n) ==
  [job EXCEPT ![c].chains = @ \ {n},
              ![c].at = IF job[c].chains = {n} THEN "part" ELSE "chain",
              ![c].shown = IF job[c].op \notin Shows THEN @
                           ELSE @ \cup {<<"-", k, heads[k].value>> :
                                           k \in Unmet(n) \cap DOMAIN job[c].before}]

\* A mistake: the keys that are shown keep their marks.
ShowUnmetOnly(c) ==
  /\ job[c].at = "chain" /\ job[c].op = "diff"
  /\ \E n \in job[c].chains : job' = ChainDone(c, n)
  /\ UNCHANGED <<usage, mixed, content, marks_lock, call>>

\* process_unmarked_from_hash_chain: the page of a last place is not marked.
ShowUnmet(c) ==
  /\ job[c].at = "chain" /\ job[c].op = "diff"
  /\ \E n \in job[c].chains :
       /\ Becomes([k \in Keys |-> IF k \in Unmet(n) THEN [heads[k] EXCEPT !.mark = diff]
                                                    ELSE heads[k]], usage.last)
       /\ mixed' = (mixed \/ (usage.kept /\ Unmet(n) \cap usage.last # {}))
       /\ job' = ChainDone(c, n)
  /\ UNCHANGED <<usage, marks_lock, call>>

\* del_unmarked_from_hash_chain.
DeleteUnmet(c) ==
  /\ job[c].at = "chain" /\ job[c].op # "diff"
  /\ \E n \in job[c].chains :
       /\ Becomes([k \in Keys |-> IF k \in Unmet(n) THEN Gone ELSE heads[k]], {})
       /\ job' = ChainDone(c, n)
  /\ UNCHANGED <<usage, mixed, marks_lock, call>>

\* An error is the positive 1 of the pipeline, so that the set is flushed too.
CompareEnds(c) ==
  /\ job[c].at = "ends"
  /\ marks_lock' = FALSE
  /\ job' = [job EXCEPT ![c] = NoJob]
  /\ Leave
  /\ UNCHANGED <<usage, mixed, call>>

-----------------------------------------------------------------------------
(* The other calls.                                                         *)

\* Calls for files and for several keys take the mark of the set when their
\* pipeline begins, those for one key always 0.
CallBegins(o) ==
  /\ call[o] = NoCall /\ MayEnter
  /\ \E kind \in usage.calls :
       call' = [call EXCEPT ![o] = [kind |-> kind, mark |-> IF kind = "file" THEN diff ELSE 0]]
  /\ UNCHANGED <<usage, mixed, content, marks_lock, job>>

\* A call for one key is over with its visit.
OneVisit(o) == call' = [call EXCEPT ![o].kind = IF @ = "single" THEN "over" ELSE @]

Touch(k) ==
  job' = IF heads'[k] = heads[k] THEN job
         ELSE [c \in Comparers |->
                 [job[c] EXCEPT !.before = [i \in DOMAIN @ \ {k} |-> @[i]],
                                !.shown = {s \in @ : s[2] # k}]]

\* idx_key_try_set and idx_key_set, with KS_ADDED alone for sing_add_key(s).
CallSets(o) ==
  /\ call[o].kind \in {"file", "single"}
  /\ \E l \in Lines, allowed \in {{"add"}, {"add", "replace"}} :
       /\ Becomes([heads EXCEPT ![l.key] = Visited(@, l, call[o].mark, allowed)], {})
       /\ Touch(l.key)
       /\ mixed' = (mixed \/ (heads'[l.key] # Gone /\ heads'[l.key].mark # diff))
  /\ OneVisit(o)
  /\ UNCHANGED <<usage, marks_lock>>

\* idx_key_del.
CallDeletes(o) ==
  /\ usage.deletes /\ call[o].kind \in {"file", "single"}
  /\ \E k \in Keys : Becomes([heads EXCEPT ![k] = Gone], {}) /\ Touch(k)
  /\ OneVisit(o)
  /\ UNCHANGED <<usage, mixed, marks_lock>>

CallEnds(o) ==
  /\ call[o].kind \in {"file", "over"}
  /\ call' = [call EXCEPT ![o] = NoCall]
  /\ Leave
  /\ UNCHANGED <<usage, mixed, marks_lock, job>>

-----------------------------------------------------------------------------
\* The owner of the mutex dies and the next one takes the set back: pages that
\* are marked, and the head if there are any.  marks_lock stays as it is.
Dies(t) ==
  /\ usage.kept /\ ~usage.parallel /\ t \in Inside
  /\ heads' = [k \in Keys |-> IF k \in dirty THEN copy.heads[k] ELSE heads[k]]
  /\ diff' = IF dirty = {} THEN diff ELSE copy.diff
  /\ mixed' = (mixed \/ /\ t \in Comparers /\ dirty = {}
                        /\ job[t].at \in {"lines", "part", "chain"})
  /\ dirty' = {}
  /\ job' = [c \in Comparers |-> IF c = t THEN NoJob ELSE job[c]]
  /\ call' = [o \in Others |-> IF o = t THEN NoCall ELSE call[o]]
  /\ UNCHANGED <<usage, copy, marks_lock>>

\* The set is unloaded, or the machine restarted, and the set linked again: a
\* new lock set over the copy.
Restart ==
  /\ usage.kept /\ Inside = {}
  /\ heads' = copy.heads /\ diff' = copy.diff /\ dirty' = {}
  /\ marks_lock' = FALSE
  /\ UNCHANGED <<usage, mixed, copy, job, call>>

-----------------------------------------------------------------------------
CompareInit ==
  /\ usage \in Usages
  /\ heads = [k \in Keys |-> Gone] /\ diff = 0
  /\ copy = [heads |-> heads, diff |-> 0] /\ dirty = {}
  /\ marks_lock = FALSE /\ mixed = FALSE
  /\ job = [c \in Comparers |-> NoJob]
  /\ call = [o \in Others |-> NoCall]

Compares(c) ==
  \/ Enter(c) \/ Flip(c) \/ VisitLine(c) \/ LineFails(c) \/ LinesEnd(c) \/ NextPart(c)
  \/ ShowUnmet(c) \/ DeleteUnmet(c) \/ CompareEnds(c)

Changes(o) == CallBegins(o) \/ CallSets(o) \/ CallDeletes(o) \/ CallEnds(o)

CompareNext ==
  \/ \E c \in Comparers : Compares(c)
  \/ \E o \in Others : Changes(o)
  \/ \E t \in Comparers \cup Others : Dies(t)
  \/ Restart

CompareSpec == CompareInit /\ [][CompareNext]_compareVars

-----------------------------------------------------------------------------
CompareTypeOK ==
  /\ usage \in Usages /\ diff \in 0 .. 1 /\ marks_lock \in BOOLEAN
  /\ heads \in [Keys -> Header \cup {Gone}] /\ dirty \subseteq Keys
  /\ copy \in [heads : [Keys -> Header \cup {Gone}], diff : 0 .. 1]
  /\ \A c \in Comparers :
       /\ job[c].at \in {"out", "marks", "lines", "part", "chain", "ends"}
       /\ job[c].op \in Ops /\ job[c].pos \in 0 .. Len(job[c].file)
       /\ DOMAIN job[c].before \subseteq Keys /\ job[c].chains \subseteq ChainNumbers
  /\ \A o \in Others : call[o].kind \in {"none", "file", "single", "over"}

\* Where a key is in the first n lines of a file, and the last of its values.
Seen(f, n, k)     == {i \in 1 .. n : f[i].key = k}
LastOf(f, places) == f[CHOOSE i \in places : \A j \in places : j <= i].value

\* What a comparison should leave of a key that was there with this value, or was
\* not, and what it should write, if these are the key's places in the file.
Result(op, was, f, places) ==
  CASE op = "diff" -> was
    [] op = "diff_replace" -> IF places = {} THEN Gone ELSE LastOf(f, places)
    [] op = "intersect" -> IF places = {} THEN Gone ELSE was
    [] OTHER -> IF places = {} \/ was = Gone THEN Gone ELSE LastOf(f, places)

Difference(was, f, k, places) ==
  IF places = {} THEN IF was = Gone THEN {} ELSE {<<"-", k, was>>}
  ELSE IF was = Gone THEN {<<"+", k, LastOf(f, places)>>}
  ELSE IF was = LastOf(f, places) THEN {}
  ELSE {<<"!", k, was>>, <<"=", k, LastOf(f, places)>>}

Once(places) == \A i, j \in places : i = j
Told(j, k)   == {s \in j.shown : s[2] = k}

\* A comparison leaves and writes of every key that nobody else has changed
\* meanwhile what its documentation says.  A key of the file is never taken for
\* one that the file does not have, whatever marks were left; and while none was
\* left mixed, every key that it does not have is found, in whatever part of the
\* table it is (_sing_marks_work, idx_process_unmarked).
Compared ==
  \A c \in Comparers :
    LET j == job[c]
    IN  j.at = "ends" /\ ~j.failed =>
          \A k \in DOMAIN j.before :
            LET was == j.before[k]
                places == Seen(j.file, Len(j.file), k)
            IN  ~mixed \/ places # {} =>
                  /\ Value(heads[k]) = Result(j.op, was, j.file, places)
                  /\ j.op \in Shows =>
                       /\ <<"-", k, was>> \in Told(j, k) <=> was # Gone /\ places = {}
                       /\ Once(places) => Told(j, k) = Difference(was, j.file, k, places)

\* Between the calls every key has the mark of the set, in memory and in the
\* copy on disk (check_element), unless one of five things has happened: a
\* comparison without memory, a call for one key after an odd number of
\* comparisons, a call that took its mark before a comparison began, a header in
\* the last place of a block, a death before the first key got its new mark.
MarksAgree ==
  ~mixed =>
    /\ Inside = {} => \A k \in Keys : heads[k] # Gone => heads[k].mark = diff
    /\ usage.kept => \A k \in Keys : copy.heads[k] # Gone => copy.heads[k].mark = copy.diff
=============================================================================
