---------------------------- MODULE WriteBuffers ----------------------------
(***************************************************************************)
(* How the text of a dump or of a comparison is written (filebuf.c, the    *)
(* FWriteBufferSet half): the caller puts entries in a buffer, commits     *)
(* them or takes them back, and hands over whole disk pages to a thread.   *)
(* The part of a page that is left goes over to the other buffer.          *)
(*                                                                         *)
(* Symbols have numbers, in the order in which they are put, so that the   *)
(* text that was taken back can be told from the text that was not.        *)
(***************************************************************************)
EXTENDS Naturals, Sequences, SequencesExt

CONSTANTS
  BufferSize,   \* BUFFER_SIZE
  Page,         \* DISK_PAGE_BYTES
  Grow,         \* WRITE_BUFFER_GROW
  MaxEntries,   \* bound: entries between two commits
  MaxText       \* bound: symbols that are put in all

SizesFit ==
  /\ {BufferSize, Page, Grow, MaxEntries} \subseteq Nat \ {0} /\ MaxText \in Nat
  /\ BufferSize % Page = 0 /\ Grow % Page = 0

VARIABLES
  dump,     \* sing_dump, or one of the calls that compare
  state,    \* state_data.state of both buffers
  total,    \* total_size
  filled,   \* filled_size
  data,     \* what is in them
  wat,      \* where write_thread is
  workbuf,  \* its buffer
  mat,      \* where the caller is
  mbuf,     \* its buffer
  commited, \* commited_pos
  from,     \* fbw_commit: the place of data_rest
  rest,     \*             and rest_size
  entries,  \* the entries since the last commit
  made,     \* the symbols that were put
  text,     \* the symbols that were committed
  disk,     \* what write() has got
  failed    \* a write() has failed

writer  == <<wat, workbuf>>
caller  == <<mat, mbuf, commited, from, rest, entries, made, text>>
buffers == <<state, total, filled, data>>
vars    == <<dump, writer, caller, buffers, disk, failed>>

Buffers == {0, 1}

Other(b) == 1 - b

\* Where the thread and the caller begin.
InitAt(w, c) ==
  /\ dump \in BOOLEAN /\ failed = FALSE
  /\ state = [b \in Buffers |-> "fill"]
  /\ total = [b \in Buffers |-> BufferSize + Grow]
  /\ filled = [b \in Buffers |-> 0] /\ data = [b \in Buffers |-> <<>>]
  /\ wat = w /\ workbuf = 0
  /\ mat = c /\ mbuf = 0 /\ commited = 0 /\ from = 0 /\ rest = 0
  /\ entries = 0 /\ made = 0 /\ text = <<>> /\ disk = <<>>

Init == InitAt("acquire", "at")

-----------------------------------------------------------------------------
(* write_thread *)

Acquire ==
  /\ wat = "acquire" /\ state[workbuf] # "fill" /\ wat' = "write"
  /\ UNCHANGED <<dump, failed, workbuf, caller, buffers, disk>>

Write ==
  /\ wat = "write" /\ wat' = "written"
  /\ disk' = disk \o SubSeq(data[workbuf], 1, filled[workbuf])
  /\ UNCHANGED <<dump, failed, workbuf, caller, buffers>>

\* The result of file_write is not looked at.  How much of the buffer has got
\* to the file is left open.
WriteFails ==
  /\ wat = "write" /\ wat' = "written"
  /\ filled[workbuf] > 0 /\ failed' = TRUE
  /\ UNCHANGED <<dump, workbuf, caller, buffers, disk>>

\* A mistake: the buffer keeps its size.
WrittenKeeps ==
  /\ wat = "written"
  /\ IF state[workbuf] = "stop"
     THEN wat' = "done" /\ UNCHANGED <<workbuf, state>>
     ELSE /\ state' = [state EXCEPT ![workbuf] = "process"]
          /\ workbuf' = Other(workbuf) /\ wat' = "acquire"
  /\ UNCHANGED <<dump, failed, caller, total, filled, data, disk>>

\* filled_size is seen by the caller with the release, not earlier.
Written ==
  /\ wat = "written"
  /\ IF state[workbuf] = "stop"
     THEN wat' = "done" /\ UNCHANGED <<workbuf, state, filled>>
     ELSE /\ filled' = [filled EXCEPT ![workbuf] = 0]
          /\ state' = [state EXCEPT ![workbuf] = "fill"]
          /\ workbuf' = Other(workbuf) /\ wat' = "acquire"
  /\ UNCHANGED <<dump, failed, caller, total, data, disk>>

WriteThread == Acquire \/ Write \/ WriteFails \/ Written

-----------------------------------------------------------------------------
(* The caller *)

\* A mistake: the place that is left is compared without the growth.
RoomLate(b) == IF filled[b] >= total[b] THEN total[b] + Grow ELSE total[b]

\* fbw_check_space, where the caller calls it: key_output does, the callbacks
\* of the comparisons commit every entry instead.
Room(b) == IF dump /\ filled[b] + Grow > total[b] THEN total[b] + Grow ELSE total[b]

\* An entry is one key with its values and signs, or the two lines of a
\* phantom one.
Put ==
  /\ mat = "at" /\ entries < (IF dump THEN MaxEntries ELSE 1)
  /\ \E n \in 1 .. Grow :
       /\ made + n <= MaxText
       /\ total' = [total EXCEPT ![mbuf] = Room(mbuf)]
       /\ data' = [data EXCEPT ![mbuf] =
            SubSeq(@, 1, filled[mbuf]) \o [i \in 1 .. n |-> made + i]]
       /\ filled' = [filled EXCEPT ![mbuf] = @ + n]
       /\ made' = made + n
  /\ entries' = entries + 1
  /\ UNCHANGED <<dump, failed, writer, state, mat, mbuf, commited, from, rest, text, disk>>

\* dump_hash_chain gives a chain up and starts again.
Rollback ==
  /\ mat = "at" /\ dump
  /\ filled' = [filled EXCEPT ![mbuf] = commited]
  /\ entries' = 0
  /\ UNCHANGED <<dump, failed, writer, state, total, data, mat, mbuf, commited, from, rest, made, text, disk>>

NewText == text \o SubSeq(data[mbuf], commited + 1, filled[mbuf])

CommitSmall ==
  /\ mat = "at" /\ filled[mbuf] < BufferSize
  /\ commited' = filled[mbuf] /\ text' = NewText /\ entries' = 0
  /\ UNCHANGED <<dump, failed, writer, buffers, mat, mbuf, from, rest, made, disk>>

\* A mistake: the whole buffer is handed over, and its last page goes twice.
CommitAll ==
  /\ mat = "at" /\ filled[mbuf] >= BufferSize
  /\ rest' = filled[mbuf] % Page /\ from' = filled[mbuf] - rest'
  /\ state' = [state EXCEPT ![mbuf] = "process"]
  /\ mbuf' = Other(mbuf) /\ mat' = "wait"
  /\ text' = NewText /\ entries' = 0
  /\ UNCHANGED <<dump, failed, writer, total, filled, data, commited, made, disk>>

Commit ==
  /\ mat = "at" /\ filled[mbuf] >= BufferSize
  /\ rest' = filled[mbuf] % Page /\ from' = filled[mbuf] - rest'
  /\ filled' = [filled EXCEPT ![mbuf] = from']
  /\ state' = [state EXCEPT ![mbuf] = "process"]
  /\ mbuf' = Other(mbuf) /\ mat' = "wait"
  /\ text' = NewText /\ entries' = 0
  /\ UNCHANGED <<dump, failed, writer, total, data, commited, made, disk>>

\* The rest of the page, from the buffer that the thread may be writing now.
CommitMoves ==
  /\ mat = "wait" /\ state[mbuf] # "process" /\ mat' = "at"
  /\ data' = [data EXCEPT ![mbuf] = SubSeq(data[Other(mbuf)], from + 1, from + rest)]
  /\ filled' = [filled EXCEPT ![mbuf] = rest] /\ commited' = rest
  /\ UNCHANGED <<dump, failed, writer, state, total, mbuf, from, rest, entries, made, text, disk>>

\* fbw_finish; the callers have committed by then.
Finish ==
  /\ mat = "at" /\ entries = 0
  /\ state' = [state EXCEPT ![mbuf] = "stop"] /\ mat' = "join"
  /\ UNCHANGED <<dump, failed, writer, total, filled, data, mbuf, commited, from, rest, entries, made, text, disk>>

Join ==
  /\ mat = "join" /\ wat = "done" /\ mat' = "end"
  /\ UNCHANGED <<dump, failed, writer, buffers, mbuf, commited, from, rest, entries, made, text, disk>>

Commits == CommitSmall \/ Commit \/ CommitMoves

Caller == Put \/ Rollback \/ Commits \/ Finish \/ Join

Next == WriteThread \/ Caller

Spec == Init /\ [][Next]_vars

\* The thread runs; the caller ends what it has begun.
Fairness == WF_vars(WriteThread) /\ WF_vars(CommitMoves \/ Join)

-----------------------------------------------------------------------------
\* The values that the variables may have.
TypeOK ==
  /\ state \in [Buffers -> {"fill", "process", "stop"}]
  /\ total \in [Buffers -> Nat] /\ filled \in [Buffers -> 0 .. MaxText]
  /\ \A b \in Buffers : \A i \in DOMAIN data[b] : data[b][i] \in 1 .. made
  /\ wat \in {"acquire", "write", "written", "done"} /\ workbuf \in Buffers
  /\ mat \in {"at", "wait", "join", "end"} /\ mbuf \in Buffers
  /\ commited \in 0 .. BufferSize - 1 /\ rest \in 0 .. Page - 1 /\ from \in 0 .. MaxText
  /\ entries \in 0 .. MaxEntries /\ made \in 0 .. MaxText
  /\ \A i \in DOMAIN text : text[i] \in 1 .. made

\* Nothing is written past the end of a buffer: one growth is room for an
\* entry, and a buffer that was not grown for this entry has that much left
\* (filebuf.c:216, filebuf.h:86).
InBounds == \A b \in Buffers : filled[b] <= total[b]

\* No data race: what the thread writes is not what the caller puts entries in
\* or takes its rest from (filebuf.c:146, 232-238).
NoDataRace ==
  wat = "write" /\ mat # "join" =>
    /\ mat = "at" => workbuf # mbuf
    /\ mat = "wait" /\ workbuf # mbuf => filled[workbuf] <= from

\* What is in the file was committed, in the same order and once: an entry that
\* dump_hash_chain takes back is never on its way to the disk
\* (filebuf.h:118, filebuf.c:223-240), unless a write has failed.
DiskIsText == failed \/ IsPrefix(disk, text)

\* When fbw_finish returns, the file is the whole text (filebuf.c:198-212).  Not
\* kept when a write fails, which nothing looks at.
AllWritten == mat = "end" /\ ~failed => disk = text

\* The file is the committed text: a beginning of it on the way, all of it at
\* the end (filebuf.c:198-240).
WrittenIsText == DiskIsText /\ AllWritten

\* A commit gets its second buffer, and the thread ends, also when writing
\* fails (filebuf.c:205, 236).
NeverStuck == \A m \in {"wait", "join"} : (mat = m) ~> (mat # m)
=============================================================================
