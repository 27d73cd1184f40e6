------------------------------ MODULE FileCalls ------------------------------
(***************************************************************************)
(* The calls for files: they read a file in blocks (fbr_create) or write   *)
(* one (fbw_create), with a thread of its own beside the caller, and send  *)
(* the keys of a file through a pipeline with another one.  Each part is   *)
(* looked at while the others are at rest: what they hand to each other    *)
(* are whole keys and entries, in order.                                   *)
(***************************************************************************)
EXTENDS ReadBuffers

CONSTANTS
  OutSize,     \* BUFFER_SIZE of what is written
  Page,        \* DISK_PAGE_BYTES
  Grow,        \* WRITE_BUFFER_GROW
  MaxEntries,  \* bound: entries between two commits
  MaxText      \* bound: symbols that are put in all

VARIABLES
  dump, wstate, total, filled, wdata, wat, wworkbuf, wmat, wmbuf, commited,
  from, rest, entries, made, text, disk, failed   \* those of WriteBuffers

output == <<dump, wstate, total, filled, wdata, wat, wworkbuf, wmat, wmbuf, commited,
            from, rest, entries, made, text, disk, failed>>

W == INSTANCE WriteBuffers
  WITH BufferSize <- OutSize, state <- wstate, data <- wdata, workbuf <- wworkbuf,
       mat <- wmat, mbuf <- wmbuf

\* Those of Pipeline.
CONSTANTS Items, BucketOf, Minus, ChainSize, SingleSize, Chains, Errors, Setups
VARIABLES
  setup, slot, seen, count, pstate, fat, fchain, next, pat, wchain, pos, stage,
  todo, need, done, pfailed, result

pipe == <<setup, slot, seen, count, pstate, fat, fchain, next, pat, wchain, pos,
          stage, todo, need, done, pfailed, result>>

P == INSTANCE Pipeline WITH state <- pstate, failed <- pfailed

ASSUME FileCallsAssumption == W!SizesFit /\ P!CallsFit

NoRead     == InitAt("done", "end") /\ file = 0
NoWrite    == W!InitAt("done", "end") /\ ~dump
NoPipeline == P!InitReturned

FileInit ==
  \/ Init /\ NoWrite /\ NoPipeline
  \/ NoRead /\ W!Init /\ NoPipeline
  \/ NoRead /\ NoWrite /\ P!Init

FileNext ==
  \/ Next /\ UNCHANGED <<output, pipe>>
  \/ W!Next /\ UNCHANGED <<vars, pipe>>
  \/ P!Next /\ UNCHANGED <<vars, output>>

FileSpec ==
  /\ FileInit /\ [][FileNext]_<<vars, output, pipe>>
  /\ Fairness /\ W!Fairness /\ P!Fairness

-----------------------------------------------------------------------------
\* What is put stays inside of the buffers, the two threads never work on the
\* same part of one, and the file is the committed text: a beginning of it on the
\* way, all of it at the end (filebuf.c:139-240).
WritesSound == W!InBounds /\ W!NoDataRace /\ W!WrittenIsText

\* Every line is done once, those about one key in their order, all of them when
\* the call returns without an error; a call for several keys that fails takes
\* the set back (pl_pipeline1, pl_pipeline2).
LinesDone == P!DoneOnce /\ P!InOrder

\* The entry of a line that is still to be visited is not filled again, and not
\* by a block that the other thread works on (process_thread).
EntriesKept == P!EntriesKept

\* Who waits for the other thread is answered: for a block, for the other buffer,
\* for the visits of a chain and for the thread's end, also when the file can not
\* be read or written or a visit fails.
AllAnswered == NeverStuck /\ W!NeverStuck /\ P!PipelineEnds
=============================================================================
