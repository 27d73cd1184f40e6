---------------------------- MODULE ReadBuffers ----------------------------
(***************************************************************************)
(* How a csv file is read (filebuf.c, the FReadBufferSet half): a thread   *)
(* fills two buffers in turn while the parser (fileparse.c) takes symbols  *)
(* from the one it owns.  A buffer changes hands through its `state'.      *)
(*                                                                         *)
(* The file is the symbols 1 .. file.  A buffer has room for a key before  *)
(* its first symbol: fbr_get_key_ref moves the tail of the old buffer      *)
(* there, so that the codec sees a key in one piece.  Zero stands for the  *)
(* terminator that read_thread puts behind what it has read; memory that   *)
(* was never read into counts as zero too, although it may hold anything.  *)
(*                                                                         *)
(* The parser is reduced to what it does to the buffers: it steps over a   *)
(* symbol, takes a key of up to MaxKey symbols, or gives the file up.      *)
(***************************************************************************)
EXTENDS Integers

CONSTANTS
  BufferSize,  \* BUFFER_SIZE
  KeyBuffer,   \* KEY_BUFFER_SIZE
  MaxKey,      \* MAX_KEY_SOURCE
  MaxFile      \* bound: the longest file

ASSUME ReadBuffersAssumption ==
  /\ {BufferSize, KeyBuffer, MaxKey} \subseteq Nat \ {0} /\ MaxFile \in Nat
  /\ KeyBuffer >= MaxKey + 2 /\ BufferSize >= KeyBuffer

VARIABLES
  file,    \* the length of the file
  fpos,    \* how much of it read() has given
  state,   \* state_data.state of both buffers
  size,    \* their size
  data,    \* their symbols
  rat,     \* where read_thread is
  workbuf, \* its buffer
  mat,     \* where the caller is
  mbuf,    \* its buffer
  mpos,    \* mbuf_pos
  tocpy,   \* and what fbr_get_key_ref moves
  eof,
  taken,   \* the symbols that the caller has got past
  slips    \* what has gone wrong: a "read" failed, or the caller gave the
           \* file up "early", before it asked for the first block

reader  == <<fpos, rat, workbuf>>
caller  == <<mat, mbuf, mpos, tocpy, eof, taken>>
buffers == <<state, size, data>>
vars    == <<file, reader, caller, buffers, slips>>

Buffers == {0, 1}
Places  == -KeyBuffer .. BufferSize
End     == 0

Other(b) == 1 - b

\* Where the thread and the caller begin.
InitAt(r, c) ==
  /\ file \in 0 .. MaxFile /\ fpos = 0
  /\ state = [b \in Buffers |-> "fill"] /\ size = [b \in Buffers |-> 0]
  /\ data = [b \in Buffers |-> [p \in Places |-> End]]
  /\ rat = r /\ workbuf = 0
  /\ mat = c /\ mbuf = 0 /\ mpos = 0 /\ tocpy = 0
  /\ eof = FALSE /\ taken = 0 /\ slips = {}

Init == InitAt("read", "made")

-----------------------------------------------------------------------------
(* read_thread *)

\* The buffer after n more symbols were read into it, terminated at `end'.
Loaded(n, end) ==
  [data EXCEPT ![workbuf] =
    [p \in Places |-> IF p = end THEN End
                      ELSE IF p \in 0 .. n - 1 THEN fpos + 1 + p ELSE @[p]]]

Unread == IF file - fpos < BufferSize THEN file - fpos ELSE BufferSize

ReadBlock ==
  /\ rat = "read"
  /\ data' = Loaded(Unread, Unread)
  /\ size' = [size EXCEPT ![workbuf] = Unread]
  /\ fpos' = fpos + Unread /\ rat' = "release"
  /\ UNCHANGED <<file, slips, workbuf, state, caller>>

\* file_read gives -1, whatever it has read before; so does the size.
ReadFails ==
  /\ rat = "read" /\ slips' = slips \cup {"read"}
  /\ \E n \in 0 .. Unread :
       /\ data' = Loaded(n, -1) /\ fpos' = fpos + n
  /\ size' = [size EXCEPT ![workbuf] = -1]
  /\ rat' = "release"
  /\ UNCHANGED <<file, workbuf, state, caller>>

Release ==
  /\ rat = "release"
  /\ IF size[workbuf] = BufferSize
     THEN /\ state' = [state EXCEPT ![workbuf] = "process"]
          /\ rat' = "acquire" /\ workbuf' = Other(workbuf)
     ELSE /\ state' = [state EXCEPT ![workbuf] = "stop"]
          /\ rat' = "done" /\ UNCHANGED workbuf
  /\ UNCHANGED <<file, slips, fpos, size, data, caller>>

Acquire ==
  /\ rat = "acquire" /\ state[workbuf] # "process"
  /\ rat' = IF state[workbuf] = "stop" THEN "done" ELSE "read"
  /\ UNCHANGED <<file, slips, fpos, workbuf, buffers, caller>>

ReadThread == ReadBlock \/ ReadFails \/ Release \/ Acquire

-----------------------------------------------------------------------------
(* The parser *)

FirstBlock ==
  /\ mat = "made" /\ state[0] # "fill"
  /\ eof' = (size[0] = 0) /\ mat' = "at"
  /\ UNCHANGED <<file, slips, reader, buffers, mbuf, mpos, tocpy, taken>>

\* fbr_inc_pos
IncPos ==
  /\ mat = "at" /\ ~eof
  /\ taken' = taken + 1 /\ mpos' = mpos + 1
  /\ mat' = IF mpos' >= size[mbuf] THEN "next" ELSE "at"
  /\ UNCHANGED <<file, slips, reader, buffers, mbuf, tocpy, eof>>

NextBlock ==
  /\ mat = "next"
  /\ IF state[mbuf] = "stop"
     THEN /\ eof' = TRUE /\ mat' = "at"
          /\ UNCHANGED <<state, mbuf, mpos>>
     ELSE /\ state' = [state EXCEPT ![mbuf] = "fill"]
          /\ mbuf' = Other(mbuf) /\ mpos' = 0 /\ mat' = "wait"
          /\ UNCHANGED eof
  /\ UNCHANGED <<file, slips, reader, size, data, tocpy, taken>>

NextBlockComes ==
  /\ mat = "wait" /\ state[mbuf] # "fill"
  /\ eof' = (size[mbuf] = 0) /\ mat' = "at"
  /\ UNCHANGED <<file, slips, reader, buffers, mbuf, mpos, tocpy, taken>>

\* A mistake: the old buffer is given back before its tail is moved.
KeyRefGives ==
  /\ mat = "at" /\ ~eof
  /\ IF size[mbuf] - mpos >= KeyBuffer \/ state[mbuf] = "stop"
     THEN mat' = "key" /\ UNCHANGED <<state, mbuf, tocpy>>
     ELSE /\ tocpy' = size[mbuf] - mpos
          /\ state' = [state EXCEPT ![mbuf] = "fill"]
          /\ mbuf' = Other(mbuf) /\ mat' = "move"
  /\ UNCHANGED <<file, slips, reader, size, data, mpos, eof, taken>>

\* fbr_get_key_ref
KeyRef ==
  /\ mat = "at" /\ ~eof
  /\ IF size[mbuf] - mpos >= KeyBuffer \/ state[mbuf] = "stop"
     THEN mat' = "key" /\ UNCHANGED <<mbuf, tocpy>>
     ELSE /\ tocpy' = size[mbuf] - mpos
          /\ mbuf' = Other(mbuf) /\ mat' = "move"
  /\ UNCHANGED <<file, slips, reader, buffers, mpos, eof, taken>>

KeyMove ==
  /\ mat = "move" /\ state[mbuf] # "fill"
  /\ data' = [data EXCEPT ![mbuf] =
       [p \in Places |-> IF p \in -tocpy .. -1
                         THEN data[Other(mbuf)][mpos + tocpy + p] ELSE @[p]]]
  /\ mpos' = -tocpy /\ mat' = "give"
  /\ UNCHANGED <<file, slips, reader, state, size, mbuf, tocpy, eof, taken>>

\* A mistake: the buffer of the tail is never given back.
KeyGiveNot ==
  /\ mat = "give" /\ mat' = "key"
  /\ UNCHANGED <<file, slips, reader, buffers, mbuf, mpos, tocpy, eof, taken>>

KeyGive ==
  /\ mat = "give" /\ mat' = "key"
  /\ state' = [state EXCEPT ![Other(mbuf)] = "fill"]
  /\ UNCHANGED <<file, slips, reader, size, data, mbuf, mpos, tocpy, eof, taken>>

\* The codec stops at a terminator at the latest.
KeySymbols ==
  {n \in 0 .. MaxKey : \A i \in 0 .. n - 1 : data[mbuf][mpos + i] # End}

\* A mistake: the end of the file is not looked for behind a key.
TakeKeyBlind ==
  /\ mat = "key" /\ mat' = "at"
  /\ \E n \in KeySymbols : mpos' = mpos + n /\ taken' = taken + n
  /\ UNCHANGED <<file, slips, reader, buffers, mbuf, tocpy, eof>>

\* fbr_shift_pos: past a key, or past the part of a bad one that is shown.
TakeKey ==
  /\ mat = "key" /\ mat' = "at"
  /\ \E n \in KeySymbols : mpos' = mpos + n /\ taken' = taken + n
  /\ eof' = (mpos' >= size[mbuf])
  /\ UNCHANGED <<file, slips, reader, buffers, mbuf, tocpy>>

\* A bad key that is not shown; the line is left symbol by symbol.
BadKey ==
  /\ mat = "key" /\ mat' = "at"
  /\ UNCHANGED <<file, slips, reader, buffers, mbuf, mpos, tocpy, eof, taken>>

\* fbr_finish
Finish ==
  /\ mat \in {"made", "at"}
  /\ state' = [state EXCEPT ![mbuf] = "stop"] /\ mat' = "join"
  /\ slips' = IF mat = "made" THEN slips \cup {"early"} ELSE slips
  /\ UNCHANGED <<file, reader, size, data, mbuf, mpos, tocpy, eof, taken>>

Join ==
  /\ mat = "join" /\ rat = "done" /\ mat' = "end"
  /\ UNCHANGED <<file, slips, reader, buffers, mbuf, mpos, tocpy, eof, taken>>

Parser ==
  \/ FirstBlock \/ IncPos \/ NextBlock \/ NextBlockComes
  \/ KeyRef \/ KeyMove \/ KeyGive \/ TakeKey \/ BadKey
  \/ Finish \/ Join

Next == ReadThread \/ Parser

Spec == Init /\ [][Next]_vars

\* The thread runs, and the caller goes on: read_thread has no other
\* business, and the caller is inside one call of the library.
Fairness == WF_vars(ReadThread) /\ WF_vars(Parser)

-----------------------------------------------------------------------------
\* The values that the variables may have.
TypeOK ==
  /\ file \in 0 .. MaxFile /\ fpos \in 0 .. file /\ taken \in Nat
  /\ slips \subseteq {"read", "early"}
  /\ state \in [Buffers -> {"fill", "process", "stop"}]
  /\ size \in [Buffers -> -1 .. BufferSize]
  /\ data \in [Buffers -> [Places -> 0 .. file]]
  /\ rat \in {"read", "release", "acquire", "done"} /\ workbuf \in Buffers
  /\ mat \in {"made", "at", "next", "wait", "move", "give", "key", "join", "end"}
  /\ mbuf \in Buffers /\ mpos \in -KeyBuffer .. BufferSize
  /\ tocpy \in 0 .. KeyBuffer - 1 /\ eof \in BOOLEAN

\* The buffers that the caller reads or writes without a lock.
InUse ==
  {b \in Buffers : \/ b = mbuf /\ mat \in {"at", "next", "key", "give"}
                   \/ b = Other(mbuf) /\ mat \in {"move", "give"}}

\* No data race: read() never goes to a buffer that the caller takes symbols
\* from, or that fbr_get_key_ref moves a tail to or from (filebuf.c:40, 133).
NoDataRace == rat = "read" => workbuf \notin InUse

\* The codec gets the key in one piece: what is at the address that
\* fbr_get_key_ref gives (filebuf.c:123-137) is the file from the first symbol
\* that was not taken yet, as far as a key and the symbol behind it reach, with
\* the terminator where the file ends, unless reading it has failed.
KeyWhole ==
  mat = "key" /\ "read" \notin slips =>
    \A i \in 0 .. MaxKey :
      taken + i <= file =>
        data[mbuf][mpos + i] = IF taken + i = file THEN End ELSE taken + i + 1

\* Nothing is lost, repeated or out of order at a change of buffers: as long as
\* the file is not at its end, the next symbol is there to be read
\* (filebuf.h:68, 75-83), unless reading has failed.
SymbolHere ==
  mat = "at" /\ ~eof /\ "read" \notin slips =>
    mpos < size[mbuf] /\ data[mbuf][mpos] = taken + 1

\* eof is set at the end of the file and not before, wherever the file's
\* length falls between two blocks (filebuf.c:108-120, filebuf.h:70).  Not kept
\* when reading fails, which read_thread takes for the end.
EofIsEnd == mat = "at" /\ eof /\ "read" \notin slips => taken = file

\* The caller gets the file, symbol by symbol and key by key, all of it and
\* nothing behind its end, wherever the blocks begin (filebuf.c:99-137).
FileInOrder == KeyWhole /\ SymbolHere /\ EofIsEnd

\* What waits for the thread gets an answer: the first block (filebuf.c:107),
\* the next one (119), the one for the rest of a key (131), and the end of the
\* thread in fbr_finish (93), also when reading fails.  Not kept when the file
\* is given up early: the thread overwrites the stop.
NeverStuck ==
  \A m \in {"made", "wait", "move", "join"} :
    (mat = m) ~> (mat # m \/ "early" \in slips)
=============================================================================
