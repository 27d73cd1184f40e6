-------------------------- MODULE FileCallsProofs --------------------------
(***************************************************************************)
(* The two sides of filebuf.c, for files, buffers, pages and keys of any   *)
(* size, with failed reads and writes: what the parser takes is the file   *)
(* in its order, what the thread writes is the committed text in its       *)
(* order, and no buffer is in two hands.  And the pipelines of             *)
(* pipelines.c, for any number of items and of chains of any size: every   *)
(* item is done once, and in its order where the order matters.            *)
(***************************************************************************)
EXTENDS FileCalls, SequenceTheorems, FiniteSetTheorems, TLAPS

-----------------------------------------------------------------------------
(* Reading: who has a buffer.                                               *)

\* The part of the types that the ownership of the buffers depends on.
OwnTypes ==
  /\ state \in [Buffers -> {"fill", "process", "stop"}]
  /\ workbuf \in Buffers /\ mbuf \in Buffers

\* The buffer that the thread fills is to be filled, until fbr_finish changes
\* that over its head.
ReaderOwns ==
  rat \in {"read", "release"} /\ mat \notin {"join", "end"} => state[workbuf] = "fill"

\* The buffers in the caller's use are not.
CallerOwns ==
  /\ mat = "made" => mbuf = 0
  /\ \A b \in InUse : state[b] # "fill"

OwnInv == OwnTypes /\ ReaderOwns /\ CallerOwns

\* The change of hands starts with the thread in the first buffer.
LEMMA OwnInit == Init => OwnInv
BY DEF Init, InitAt, OwnInv, OwnTypes, ReaderOwns, CallerOwns, InUse, Buffers

\* No step of either thread takes a buffer that the other one has.
LEMMA OwnStep == OwnInv /\ [Next]_vars => OwnInv'
<1> SUFFICES ASSUME OwnInv, [Next]_vars PROVE OwnInv'
  OBVIOUS
<1> USE DEF OwnInv, OwnTypes, ReaderOwns, CallerOwns, InUse, Buffers, Other
<1>1. CASE ReadBlock
  BY <1>1 DEF ReadBlock, caller
<1>2. CASE ReadFails
  BY <1>2 DEF ReadFails, caller
<1>3. CASE Release
  BY <1>3 DEF Release, caller
<1>4. CASE Acquire
  BY <1>4 DEF Acquire, caller, buffers
<1>5. CASE FirstBlock
  BY <1>5 DEF FirstBlock, reader, buffers
<1>6. CASE IncPos
  BY <1>6 DEF IncPos, reader, buffers
<1>7. CASE NextBlock
  BY <1>7 DEF NextBlock, reader
<1>8. CASE NextBlockComes
  BY <1>8 DEF NextBlockComes, reader, buffers
<1>9. CASE KeyRef
  BY <1>9 DEF KeyRef, reader, buffers
<1>10. CASE KeyMove
  BY <1>10 DEF KeyMove, reader
<1>11. CASE KeyGive
  BY <1>11 DEF KeyGive, reader
<1>12. CASE TakeKey
  BY <1>12 DEF TakeKey, reader, buffers
<1>13. CASE BadKey
  BY <1>13 DEF BadKey, reader, buffers
<1>14. CASE Finish
  BY <1>14 DEF Finish, reader
<1>15. CASE Join
  BY <1>15 DEF Join, reader, buffers
<1>16. CASE UNCHANGED vars
  BY <1>16 DEF vars, reader, caller, buffers
<1> QED
  BY <1>1, <1>2, <1>3, <1>4, <1>5, <1>6, <1>7, <1>8, <1>9, <1>10, <1>11,
     <1>12, <1>13, <1>14, <1>15, <1>16 DEF Next, ReadThread, Parser

-----------------------------------------------------------------------------
(* The symbols.                                                             *)

\* The symbol of the file before the first of a buffer: of the block that is
\* in it, or that will be.
Start == [b \in Buffers |->
  IF b = workbuf
  THEN CASE rat \in {"release", "done"} -> fpos - size[b]
         [] rat = "acquire" /\ state[b] = "process" -> fpos - 2 * BufferSize
         [] OTHER -> fpos
  ELSE fpos - BufferSize - (IF rat \in {"release", "done"} THEN size[workbuf] ELSE 0)]

ReadTypes ==
  /\ file \in Nat /\ fpos \in 0 .. file
  /\ size \in [Buffers -> 0 .. BufferSize]
  /\ data \in [Buffers -> [Places -> Nat]]
  /\ rat \in {"read", "release", "acquire", "done"}
  /\ mat \in {"made", "at", "next", "wait", "move", "give", "key"}
  /\ mpos \in -KeyBuffer .. BufferSize /\ taken \in Nat
  /\ tocpy \in 0 .. KeyBuffer - 1 /\ eof \in BOOLEAN

\* The thread is at the buffer that is to be filled next, and at the end of the
\* file after a short block.
ReaderInv ==
  /\ rat = "release" => size[workbuf] = BufferSize \/ fpos = file
  /\ rat = "done" => state[workbuf] = "stop"
  /\ \A b \in Buffers :
       /\ state[b] = "stop" => b = workbuf /\ rat = "done" /\ fpos = file
       /\ state[b] = "process" => size[b] = BufferSize
       /\ state[b] = "fill" /\ state[Other(b)] = "process" => workbuf = b

\* A buffer that has been read holds its block of the file and a terminator.
DataInv ==
  \A b \in Buffers :
    (state[b] # "fill" \/ (rat = "release" /\ b = workbuf)) =>
      /\ \A p \in 0 .. size[b] - 1 : data[b][p] = Start[b] + 1 + p
      /\ data[b][size[b]] = End

\* The buffer that the caller gives back next.
Oldest == IF mat \in {"move", "give"} THEN Other(mbuf) ELSE mbuf

\* Where the caller has got in the file, and that the thread is not a round ahead.
CallerInv ==
  /\ rat = "acquire" /\ state[workbuf] = "process" => workbuf = Oldest
  /\ mat \in {"made", "wait"} =>
       /\ mpos = 0 /\ taken = Start[mbuf]
       /\ state[mbuf] = "fill" => workbuf = mbuf /\ state[Other(mbuf)] = "fill"
  /\ mat \in {"at", "next", "give", "key"} =>
       state[mbuf] # "fill" /\ taken = Start[mbuf] + mpos
  /\ mat \in {"move", "give"} => state[Other(mbuf)] = "process"
  /\ mat = "move" =>
       /\ taken = Start[Other(mbuf)] + mpos
       /\ tocpy = BufferSize - mpos /\ tocpy > 0
  /\ mat = "at" => IF eof THEN taken = file ELSE mpos < size[mbuf]
  /\ mat = "next" => mpos = size[mbuf]
  /\ mat \in {"move", "give", "key"} => ~eof
  /\ mat \in {"give", "key"} =>
       /\ mpos < size[mbuf]
       /\ state[mbuf] = "stop" \/ size[mbuf] - mpos >= KeyBuffer

\* Before the symbols of its block the caller has the tail of the last one.
TailInv ==
  /\ mat \in {"at", "next", "give", "key"} =>
       \A p \in mpos .. -1 : data[mbuf][p] = Start[mbuf] + 1 + p
  /\ mat = "move" =>
       \A p \in mpos .. -1 : data[Other(mbuf)][p] = Start[Other(mbuf)] + 1 + p

OrderInv ==
  "read" \notin slips /\ mat \notin {"join", "end"} =>
    ReadTypes /\ ReaderInv /\ DataInv /\ CallerInv /\ TailInv

LEMMA Sizes ==
  /\ BufferSize \in Nat /\ KeyBuffer \in Nat /\ MaxKey \in Nat /\ MaxFile \in Nat
  /\ MaxKey > 0 /\ KeyBuffer >= MaxKey + 2 /\ BufferSize >= KeyBuffer
BY ReadBuffersAssumption

LEMMA StartType == OwnInv /\ ReadTypes => Start \in [Buffers -> Int]
BY Sizes DEF Start, OwnInv, OwnTypes, ReadTypes, Buffers

\* A step of the caller leaves the blocks where they are, but for the one that
\* it gives back.
LEMMA StartKept ==
  ASSUME UNCHANGED <<reader, size>>, NEW b \in Buffers, state'[b] = state[b]
  PROVE  Start'[b] = Start[b]
BY DEF Start, reader

\* A step of the thread does too, but for the stale one.
LEMMA StartFilled ==
  ASSUME OwnInv, ReadTypes, ReaderInv, ReadBlock \/ Release \/ Acquire,
         mat \notin {"join", "end"},
         NEW b \in Buffers, state[b] # "fill" \/ b = workbuf
  PROVE  Start'[b] = Start[b]
<1> USE Sizes
    DEF OwnInv, OwnTypes, ReaderOwns, ReadTypes, ReaderInv, Start, Buffers, Other
<1>1. CASE ReadBlock
  BY <1>1 DEF ReadBlock, Unread
<1>2. CASE Release
  BY <1>2 DEF Release
<1>3. CASE Acquire
  BY <1>3 DEF Acquire, buffers
<1> QED
  BY <1>1, <1>2, <1>3

\* The buffer after the oldest one has, or will get, the block behind its block.
LEMMA StartNext ==
  ASSUME OwnInv, ReadTypes, ReaderInv, CallerInv, mat \notin {"join", "end"},
         state[Oldest] = "process"
  PROVE  Start[Other(Oldest)] = Start[Oldest] + BufferSize
BY Sizes
   DEF OwnInv, OwnTypes, ReaderOwns, ReadTypes, ReaderInv, CallerInv, Oldest, Start, Buffers, Other

\* The last block ends with the file.
LEMMA StartStop ==
  ASSUME OwnInv, ReadTypes, ReaderInv, NEW b \in Buffers, state[b] = "stop"
  PROVE  Start[b] + size[b] = file
BY DEF OwnInv, OwnTypes, ReadTypes, ReaderInv, Start

\* Every block is one of the file.
LEMMA StartInFile ==
  ASSUME OwnInv, ReadTypes, ReaderInv, CallerInv, NEW b \in Buffers, state[b] # "fill",
         mat \notin {"join", "end"}
  PROVE  Start[b] + size[b] <= file
BY Sizes
   DEF OwnInv, OwnTypes, ReaderOwns, ReadTypes, ReaderInv, CallerInv, Start, Buffers, Other, Oldest

\* A step that keeps what the full buffers hold keeps DataInv.
LEMMA DataKept ==
  ASSUME OwnInv, ReadTypes, DataInv, UNCHANGED size,
         \A b \in Buffers : \A p \in 0 .. BufferSize : data'[b][p] = data[b][p],
         \A b \in Buffers :
           (state'[b] # "fill" \/ (rat' = "release" /\ b = workbuf')) =>
             /\ state[b] # "fill" \/ (rat = "release" /\ b = workbuf)
             /\ Start'[b] = Start[b]
  PROVE  DataInv'
<1> SUFFICES ASSUME NEW b \in Buffers, state'[b] # "fill" \/ (rat' = "release" /\ b = workbuf')
             PROVE  /\ \A p \in 0 .. size'[b] - 1 : data'[b][p] = Start'[b] + 1 + p
                    /\ data'[b][size'[b]] = End
  BY DEF DataInv
<1>1. /\ \A p \in 0 .. size[b] - 1 : data[b][p] = Start[b] + 1 + p
      /\ data[b][size[b]] = End
  BY DEF DataInv
<1>2. size[b] \in 0 .. BufferSize /\ BufferSize \in Nat
  BY Sizes DEF ReadTypes
<1>3. \A p \in 0 .. size[b] - 1 : p \in 0 .. BufferSize
  BY <1>2
<1> QED
  BY <1>1, <1>2, <1>3

\* A step that keeps what is before the caller's symbols keeps TailInv.
LEMMA TailKept ==
  ASSUME OwnInv, ReadTypes, TailInv, mbuf' = mbuf, mpos' \in Int, mpos' >= mpos,
         mat' \in {"at", "next", "give", "key"} =>
           /\ mat \in {"at", "next", "give", "key"}
           /\ Start'[mbuf] = Start[mbuf] /\ data'[mbuf] = data[mbuf],
         mat' = "move" =>
           /\ mat = "move" /\ Start'[Other(mbuf)] = Start[Other(mbuf)]
           /\ data'[Other(mbuf)] = data[Other(mbuf)]
  PROVE  TailInv'
<1>1. mpos \in Int /\ \A p \in mpos' .. -1 : p \in mpos .. -1
  BY Sizes DEF ReadTypes
<1> QED
  BY <1>1 DEF TailInv

\* A key ends with the block or before it.
LEMMA KeyFits ==
  ASSUME OwnInv, ReadTypes, ReaderInv, DataInv, CallerInv, mat = "key",
         NEW n \in KeySymbols
  PROVE  /\ n \in Nat /\ mpos + n <= size[mbuf]
         /\ mpos + n = size[mbuf] => state[mbuf] = "stop"
<1>1. n \in 0 .. MaxKey /\ \A i \in 0 .. n - 1 : data[mbuf][mpos + i] # End
  BY DEF KeySymbols
<1>2. mpos \in Int /\ size[mbuf] \in Nat /\ mbuf \in Buffers
  BY Sizes DEF OwnInv, OwnTypes, ReadTypes
<1>3. /\ mpos < size[mbuf] /\ data[mbuf][size[mbuf]] = End
      /\ state[mbuf] = "stop" \/ size[mbuf] - mpos >= KeyBuffer
  BY <1>2 DEF CallerInv, DataInv
<1>4. ASSUME mpos + n > size[mbuf] PROVE FALSE
  <2> DEFINE i == size[mbuf] - mpos
  <2>1. i \in 0 .. n - 1 /\ mpos + i = size[mbuf]
    BY <1>1, <1>2, <1>3, <1>4
  <2> QED
    BY <2>1, <1>1, <1>3
<1> QED
  BY <1>1, <1>2, <1>3, <1>4, Sizes

\* The two threads begin with an empty buffer each.
LEMMA OrderInit == Init => OrderInv
<1> SUFFICES ASSUME Init PROVE ReadTypes /\ ReaderInv /\ DataInv /\ CallerInv /\ TailInv
  BY DEF OrderInv
<1> USE Sizes DEF Init, InitAt, Buffers, Other
<1>1. ReadTypes
  <2>1. data \in [Buffers -> [Places -> Nat]]
    BY DEF End
  <2>2. fpos \in 0 .. file /\ file \in Nat
    OBVIOUS
  <2>3. mpos \in -KeyBuffer .. BufferSize /\ tocpy \in 0 .. KeyBuffer - 1
    OBVIOUS
  <2>4. size \in [Buffers -> 0 .. BufferSize] /\ taken \in Nat /\ rat = "read" /\ mat = "made"
    OBVIOUS
  <2>5. eof \in BOOLEAN
    OBVIOUS
  <2> HIDE DEF Init, InitAt
  <2> QED
    BY <2>1, <2>2, <2>3, <2>4, <2>5 DEF ReadTypes
<1>2. ReaderInv
  BY DEF ReaderInv
<1>3. DataInv
  BY DEF DataInv
<1>4. CallerInv
  BY DEF CallerInv, Start, Oldest
<1>5. TailInv
  BY DEF TailInv
<1> QED
  BY <1>1, <1>2, <1>3, <1>4, <1>5

LEMMA OrderStep == OwnInv /\ OrderInv /\ [Next]_vars => OrderInv'
<1> SUFFICES ASSUME OwnInv, OrderInv, [Next]_vars,
                    ("read" \notin slips)', mat' \notin {"join", "end"}
             PROVE  (ReadTypes /\ ReaderInv /\ DataInv /\ CallerInv /\ TailInv)'
  BY DEF OrderInv
<1>1. "read" \notin slips /\ mat \notin {"join", "end"}
  BY DEF Next, ReadThread, Parser, ReadBlock, ReadFails, Release, Acquire, FirstBlock,
     IncPos,
         NextBlock, NextBlockComes, KeyRef, KeyMove, KeyGive, TakeKey, BadKey, Finish, Join,
         vars, caller
<1>2. ReadTypes /\ ReaderInv /\ DataInv /\ CallerInv /\ TailInv
  BY <1>1 DEF OrderInv
<1>3. Start \in [Buffers -> Int]
  BY <1>2, StartType
<1> USE <1>1, <1>2, <1>3, Sizes
    DEF OwnInv, OwnTypes, Buffers, Other
<1>4. CASE ReadBlock
  <2>0. \A b \in Buffers : state[b] # "fill" \/ b = workbuf => Start'[b] = Start[b]
    BY <1>4, StartFilled
  <2>1. ReadTypes'
    <3>1. Unread \in 0 .. BufferSize /\ fpos + Unread <= file
      BY DEF Unread, ReadTypes
    <3>2. data' \in [Buffers -> [Places -> Nat]]
      <4>1. \A p \in 0 .. Unread - 1 : fpos + 1 + p \in Nat
        BY <3>1 DEF ReadTypes
      <4> QED
        BY <1>4, <4>1 DEF ReadBlock, Loaded, ReadTypes, End
    <3>3. fpos' \in 0 .. file'
      BY <1>4, <3>1 DEF ReadBlock, ReadTypes
    <3>4. size' \in [Buffers -> 0 .. BufferSize]
      BY <1>4, <3>1 DEF ReadBlock, ReadTypes
    <3> QED
      BY <1>4, <3>2, <3>3, <3>4 DEF ReadBlock, caller, ReadTypes
  <2>2. ReaderInv'
    BY <1>4, <2>0 DEF ReadBlock, caller, ReaderOwns, ReadTypes, ReaderInv, CallerInv,
       Oldest, Unread
  <2>3. DataInv'
    <3>1. /\ Unread \in 0 .. BufferSize /\ state[workbuf] = "fill" /\ rat = "read"
          /\ Start[workbuf] = fpos /\ Start'[workbuf] = fpos
      BY <1>4, <2>0 DEF Unread, ReadTypes, ReadBlock, ReaderOwns, Start
    <3> SUFFICES ASSUME NEW b \in Buffers, state[b] # "fill" \/ b = workbuf
                 PROVE  /\ \A p \in 0 .. size'[b] - 1 : data'[b][p] = Start'[b] + 1 + p
                        /\ data'[b][size'[b]] = End
      BY <1>4 DEF ReadBlock, DataInv
    <3>2. CASE b = workbuf
      <4>1. size'[b] = Unread
        BY <1>4, <3>2 DEF ReadBlock, ReadTypes
      <4>2. data'[b] = [p \in Places |-> IF p = Unread THEN End
                          ELSE IF p \in 0 .. Unread - 1 THEN fpos + 1 + p ELSE data[b][p]]
        BY <1>4, <3>2 DEF ReadBlock, Loaded, ReadTypes
      <4>3. /\ Unread \in Places
            /\ \A p \in 0 .. Unread - 1 : p \in Places /\ p # Unread
        BY <3>1 DEF Places
      <4> QED
        BY <3>1, <3>2, <4>1, <4>2, <4>3
    <3>3. CASE b # workbuf
      BY <1>4, <2>0, <3>3 DEF ReadBlock, Loaded, ReadTypes, DataInv
    <3> QED
      BY <3>2, <3>3
  <2>4. CallerInv'
    BY <1>4, <2>0 DEF ReadBlock, caller, ReadTypes, ReaderOwns, ReaderInv, CallerInv,
       Oldest, Unread
  <2>5. TailInv'
    BY <1>4, <2>0, TailKept DEF ReadBlock, caller, ReadTypes, CallerInv, ReaderOwns,
       ReaderInv, Unread, Loaded
  <2> QED
    BY <2>1, <2>2, <2>3, <2>4, <2>5
<1>5. CASE Release
  <2>0. \A b \in Buffers : state[b] # "fill" \/ b = workbuf => Start'[b] = Start[b]
    BY <1>5, StartFilled
  <2>1. ReadTypes'
    BY <1>5, <2>0 DEF Release, caller, ReadTypes
  <2>2. ReaderInv'
    BY <1>5, <2>0 DEF Release, caller, ReaderOwns, ReadTypes, ReaderInv, CallerInv,
       Oldest
  <2>3. DataInv'
    BY <1>5, <2>0, DataKept DEF Release, caller, ReaderOwns, ReadTypes, ReaderInv
  <2>4. CallerInv'
    BY <1>5, <2>0 DEF Release, caller, ReadTypes, ReaderOwns, ReaderInv, CallerInv,
       Oldest
  <2>5. TailInv'
    BY <1>5, <2>0, TailKept DEF Release, caller, ReadTypes, CallerInv, ReaderOwns,
       ReaderInv
  <2> QED
    BY <2>1, <2>2, <2>3, <2>4, <2>5
<1>6. CASE Acquire
  <2>0. \A b \in Buffers : state[b] # "fill" \/ b = workbuf => Start'[b] = Start[b]
    BY <1>6, StartFilled
  <2>1. ReadTypes'
    BY <1>6, <2>0 DEF Acquire, caller, buffers, ReadTypes
  <2>2. ReaderInv'
    BY <1>6, <2>0 DEF Acquire, caller, buffers, ReaderOwns, ReadTypes, ReaderInv,
       CallerInv, Oldest
  <2>3. DataInv'
    BY <1>6, <2>0, DataKept DEF Acquire, caller, buffers, ReaderOwns, ReadTypes,
       ReaderInv
  <2>4. CallerInv'
    BY <1>6, <2>0 DEF Acquire, caller, buffers, ReadTypes, ReaderOwns, ReaderInv,
       CallerInv, Oldest
  <2>5. TailInv'
    BY <1>6, <2>0, TailKept DEF Acquire, caller, buffers, ReadTypes, CallerInv,
       ReaderOwns, ReaderInv
  <2> QED
    BY <2>1, <2>2, <2>3, <2>4, <2>5
<1>7. CASE FirstBlock
  <2>0. \A b \in Buffers : state'[b] = state[b] => Start'[b] = Start[b]
    BY <1>7, StartKept DEF FirstBlock, reader, buffers
  <2>1. ReadTypes'
    BY <1>7, <2>0 DEF FirstBlock, reader, buffers, ReadTypes
  <2>2. ReaderInv'
    BY <1>7, <2>0 DEF FirstBlock, reader, buffers, ReaderOwns, ReadTypes, ReaderInv,
       CallerInv, Oldest
  <2>3. DataInv'
    BY <1>7, <2>0, DataKept DEF FirstBlock, reader, buffers, ReaderOwns, ReadTypes,
       ReaderInv
  <2>4. CallerInv'
    <3>1. state[mbuf] # "fill" /\ mpos = 0 /\ taken = Start[mbuf]
      BY <1>7 DEF FirstBlock, CallerInv, CallerOwns
    <3>2. state[mbuf] = "stop" => Start[mbuf] + size[mbuf] = file
      BY StartStop
    <3>3. size[mbuf] = 0 => state[mbuf] = "stop"
      BY <3>1 DEF ReaderInv
    <3>4. eof' = (size[mbuf] = 0)
      BY <1>7 DEF FirstBlock, CallerOwns
    <3>5. IF eof' THEN taken' = file' ELSE mpos' < size'[mbuf']
      <4>1. (eof' => size[mbuf] = 0) /\ (~eof' => size[mbuf] # 0)
        BY <3>4
      <4>2. /\ taken' = taken /\ mpos' = mpos /\ mbuf' = mbuf /\ size' = size /\ file' = file
            /\ Start[mbuf] \in Int /\ size[mbuf] \in Nat
        BY <1>7 DEF FirstBlock, buffers, ReadTypes
      <4> QED
        BY <3>1, <3>2, <3>3, <4>1, <4>2
    <3> QED
      BY <1>7, <2>0, <3>1, <3>5 DEF FirstBlock, reader, buffers, CallerInv, Oldest,
         ReadTypes
  <2>5. TailInv'
    BY <1>7, <2>0 DEF FirstBlock, reader, buffers, ReadTypes, CallerInv, TailInv,
       ReaderOwns, CallerOwns, InUse, Places
  <2> QED
    BY <2>1, <2>2, <2>3, <2>4, <2>5
<1>8. CASE IncPos
  <2>0. \A b \in Buffers : state'[b] = state[b] => Start'[b] = Start[b]
    BY <1>8, StartKept DEF IncPos, reader, buffers
  <2>1. ReadTypes'
    BY <1>8, <2>0 DEF IncPos, reader, buffers, ReadTypes, CallerInv, ReaderInv
  <2>2. ReaderInv'
    BY <1>8, <2>0 DEF IncPos, reader, buffers, ReaderOwns, ReadTypes, ReaderInv,
       CallerInv, Oldest
  <2>3. DataInv'
    BY <1>8, <2>0, DataKept DEF IncPos, reader, buffers, ReaderOwns, ReadTypes,
       ReaderInv
  <2>4. CallerInv'
    BY <1>8, <2>0, StartNext, StartStop, StartInFile DEF IncPos, reader, buffers,
       ReadTypes, ReaderOwns, ReaderInv, CallerInv, Oldest
  <2>5. TailInv'
    BY <1>8, <2>0, TailKept DEF IncPos, reader, buffers, ReadTypes, CallerInv,
       ReaderOwns, ReaderInv
  <2> QED
    BY <2>1, <2>2, <2>3, <2>4, <2>5
<1>9. CASE NextBlock
  <2>0. \A b \in Buffers : state'[b] = state[b] => Start'[b] = Start[b]
    BY <1>9, StartKept DEF NextBlock
  <2>1. ReadTypes'
    <3>1. CASE state[mbuf] = "stop"
      BY <1>9, <3>1 DEF NextBlock, reader, ReadTypes
    <3>2. CASE state[mbuf] # "stop"
      BY <1>9, <3>2 DEF NextBlock, reader, ReadTypes
    <3> QED
      BY <3>1, <3>2
  <2>2. ReaderInv'
    BY <1>9, <2>0 DEF NextBlock, reader, ReaderOwns, ReadTypes, ReaderInv, CallerInv,
       Oldest
  <2>3. DataInv'
    BY <1>9, <2>0, DataKept DEF NextBlock, reader, ReaderOwns, ReadTypes, ReaderInv
  <2>4. CallerInv'
    BY <1>9, <2>0, StartNext, StartStop, StartInFile DEF NextBlock, reader, ReadTypes,
       ReaderOwns, ReaderInv, CallerInv, Oldest
  <2>5. TailInv'
    BY <1>9, <2>0, StartNext, StartStop DEF NextBlock, reader, ReadTypes, CallerInv,
       TailInv, ReaderOwns, CallerOwns, InUse, Places, Oldest
  <2> QED
    BY <2>1, <2>2, <2>3, <2>4, <2>5
<1>10. CASE NextBlockComes
  <2>0. \A b \in Buffers : state'[b] = state[b] => Start'[b] = Start[b]
    BY <1>10, StartKept DEF NextBlockComes, reader, buffers
  <2>1. ReadTypes'
    BY <1>10, <2>0 DEF NextBlockComes, reader, buffers, ReadTypes
  <2>2. ReaderInv'
    BY <1>10, <2>0 DEF NextBlockComes, reader, buffers, ReaderOwns, ReadTypes,
       ReaderInv, CallerInv, Oldest
  <2>3. DataInv'
    BY <1>10, <2>0, DataKept DEF NextBlockComes, reader, buffers, ReaderOwns, ReadTypes,
       ReaderInv
  <2>4. CallerInv'
    <3>1. state[mbuf] # "fill" /\ mpos = 0 /\ taken = Start[mbuf]
      BY <1>10 DEF NextBlockComes, CallerInv, CallerOwns
    <3>2. state[mbuf] = "stop" => Start[mbuf] + size[mbuf] = file
      BY StartStop
    <3>3. size[mbuf] = 0 => state[mbuf] = "stop"
      BY <3>1 DEF ReaderInv
    <3>4. eof' = (size[mbuf] = 0)
      BY <1>10 DEF NextBlockComes, CallerOwns
    <3>5. IF eof' THEN taken' = file' ELSE mpos' < size'[mbuf']
      <4>1. (eof' => size[mbuf] = 0) /\ (~eof' => size[mbuf] # 0)
        BY <3>4
      <4>2. /\ taken' = taken /\ mpos' = mpos /\ mbuf' = mbuf /\ size' = size /\ file' = file
            /\ Start[mbuf] \in Int /\ size[mbuf] \in Nat
        BY <1>10 DEF NextBlockComes, buffers, ReadTypes
      <4> QED
        BY <3>1, <3>2, <3>3, <4>1, <4>2
    <3> QED
      BY <1>10, <2>0, <3>1, <3>5 DEF NextBlockComes, reader, buffers, CallerInv, Oldest,
         ReadTypes
  <2>5. TailInv'
    BY <1>10, <2>0 DEF NextBlockComes, reader, buffers, ReadTypes, CallerInv, TailInv,
       ReaderOwns, CallerOwns, InUse, Places
  <2> QED
    BY <2>1, <2>2, <2>3, <2>4, <2>5
<1>11. CASE KeyRef
  <2>0. \A b \in Buffers : state'[b] = state[b] => Start'[b] = Start[b]
    BY <1>11, StartKept DEF KeyRef, reader, buffers
  <2>1. ReadTypes'
    BY <1>11, <2>0 DEF KeyRef, reader, buffers, ReadTypes, CallerInv, ReaderInv
  <2>2. ReaderInv'
    BY <1>11, <2>0 DEF KeyRef, reader, buffers, ReaderOwns, ReadTypes, ReaderInv,
       CallerInv, Oldest
  <2>3. DataInv'
    BY <1>11, <2>0, DataKept DEF KeyRef, reader, buffers, ReaderOwns, ReadTypes,
       ReaderInv
  <2>4. CallerInv'
    BY <1>11, <2>0, StartNext, StartStop, StartInFile DEF KeyRef, reader, buffers,
       ReadTypes, ReaderOwns, ReaderInv, CallerInv, Oldest
  <2>5. TailInv'
    <3>1. CASE mat' = "key"
      BY <1>11, <2>0, <3>1, TailKept DEF KeyRef, reader, buffers, ReadTypes
    <3>2. CASE mat' = "move"
      BY <1>11, <2>0, <3>2 DEF KeyRef, reader, buffers, TailInv
    <3> QED
      BY <1>11, <3>1, <3>2 DEF KeyRef
  <2> QED
    BY <2>1, <2>2, <2>3, <2>4, <2>5
<1>12. CASE KeyMove
  <2>0. \A b \in Buffers : state'[b] = state[b] => Start'[b] = Start[b]
    BY <1>12, StartKept DEF KeyMove
  <2>1. ReadTypes'
    <3>1. data' \in [Buffers -> [Places -> Nat]]
      <4>1. \A p \in -tocpy .. -1 : mpos + tocpy + p \in Places
        BY <1>12 DEF KeyMove, CallerInv, ReadTypes, Places
      <4>2. \A p \in -tocpy .. -1 : data[Other(mbuf)][mpos + tocpy + p] \in Nat
        <5>1. Other(mbuf) \in Buffers /\ data[Other(mbuf)] \in [Places -> Nat]
          BY DEF ReadTypes
        <5> QED
          BY <4>1, <5>1
      <4>3. data' = [data EXCEPT ![mbuf] = [p \in Places |->
                      IF p \in -tocpy .. -1 THEN data[Other(mbuf)][mpos + tocpy + p]
                      ELSE data[mbuf][p]]]
        BY <1>12 DEF KeyMove, ReadTypes
      <4> QED
        BY <4>2, <4>3 DEF ReadTypes
    <3>2. mpos' \in -KeyBuffer .. BufferSize
      BY <1>12 DEF KeyMove, ReadTypes
    <3> QED
      BY <1>12, <3>1, <3>2 DEF KeyMove, reader, ReadTypes
  <2>2. ReaderInv'
    BY <1>12, <2>0 DEF KeyMove, reader, ReaderOwns, ReadTypes, ReaderInv, CallerInv,
       Oldest
  <2>3. DataInv'
    <3>1. \A b \in Buffers : \A p \in 0 .. BufferSize : data'[b][p] = data[b][p]
      <4>1. \A p \in 0 .. BufferSize : p \in Places /\ p \notin -tocpy .. -1
        BY DEF Places, ReadTypes
      <4> QED
        BY <1>12, <4>1 DEF KeyMove, ReadTypes
    <3> QED
      BY <1>12, <2>0, <3>1, DataKept DEF KeyMove, reader
  <2>4. CallerInv'
    BY <1>12, <2>0, StartNext, StartStop, StartInFile DEF KeyMove, reader, ReadTypes,
       ReaderOwns, ReaderInv, CallerInv, Oldest
  <2>5. TailInv'
    <3>1. /\ mat = "move" /\ mat' = "give" /\ mbuf' = mbuf /\ mpos' = -tocpy
          /\ tocpy \in 1 .. KeyBuffer - 1 /\ tocpy = BufferSize - mpos
          /\ state[Other(mbuf)] = "process" /\ size[Other(mbuf)] = BufferSize
      BY <1>12 DEF KeyMove, CallerInv, ReadTypes, ReaderInv
    <3>2. Start'[mbuf] = Start[Other(mbuf)] + BufferSize
      BY <1>12, <2>0, <3>1, StartNext DEF Oldest, KeyMove
    <3> SUFFICES ASSUME NEW p \in -tocpy .. -1
                 PROVE  data'[mbuf][p] = Start'[mbuf] + 1 + p
      BY <3>1 DEF TailInv
    <3>3. p \in Places /\ mpos + tocpy + p = BufferSize + p /\ BufferSize + p \in 0 .. BufferSize - 1
      BY SMTT(30), <3>1 DEF Places, ReadTypes
    <3>4. data'[mbuf][p] = data[Other(mbuf)][BufferSize + p]
      BY <1>12, <3>1, <3>3 DEF KeyMove, ReadTypes
    <3>5. data[Other(mbuf)][BufferSize + p] = Start[Other(mbuf)] + 1 + (BufferSize + p)
      BY <3>1, <3>3 DEF DataInv
    <3>6. Start[Other(mbuf)] \in Int
      OBVIOUS
    <3> QED
      BY <3>2, <3>3, <3>4, <3>5, <3>6
  <2> QED
    BY <2>1, <2>2, <2>3, <2>4, <2>5
<1>13. CASE KeyGive
  <2>0. \A b \in Buffers : state'[b] = state[b] => Start'[b] = Start[b]
    BY <1>13, StartKept DEF KeyGive
  <2>1. ReadTypes'
    BY <1>13, <2>0 DEF KeyGive, reader, ReadTypes
  <2>2. ReaderInv'
    BY <1>13, <2>0 DEF KeyGive, reader, ReaderOwns, ReadTypes, ReaderInv, CallerInv,
       Oldest
  <2>3. DataInv'
    BY <1>13, <2>0, DataKept DEF KeyGive, reader, ReaderOwns, ReadTypes, ReaderInv
  <2>4. CallerInv'
    BY <1>13, <2>0 DEF KeyGive, reader, ReadTypes, ReaderOwns, ReaderInv, CallerInv,
       Oldest
  <2>5. TailInv'
    BY <1>13, <2>0, TailKept DEF KeyGive, reader, ReadTypes, CallerInv, ReaderOwns,
       ReaderInv
  <2> QED
    BY <2>1, <2>2, <2>3, <2>4, <2>5
<1>14. CASE TakeKey
  <2>0. \A b \in Buffers : state'[b] = state[b] => Start'[b] = Start[b]
    BY <1>14, StartKept DEF TakeKey, reader, buffers
  <2>1. ReadTypes'
    <3>1. PICK n \in KeySymbols : mpos' = mpos + n /\ taken' = taken + n
      BY <1>14 DEF TakeKey
    <3>2. n \in Nat /\ mpos + n <= size[mbuf]
      BY <1>14, KeyFits DEF TakeKey
    <3>3. mpos' \in -KeyBuffer .. BufferSize /\ taken' \in Nat
      BY <3>1, <3>2 DEF ReadTypes
    <3> QED
      BY <1>14, <3>3 DEF TakeKey, reader, buffers, ReadTypes
  <2>2. ReaderInv'
    BY <1>14, <2>0 DEF TakeKey, reader, buffers, ReaderOwns, ReadTypes, ReaderInv,
       CallerInv, Oldest, KeySymbols
  <2>3. DataInv'
    BY <1>14, <2>0, DataKept DEF TakeKey, reader, buffers, ReaderOwns, ReadTypes,
       ReaderInv, KeySymbols
  <2>4. CallerInv'
    <3>1. PICK n \in KeySymbols : mpos' = mpos + n /\ taken' = taken + n
      BY <1>14 DEF TakeKey
    <3>2. /\ n \in Nat /\ mpos + n <= size[mbuf]
          /\ mpos + n = size[mbuf] => state[mbuf] = "stop"
      BY <1>14, KeyFits DEF TakeKey
    <3>3. state[mbuf] = "stop" => Start[mbuf] + size[mbuf] = file
      BY StartStop
    <3>4. mat' = "at" /\ mbuf' = mbuf /\ Start'[mbuf] = Start[mbuf]
      BY <1>14, <2>0 DEF TakeKey, buffers
    <3>5. state'[mbuf'] # "fill" /\ taken' = Start'[mbuf'] + mpos'
      BY <1>14, <3>1, <3>2, <3>4 DEF TakeKey, buffers, CallerInv, ReadTypes
    <3>6. IF eof' THEN taken' = file' ELSE mpos' < size'[mbuf']
      <4>1. (eof' => mpos' >= size[mbuf]) /\ (~eof' => ~(mpos' >= size[mbuf]))
        BY <1>14 DEF TakeKey
      <4>2. /\ size' = size /\ file' = file /\ mpos \in Int
            /\ Start[mbuf] \in Int /\ size[mbuf] \in Nat
        BY <1>14 DEF TakeKey, buffers, ReadTypes
      <4> QED
        BY <3>1, <3>2, <3>3, <3>4, <3>5, <4>1, <4>2
    <3> QED
      BY <1>14, <3>4, <3>5, <3>6 DEF TakeKey, reader, buffers, CallerInv, Oldest
  <2>5. TailInv'
    <3>1. PICK n \in KeySymbols : mpos' = mpos + n /\ taken' = taken + n
      BY <1>14 DEF TakeKey
    <3>2. n \in Nat /\ mpos + n <= size[mbuf]
      BY <1>14, KeyFits DEF TakeKey
    <3>3. mpos' \in Int /\ mpos' >= mpos
      BY <3>1, <3>2 DEF ReadTypes
    <3> QED
      BY <1>14, <2>0, <3>3, TailKept DEF TakeKey, reader, buffers
  <2> QED
    BY <2>1, <2>2, <2>3, <2>4, <2>5
<1>15. CASE BadKey
  <2>0. \A b \in Buffers : state'[b] = state[b] => Start'[b] = Start[b]
    BY <1>15, StartKept DEF BadKey, reader, buffers
  <2>1. ReadTypes'
    BY <1>15, <2>0 DEF BadKey, reader, buffers, ReadTypes
  <2>2. ReaderInv'
    BY <1>15, <2>0 DEF BadKey, reader, buffers, ReaderOwns, ReadTypes, ReaderInv,
       CallerInv, Oldest
  <2>3. DataInv'
    BY <1>15, <2>0, DataKept DEF BadKey, reader, buffers, ReaderOwns, ReadTypes,
       ReaderInv
  <2>4. CallerInv'
    BY <1>15, <2>0 DEF BadKey, reader, buffers, ReadTypes, ReaderOwns, ReaderInv,
       CallerInv, Oldest
  <2>5. TailInv'
    BY <1>15, <2>0, TailKept DEF BadKey, reader, buffers, ReadTypes, CallerInv,
       ReaderOwns, ReaderInv
  <2> QED
    BY <2>1, <2>2, <2>3, <2>4, <2>5
<1>16. CASE ReadFails
  BY <1>16 DEF ReadFails
<1>17. CASE Finish \/ Join
  BY <1>17 DEF Finish, Join
<1>18. CASE UNCHANGED vars
  BY <1>18 DEF vars, reader, caller, buffers, ReadTypes, ReaderInv, DataInv, CallerInv,
     TailInv, Start, Oldest
<1> QED
  BY <1>4, <1>5, <1>6, <1>7, <1>8, <1>9, <1>10, <1>11, <1>12, <1>13, <1>14, <1>15,
     <1>16, <1>17, <1>18 DEF Next, ReadThread, Parser

\* What the caller sees of the file follows.
LEMMA OrderSeen == OwnInv /\ OrderInv => FileInOrder
<1> SUFFICES ASSUME OwnInv, OrderInv, "read" \notin slips, mat \in {"at", "key"}
             PROVE  FileInOrder
  BY DEF FileInOrder, KeyWhole, SymbolHere, EofIsEnd
<1>1. ReadTypes /\ ReaderInv /\ DataInv /\ CallerInv /\ TailInv
  BY DEF OrderInv
<1>2. Start \in [Buffers -> Int] /\ mbuf \in Buffers
  BY <1>1, StartType DEF OwnInv, OwnTypes
<1>3. /\ state[mbuf] # "fill" /\ taken = Start[mbuf] + mpos /\ mpos \in Int /\ size[mbuf] \in Nat
      /\ taken \in Nat /\ file \in Nat
  BY <1>1, <1>2, Sizes DEF CallerInv, ReadTypes
<1>4. \A p \in mpos .. size[mbuf] - 1 : data[mbuf][p] = Start[mbuf] + 1 + p
  <2> SUFFICES ASSUME NEW p \in mpos .. size[mbuf] - 1
               PROVE  data[mbuf][p] = Start[mbuf] + 1 + p
    OBVIOUS
  <2>1. CASE p < 0
    BY <1>1, <1>3, <2>1 DEF TailInv
  <2>2. CASE p >= 0
    BY <1>1, <1>2, <1>3, <2>2 DEF DataInv
  <2> QED
    BY <1>3, <2>1, <2>2
<1>5. SymbolHere
  BY <1>1, <1>2, <1>3, <1>4 DEF SymbolHere, CallerInv
<1>6. EofIsEnd
  BY <1>1 DEF EofIsEnd, CallerInv
<1>7. KeyWhole
  <2> SUFFICES ASSUME mat = "key", NEW i \in 0 .. MaxKey, taken + i <= file
               PROVE  data[mbuf][mpos + i] = IF taken + i = file THEN End ELSE taken + i + 1
    BY DEF KeyWhole
  <2>1. /\ mpos < size[mbuf] /\ data[mbuf][size[mbuf]] = End
        /\ state[mbuf] = "stop" \/ size[mbuf] - mpos >= KeyBuffer
        /\ state[mbuf] = "stop" => Start[mbuf] + size[mbuf] = file
        /\ Start[mbuf] + size[mbuf] <= file
    BY <1>1, <1>2, <1>3, StartStop, StartInFile DEF CallerInv, DataInv
  <2>2. CASE taken + i = file
    <3>1. mpos + i = size[mbuf]
      BY <1>2, <1>3, <2>1, <2>2, Sizes
    <3> QED
      BY <2>1, <2>2, <3>1
  <2>3. CASE taken + i # file
    <3>1. mpos + i \in mpos .. size[mbuf] - 1
      BY <1>2, <1>3, <2>1, <2>3, Sizes
    <3> QED
      BY <1>2, <1>3, <1>4, <2>3, <3>1
  <2> QED
    BY <2>2, <2>3
<1> QED
  BY <1>5, <1>6, <1>7 DEF FileInOrder

-----------------------------------------------------------------------------
(* Writing: who has a buffer, and which part of the text is in it.          *)

WriteTypes ==
  /\ dump \in BOOLEAN
  /\ wstate \in [W!Buffers -> {"fill", "process", "stop"}]
  /\ total \in [W!Buffers -> Nat] /\ filled \in [W!Buffers -> Nat]
  /\ wdata \in [W!Buffers -> Seq(Nat)] /\ text \in Seq(Nat) /\ disk \in Seq(Nat)
  /\ wat \in {"acquire", "write", "written", "done"} /\ wworkbuf \in W!Buffers
  /\ wmat \in {"at", "wait", "join", "end"} /\ wmbuf \in W!Buffers
  /\ commited \in Nat /\ rest \in Nat /\ from \in Nat /\ entries \in Nat /\ made \in Nat

\* The thread is at the buffer that was handed over first, or waits for the
\* caller's, and the caller has the other one.
HandInv ==
  /\ wmat = "at" => wstate[wmbuf] = "fill"
  /\ wmat \in {"at", "wait"} => \A b \in W!Buffers : wstate[b] # "stop"
  /\ wmat = "wait" /\ wstate[wmbuf] = "process" =>
       wworkbuf = wmbuf /\ wstate[W!Other(wmbuf)] = "process"
  /\ wmat \in {"join", "end"} => wstate[wmbuf] = "stop" /\ wstate[W!Other(wmbuf)] # "stop"
  /\ wmat = "end" => wat = "done"
  /\ wat \in {"write", "written"} => wstate[wworkbuf] # "fill"
  /\ wat = "done" => wstate[wworkbuf] = "stop"
  /\ wstate[wworkbuf] = "fill" => wworkbuf = wmbuf
  /\ wstate[wworkbuf] # "process" => wstate[W!Other(wworkbuf)] = "fill"

\* There is room for the entry that is put next.
RoomInv ==
  /\ \A b \in W!Buffers : filled[b] <= total[b] /\ OutSize + Grow <= total[b]
  /\ commited < OutSize
  /\ wmat # "wait" => commited <= filled[wmbuf]
  /\ wmat # "wait" /\ (entries = 0 \/ wmat # "at") => filled[wmbuf] = commited
  /\ wmat = "wait" => rest < Page
  /\ wmat = "wait" /\ wstate[W!Other(wmbuf)] = "process" => filled[W!Other(wmbuf)] = from

\* The symbols are there.
LengthInv ==
  /\ \A b \in W!Buffers : filled[b] <= Len(wdata[b])
  /\ wmat = "wait" => from + rest <= Len(wdata[W!Other(wmbuf)])

\* The thread has written its buffer.
Passed == wat \in {"written", "done"}

\* Where in the text a buffer begins: that of the thread is the next one to be
\* written; the one that was given back last is kept for the rest of its page.
TextStart == [b \in W!Buffers |->
  IF b = wworkbuf THEN Len(disk) - (IF Passed THEN filled[b] ELSE 0)
  ELSE IF wstate[wworkbuf] = "fill" THEN Len(disk) - from
  ELSE Len(disk) + (IF Passed THEN 0 ELSE filled[wworkbuf])]

\* The first n symbols of a buffer are those of the text from its start on.
Holds(b, n) ==
  /\ 0 <= TextStart[b] /\ TextStart[b] + n <= Len(text)
  /\ \A i \in 1 .. n : wdata[b][i] = text[TextStart[b] + i]

\* What is handed over, what is committed and what is left of the last page, in
\* the order of the text, behind what is on disk.
TextInv ==
  /\ Len(disk) <= Len(text) /\ \A i \in 1 .. Len(disk) : disk[i] = text[i]
  /\ \A b \in W!Buffers :
       wstate[b] # "fill" /\ ~(b = wworkbuf /\ Passed) => Holds(b, filled[b])
  /\ IF wmat = "wait"
     THEN /\ Holds(W!Other(wmbuf), from + rest)
          /\ TextStart[W!Other(wmbuf)] + from + rest = Len(text)
     ELSE Holds(wmbuf, commited) /\ TextStart[wmbuf] + commited = Len(text)

WriteInv ==
  WriteTypes /\ HandInv /\ RoomInv /\ LengthInv /\ (~failed => TextInv)

LEMMA WriteSizes ==
  /\ OutSize \in Nat /\ Page \in Nat /\ Grow \in Nat /\ MaxEntries \in Nat /\ MaxText \in Nat
  /\ 0 < Page /\ 0 < Grow /\ 0 < MaxEntries /\ Page <= OutSize
<1>1. {OutSize, Page, Grow, MaxEntries} \subseteq Nat \ {0} /\ MaxText \in Nat
  BY FileCallsAssumption DEF W!SizesFit
<1>2. OutSize % Page = 0 /\ OutSize \in Nat \ {0} /\ Page \in Nat \ {0}
  BY FileCallsAssumption, <1>1 DEF W!SizesFit
<1>3. Page <= OutSize
  BY <1>2
<1> QED
  BY <1>1, <1>3

LEMMA TextStartType == WriteTypes => TextStart \in [W!Buffers -> Int]
<1> SUFFICES ASSUME WriteTypes PROVE TextStart \in [W!Buffers -> Int]
  OBVIOUS
<1>1. Len(disk) \in Nat
  BY LenProperties DEF WriteTypes
<1> QED
  BY <1>1 DEF TextStart, WriteTypes

LEMMA PageRest ==
  ASSUME NEW n \in Nat
  PROVE  /\ n % Page \in Nat /\ n % Page < Page /\ n % Page <= n
BY WriteSizes

LEMMA PartFacts ==
  ASSUME NEW s \in Seq(Nat), NEW n \in Nat, NEW m \in Nat, m + n <= Len(s)
  PROVE  /\ SubSeq(s, m + 1, m + n) \in Seq(Nat) /\ Len(SubSeq(s, m + 1, m + n)) = n
         /\ \A i \in 1 .. n : SubSeq(s, m + 1, m + n)[i] = s[m + i]
<1>1. \A i \in m + 1 .. m + n : s[i] \in Nat
  BY ElementOfSeq, LenProperties
<1>2. /\ SubSeq(s, m + 1, m + n) \in Seq(Nat)
      /\ Len(SubSeq(s, m + 1, m + n)) = IF m + 1 <= m + n THEN m + n - (m + 1) + 1 ELSE 0
      /\ \A i \in 1 .. m + n - (m + 1) + 1 : SubSeq(s, m + 1, m + n)[i] = s[m + 1 + i - 1]
  BY <1>1, SubSeqProperties
<1>3. m + n - (m + 1) + 1 = n /\ (IF m + 1 <= m + n THEN m + n - (m + 1) + 1 ELSE 0) = n
  OBVIOUS
<1>4. ASSUME NEW i \in 1 .. n PROVE SubSeq(s, m + 1, m + n)[i] = s[m + i]
  <2>1. m + 1 + i - 1 = m + i
    OBVIOUS
  <2>2. SubSeq(s, m + 1, m + n)[i] = s[m + 1 + i - 1]
    BY <1>2, <1>3
  <2> QED
    BY <2>1, <2>2
<1> QED
  BY <1>2, <1>3, <1>4

LEMMA FrontFacts ==
  ASSUME NEW s \in Seq(Nat), NEW n \in Nat, n <= Len(s)
  PROVE  /\ SubSeq(s, 1, n) \in Seq(Nat) /\ Len(SubSeq(s, 1, n)) = n
         /\ \A i \in 1 .. n : SubSeq(s, 1, n)[i] = s[i]
<1>1. \A i \in 1 .. n : s[i] \in Nat
  BY ElementOfSeq, LenProperties
<1>2. /\ SubSeq(s, 1, n) \in Seq(Nat)
      /\ Len(SubSeq(s, 1, n)) = IF 1 <= n THEN n - 1 + 1 ELSE 0
      /\ \A i \in 1 .. n - 1 + 1 : SubSeq(s, 1, n)[i] = s[1 + i - 1]
  BY <1>1, SubSeqProperties
<1> QED
  BY <1>2

\* What a buffer holds of the text, a longer text too.
LEMMA HoldsMore ==
  ASSUME WriteTypes, WriteTypes', NEW b \in W!Buffers, NEW n \in Nat, NEW m \in Nat, Holds(b, n), m <= n,
         TextStart'[b] = TextStart[b], \A i \in 1 .. n : wdata'[b][i] = wdata[b][i],
         Len(text) <= Len(text'), \A i \in 1 .. Len(text) : text'[i] = text[i]
  PROVE  /\ 0 <= TextStart'[b] /\ TextStart'[b] + m <= Len(text')
         /\ \A i \in 1 .. m : wdata'[b][i] = text'[TextStart'[b] + i]
<1>1. Len(text) \in Nat /\ Len(text') \in Nat /\ TextStart[b] \in Int
  BY LenProperties, TextStartType DEF WriteTypes
<1>2. /\ 0 <= TextStart[b] /\ TextStart[b] + n <= Len(text)
      /\ \A i \in 1 .. n : wdata[b][i] = text[TextStart[b] + i]
  BY DEF Holds
<1>3. ASSUME NEW i \in 1 .. m PROVE wdata'[b][i] = text'[TextStart'[b] + i]
  <2>1. i \in 1 .. n /\ TextStart[b] + i \in 1 .. Len(text)
    BY <1>1, <1>2
  <2> QED
    BY <1>2, <2>1
<1> QED
  BY <1>1, <1>2, <1>3

LEMMA WriteInit == W!Init => WriteInv
<1> SUFFICES ASSUME W!Init
             PROVE  WriteTypes /\ HandInv /\ RoomInv /\ LengthInv /\ TextInv
  BY DEF WriteInv
<1> USE WriteSizes DEF W!Init, W!InitAt, W!Buffers, W!Other
<1>1. WriteTypes
  BY EmptySeq DEF WriteTypes
<1>2. HandInv
  BY DEF HandInv
<1>3. RoomInv
  BY DEF RoomInv
<1>4. LengthInv
  BY DEF LengthInv
<1>5. TextInv
  BY DEF TextInv, Holds, TextStart, Passed
<1> QED
  BY <1>1, <1>2, <1>3, <1>4, <1>5

\* A new text is the old one and what was put since, in the order of the buffer.
LEMMA NewTextFacts ==
  ASSUME WriteTypes, RoomInv, LengthInv, wmat = "at"
  PROVE  /\ W!NewText \in Seq(Nat) /\ Len(W!NewText) = Len(text) + filled[wmbuf] - commited
         /\ \A i \in 1 .. Len(text) : W!NewText[i] = text[i]
         /\ \A i \in commited + 1 .. filled[wmbuf] :
              W!NewText[Len(text) - commited + i] = wdata[wmbuf][i]
<1> DEFINE n == filled[wmbuf] - commited
           s == SubSeq(wdata[wmbuf], commited + 1, commited + n)
<1>1. n \in Nat /\ n = filled[wmbuf] - commited /\ commited \in Nat /\ filled[wmbuf] \in Nat
      /\ commited + n = filled[wmbuf] /\ commited + n <= Len(wdata[wmbuf])
      /\ wdata[wmbuf] \in Seq(Nat) /\ text \in Seq(Nat)
  BY DEF WriteTypes, RoomInv, LengthInv
<1>2. s \in Seq(Nat) /\ Len(s) = n /\ \A i \in 1 .. n : s[i] = wdata[wmbuf][commited + i]
  BY <1>1, PartFacts
<1>3. W!NewText = text \o s
  BY <1>1 DEF W!NewText
<1>0. wmbuf \in W!Buffers
  BY DEF WriteTypes
<1> HIDE DEF s, n
<1>4. /\ text \o s \in Seq(Nat) /\ Len(text \o s) = Len(text) + Len(s)
      /\ \A i \in 1 .. Len(text) + Len(s) :
           (text \o s)[i] = IF i <= Len(text) THEN text[i] ELSE s[i - Len(text)]
  BY <1>1, <1>2, ConcatProperties, ZenonT(30)
<1>5. Len(text) \in Nat
  BY <1>1, LenProperties
<1>6. ASSUME NEW i \in commited + 1 .. filled[wmbuf]
      PROVE  W!NewText[Len(text) - commited + i] = wdata[wmbuf][i]
  <2> DEFINE j == Len(text) - commited + i
  <2>1. /\ i - commited \in 1 .. n /\ commited + (i - commited) = i
        /\ j \in 1 .. Len(text) + n /\ ~(j <= Len(text)) /\ j - Len(text) = i - commited
    BY SMTT(30), <1>1, <1>5
  <2> HIDE DEF j
  <2>2. (text \o s)[j] = s[j - Len(text)]
    BY <1>2, <1>4, <2>1
  <2>3. s[i - commited] = wdata[wmbuf][commited + (i - commited)]
    BY <1>2, <2>1
  <2>4. W!NewText[j] = wdata[wmbuf][i]
    BY <1>3, <2>1, <2>2, <2>3
  <2> QED
    BY <2>4 DEF j
<1>7. ASSUME NEW i \in 1 .. Len(text) PROVE W!NewText[i] = text[i]
  <2>1. i \in 1 .. Len(text) + Len(s) /\ i <= Len(text)
    BY <1>1, <1>2, <1>5
  <2> QED
    BY <1>3, <1>4, <2>1
<1>8. Len(text) + n = Len(text) + filled[wmbuf] - commited
  BY <1>1, <1>5
<1> QED
  BY <1>2, <1>3, <1>4, <1>6, <1>7, <1>8

LEMMA WriteStep == WriteInv /\ (W!Next \/ UNCHANGED output) => WriteInv'
<1> SUFFICES ASSUME WriteInv, W!Next \/ UNCHANGED output
             PROVE  WriteTypes' /\ HandInv' /\ RoomInv' /\ LengthInv' /\ (~failed' => TextInv')
  BY DEF WriteInv
<1>1. WriteTypes /\ HandInv /\ RoomInv /\ LengthInv /\ (~failed => TextInv)
  BY DEF WriteInv
<1>0. wworkbuf = wmbuf \/ wworkbuf = W!Other(wmbuf)
  BY <1>1 DEF WriteTypes, W!Buffers, W!Other
<1> USE <1>1, WriteSizes DEF W!Buffers, W!Other
<1>2. CASE W!Acquire
  <2>1. WriteTypes'
    BY <1>2 DEF W!Acquire, W!caller, W!buffers, W!writer, WriteTypes
  <2>2. HandInv'
    BY <1>2 DEF W!Acquire, W!caller, W!buffers, W!writer, WriteTypes, HandInv
  <2>3. RoomInv'
    BY <1>2 DEF W!Acquire, W!caller, W!buffers, W!writer, WriteTypes, HandInv, RoomInv
  <2>4. LengthInv'
    BY <1>2 DEF W!Acquire, W!caller, W!buffers, W!writer, WriteTypes, LengthInv, RoomInv
  <2>5. ~failed' => TextInv'
    BY <1>2 DEF W!Acquire, W!caller, W!buffers, W!writer, WriteTypes, HandInv, RoomInv,
       LengthInv, TextInv, Holds, TextStart, Passed
  <2> QED
    BY <2>1, <2>2, <2>3, <2>4, <2>5
<1>3. CASE W!Write
  <2>0. /\ disk' \in Seq(Nat) /\ Len(disk') = Len(disk) + filled[wworkbuf] /\ Len(disk) \in Nat
        /\ \A i \in 1 .. Len(disk) : disk'[i] = disk[i]
        /\ \A i \in 1 .. filled[wworkbuf] : disk'[Len(disk) + i] = wdata[wworkbuf][i]
    <3> DEFINE s == SubSeq(wdata[wworkbuf], 1, filled[wworkbuf])
    <3>1. s \in Seq(Nat) /\ Len(s) = filled[wworkbuf] /\ \A i \in 1 .. filled[wworkbuf] : s[i] = wdata[wworkbuf][i]
      BY SMTT(30), FrontFacts DEF WriteTypes, LengthInv
    <3>2. disk' = disk \o s /\ disk \in Seq(Nat) /\ Len(disk) \in Nat /\ filled[wworkbuf] \in Nat
      BY <1>3, LenProperties DEF W!Write, WriteTypes
    <3> HIDE DEF s
    <3>3. /\ disk \o s \in Seq(Nat) /\ Len(disk \o s) = Len(disk) + Len(s)
          /\ \A i \in 1 .. Len(disk) + Len(s) :
               (disk \o s)[i] = IF i <= Len(disk) THEN disk[i] ELSE s[i - Len(disk)]
      BY <3>1, <3>2, ConcatProperties
    <3>4. ASSUME NEW i \in 1 .. filled[wworkbuf] PROVE disk'[Len(disk) + i] = wdata[wworkbuf][i]
      <4> DEFINE j == Len(disk) + i
      <4>1. j \in 1 .. Len(disk) + Len(s) /\ ~(j <= Len(disk)) /\ j - Len(disk) = i
        BY <3>1, <3>2
      <4> HIDE DEF j
      <4>2. (disk \o s)[j] = s[i]
        BY <3>3, <4>1
      <4> QED
        BY <3>1, <3>2, <4>2 DEF j
    <3>5. ASSUME NEW i \in 1 .. Len(disk) PROVE disk'[i] = disk[i]
      <4>1. i \in 1 .. Len(disk) + Len(s) /\ i <= Len(disk)
        BY <3>1, <3>2
      <4> QED
        BY <3>2, <3>3, <4>1
    <3> QED
      BY <3>1, <3>2, <3>3, <3>4, <3>5
  <2>1. WriteTypes'
    BY <1>3, <2>0 DEF W!Write, W!caller, W!buffers, W!writer, WriteTypes
  <2>2. HandInv'
    BY <1>3, <2>0 DEF W!Write, W!caller, W!buffers, W!writer, WriteTypes, HandInv
  <2>3. RoomInv'
    BY <1>3, <2>0 DEF W!Write, W!caller, W!buffers, W!writer, WriteTypes, HandInv,
       RoomInv
  <2>4. LengthInv'
    BY <1>3, <2>0 DEF W!Write, W!caller, W!buffers, W!writer, WriteTypes, LengthInv,
       RoomInv
  <2>5. ~failed' => TextInv'
    <3> SUFFICES ASSUME ~failed' PROVE TextInv'
      OBVIOUS
    <3>1. ~failed /\ TextInv /\ TextStart \in [W!Buffers -> Int] /\ Len(text) \in Nat
      BY <1>3, TextStartType, LenProperties DEF W!Write, WriteTypes
    <3>2. /\ wat = "write" /\ wat' = "written" /\ wstate[wworkbuf] # "fill" /\ ~Passed /\ Passed'
          /\ UNCHANGED <<wstate, filled, wdata, wworkbuf, wmat, wmbuf, text, commited, from, rest>>
      BY <1>3 DEF W!Write, W!caller, W!buffers, HandInv, Passed
    <3>3. TextStart' = TextStart
      BY <2>0, <3>2 DEF TextStart, WriteTypes
    <3>4. Holds(wworkbuf, filled[wworkbuf]) /\ TextStart[wworkbuf] = Len(disk)
      BY <3>1, <3>2 DEF TextInv, TextStart, WriteTypes
    <3>5. Len(disk') <= Len(text)
      BY <2>0, <3>1, <3>4 DEF Holds, WriteTypes
    <3>6. ASSUME NEW i \in 1 .. Len(disk') PROVE disk'[i] = text[i]
      <4>1. CASE i <= Len(disk)
        BY <2>0, <3>1, <4>1 DEF TextInv
      <4>2. CASE ~(i <= Len(disk))
        <5>1. i - Len(disk) \in 1 .. filled[wworkbuf] /\ Len(disk) + (i - Len(disk)) = i
          BY SMTT(30), <2>0, <4>2 DEF WriteTypes
        <5> QED
          BY <2>0, <3>4, <5>1 DEF Holds
      <4> QED
        BY <4>1, <4>2
    <3> QED
      BY <3>1, <3>2, <3>3, <3>5, <3>6 DEF TextInv, Holds
  <2> QED
    BY <2>1, <2>2, <2>3, <2>4, <2>5
<1>4. CASE W!WriteFails
  <2>1. WriteTypes'
    BY <1>4 DEF W!WriteFails, W!caller, W!buffers, W!writer, WriteTypes
  <2>2. HandInv'
    BY <1>4 DEF W!WriteFails, W!caller, W!buffers, W!writer, WriteTypes, HandInv
  <2>3. RoomInv'
    BY <1>4 DEF W!WriteFails, W!caller, W!buffers, W!writer, WriteTypes, HandInv,
       RoomInv
  <2>4. LengthInv'
    BY <1>4 DEF W!WriteFails, W!caller, W!buffers, W!writer, WriteTypes, LengthInv,
       RoomInv
  <2>5. ~failed' => TextInv'
    BY <1>4 DEF W!WriteFails, W!caller, W!buffers, W!writer, WriteTypes, HandInv,
       RoomInv, LengthInv, TextInv, Holds, TextStart, Passed
  <2> QED
    BY <2>1, <2>2, <2>3, <2>4, <2>5
<1>5. CASE W!Written
  <2>1. WriteTypes'
    BY <1>5 DEF W!Written, W!caller, W!buffers, W!writer, WriteTypes
  <2>2. HandInv'
    BY SMTT(30), <1>5 DEF W!Written, W!caller, W!buffers, W!writer, WriteTypes, HandInv
  <2>3. RoomInv'
    BY SMTT(30), <1>5 DEF W!Written, W!caller, W!buffers, W!writer, WriteTypes, HandInv, RoomInv
  <2>4. LengthInv'
    BY <1>5 DEF W!Written, W!caller, W!buffers, W!writer, WriteTypes, LengthInv, RoomInv
  <2>5. ~failed' => TextInv'
    <3> SUFFICES ASSUME ~failed' PROVE TextInv'
      OBVIOUS
    <3>1. ~failed /\ TextInv /\ TextStart \in [W!Buffers -> Int] /\ Len(text) \in Nat
      BY <1>5, TextStartType, LenProperties DEF W!Written, WriteTypes
    <3>2. /\ wat = "written" /\ Passed
          /\ UNCHANGED <<wmat, wmbuf, wdata, text, disk, commited, from, rest>>
      BY <1>5 DEF W!Written, W!caller, Passed
    <3>3. CASE wstate[wworkbuf] = "stop"
      <4>1. wat' = "done" /\ UNCHANGED <<wworkbuf, wstate, filled>> /\ Passed'
        BY <1>5, <3>3 DEF W!Written, Passed
      <4>2. TextStart' = TextStart
        BY <3>2, <4>1 DEF TextStart
      <4> QED
        BY <3>1, <3>2, <4>1, <4>2 DEF TextInv, Holds
    <3>4. CASE wstate[wworkbuf] # "stop"
      <4>1. /\ wstate[wworkbuf] = "process" /\ wstate' = [wstate EXCEPT ![wworkbuf] = "fill"]
            /\ filled' = [filled EXCEPT ![wworkbuf] = 0]
            /\ wworkbuf' = W!Other(wworkbuf) /\ ~Passed'
        BY <1>5, <3>4 DEF W!Written, Passed, HandInv, WriteTypes
      <4>2. TextStart'[W!Other(wworkbuf)] = TextStart[W!Other(wworkbuf)]
        BY <3>2, <4>1 DEF TextStart, WriteTypes
      <4>3. wmat = "wait" /\ wworkbuf = W!Other(wmbuf) =>
              TextStart'[wworkbuf] = TextStart[wworkbuf]
        BY <3>2, <4>1 DEF TextStart, WriteTypes, HandInv, RoomInv
      <4>4. wmat # "wait" => wmbuf = W!Other(wworkbuf)
        BY <4>1 DEF HandInv, WriteTypes
      <4>5. ASSUME NEW b \in W!Buffers, wstate'[b] # "fill" PROVE Holds(b, filled[b])'
        <5>1. b = W!Other(wworkbuf) /\ b # wworkbuf /\ wstate[b] # "fill"
          BY <4>1, <4>5 DEF WriteTypes
        <5>2. filled'[b] = filled[b] /\ TextStart'[b] = TextStart[b] /\ Holds(b, filled[b])
          BY <3>1, <4>1, <4>2, <5>1 DEF TextInv, WriteTypes
        <5> QED
          BY <3>2, <5>2 DEF Holds
      <4>6. CASE wmat = "wait"
        <5>1. TextStart'[W!Other(wmbuf)] = TextStart[W!Other(wmbuf)]
          BY <1>0, <4>2, <4>3, <4>6
        <5> QED
          BY <3>1, <3>2, <4>1, <4>5, <4>6, <5>1 DEF TextInv, Holds
      <4>7. CASE wmat # "wait"
        <5>1. TextStart'[wmbuf] = TextStart[wmbuf]
          BY <4>2, <4>4, <4>7
        <5> QED
          BY <3>1, <3>2, <4>1, <4>5, <4>7, <5>1 DEF TextInv, Holds
      <4> QED
        BY <4>6, <4>7
    <3> QED
      BY <3>3, <3>4
  <2> QED
    BY <2>1, <2>2, <2>3, <2>4, <2>5
<1>6. CASE W!Put
  <2>0. PICK n \in 1 .. Grow :
          /\ total' = [total EXCEPT ![wmbuf] = W!Room(wmbuf)]
          /\ filled' = [filled EXCEPT ![wmbuf] = @ + n] /\ made' = made + n
          /\ \A b \in W!Buffers : b # wmbuf => wdata'[b] = wdata[b]
          /\ wdata' \in [W!Buffers -> Seq(Nat)] /\ Len(wdata'[wmbuf]) = filled[wmbuf] + n
          /\ \A i \in 1 .. filled[wmbuf] : wdata'[wmbuf][i] = wdata[wmbuf][i]
    <3>1. PICK n \in 1 .. Grow :
            /\ total' = [total EXCEPT ![wmbuf] = W!Room(wmbuf)]
            /\ filled' = [filled EXCEPT ![wmbuf] = @ + n] /\ made' = made + n
            /\ wdata' = [wdata EXCEPT ![wmbuf] =
                 SubSeq(@, 1, filled[wmbuf]) \o [i \in 1 .. n |-> made + i]]
      BY <1>6 DEF W!Put
    <3> DEFINE s == SubSeq(wdata[wmbuf], 1, filled[wmbuf])
               t == [i \in 1 .. n |-> made + i]
    <3>2. /\ s \in Seq(Nat) /\ Len(s) = filled[wmbuf] /\ filled[wmbuf] \in Nat
          /\ \A i \in 1 .. filled[wmbuf] : s[i] = wdata[wmbuf][i]
      BY SMTT(30), FrontFacts DEF WriteTypes, LengthInv
    <3>3. t \in Seq(Nat) /\ Len(t) = n /\ n \in Nat
      <4>1. \A i \in 1 .. n : made + i \in Nat
        BY DEF WriteTypes
      <4>2. n \in Nat
        OBVIOUS
      <4> QED
        BY <4>1, <4>2, IsASeq
    <3>4. wdata' = [wdata EXCEPT ![wmbuf] = s \o t]
      BY <3>1
    <3> HIDE DEF s, t
    <3>5. /\ s \o t \in Seq(Nat) /\ Len(s \o t) = Len(s) + Len(t)
          /\ \A i \in 1 .. Len(s) + Len(t) :
               (s \o t)[i] = IF i <= Len(s) THEN s[i] ELSE t[i - Len(s)]
      BY <3>2, <3>3, ConcatProperties
    <3>6. \A i \in 1 .. filled[wmbuf] : (s \o t)[i] = wdata[wmbuf][i]
      BY <3>2, <3>3, <3>5
    <3>7. wdata'[wmbuf] = s \o t /\ wdata' \in [W!Buffers -> Seq(Nat)] /\ \A b \in W!Buffers : b # wmbuf =>
            wdata'[b] = wdata[b]
      BY <3>4, <3>5 DEF WriteTypes
    <3> QED
      BY <3>1, <3>2, <3>3, <3>5, <3>6, <3>7
  <2>1. WriteTypes'
    <3>1. W!Room(wmbuf) \in Nat
      BY DEF W!Room, WriteTypes
    <3>2. total' \in [W!Buffers -> Nat] /\ filled' \in [W!Buffers -> Nat]
      BY SMTT(30), <2>0, <3>1 DEF WriteTypes
    <3>3. made' \in Nat /\ entries' \in Nat
      BY <1>6, <2>0 DEF W!Put, WriteTypes
    <3> QED
      BY <1>6, <2>0, <3>2, <3>3 DEF W!Put, W!writer, WriteTypes
  <2>2. HandInv'
    BY <1>6, <2>0 DEF W!Put, W!caller, W!buffers, W!writer, WriteTypes, HandInv, W!Room
  <2>3. RoomInv'
    <3>1. W!Room(wmbuf) \in Nat /\ filled[wmbuf] + n <= W!Room(wmbuf) /\ OutSize + Grow <= W!Room(wmbuf)
      <4>1. /\ filled[wmbuf] \in Nat /\ total[wmbuf] \in Nat /\ filled[wmbuf] <= total[wmbuf]
            /\ OutSize + Grow <= total[wmbuf] /\ wmat = "at" /\ n <= Grow
        BY SMTT(30), <1>6 DEF W!Put, RoomInv, WriteTypes
      <4>5. ~dump => filled[wmbuf] < OutSize
        <5>1. ~dump => entries = 0 /\ wmat = "at"
          BY <1>6 DEF W!Put, WriteTypes
        <5> QED
          BY <5>1 DEF RoomInv
      <4>2. CASE dump /\ filled[wmbuf] + Grow > total[wmbuf]
        BY <4>1, <4>2 DEF W!Room
      <4>3. CASE ~(dump /\ filled[wmbuf] + Grow > total[wmbuf])
        <5>1. W!Room(wmbuf) = total[wmbuf]
          BY <4>3 DEF W!Room
        <5>2. filled[wmbuf] + Grow <= total[wmbuf]
          BY <4>1, <4>3, <4>5
        <5> QED
          BY <4>1, <5>1, <5>2
      <4> QED
        BY <4>2, <4>3
    <3>2. /\ wmat = "at" /\ wmat' = wmat /\ wmbuf' = wmbuf /\ commited' = commited /\ entries' # 0
          /\ wmbuf \in W!Buffers /\ commited <= filled[wmbuf] /\ commited \in Nat
      BY <1>6 DEF W!Put, WriteTypes, RoomInv
    <3> HIDE DEF W!Room
    <3>3. /\ filled'[wmbuf] = filled[wmbuf] + n /\ total'[wmbuf] = W!Room(wmbuf)
          /\ \A b \in W!Buffers : b # wmbuf => filled'[b] = filled[b] /\ total'[b] = total[b]
      BY <2>0 DEF WriteTypes
    <3>4. \A b \in W!Buffers : filled'[b] <= total'[b] /\ OutSize + Grow <= total'[b]
      BY <3>1, <3>3 DEF RoomInv
    <3>5. commited <= filled'[wmbuf] /\ commited < OutSize
      BY <3>2, <3>3 DEF RoomInv, WriteTypes
    <3> QED
      BY <3>2, <3>4, <3>5 DEF RoomInv
  <2>4. LengthInv'
    <3>1. wmat = "at" /\ wmat' = wmat
      BY <1>6 DEF W!Put
    <3> QED
      BY SMTT(30), <2>0, <3>1 DEF WriteTypes, LengthInv
  <2>5. ~failed' => TextInv'
    <3> SUFFICES ASSUME ~failed' PROVE TextInv'
      OBVIOUS
    <3>1. ~failed /\ TextInv /\ TextStart \in [W!Buffers -> Int] /\ Len(text) \in Nat
      BY <1>6, TextStartType, LenProperties DEF W!Put, WriteTypes
    <3>2. /\ wmat = "at" /\ wmat' = wmat /\ wstate[wmbuf] = "fill"
          /\ UNCHANGED <<wstate, text, disk, wmbuf, commited, wworkbuf, wat>>
      BY <1>6 DEF W!Put, W!writer, HandInv
    <3>3. \A b \in W!Buffers : wstate[b] # "fill" \/ b = wmbuf =>
            TextStart'[b] = TextStart[b]
      <4>1. \A b \in W!Buffers : b # wmbuf => filled'[b] = filled[b]
        BY <2>0 DEF WriteTypes
      <4>2. wstate[wworkbuf] = "fill" => wworkbuf = wmbuf /\ ~Passed
        BY DEF HandInv, Passed
      <4>3. wworkbuf = wmbuf => wstate[W!Other(wmbuf)] = "fill"
        BY <3>2 DEF HandInv
      <4> QED
        BY <3>2, <4>1, <4>2, <4>3 DEF TextStart, Passed, WriteTypes
    <3>4. /\ \A b \in W!Buffers : wstate[b] # "fill" =>
            wdata'[b] = wdata[b] /\ filled'[b] = filled[b]
          /\ \A i \in 1 .. commited : wdata'[wmbuf][i] = wdata[wmbuf][i]
      <4>1. \A b \in W!Buffers : wstate[b] # "fill" => b # wmbuf
        BY <3>2
      <4>2. \A b \in W!Buffers : b # wmbuf => wdata'[b] = wdata[b] /\ filled'[b] = filled[b]
        BY <2>0 DEF WriteTypes
      <4>3. commited <= filled[wmbuf] /\ commited \in Nat /\ filled[wmbuf] \in Nat
        BY <3>2 DEF WriteTypes, RoomInv
      <4>4. \A i \in 1 .. commited : i \in 1 .. filled[wmbuf]
        BY <4>3
      <4> QED
        BY <2>0, <4>1, <4>2, <4>4
    <3>20. ASSUME NEW b \in W!Buffers, wstate[b] # "fill", ~(b = wworkbuf /\ Passed) PROVE Holds(b, filled[b])'
      <4>1. Holds(b, filled[b])
        BY <3>1, <3>20 DEF TextInv
      <4>2. wdata'[b] = wdata[b] /\ filled'[b] = filled[b] /\ TextStart'[b] = TextStart[b]
        BY <3>3, <3>4, <3>20
      <4> QED
        BY <3>2, <4>1, <4>2 DEF Holds
    <3>21. (Holds(wmbuf, commited) /\ TextStart[wmbuf] + commited = Len(text))'
      BY SMTT(60), <3>1, <3>2, <3>3, <3>4 DEF TextInv, Holds, WriteTypes
    <3> QED
      BY <3>1, <3>2, <3>20, <3>21 DEF TextInv, Passed
  <2> QED
    BY <2>1, <2>2, <2>3, <2>4, <2>5
<1>7. CASE W!Rollback
  <2>1. WriteTypes'
    BY <1>7 DEF W!Rollback, W!caller, W!buffers, W!writer, WriteTypes
  <2>2. HandInv'
    BY <1>7 DEF W!Rollback, W!caller, W!buffers, W!writer, WriteTypes, HandInv
  <2>3. RoomInv'
    BY <1>7 DEF W!Rollback, W!caller, W!buffers, W!writer, WriteTypes, HandInv, RoomInv
  <2>4. LengthInv'
    BY <1>7 DEF W!Rollback, W!caller, W!buffers, W!writer, WriteTypes, LengthInv,
       RoomInv
  <2>5. ~failed' => TextInv'
    <3> SUFFICES ASSUME ~failed' PROVE TextInv'
      OBVIOUS
    <3>1. ~failed /\ TextInv /\ TextStart \in [W!Buffers -> Int] /\ Len(text) \in Nat
      BY <1>7, TextStartType, LenProperties DEF W!Rollback, WriteTypes
    <3>2. /\ wmat = "at" /\ wmat' = wmat /\ wstate[wmbuf] = "fill" /\ filled' = [filled EXCEPT ![wmbuf] = commited]
          /\ UNCHANGED <<wstate, wdata, text, disk, wmbuf, commited, wworkbuf, wat>>
      BY <1>7 DEF W!Rollback, W!writer, HandInv
    <3>3. \A b \in W!Buffers : wstate[b] # "fill" \/ b = wmbuf =>
            TextStart'[b] = TextStart[b]
      BY <3>2 DEF TextStart, Passed, HandInv, WriteTypes
    <3>20. ASSUME NEW b \in W!Buffers, wstate[b] # "fill", ~(b = wworkbuf /\ Passed)
           PROVE  Holds(b, filled[b])'
      <4>1. Holds(b, filled[b])
        BY <3>1, <3>20 DEF TextInv
      <4>2. wdata' = wdata /\ text' = text /\ TextStart'[b] = TextStart[b]
        BY <3>2, <3>3, <3>20
      <4>3. filled'[b] = filled[b]
        BY <3>2, <3>20 DEF WriteTypes
      <4> QED
        BY <4>1, <4>2, <4>3 DEF Holds
    <3>21. (Holds(wmbuf, commited) /\ TextStart[wmbuf] + commited = Len(text))'
      BY SMTT(60), <3>1, <3>2, <3>3 DEF TextInv, Holds, WriteTypes
    <3> QED
      BY <3>1, <3>2, <3>20, <3>21 DEF TextInv, Passed
  <2> QED
    BY <2>1, <2>2, <2>3, <2>4, <2>5
<1>8. CASE W!CommitSmall
  <2>0. /\ text' = W!NewText /\ wmat = "at"
        /\ W!NewText \in Seq(Nat) /\ Len(W!NewText) = Len(text) + filled[wmbuf] - commited
        /\ \A i \in 1 .. Len(text) : W!NewText[i] = text[i]
        /\ \A i \in commited + 1 .. filled[wmbuf] :
             W!NewText[Len(text) - commited + i] = wdata[wmbuf][i]
    BY <1>8, NewTextFacts DEF W!CommitSmall
  <2>1. WriteTypes'
    BY <1>8, <2>0 DEF W!CommitSmall, W!caller, W!buffers, W!writer, WriteTypes
  <2>2. HandInv'
    BY <1>8, <2>0 DEF W!CommitSmall, W!caller, W!buffers, W!writer, WriteTypes, HandInv
  <2>3. RoomInv'
    BY <1>8, <2>0 DEF W!CommitSmall, W!caller, W!buffers, W!writer, WriteTypes, HandInv,
       RoomInv
  <2>4. LengthInv'
    BY <1>8, <2>0 DEF W!CommitSmall, W!caller, W!buffers, W!writer, WriteTypes,
       LengthInv, RoomInv
  <2>5. ~failed' => TextInv'
    <3> SUFFICES ASSUME ~failed' PROVE TextInv'
      OBVIOUS
    <3>1. ~failed /\ TextInv /\ TextStart \in [W!Buffers -> Int] /\ Len(text) \in Nat
      BY <1>8, TextStartType, LenProperties DEF W!CommitSmall, WriteTypes
    <3>2. /\ wmat' = wmat /\ wstate[wmbuf] = "fill" /\ commited' = filled[wmbuf]
          /\ UNCHANGED <<wstate, filled, wdata, disk, wmbuf, wworkbuf, wat, from>>
      BY <1>8, <2>0 DEF W!CommitSmall, W!writer, W!buffers, HandInv
    <3>3. TextStart' = TextStart
      BY <3>2 DEF TextStart, Passed
    <3>4. /\ Holds(wmbuf, commited) /\ TextStart[wmbuf] + commited = Len(text) /\ commited <= filled[wmbuf]
          /\ commited \in Nat /\ filled[wmbuf] \in Nat /\ wmbuf \in W!Buffers /\ TextStart[wmbuf] \in Int
      BY <2>0, <3>1 DEF TextInv, RoomInv, WriteTypes
    <3>5. ASSUME NEW i \in 1 .. filled[wmbuf] PROVE wdata[wmbuf][i] = text'[TextStart[wmbuf] + i]
      <4>1. CASE i <= commited
        <5>1. i \in 1 .. commited /\ TextStart[wmbuf] + i \in 1 .. Len(text)
          BY <3>1, <3>4, <4>1 DEF Holds
        <5> QED
          BY <2>0, <3>4, <5>1 DEF Holds
      <4>2. CASE ~(i <= commited)
        <5>1. i \in commited + 1 .. filled[wmbuf] /\ Len(text) - commited + i = TextStart[wmbuf] + i
          BY <3>1, <3>4, <4>2
        <5> QED
          BY <2>0, <5>1
      <4> QED
        BY <4>1, <4>2
    <3>6. 0 <= TextStart[wmbuf] /\ TextStart[wmbuf] + filled[wmbuf] = Len(text') /\ Len(text) <= Len(text')
      <4>1. Len(text') = Len(text) + filled[wmbuf] - commited
        BY <2>0
      <4>2. 0 <= TextStart[wmbuf]
        BY <3>4 DEF Holds
      <4> QED
        BY <3>1, <3>4, <4>1, <4>2
    <3>7. (Holds(wmbuf, commited) /\ TextStart[wmbuf] + commited = Len(text))'
      BY <3>2, <3>3, <3>5, <3>6 DEF Holds
    <3>8. ASSUME NEW b \in W!Buffers, wstate[b] # "fill", ~(b = wworkbuf /\ Passed)
          PROVE  Holds(b, filled[b])'
      <4>1. Holds(b, filled[b]) /\ filled[b] \in Nat
        BY <3>1, <3>8 DEF TextInv, WriteTypes
      <4>2. \A i \in 1 .. Len(text) : text'[i] = text[i]
        BY <2>0
      <4>3. TextStart'[b] = TextStart[b] /\ wdata' = wdata /\ filled' = filled
        BY <3>2, <3>3
      <4>4. /\ 0 <= TextStart'[b] /\ TextStart'[b] + filled[b] <= Len(text')
            /\ \A i \in 1 .. filled[b] : wdata'[b][i] = text'[TextStart'[b] + i]
        BY <2>1, <3>6, <4>1, <4>2, <4>3, HoldsMore
      <4> QED
        BY <4>3, <4>4 DEF Holds
    <3>9. Len(disk) <= Len(text') /\ \A i \in 1 .. Len(disk) : disk[i] = text'[i]
      <4>1. Len(disk) \in Nat /\ Len(text') \in Nat
        BY <2>1, LenProperties DEF WriteTypes
      <4>2. \A i \in 1 .. Len(text) : text'[i] = text[i]
        BY <2>0
      <4>3. Len(disk) <= Len(text) /\ \A i \in 1 .. Len(disk) : disk[i] = text[i]
        BY <3>1 DEF TextInv
      <4> QED
        BY <3>1, <3>6, <4>1, <4>2, <4>3
    <3> QED
      BY <2>0, <3>2, <3>7, <3>8, <3>9 DEF TextInv, Passed
  <2> QED
    BY <2>1, <2>2, <2>3, <2>4, <2>5
<1>9. CASE W!Commit
  <2> DEFINE r == filled[wmbuf] % Page
  <2>11. rest' = r /\ from' = filled[wmbuf] - r /\ filled[wmbuf] \in Nat
    BY <1>9 DEF W!Commit, WriteTypes
  <2>12. r \in Nat /\ r < Page /\ r <= filled[wmbuf]
    BY <2>11, PageRest
  <2> HIDE DEF r
  <2>13. rest' \in Nat /\ rest' < Page /\ from' \in Nat /\ from' + rest' = filled[wmbuf]
    BY <2>11, <2>12
  <2>0. /\ text' = W!NewText /\ wmat = "at"
        /\ W!NewText \in Seq(Nat) /\ Len(W!NewText) = Len(text) + filled[wmbuf] - commited
        /\ \A i \in 1 .. Len(text) : W!NewText[i] = text[i]
        /\ \A i \in commited + 1 .. filled[wmbuf] :
             W!NewText[Len(text) - commited + i] = wdata[wmbuf][i]
    BY <1>9, NewTextFacts DEF W!Commit
  <2>1. WriteTypes'
    <3>1. /\ wmat = "at" /\ wmat' = "wait" /\ wmbuf' = W!Other(wmbuf)
          /\ filled' = [filled EXCEPT ![wmbuf] = from'] /\ wstate' = [wstate EXCEPT ![wmbuf] = "process"]
          /\ entries' = 0 /\ UNCHANGED <<dump, wat, wworkbuf, total, wdata, commited, made, disk>>
      BY <1>9 DEF W!Commit, W!writer
    <3>2. text' \in Seq(Nat) /\ filled' \in [W!Buffers -> Nat] /\ wstate' \in [W!Buffers -> {"fill", "process", "stop"}]
      BY <2>0, <2>13, <3>1 DEF WriteTypes
    <3> QED
      BY SMTT(30), <2>13, <3>1, <3>2 DEF WriteTypes
  <2>2. HandInv'
    <3>1. /\ wmat = "at" /\ wmat' = "wait" /\ wmbuf' = W!Other(wmbuf)
          /\ filled' = [filled EXCEPT ![wmbuf] = from'] /\ wstate' = [wstate EXCEPT ![wmbuf] = "process"]
          /\ entries' = 0 /\ UNCHANGED <<dump, wat, wworkbuf, total, wdata, commited, made, disk>>
      BY <1>9 DEF W!Commit, W!writer
    <3> QED
      BY <3>1 DEF WriteTypes, HandInv
  <2>3. RoomInv'
    <3>1. /\ wmat = "at" /\ wmat' = "wait" /\ wmbuf' = W!Other(wmbuf)
          /\ filled' = [filled EXCEPT ![wmbuf] = from'] /\ wstate' = [wstate EXCEPT ![wmbuf] = "process"]
          /\ entries' = 0 /\ UNCHANGED <<dump, wat, wworkbuf, total, wdata, commited, made, disk>>
      BY <1>9 DEF W!Commit, W!writer
    <3>2. /\ filled'[wmbuf] = from' /\ from' <= filled[wmbuf] /\ wmbuf \in W!Buffers
          /\ \A b \in W!Buffers : b # wmbuf => filled'[b] = filled[b]
      BY <2>13, <3>1 DEF WriteTypes
    <3>3. \A b \in W!Buffers : filled'[b] <= total'[b] /\ OutSize + Grow <= total'[b]
      BY SMTT(30), <2>13, <3>1, <3>2 DEF WriteTypes, RoomInv
    <3> QED
      BY <2>13, <3>1, <3>2, <3>3 DEF WriteTypes, RoomInv
  <2>4. LengthInv'
    <3>1. /\ wmat = "at" /\ wmat' = "wait" /\ wmbuf' = W!Other(wmbuf)
          /\ filled' = [filled EXCEPT ![wmbuf] = from'] /\ wstate' = [wstate EXCEPT ![wmbuf] = "process"]
          /\ entries' = 0 /\ UNCHANGED <<dump, wat, wworkbuf, total, wdata, commited, made, disk>>
      BY <1>9 DEF W!Commit, W!writer
    <3>2. /\ filled'[wmbuf] = from' /\ from' + rest' = filled[wmbuf] /\ from' <= filled[wmbuf]
          /\ wmbuf \in W!Buffers /\ W!Other(W!Other(wmbuf)) = wmbuf
          /\ \A b \in W!Buffers : b # wmbuf => filled'[b] = filled[b]
      BY <2>13, <3>1 DEF WriteTypes
    <3>3. \A b \in W!Buffers : Len(wdata[b]) \in Nat
      BY LenProperties DEF WriteTypes
    <3> QED
      BY SMTT(30), <2>13, <3>1, <3>2, <3>3 DEF WriteTypes, LengthInv
  <2>5. ~failed' => TextInv'
    <3> SUFFICES ASSUME ~failed' PROVE TextInv'
      OBVIOUS
    <3>1. ~failed /\ TextInv /\ TextStart \in [W!Buffers -> Int] /\ Len(text) \in Nat
      BY <1>9, TextStartType, LenProperties DEF W!Commit, WriteTypes
    <3>2. /\ wmat' = "wait" /\ wmbuf' = W!Other(wmbuf) /\ wstate[wmbuf] = "fill"
          /\ filled' = [filled EXCEPT ![wmbuf] = from'] /\ wstate' = [wstate EXCEPT ![wmbuf] = "process"]
          /\ UNCHANGED <<wdata, disk, wworkbuf, wat>>
      BY <1>9, <2>0 DEF W!Commit, W!writer, HandInv
    <3>3. \A b \in W!Buffers : wstate[b] # "fill" \/ b = wmbuf =>
            TextStart'[b] = TextStart[b]
      BY SMTT(20), <2>0, <3>2 DEF TextStart, Passed, HandInv, WriteTypes
    <3>4. /\ Holds(wmbuf, commited) /\ TextStart[wmbuf] + commited = Len(text) /\ commited <= filled[wmbuf]
          /\ commited \in Nat /\ filled[wmbuf] \in Nat /\ wmbuf \in W!Buffers /\ TextStart[wmbuf] \in Int
      BY <2>0, <3>1 DEF TextInv, RoomInv, WriteTypes
    <3>5. ASSUME NEW i \in 1 .. filled[wmbuf] PROVE wdata[wmbuf][i] = text'[TextStart[wmbuf] + i]
      <4>1. CASE i <= commited
        <5>1. i \in 1 .. commited /\ TextStart[wmbuf] + i \in 1 .. Len(text)
          BY <3>1, <3>4, <4>1 DEF Holds
        <5> QED
          BY <2>0, <3>4, <5>1 DEF Holds
      <4>2. CASE ~(i <= commited)
        <5>1. i \in commited + 1 .. filled[wmbuf] /\ Len(text) - commited + i = TextStart[wmbuf] + i
          BY <3>1, <3>4, <4>2
        <5> QED
          BY <2>0, <5>1
      <4> QED
        BY <4>1, <4>2
    <3>6. 0 <= TextStart[wmbuf] /\ TextStart[wmbuf] + filled[wmbuf] = Len(text') /\ Len(text) <= Len(text')
      <4>1. Len(text') = Len(text) + filled[wmbuf] - commited
        BY <2>0
      <4>2. 0 <= TextStart[wmbuf]
        BY <3>4 DEF Holds
      <4> QED
        BY <3>1, <3>4, <4>1, <4>2
    <3>11. /\ from' + rest' = filled[wmbuf] /\ from' <= filled[wmbuf] /\ from' \in Nat /\ rest' \in Nat
      BY <2>13, <3>4
    <3>7. wmbuf = W!Other(wmbuf') /\ TextStart'[wmbuf] = TextStart[wmbuf] /\ filled'[wmbuf] = from'
      BY SMTT(30), <3>2, <3>3, <3>4 DEF WriteTypes
    <3>8. (Holds(W!Other(wmbuf), from + rest) /\ TextStart[W!Other(wmbuf)] + from + rest = Len(text))'
      <4>1. TextStart[wmbuf] + from' + rest' = Len(text') /\ TextStart[wmbuf] + (from' + rest') <= Len(text')
        <5>1. Len(text') \in Int
          BY <2>1, LenProperties DEF WriteTypes
        <5>2. TextStart[wmbuf] + (from' + rest') = Len(text')
          BY <3>6, <3>11
        <5>3. TextStart[wmbuf] + (from' + rest') = TextStart[wmbuf] + from' + rest'
          BY <3>4, <3>11
        <5> QED
          BY <5>1, <5>2, <5>3
      <4> QED
        BY <3>2, <3>5, <3>6, <3>7, <3>11, <4>1 DEF Holds
    <3>9. ASSUME NEW b \in W!Buffers, wstate'[b] # "fill", ~(b = wworkbuf /\ Passed)
          PROVE  Holds(b, filled[b])'
      <4>1. CASE b = wmbuf
        <5>1. \A i \in 1 .. from' : i \in 1 .. filled[wmbuf]
          BY <3>4, <3>11
        <5>2. TextStart[wmbuf] + from' <= Len(text')
          <6>1. TextStart[wmbuf] + filled[wmbuf] = Len(text')
            BY <3>6
          <6>2. from' \in Int /\ filled[wmbuf] \in Int /\ from' <= filled[wmbuf]
            BY <3>4, <3>11
          <6>3. TextStart[wmbuf] + from' <= TextStart[wmbuf] + filled[wmbuf]
            BY <3>4, <6>2
          <6> QED
            BY <6>1, <6>3
        <5> QED
          BY <3>2, <3>5, <3>6, <3>7, <3>11, <4>1, <5>1, <5>2 DEF Holds
      <4>2. CASE b # wmbuf
        <5>1. Holds(b, filled[b]) /\ filled[b] \in Nat /\ wstate[b] # "fill" /\ filled'[b] = filled[b]
          BY <3>1, <3>2, <3>9, <4>2 DEF TextInv, WriteTypes
        <5>2. \A i \in 1 .. Len(text) : text'[i] = text[i]
          BY <2>0
        <5>3. TextStart'[b] = TextStart[b] /\ wdata' = wdata
          BY <3>2, <3>3, <5>1
        <5>4. /\ 0 <= TextStart'[b] /\ TextStart'[b] + filled[b] <= Len(text')
              /\ \A i \in 1 .. filled[b] : wdata'[b][i] = text'[TextStart'[b] + i]
          BY <2>1, <3>6, <5>1, <5>2, <5>3, HoldsMore
        <5> QED
          BY <5>1, <5>3, <5>4 DEF Holds
      <4> QED
        BY <4>1, <4>2
    <3>10. Len(disk) <= Len(text') /\ \A i \in 1 .. Len(disk) : disk[i] = text'[i]
      <4>1. Len(disk) \in Nat /\ Len(text') \in Nat
        BY <2>1, LenProperties DEF WriteTypes
      <4>2. \A i \in 1 .. Len(text) : text'[i] = text[i]
        BY <2>0
      <4>3. Len(disk) <= Len(text) /\ \A i \in 1 .. Len(disk) : disk[i] = text[i]
        BY <3>1 DEF TextInv
      <4> QED
        BY <3>1, <3>6, <4>1, <4>2, <4>3
    <3> QED
      BY <3>2, <3>8, <3>9, <3>10 DEF TextInv, Passed
  <2> QED
    BY <2>1, <2>2, <2>3, <2>4, <2>5
<1>10. CASE W!CommitMoves
  <2>0. /\ wdata' \in [W!Buffers -> Seq(Nat)] /\ Len(wdata'[wmbuf]) = rest
        /\ wdata'[W!Other(wmbuf)] = wdata[W!Other(wmbuf)]
        /\ \A i \in 1 .. rest : wdata'[wmbuf][i] = wdata[W!Other(wmbuf)][from + i]
    <3> DEFINE s == SubSeq(wdata[W!Other(wmbuf)], from + 1, from + rest)
    <3>0. /\ wdata[W!Other(wmbuf)] \in Seq(Nat) /\ from \in Nat /\ rest \in Nat
          /\ from + rest <= Len(wdata[W!Other(wmbuf)])
      BY <1>10 DEF W!CommitMoves, WriteTypes, LengthInv
    <3>1. s \in Seq(Nat) /\ Len(s) = rest /\ \A i \in 1 .. rest : s[i] = wdata[W!Other(wmbuf)][from + i]
      BY <3>0, PartFacts
    <3>2. wdata' = [wdata EXCEPT ![wmbuf] = s]
      BY <1>10 DEF W!CommitMoves
    <3> HIDE DEF s
    <3>3. /\ wdata'[wmbuf] = s /\ wdata'[W!Other(wmbuf)] = wdata[W!Other(wmbuf)]
          /\ wdata' \in [W!Buffers -> Seq(Nat)]
      BY <3>1, <3>2 DEF WriteTypes
    <3> QED
      BY <3>1, <3>3
  <2>1. WriteTypes'
    BY <1>10, <2>0 DEF W!CommitMoves, W!caller, W!buffers, W!writer, WriteTypes
  <2>2. HandInv'
    BY <1>10, <2>0 DEF W!CommitMoves, W!caller, W!buffers, W!writer, WriteTypes, HandInv
  <2>3. RoomInv'
    BY SMTT(30), <1>10, <2>0 DEF W!CommitMoves, W!caller, W!buffers, W!writer, WriteTypes,
       HandInv, RoomInv
  <2>4. LengthInv'
    BY <1>10, <2>0 DEF W!CommitMoves, W!caller, W!buffers, W!writer, WriteTypes,
       LengthInv, RoomInv
  <2>5. ~failed' => TextInv'
    <3> SUFFICES ASSUME ~failed' PROVE TextInv'
      OBVIOUS
    <3>1. ~failed /\ TextInv /\ TextStart \in [W!Buffers -> Int] /\ Len(text) \in Nat
      BY <1>10, TextStartType, LenProperties DEF W!CommitMoves, WriteTypes
    <3>2. /\ wmat = "wait" /\ wmat' = "at" /\ wstate[wmbuf] = "fill" /\ filled' = [filled EXCEPT ![wmbuf] = rest]
          /\ commited' = rest /\ UNCHANGED <<wstate, text, disk, wmbuf, wworkbuf, wat, from>>
      BY <1>10 DEF W!CommitMoves, W!writer, HandInv, WriteTypes
    <3>3. /\ \A b \in W!Buffers : TextStart'[b] = TextStart[b]
          /\ TextStart[wmbuf] = TextStart[W!Other(wmbuf)] + from
      <4>1. Len(disk) \in Nat /\ from \in Nat /\ filled \in [W!Buffers -> Nat] /\ wmbuf \in W!Buffers /\ wworkbuf \in W!Buffers
        BY LenProperties DEF WriteTypes
      <4>2. CASE wworkbuf = wmbuf
        <5>1. wstate[wworkbuf] = "fill" /\ ~Passed
          BY <3>2, <4>2 DEF Passed, HandInv, WriteTypes
        <5> QED
          BY <3>2, <4>1, <4>2, <5>1 DEF TextStart, Passed
      <4>3. CASE wworkbuf # wmbuf
        <5>1. wworkbuf = W!Other(wmbuf) /\ wstate[wworkbuf] = "process" /\ filled[wworkbuf] = from
          <6>1. wworkbuf = W!Other(wmbuf)
            BY <1>0, <4>3
          <6>2. wstate[wworkbuf] \in {"fill", "process", "stop"}
            BY DEF WriteTypes
          <6>3. wstate[wworkbuf] = "process"
            BY <3>2, <4>3, <6>2 DEF HandInv, WriteTypes
          <6> QED
            BY <3>2, <6>1, <6>3 DEF RoomInv
        <5> QED
          BY <3>2, <4>1, <4>3, <5>1 DEF TextStart, Passed
      <4> QED
        BY <4>2, <4>3
    <3>4. \A b \in W!Buffers : wstate[b] # "fill" =>
            wdata'[b] = wdata[b] /\ filled'[b] = filled[b]
      BY <2>0, <3>2 DEF WriteTypes
    <3>5. /\ Holds(W!Other(wmbuf), from + rest) /\ TextStart[W!Other(wmbuf)] + from + rest = Len(text)
          /\ from \in Nat /\ rest \in Nat /\ wmbuf \in W!Buffers /\ W!Other(wmbuf) \in W!Buffers
      BY <3>1, <3>2 DEF TextInv, WriteTypes
    <3>6. ASSUME NEW i \in 1 .. rest PROVE wdata'[wmbuf][i] = text[TextStart[wmbuf] + i]
      <4>1. from + i \in 1 .. from + rest /\ TextStart[W!Other(wmbuf)] + (from + i) = TextStart[wmbuf] + i
        BY <3>1, <3>3, <3>5
      <4>2. wdata[W!Other(wmbuf)][from + i] = text[TextStart[W!Other(wmbuf)] + (from + i)]
        BY <3>5, <4>1 DEF Holds
      <4> QED
        BY <2>0, <4>1, <4>2
    <3>7. 0 <= TextStart[wmbuf] /\ TextStart[wmbuf] + rest = Len(text)
      BY <3>1, <3>3, <3>5 DEF Holds
    <3>8. (Holds(wmbuf, commited) /\ TextStart[wmbuf] + commited = Len(text))'
      BY SMTT(30), <3>1, <3>2, <3>3, <3>5, <3>6, <3>7 DEF Holds
    <3>9. ASSUME NEW b \in W!Buffers, wstate[b] # "fill", ~(b = wworkbuf /\ Passed) PROVE Holds(b, filled[b])'
      <4>1. Holds(b, filled[b]) /\ wdata'[b] = wdata[b] /\ filled'[b] = filled[b] /\ TextStart'[b] = TextStart[b]
        BY <3>1, <3>3, <3>4, <3>9 DEF TextInv
      <4> QED
        BY <3>2, <4>1 DEF Holds
    <3> QED
      BY <3>1, <3>2, <3>8, <3>9 DEF TextInv, Passed
  <2> QED
    BY <2>1, <2>2, <2>3, <2>4, <2>5
<1>11. CASE W!Finish
  <2>1. WriteTypes'
    BY <1>11 DEF W!Finish, W!caller, W!buffers, W!writer, WriteTypes
  <2>2. HandInv'
    BY <1>11 DEF W!Finish, W!caller, W!buffers, W!writer, WriteTypes, HandInv
  <2>3. RoomInv'
    BY <1>11 DEF W!Finish, W!caller, W!buffers, W!writer, WriteTypes, HandInv, RoomInv
  <2>4. LengthInv'
    BY <1>11 DEF W!Finish, W!caller, W!buffers, W!writer, WriteTypes, LengthInv, RoomInv
  <2>5. ~failed' => TextInv'
    <3> SUFFICES ASSUME ~failed' PROVE TextInv'
      OBVIOUS
    <3>1. ~failed /\ TextInv /\ TextStart \in [W!Buffers -> Int] /\ Len(text) \in Nat
      BY <1>11, TextStartType, LenProperties DEF W!Finish, WriteTypes
    <3>2. /\ TextStart'[wmbuf] = TextStart[wmbuf] /\ \A b \in W!Buffers : wstate[b] # "fill" =>
            TextStart'[b] = TextStart[b]
      BY <1>11 DEF W!Finish, TextStart, Passed, W!writer, HandInv, WriteTypes
    <3>3. /\ wmat = "at" /\ wmat' = "join" /\ filled[wmbuf] = commited
          /\ wstate' = [wstate EXCEPT ![wmbuf] = "stop"]
          /\ UNCHANGED <<filled, wdata, text, disk, wmbuf, commited, wworkbuf, wat>>
      BY <1>11 DEF W!Finish, W!writer, RoomInv
    <3>4. Holds(wmbuf, commited) /\ TextStart[wmbuf] + commited = Len(text)
      BY <3>1, <3>3 DEF TextInv
    <3>5. (Holds(wmbuf, commited) /\ TextStart[wmbuf] + commited = Len(text))'
      BY <3>2, <3>3, <3>4 DEF Holds
    <3>6. ASSUME NEW b \in W!Buffers, wstate'[b] # "fill", ~(b = wworkbuf /\ Passed)
          PROVE  Holds(b, filled[b])'
      <4>1. CASE b = wmbuf
        BY <3>2, <3>3, <3>4, <4>1 DEF Holds
      <4>2. CASE b # wmbuf
        <5>1. wstate[b] # "fill"
          BY <3>3, <3>6, <4>2 DEF WriteTypes
        <5>2. Holds(b, filled[b])
          BY <3>1, <3>3, <3>6, <5>1 DEF TextInv
        <5>3. TextStart'[b] = TextStart[b]
          BY <3>2, <5>1
        <5> QED
          BY <3>3, <5>2, <5>3 DEF Holds
      <4> QED
        BY <4>1, <4>2
    <3> QED
      BY <3>1, <3>2, <3>3, <3>5, <3>6 DEF TextInv, Passed
  <2> QED
    BY <2>1, <2>2, <2>3, <2>4, <2>5
<1>12. CASE W!Join
  <2>1. WriteTypes'
    BY <1>12 DEF W!Join, W!caller, W!buffers, W!writer, WriteTypes
  <2>2. HandInv'
    BY <1>12 DEF W!Join, W!caller, W!buffers, W!writer, WriteTypes, HandInv
  <2>3. RoomInv'
    BY <1>12 DEF W!Join, W!caller, W!buffers, W!writer, WriteTypes, HandInv, RoomInv
  <2>4. LengthInv'
    BY <1>12 DEF W!Join, W!caller, W!buffers, W!writer, WriteTypes, LengthInv, RoomInv
  <2>5. ~failed' => TextInv'
    BY <1>12 DEF W!Join, W!caller, W!buffers, W!writer, WriteTypes, HandInv, RoomInv,
       LengthInv, TextInv, Holds, TextStart, Passed
  <2> QED
    BY <2>1, <2>2, <2>3, <2>4, <2>5
<1>13. CASE UNCHANGED output
  BY SMTT(20), <1>13 DEF output, WriteTypes, HandInv, RoomInv, LengthInv, TextInv, Holds,
     TextStart, Passed
<1> QED
  BY <1>2, <1>3, <1>4, <1>5, <1>6, <1>7, <1>8, <1>9, <1>10, <1>11, <1>12, <1>13
     DEF W!Next, W!WriteThread, W!Caller, W!Commits

-----------------------------------------------------------------------------
(* The pipelines: who has a chain, and which items are where.               *)

Stuck   == {"ended", "failed", "try", "crashed"}
Visited == {"carry", "carried", "shift", "tail", "tail_end", "single_shift"}
Fresh   == {"off", "top", "begin", "loop", "single"}
Turning == {"top", "begin", "carry", "carried", "tail", "tail_end"}
Working == {"begin", "carry", "carried", "loop", "shift"}

PipePlaces  == Fresh \cup Visited \cup Stuck
Fats    == {"first", "start", "fill", "wait", "wait_last", "join", "returned"}

Stages == [1 .. 2 -> P!Slots \cup {P!NoSlot}]
Todos  == {<<>>, <<1>>, <<2>>, <<1, 2>>, <<2, 1>>}

PipeTypes ==
  /\ setup \in Setups
  /\ slot \in [P!Slots -> 0 .. Items] /\ seen \subseteq P!Slots
  /\ count \in [1 .. Chains -> 0 .. ChainSize] /\ pstate \in [1 .. Chains -> 0 .. 2]
  /\ fat \in Fats
  /\ fchain \in 1 .. Chains /\ next \in 1 .. Items + 1
  /\ pat \in PipePlaces
  /\ wchain \in 1 .. Chains /\ pos \in Nat \ {0}
  /\ stage \in Stages /\ todo \in Todos
  /\ need \in 0 .. Chains
  /\ done \in Seq(1 .. Items)
  /\ pfailed \in BOOLEAN /\ result \in {"none", "flushed", "reverted"}

\* Where the two sides are.
SidesInv ==
  /\ pfailed <=> pat = "failed"
  /\ fat = "returned" => /\ pat \in {"ended", "failed"}
                         /\ pfailed /\ ~setup.file => result = "reverted"
  /\ setup.multicore => /\ pat \notin {"single", "single_shift"}
                        /\ pat = "off" <=> fat \in {"first", "start"}
  /\ ~setup.multicore =>
       /\ fat \in {"join", "returned"}
       /\ pat \in {"single", "single_shift", "tail", "tail_end"} \cup Stuck

\* Before the thread is there.
OffInv ==
  pat = "off" =>
    /\ fchain = 1 /\ wchain = 1 /\ need = P!NoChain /\ done = <<>> /\ stage = P!Empty
    /\ \A c \in 1 .. Chains : pstate[c] = 0 /\ (c # 1 => count[c] = 0)
    /\ count[1] = next - 1 /\ \A i \in 1 .. count[1] : slot[<<1, i>>] = i
    /\ fat = "first" => count[1] < ChainSize
    /\ fat = "start" => next > Items \/ count[1] = ChainSize

\* The chain that is being filled.
FilledInv ==
  /\ fat \in {"fill", "first", "start"} => pstate[fchain] = 0
  /\ fat = "fill" => count[fchain] < ChainSize

PlaceInv == SidesInv /\ OffInv /\ FilledInv

\* The entries under way, the visits that are left of a step.  The first Hi items
\* have been taken up: they are done or under way.
Under(k) == stage[k] # P!NoSlot
Item(k)  == slot[stage[k]]
Hi       == Len(done) + (IF Under(1) THEN 1 ELSE 0) + (IF Under(2) THEN 1 ELSE 0)
NewDue   == todo \in {<<1>>, <<1, 2>>, <<2, 1>>}
OldDue   == todo \in {<<2>>, <<1, 2>>, <<2, 1>>}

\* What is under way has a visit to come, in the order that Order gives.
StageInv ==
  /\ Under(2) => stage[2] \in seen
  /\ pat \in Fresh \cup {"ended", "failed", "crashed"} => todo = <<>>
  /\ pat \in Visited =>
       /\ (Under(2) <=> OldDue) /\ (NewDue => Under(1))
       /\ Under(1) /\ stage[1] \notin seen => NewDue
       /\ todo = <<1, 2>> => P!Bucket(stage[1]) # P!Bucket(stage[2])
  /\ pat \in {"tail_end", "ended"} => ~Under(1)
  /\ pat = "ended" => ~Under(2)

\* What is under way are the last two items; the older one of two that are done
\* out of order belongs to another chain of the set.
ItemsInv ==
  /\ (Under(1) => Item(1) >= 1) /\ (Under(2) => Item(2) >= 1)
  /\ Under(1) => Item(1) = Hi
  /\ Under(2) => \/ Item(2) = IF Under(1) THEN Hi - 1 ELSE Hi
                 \/ ~Under(1) /\ Item(2) = Hi - 1 /\ BucketOf[Hi] # BucketOf[Hi - 1]
  /\ Hi < next
  /\ pat = "ended" => Hi = Items

\* All others that were taken up are done.
IsDone(x) == \E i \in 1 .. Len(done) : done[i] = x

DoneInv ==
  /\ IsFiniteSet(P!DoneItems) /\ Len(done) = Cardinality(P!DoneItems)
  /\ \A x \in 1 .. Items : IsDone(x) <=>
       x <= Hi /\ (Under(1) => x # Item(1)) /\ (Under(2) => x # Item(2))
  /\ P!InOrder

\* One core: the entries before pos are under way, whose ring has room for both.
Before(n) == IF n = 1 THEN SingleSize ELSE n - 1

SingleInv ==
  ~setup.multicore =>
    /\ pat \in {"single", "single_shift"} =>
         /\ Under(1) => stage[1] = <<1, Before(pos)>>
         /\ Under(2) => stage[2] = <<1, Before(Before(pos))>>
         /\ pos <= SingleSize
    /\ pat = "single" => Hi + 1 = next
    /\ pat = "single_shift" => Hi + 2 = next /\ slot[<<1, pos>>] = next - 1
    /\ pat \in {"tail", "tail_end"} => Hi = Items

\* Two cores: the chains that the thread has begin at the oldest one that it still
\* holds, Number of them in the order of the ring.
Held    == need # P!NoChain /\ pat \in Turning
OldestChain  == IF Held THEN need ELSE wchain
Dist(o, c) == IF c >= o THEN c - o ELSE c - o + Chains
Off(c)  == Dist(OldestChain, c)
Closes(c) == fat \in {"join", "returned"} /\ c = fchain
Number  == IF Closes(fchain) THEN Off(fchain) + 1
           ELSE IF pstate[fchain] = 1 THEN Chains ELSE Off(fchain)

RingChains ==
  /\ \A c \in 1 .. Chains : pstate[c] \in {0, 1} /\ (pstate[c] = 1 <=> Off(c) < Number)
  /\ pstate[fchain] = 1 /\ ~Closes(fchain) => fchain = OldestChain

RingPlaces ==
  /\ pat = "off" \/ fat \in {"fill", "wait", "wait_last", "join"}
  /\ fat \in {"wait_last", "join"} => next > Items
  /\ Held => wchain = P!After(need) /\ pstate[need] = 1
  /\ pat \in {"carry", "carried", "tail", "tail_end"} => Held
  /\ pat \in Working => pstate[wchain] = 1
  /\ (pat = "begin" => pos = 1) /\ (pat = "shift" => pos <= count[wchain])

RingInv == setup.multicore /\ pat \notin Stuck => RingChains /\ RingPlaces

\* What the chains have: the items after Base, one after another, up to the
\* Filled ones of the chain that the caller is in.  Of the chain that the thread
\* is in, Staged entries are taken up.
Filled == IF fat = "fill" THEN count[fchain] ELSE 0
Least(a, b) == IF a < b THEN a ELSE b
Staged == IF pat = "carried" THEN Least(1, count[wchain])
          ELSE IF pat \in {"loop", "shift"} THEN Least(pos - 1, count[wchain]) ELSE 0
Base == Hi - Staged

\* A chain that is still to be worked on, or is being worked on.
Ahead(c) == pstate[c] = 1 /\ ~Closes(c) /\ ~(Held /\ c = need)

Counts == \A c \in 1 .. Chains : pstate[c] = 1 => (count[c] = 0 <=> Closes(c))

Runs ==
  \A c \in 1 .. Chains : Ahead(c) =>
    /\ slot[<<c, 1>>] + count[c] <= next
    /\ \A i \in 1 .. count[c] : slot[<<c, i>>] = slot[<<c, 1>>] + i - 1
    /\ IF P!After(c) = fchain THEN slot[<<c, 1>>] + count[c] + Filled = next
       ELSE slot[<<P!After(c), 1>>] = slot[<<c, 1>>] + count[c]

Front ==
  IF pstate[wchain] = 1 /\ ~Closes(wchain) THEN slot[<<wchain, 1>>] = Base + 1
  ELSE Base + Filled + 1 = next

Filling ==
  fat = "fill" =>
    \A i \in 1 .. count[fchain] : slot[<<fchain, i>>] = next - count[fchain] + i - 1

ChainsInv ==
  setup.multicore /\ pat \notin Stuck \cup {"off"} => Counts /\ Runs /\ Front /\ Filling

\* Whose entries are under way.
EntryOk(k) ==
  LET c == stage[k][1] IN
  /\ pat # "off"
  /\ pat \in Stuck => pstate[c] # 0
  /\ pat \in {"loop", "shift"} => c = wchain
  /\ pat \in {"top", "begin", "tail", "tail_end", "carry"} => need # P!NoChain /\ c = need
  /\ pat = "carried" => c = IF k = 1 THEN wchain ELSE need

EntriesInv == setup.multicore => \A k \in 1 .. 2 : Under(k) => EntryOk(k)

PipesInv ==
  /\ PipeTypes /\ PlaceInv /\ StageInv /\ ItemsInv /\ DoneInv /\ SingleInv
  /\ RingInv /\ ChainsInv /\ EntriesInv

LEMMA PipeSizes ==
  /\ Items \in Nat /\ Chains \in Nat /\ Chains >= 2 /\ ChainSize \in Nat /\ ChainSize >= 1
  /\ SingleSize \in Nat /\ SingleSize >= 3
  /\ P!Width \in Nat /\ ChainSize <= P!Width /\ SingleSize <= P!Width
  /\ 1 \in 1 .. Chains /\ Minus \subseteq 1 .. Items /\ Errors \in BOOLEAN
BY FileCallsAssumption DEF P!CallsFit, P!Width

LEMMA Names ==
  /\ {"off", "top", "begin", "loop", "single", "ended", "failed", "try",
       "crashed"} \subseteq PipePlaces
  /\ {"carry", "carried", "shift", "tail", "tail_end", "single_shift"} \subseteq PipePlaces
  /\ {"first", "start", "fill", "wait", "wait_last", "join", "returned"} \subseteq Fats
BY DEF PipePlaces, Fats, Fresh, Visited, Stuck

LEMMA Mod ==
  ASSUME NEW n \in Nat, NEW m \in Nat, m >= 1, n >= 1, n <= m
  PROVE  n % m = IF n = m THEN 0 ELSE n
OBVIOUS

\* The chains are a ring.
LEMMA AfterFacts ==
  ASSUME NEW c \in 1 .. Chains
  PROVE  /\ P!After(c) = IF c = Chains THEN 1 ELSE c + 1
         /\ P!After(c) \in 1 .. Chains /\ P!After(c) # c
<1>0. c \in Nat /\ c >= 1 /\ c <= Chains /\ Chains \in Nat /\ Chains >= 1
  BY PipeSizes
<1>1. c % Chains = IF c = Chains THEN 0 ELSE c
  BY <1>0, Mod
<1> QED
  BY <1>1, PipeSizes DEF P!After

LEMMA SlotFacts ==
  /\ P!NoSlot \notin P!Slots
  /\ \A s \in P!Slots : s[1] \in 1 .. Chains /\ s[2] \in 1 .. P!Width /\ s = <<s[1], s[2]>>
  /\ \A c \in 1 .. Chains, i \in 1 .. P!Width :
       <<c, i>> \in P!Slots /\ <<c, i>> # P!NoSlot /\ <<c, i>>[1] = c /\ <<c, i>>[2] = i
BY PipeSizes DEF P!Slots, P!NoSlot

LEMMA TodoFacts ==
  ASSUME NEW t \in Todos, t # <<>>
  PROVE  /\ Head(t) \in {1, 2} /\ Tail(t) \in {<<>>, <<1>>, <<2>>}
         /\ Head(t) = 1 => t \in {<<1>>, <<1, 2>>}
              /\ Tail(t) = IF t = <<1, 2>> THEN <<2>> ELSE <<>>
         /\ Head(t) = 2 => t \in {<<2>>, <<2, 1>>}
              /\ Tail(t) = IF t = <<2, 1>> THEN <<1>> ELSE <<>>
<1>1. CASE t = <<1>>
  BY <1>1
<1>2. CASE t = <<2>>
  BY <1>2
<1>3. CASE t = <<1, 2>>
  BY <1>3
<1>4. CASE t = <<2, 1>>
  BY <1>4
<1> QED
  BY <1>1, <1>2, <1>3, <1>4 DEF Todos

LEMMA TodoNames ==
  /\ <<1>> # <<2>> /\ <<1>> # <<>> /\ <<2>> # <<>> /\ <<1, 2>> # <<>> /\ <<2, 1>> # <<>>
  /\ <<1, 2>> # <<2, 1>> /\ <<1, 2>> # <<1>> /\ <<1, 2>> # <<2>> /\ <<2, 1>> # <<1>> /\ <<2,
       1>> # <<2>>
OBVIOUS

LEMMA OrderFacts ==
  ASSUME NEW st \in Stages
  PROVE  /\ P!Order(st) \in Todos
         /\ P!Order(st) \in {<<1>>, <<1, 2>>, <<2, 1>>} <=> st[1] # P!NoSlot
         /\ P!Order(st) \in {<<2>>, <<1, 2>>, <<2, 1>>} <=> st[2] # P!NoSlot
         /\ P!Order(st) = <<1, 2>> => P!Bucket(st[1]) # P!Bucket(st[2])
BY TodoNames, Zenon DEF P!Order, Todos

LEMMA ShiftedFacts ==
  ASSUME PipeTypes, NEW s \in P!Slots \cup {P!NoSlot}
  PROVE  P!Shifted(s) \in Stages /\ P!Shifted(s)[1] = s /\ P!Shifted(s)[2] = stage[1]
BY DEF P!Shifted, PipeTypes, Stages

LEMMA EmptyFacts == P!Empty \in Stages /\ P!Empty[1] = P!NoSlot /\ P!Empty[2] = P!NoSlot
BY DEF P!Empty, Stages

LEMMA EntryFacts ==
  ASSUME PipeTypes, NEW n \in Nat \ {0}
  PROVE  /\ P!Entry(n) \in P!Slots \cup {P!NoSlot}
         /\ n <= count[wchain] => P!Entry(n) = <<wchain, n>> /\ P!Entry(n) # P!NoSlot
         /\ n > count[wchain] => P!Entry(n) = P!NoSlot
<1>1. count[wchain] \in 0 .. ChainSize
  BY DEF PipeTypes
<1>2. CASE n <= count[wchain]
  <2>1. n \in 1 .. P!Width /\ wchain \in 1 .. Chains
    BY <1>1, <1>2, PipeSizes DEF PipeTypes
  <2> QED
    BY <1>1, <1>2, <2>1, SlotFacts DEF P!Entry
<1>3. CASE n > count[wchain]
  BY <1>1, <1>3 DEF P!Entry
<1> QED
  BY <1>1, <1>2, <1>3

\* Two cores are at work, and a chain is still to be given back.
LEMMA HeldFacts ==
  ASSUME PipeTypes, PlaceInv, RingInv,
         pat \in {"carry", "carried"} \/ (setup.multicore /\ pat \in {"tail", "tail_end"})
  PROVE  /\ setup.multicore /\ pat \notin Stuck /\ Held /\ need \in 1 .. Chains
         /\ wchain = P!After(need) /\ pstate[need] = 1
<1>1. setup.multicore /\ pat \notin Stuck
  BY DEF PlaceInv, SidesInv, OffInv, FilledInv, Stuck
<1>2. Held /\ wchain = P!After(need) /\ pstate[need] = 1
  BY <1>1, Zenon DEF RingInv, RingChains, RingPlaces
<1>3. need \in 0 .. Chains /\ need # 0
  BY <1>2 DEF PipeTypes, Held, P!NoChain
<1> QED
  BY <1>1, <1>2, <1>3, PipeSizes

LEMMA SingleFacts ==
  ASSUME PipeTypes, PlaceInv, SingleInv, pat \in {"single", "single_shift"}
  PROVE  ~setup.multicore /\ pos \in 1 .. SingleSize /\ <<1, pos>> \in P!Slots
           /\ fat \in {"join", "returned"}
<1>1. ~setup.multicore /\ fat \in {"join", "returned"}
  BY DEF PlaceInv, SidesInv, OffInv, FilledInv
<1>2. pos <= SingleSize
  BY <1>1 DEF SingleInv
<1>3. pos \in 1 .. SingleSize /\ pos \in 1 .. P!Width
  BY <1>2, PipeSizes DEF PipeTypes
<1> QED
  BY <1>1, <1>3, PipeSizes, SlotFacts

LEMMA DueFacts ==
  ASSUME PipeTypes, StageInv, pat \in Visited, todo # <<>>
  PROVE  LET k == Head(todo) IN
         /\ k \in {1, 2} /\ Under(k) /\ stage[k] \in P!Slots
         /\ k = 1 => /\ NewDue /\ ~(Tail(todo) \in {<<1>>, <<1, 2>>, <<2, 1>>})
                     /\ OldDue <=> Tail(todo) \in {<<2>>, <<1, 2>>, <<2, 1>>}
                     /\ OldDue => todo = <<1, 2>>
         /\ k = 2 => /\ OldDue /\ ~(Tail(todo) \in {<<2>>, <<1, 2>>, <<2, 1>>})
                     /\ NewDue <=> Tail(todo) \in {<<1>>, <<1, 2>>, <<2, 1>>}
         /\ Tail(todo) # <<1, 2>>
<1>1. todo \in Todos
  BY DEF PipeTypes
<1>2. \/ todo = <<1>> /\ Head(todo) = 1 /\ Tail(todo) = <<>>
      \/ todo = <<2>> /\ Head(todo) = 2 /\ Tail(todo) = <<>>
      \/ todo = <<1, 2>> /\ Head(todo) = 1 /\ Tail(todo) = <<2>>
      \/ todo = <<2, 1>> /\ Head(todo) = 2 /\ Tail(todo) = <<1>>
  BY <1>1, TodoFacts DEF Todos
<1>3. (NewDue => Under(1)) /\ (OldDue => Under(2))
  BY DEF StageInv
<1>4. \A k \in {1, 2} : Under(k) => stage[k] \in P!Slots
  BY DEF PipeTypes, Stages, Under
<1> QED
  BY <1>2, <1>3, <1>4, TodoNames DEF NewDue, OldDue

LEMMA FillFacts ==
  ASSUME PipeTypes, NEW c \in 1 .. Chains, P!Fill(c), count[c] < ChainSize
  PROVE  /\ next \in 1 .. Items /\ next' = next + 1 /\ next' \in 1 .. Items + 1
         /\ <<c, count[c] + 1>> \in P!Slots /\ count[c] + 1 \in 1 .. ChainSize
         /\ slot' \in [P!Slots -> 0 .. Items] /\ slot'[<<c, count[c] + 1>>] = next
         /\ \A s \in P!Slots : s # <<c, count[c] + 1>> => slot'[s] = slot[s]
         /\ seen' = seen \ {<<c, count[c] + 1>>}
         /\ count' \in [1 .. Chains -> 0 .. ChainSize] /\ count'[c] = count[c] + 1
         /\ \A d \in 1 .. Chains : d # c => count'[d] = count[d]
<1>1. count[c] \in 0 .. ChainSize /\ count[c] + 1 \in 1 .. ChainSize
        /\ count[c] + 1 \in 1 .. P!Width
  BY PipeSizes DEF PipeTypes
<1>2. next \in 1 .. Items /\ next' = next + 1 /\ next' \in 1 .. Items + 1
  BY PipeSizes DEF PipeTypes, P!Fill, P!Put
<1>3. <<c, count[c] + 1>> \in P!Slots
  BY <1>1, SlotFacts
<1> QED
  BY <1>1, <1>2, <1>3 DEF PipeTypes, P!Fill, P!Put

LEMMA HandOverFacts ==
  ASSUME PipeTypes, NEW c \in 1 .. Chains, P!HandOver(c)
  PROVE  /\ pstate' \in [1 .. Chains -> 0 .. 2] /\ pstate'[c] = 1
         /\ \A d \in 1 .. Chains : d # c => pstate'[d] = pstate[d]
BY DEF PipeTypes, P!HandOver

GivesBack(c) ==
  /\ pstate' \in [1 .. Chains -> 0 .. 2] /\ pstate'[c] = 0
  /\ \A d \in 1 .. Chains : d # c => pstate'[d] = pstate[d]

LEMMA GivesFacts ==
  ASSUME PipeTypes, NEW c \in 1 .. Chains, pstate' = [pstate EXCEPT ![c] = 0]
  PROVE  GivesBack(c)
BY DEF PipeTypes, GivesBack

LEMMA FailsFacts ==
  ASSUME PipeTypes, NEW c \in 1 .. Chains, pstate[c] = 1, pstate' = [pstate EXCEPT ![c] = 2]
  PROVE  /\ pstate' \in [1 .. Chains -> 0 .. 2]
         /\ \A d \in 1 .. Chains : pstate'[d] = pstate[d] \/ (pstate[d] = 1 /\ pstate'[d] = 2)
BY DEF PipeTypes

LEMMA ResetFacts ==
  ASSUME PipeTypes, NEW c \in 1 .. Chains, count' = [count EXCEPT ![c] = 0]
  PROVE  /\ count' \in [1 .. Chains -> 0 .. ChainSize] /\ count'[c] = 0
         /\ \A d \in 1 .. Chains : d # c => count'[d] = count[d]
<1>1. 0 \in 0 .. ChainSize
  BY PipeSizes
<1> QED
  BY <1>1 DEF PipeTypes

LEMMA StepFacts ==
  ASSUME NEW st \in Stages, NEW place, P!Step(st, place)
  PROVE  /\ stage' = st /\ todo' \in Todos
         /\ NewDue' <=> st[1] # P!NoSlot
         /\ OldDue' <=> st[2] # P!NoSlot
         /\ todo' = <<1, 2>> => P!Bucket(st[1]) # P!Bucket(st[2])
         /\ pat' \in {place, "try"}
BY OrderFacts DEF P!Step, NewDue, OldDue

LEMMA FillFirstFacts ==
  ASSUME PipeTypes, PlaceInv, P!FillFirst
  PROVE  /\ fat = "first" /\ pat = "off"
         /\ fat' \in {"first", "start"} /\ (fat' = "start" <=> count'[1] = ChainSize)
         /\ next \in 1 .. Items /\ next' = next + 1 /\ next' \in 1 .. Items + 1
         /\ <<1, count[1] + 1>> \in P!Slots /\ count[1] + 1 \in 1 .. ChainSize
         /\ slot' \in [P!Slots -> 0 .. Items] /\ slot'[<<1, count[1] + 1>>] = next
         /\ \A s \in P!Slots : s # <<1, count[1] + 1>> => slot'[s] = slot[s]
         /\ seen' = seen \ {<<1, count[1] + 1>>}
         /\ count' \in [1 .. Chains -> 0 .. ChainSize] /\ count'[1] = count[1] + 1
         /\ \A d \in 1 .. Chains : d # 1 => count'[d] = count[d]
         /\ UNCHANGED <<pstate, fchain, pat, wchain, pos, stage, todo, need, done, pfailed,
              result>>
<1>1. fat = "first" /\ pat = "off" /\ setup.multicore /\ count[1] < ChainSize
        /\ 1 \in 1 .. Chains
  BY PipeSizes DEF P!FillFirst, PlaceInv, SidesInv, OffInv, FilledInv
<1>2. P!Fill(1)
  BY DEF P!FillFirst
<1>3. UNCHANGED <<pstate, fchain, pat, wchain, pos, stage, todo, need, done, pfailed,
        result>> /\ fat' = IF count'[1] = ChainSize THEN "start" ELSE "first"
  BY DEF P!FillFirst, P!visits, P!outcome
<1> QED
  BY <1>1, <1>2, <1>3, FillFacts

LEMMA FirstEndsFacts ==
  ASSUME PipeTypes, PlaceInv, P!FirstEnds
  PROVE  /\ fat = "first" /\ next > Items /\ fat' = "start"
         /\ UNCHANGED <<slot, seen, count, pstate, fchain, next, pat, wchain, pos, stage, todo,
              need, done, pfailed, result>>
BY DEF P!FirstEnds, P!visits, P!outcome

LEMMA StartFacts ==
  ASSUME PipeTypes, PlaceInv, P!Start
  PROVE  /\ fat = "start"
         /\ \/ count[1] = 0 /\ fat' = "join" /\ pat' = "ended" /\ UNCHANGED <<pstate, fchain>>
            \/ /\ count[1] # 0 /\ fat' = "fill" /\ pat' = "top" /\ fchain' = P!After(1)
               /\ pstate' \in [1 .. Chains -> 0 .. 2] /\ pstate'[1] = 1
               /\ \A d \in 1 .. Chains : d # 1 => pstate'[d] = pstate[d]
         /\ UNCHANGED <<slot, seen, count, next, wchain, pos, stage, todo, need, done, pfailed,
              result>>
<1>1. CASE count[1] = 0
  BY <1>1 DEF P!Start, P!outcome
<1>2. CASE count[1] # 0
  <2>1. P!HandOver(1)
    BY <1>2 DEF P!Start, P!HandOver
  <2> QED
    BY <1>2, <2>1, HandOverFacts, PipeSizes DEF P!Start, P!outcome
<1> QED
  BY <1>1, <1>2

LEMMA FillNextFacts ==
  ASSUME PipeTypes, PlaceInv, P!FillNext
  PROVE  /\ fat = "fill"
         /\ next \in 1 .. Items /\ next' = next + 1 /\ next' \in 1 .. Items + 1
         /\ <<fchain, count[fchain] + 1>> \in P!Slots /\ count[fchain] + 1 \in 1 .. ChainSize
         /\ slot' \in [P!Slots -> 0 .. Items] /\ slot'[<<fchain, count[fchain] + 1>>] = next
         /\ \A s \in P!Slots : s # <<fchain, count[fchain] + 1>> => slot'[s] = slot[s]
         /\ seen' = seen \ {<<fchain, count[fchain] + 1>>}
         /\ count' \in [1 .. Chains -> 0 .. ChainSize] /\ count'[fchain] = count[fchain] + 1
         /\ \A d \in 1 .. Chains : d # fchain => count'[d] = count[d]
         /\ \/ /\ count'[fchain] = ChainSize /\ fchain' = P!After(fchain) /\ fat' = "wait"
               /\ pstate' \in [1 .. Chains -> 0 .. 2] /\ pstate'[fchain] = 1
               /\ \A d \in 1 .. Chains : d # fchain => pstate'[d] = pstate[d]
            \/ count'[fchain] # ChainSize /\ UNCHANGED <<pstate, fchain, fat>>
         /\ UNCHANGED <<pat, wchain, pos, stage, todo, need, done, pfailed, result>>
<1>1. fat = "fill" /\ count[fchain] < ChainSize /\ fchain \in 1 .. Chains
  BY DEF P!FillNext, PlaceInv, SidesInv, OffInv, FilledInv, PipeTypes
<1>2. P!Fill(fchain) /\ UNCHANGED <<pat, wchain, pos, stage, todo, need, done, pfailed, result>>
  BY DEF P!FillNext, P!visits, P!outcome
<1>3. CASE count'[fchain] = ChainSize
  <2>1. P!HandOver(fchain) /\ fchain' = P!After(fchain) /\ fat' = "wait"
    BY <1>3 DEF P!FillNext
  <2> QED
    BY <1>1, <1>2, <1>3, <2>1, HandOverFacts, FillFacts
<1>4. CASE count'[fchain] # ChainSize
  <2>1. UNCHANGED <<pstate, fchain, fat>>
    BY <1>4 DEF P!FillNext
  <2> QED
    BY <1>1, <1>2, <1>4, <2>1, FillFacts
<1> QED
  BY <1>3, <1>4

LEMMA WaitFacts ==
  ASSUME PipeTypes, PlaceInv, P!Wait
  PROVE  /\ fat = "wait" /\ pstate[fchain] # 1
         /\ \/ pstate[fchain] = 2 /\ fat' = "join" /\ count' = count
            \/ /\ pstate[fchain] = 0 /\ fat' = "fill" /\ count'[fchain] = 0
               /\ count' \in [1 .. Chains -> 0 .. ChainSize]
                    /\ \A d \in 1 .. Chains : d # fchain => count'[d] = count[d]
         /\ UNCHANGED <<slot, seen, pstate, fchain, next, pat, wchain, pos, stage, todo, need,
              done, pfailed, result>>
<1>1. pstate[fchain] \in 0 .. 2 /\ fchain \in 1 .. Chains
  BY DEF PipeTypes
<1>2. CASE pstate[fchain] = 2
  BY <1>2 DEF P!Wait, P!visits, P!outcome
<1>3. CASE pstate[fchain] = 0
  <2>1. count' = [count EXCEPT ![fchain] = 0]
    BY <1>3 DEF P!Wait
  <2> QED
    BY <1>1, <1>3, <2>1, ResetFacts DEF P!Wait, P!visits, P!outcome
<1> QED
  BY <1>1, <1>2, <1>3 DEF P!Wait

LEMMA FillEndsFacts ==
  ASSUME PipeTypes, PlaceInv, P!FillEnds
  PROVE  /\ fat = "fill" /\ next > Items
         /\ pstate' \in [1 .. Chains -> 0 .. 2] /\ pstate'[fchain] = 1
         /\ \A d \in 1 .. Chains : d # fchain => pstate'[d] = pstate[d]
         /\ \/ count[fchain] > 0 /\ fchain' = P!After(fchain) /\ fat' = "wait_last"
            \/ count[fchain] = 0 /\ fchain' = fchain /\ fat' = "join"
         /\ UNCHANGED <<slot, seen, count, next, pat, wchain, pos, stage, todo, need, done,
              pfailed, result>>
<1>1. P!HandOver(fchain) /\ fchain \in 1 .. Chains /\ count[fchain] \in 0 .. ChainSize
  BY DEF P!FillEnds, PipeTypes
<1> QED
  BY <1>1, HandOverFacts, PipeSizes DEF P!FillEnds, P!visits, P!outcome

LEMMA WaitLastFacts ==
  ASSUME PipeTypes, PlaceInv, P!WaitLast
  PROVE  /\ fat = "wait_last" /\ pstate[fchain] # 1 /\ fat' = "join"
         /\ \/ pstate[fchain] = 2 /\ UNCHANGED <<count, pstate>>
            \/ /\ pstate[fchain] = 0 /\ count'[fchain] = 0
               /\ count' \in [1 .. Chains -> 0 .. ChainSize]
                    /\ \A d \in 1 .. Chains : d # fchain => count'[d] = count[d]
               /\ pstate' \in [1 .. Chains -> 0 .. 2] /\ pstate'[fchain] = 1
               /\ \A d \in 1 .. Chains : d # fchain => pstate'[d] = pstate[d]
         /\ UNCHANGED <<slot, seen, fchain, next, pat, wchain, pos, stage, todo, need, done,
              pfailed, result>>
<1>1. pstate[fchain] \in 0 .. 2 /\ fchain \in 1 .. Chains
  BY DEF PipeTypes
<1>2. CASE pstate[fchain] = 2
  BY <1>2 DEF P!WaitLast, P!visits, P!outcome
<1>3. CASE pstate[fchain] = 0
  <2>1. P!HandOver(fchain) /\ count' = [count EXCEPT ![fchain] = 0]
    BY <1>3 DEF P!WaitLast
  <2> QED
    BY <1>1, <1>3, <2>1, HandOverFacts, ResetFacts DEF P!WaitLast, P!visits, P!outcome
<1> QED
  BY <1>1, <1>2, <1>3 DEF P!WaitLast

LEMMA JoinFacts ==
  ASSUME PipeTypes, PlaceInv, P!Join
  PROVE  /\ fat = "join" /\ pat \in {"ended", "failed"} /\ fat' = "returned"
         /\ result' = IF pat = "failed" /\ ~setup.file THEN "reverted" ELSE "flushed"
         /\ UNCHANGED <<slot, seen, count, pstate, fchain, next, pat, wchain, pos, stage, todo,
              need, done, pfailed>>
BY DEF P!Join, P!visits

LEMMA VisitFacts ==
  ASSUME PipeTypes, PlaceInv, StageInv, RingInv, P!Visit
  PROVE  /\ todo # <<>> /\ pat \in Visited /\ Head(todo) \in {1, 2} /\ Tail(todo) \in Todos
         /\ LET k == Head(todo) IN
            \/ /\ done' = Append(done, slot[stage[k]]) /\ todo' = Tail(todo)
               /\ stage' = [stage EXCEPT ![k] = P!NoSlot]
                    /\ UNCHANGED <<pat, seen, pstate, pfailed>>
            \/ /\ stage[k] \notin seen /\ seen' = seen \cup {stage[k]} /\ todo' = Tail(todo)
               /\ UNCHANGED <<pat, stage, pstate, done, pfailed>>
            \/ pat' = "crashed" /\ todo' = <<>> /\ UNCHANGED <<stage, seen, pstate, done,
                 pfailed>>
            \/ /\ pfailed' = TRUE /\ pat' = "failed"
                    /\ todo' = <<>> /\ UNCHANGED <<stage, seen, done>>
               /\ pstate' \in [1 .. Chains -> 0 .. 2]
                    /\ \A c \in 1 .. Chains : pstate'[c] = pstate[c]
                    \/ (pstate[c] = 1 /\ pstate'[c] = 2)
         /\ UNCHANGED <<slot, count, fat, fchain, next, wchain, pos, need, result>>
<1>1. todo # <<>> /\ pat # "try" /\ todo \in Todos
  BY DEF P!Visit, PipeTypes, Todos
<1>2. pat \in Visited
  BY <1>1 DEF PipeTypes, PipePlaces, StageInv, PlaceInv, SidesInv, OffInv, FilledInv, Fresh,
     Stuck, Todos
<1>3. Head(todo) \in {1, 2} /\ Tail(todo) \in Todos
  BY <1>1, TodoFacts DEF Todos
<1>4. UNCHANGED <<slot, count, fat, fchain, next, wchain, pos, need, result>>
  BY DEF P!Visit, P!caller
<1>5. CASE P!VisitDone(Head(todo))
  BY <1>1, <1>2, <1>3, <1>4, <1>5 DEF P!VisitDone, P!Finish
<1>6. CASE P!VisitLater(Head(todo))
  BY <1>1, <1>2, <1>3, <1>4, <1>6 DEF P!VisitLater
<1>7. CASE P!VisitNothing(Head(todo))
  BY <1>1, <1>2, <1>3, <1>4, <1>7 DEF P!VisitNothing
<1>8. CASE P!VisitFails(Head(todo))
  <2>1. pfailed' = TRUE /\ pat' = "failed" /\ todo' = <<>> /\ UNCHANGED <<stage, seen, done>>
    BY <1>8 DEF P!VisitFails
  <2>2. CASE ~setup.multicore
    BY <1>1, <1>2, <1>3, <1>4, <1>8, <2>1, <2>2 DEF P!VisitFails, PipeTypes
  <2>3. CASE setup.multicore
    <3>0. pat \in {"shift", "carry", "carried", "tail", "tail_end"} /\ wchain \in 1 .. Chains
      BY <1>2, <2>3 DEF PlaceInv, SidesInv, OffInv, FilledInv, PipeTypes, Visited
    <3>1. /\ (IF pat = "shift" THEN wchain ELSE need) \in 1 .. Chains
          /\ pstate[IF pat = "shift" THEN wchain ELSE need] = 1
      <4>1. CASE pat = "shift"
        BY <2>3, <3>0, <4>1 DEF RingInv, RingChains, RingPlaces, Working, Stuck
      <4>2. CASE pat # "shift"
        BY <2>3, <3>0, <4>2, HeldFacts
      <4> QED
        BY <4>1, <4>2
    <3>2. pstate' = [pstate EXCEPT ![IF pat = "shift" THEN wchain ELSE need] = 2]
      BY <1>8, <2>3 DEF P!VisitFails
    <3>3. /\ pstate' \in [1 .. Chains -> 0 .. 2]
               /\ \A c \in 1 .. Chains : pstate'[c] = pstate[c]
               \/ (pstate[c] = 1 /\ pstate'[c] = 2)
      <4> DEFINE g == IF pat = "shift" THEN wchain ELSE need
      <4>1. g \in 1 .. Chains /\ pstate[g] = 1 /\ pstate' = [pstate EXCEPT ![g] = 2]
        BY <3>1, <3>2
      <4> HIDE DEF g
      <4> QED
        BY <4>1, FailsFacts
    <3> QED
      BY <1>1, <1>2, <1>3, <1>4, <2>1, <3>3
  <2> QED
    BY <2>2, <2>3
<1> QED
  BY <1>5, <1>6, <1>7, <1>8 DEF P!Visit

LEMMA TopFacts ==
  ASSUME PipeTypes, P!Top
  PROVE  /\ pat = "top" /\ todo = <<>>
         /\ \/ /\ pstate[wchain] = 0 /\ need # P!NoChain /\ pat' \in {"tail", "try"}
                    /\ stage' = stage /\ pos' = pos
               /\ (todo' \in Todos /\ (NewDue' <=> stage[1] # P!NoSlot)
                    /\ (OldDue' <=> stage[2] # P!NoSlot))
                    /\ (todo' = <<1, 2>> => P!Bucket(stage[1]) # P!Bucket(stage[2]))
            \/ /\ pstate[wchain] # 0 /\ pos' = 1 /\ pat' = "begin" /\ UNCHANGED <<stage, todo>>
         /\ UNCHANGED <<slot, seen, count, pstate, fat, fchain, next, wchain, need, done,
              pfailed, result>>
<1>0. stage \in Stages /\ need \in 0 .. Chains /\ wchain \in 1 .. Chains
  BY DEF PipeTypes
<1>1. CASE pstate[wchain] = 0 /\ need # P!NoChain /\ P!Step(stage, "tail")
  BY <1>0, <1>1, StepFacts DEF P!Top, P!Idle, P!caller, P!outcome
<1>2. CASE pstate[wchain] # 0 /\ pos' = 1 /\ pat' = "begin" /\ UNCHANGED <<stage, todo>>
  BY <1>2 DEF P!Top, P!Idle, P!caller, P!outcome
<1> QED
  BY <1>1, <1>2 DEF P!Top

LEMMA TailShiftFacts ==
  ASSUME PipeTypes, P!TailShift
  PROVE  /\ pat = "tail" /\ todo = <<>>
         /\ pat' \in {"tail_end", "try"} /\ stage' = P!Shifted(P!NoSlot)
         /\ todo' \in Todos /\ (NewDue' <=> stage'[1] # P!NoSlot)
              /\ (OldDue' <=> stage'[2] # P!NoSlot)
         /\ todo' = <<1, 2>> => P!Bucket(stage'[1]) # P!Bucket(stage'[2])
         /\ UNCHANGED <<slot, seen, count, pstate, fat, fchain, next, wchain, pos, need, done,
              pfailed, result>>
<1>0. stage \in Stages /\ need \in 0 .. Chains /\ wchain \in 1 .. Chains
  BY DEF PipeTypes
<1>1. P!Shifted(P!NoSlot) \in Stages /\ P!Step(P!Shifted(P!NoSlot), "tail_end")
  BY <1>0, ShiftedFacts, EntryFacts DEF P!TailShift
<1> QED
  BY <1>1, StepFacts DEF P!TailShift, P!Idle, P!caller, P!outcome

LEMMA TailEndFacts ==
  ASSUME PipeTypes, PlaceInv, RingInv, P!TailEnd
  PROVE  /\ pat = "tail_end" /\ todo = <<>> /\ stage' = P!Empty
         /\ \/ (~setup.multicore \/ count[need] = 0) /\ pat' = "ended"
                 /\ UNCHANGED <<pstate, need>>
            \/ /\ setup.multicore /\ count[need] # 0 /\ need' = P!NoChain /\ pat' = "top"
               /\ need \in 1 .. Chains /\ pstate' \in [1 .. Chains -> 0 .. 2]
                    /\ pstate'[need] = 0 /\ \A d \in 1 .. Chains : d # need
                    => pstate'[d] = pstate[d]
         /\ UNCHANGED <<slot, seen, count, fat, fchain, next, wchain, pos, todo, done, pfailed,
              result>>
<1>1. CASE ~setup.multicore \/ count[need] = 0
  BY <1>1 DEF P!TailEnd, P!Idle, P!caller, P!outcome
<1>2. CASE setup.multicore /\ count[need] # 0
  <2>1. need \in 1 .. Chains
    BY <1>2, HeldFacts DEF P!TailEnd
  <2>2. pstate' = [pstate EXCEPT ![need] = 0]
    BY <1>2 DEF P!TailEnd
  <2>3. GivesBack(need)
    BY <2>1, <2>2, GivesFacts DEF GivesBack
  <2> QED
    BY <1>2, <2>1, <2>3 DEF P!TailEnd, P!Idle, P!caller, P!outcome, GivesBack
<1> QED
  BY <1>1, <1>2

LEMMA BeginFacts ==
  ASSUME PipeTypes, P!Begin
  PROVE  /\ pat = "begin" /\ todo = <<>> /\ stage' = stage
         /\ \/ need = P!NoChain /\ pat' = "loop" /\ todo' = todo
            \/ need # P!NoChain /\ pat' \in {"carry", "try"}
                 /\ (todo' \in Todos /\ (NewDue' <=> stage[1] # P!NoSlot)
                 /\ (OldDue' <=> stage[2] # P!NoSlot))
                 /\ (todo' = <<1, 2>> => P!Bucket(stage[1]) # P!Bucket(stage[2]))
         /\ UNCHANGED <<slot, seen, count, pstate, fat, fchain, next, wchain, pos, need, done,
              pfailed, result>>
<1>0. stage \in Stages /\ need \in 0 .. Chains /\ wchain \in 1 .. Chains
  BY DEF PipeTypes
<1>1. CASE need = P!NoChain
  BY <1>1 DEF P!Begin, P!Idle, P!caller, P!outcome
<1>2. CASE need # P!NoChain
  BY <1>0, <1>2, StepFacts DEF P!Begin, P!Idle, P!caller, P!outcome
<1> QED
  BY <1>1, <1>2

LEMMA CarryFacts ==
  ASSUME PipeTypes, P!Carry
  PROVE  /\ pat = "carry" /\ todo = <<>>
         /\ pat' \in {"carried", "try"} /\ stage' = P!Shifted(P!Entry(1))
         /\ todo' \in Todos /\ (NewDue' <=> stage'[1] # P!NoSlot)
              /\ (OldDue' <=> stage'[2] # P!NoSlot)
         /\ todo' = <<1, 2>> => P!Bucket(stage'[1]) # P!Bucket(stage'[2])
         /\ UNCHANGED <<slot, seen, count, pstate, fat, fchain, next, wchain, pos, need, done,
              pfailed, result>>
<1>0. stage \in Stages /\ need \in 0 .. Chains /\ wchain \in 1 .. Chains
  BY DEF PipeTypes
<1>1. P!Shifted(P!Entry(1)) \in Stages /\ P!Step(P!Shifted(P!Entry(1)), "carried")
  BY <1>0, ShiftedFacts, EntryFacts DEF P!Carry
<1> QED
  BY <1>1, StepFacts DEF P!Carry, P!Idle, P!caller, P!outcome

LEMMA CarriedFacts ==
  ASSUME PipeTypes, PlaceInv, RingInv, P!Carried
  PROVE  /\ pat = "carried" /\ todo = <<>> /\ stage' = P!Shifted(P!Entry(2))
         /\ pos' = 3 /\ pat' = "loop" /\ need \in 1 .. Chains
         /\ pstate' \in [1 .. Chains -> 0 .. 2] /\ pstate'[need] = 0
              /\ \A d \in 1 .. Chains : d # need => pstate'[d] = pstate[d]
         /\ UNCHANGED <<slot, seen, count, fat, fchain, next, wchain, todo, need, done, pfailed,
              result>>
<1>1. need \in 1 .. Chains
  BY HeldFacts DEF P!Carried
<1>2. pstate' = [pstate EXCEPT ![need] = 0]
  BY DEF P!Carried
<1>3. GivesBack(need)
  BY <1>1, <1>2, GivesFacts DEF GivesBack
<1> QED
  BY <1>1, <1>3 DEF P!Carried, P!Idle, P!caller, P!outcome, GivesBack

LEMMA LoopFacts ==
  ASSUME PipeTypes, P!Loop
  PROVE  /\ pat = "loop" /\ todo = <<>> /\ pos <= count[wchain]
         /\ pat' \in {"shift", "try"} /\ stage' = stage
         /\ todo' \in Todos /\ (NewDue' <=> stage[1] # P!NoSlot)
              /\ (OldDue' <=> stage[2] # P!NoSlot)
         /\ todo' = <<1, 2>> => P!Bucket(stage[1]) # P!Bucket(stage[2])
         /\ UNCHANGED <<slot, seen, count, pstate, fat, fchain, next, wchain, pos, need, done,
              pfailed, result>>
<1>0. stage \in Stages /\ need \in 0 .. Chains /\ wchain \in 1 .. Chains
  BY DEF PipeTypes
<1>1. stage \in Stages /\ P!Step(stage, "shift")
  BY <1>0, ShiftedFacts, EntryFacts DEF P!Loop
<1> QED
  BY <1>1, StepFacts DEF P!Loop, P!Idle, P!caller, P!outcome

LEMMA ShiftFacts ==
  ASSUME PipeTypes, P!Shift
  PROVE  /\ pat = "shift" /\ todo = <<>> /\ stage' = P!Shifted(<<wchain, pos>>)
         /\ pos' = pos + 1 /\ pat' = "loop"
         /\ UNCHANGED <<slot, seen, count, pstate, fat, fchain, next, wchain, todo, need, done,
              pfailed, result>>
<1>1. pos' = pos + 1
  BY DEF P!Shift
<1>2. pat = "shift" /\ todo = <<>> /\ stage' = P!Shifted(<<wchain, pos>>) /\ pat' = "loop"
  BY Zenon DEF P!Shift, P!Idle
<1>3. UNCHANGED <<slot, seen, count, pstate, fat, fchain, next, wchain, todo, need, done,
        pfailed, result>>
  BY Zenon DEF P!Shift, P!caller, P!outcome
<1> QED
  BY <1>1, <1>2, <1>3

LEMMA LoopEndsFacts ==
  ASSUME PipeTypes, P!LoopEnds
  PROVE  /\ pat = "loop" /\ todo = <<>> /\ pos > count[wchain]
         /\ need' = wchain /\ wchain' = P!After(wchain) /\ stage' = stage
         /\ \/ count[wchain] = 0 /\ pat' \in {"tail", "try"}
                 /\ (todo' \in Todos /\ (NewDue' <=> stage[1] # P!NoSlot)
                 /\ (OldDue' <=> stage[2] # P!NoSlot))
                 /\ (todo' = <<1, 2>> => P!Bucket(stage[1]) # P!Bucket(stage[2]))
            \/ count[wchain] # 0 /\ pat' = "top" /\ todo' = todo
         /\ UNCHANGED <<slot, seen, count, pstate, fat, fchain, next, pos, done, pfailed,
              result>>
<1>0. stage \in Stages /\ need \in 0 .. Chains /\ wchain \in 1 .. Chains
  BY DEF PipeTypes
<1>1. CASE count[wchain] = 0
  BY <1>0, <1>1, StepFacts DEF P!LoopEnds, P!Idle, P!caller, P!outcome
<1>2. CASE count[wchain] # 0
  BY <1>2 DEF P!LoopEnds, P!Idle, P!caller, P!outcome
<1> QED
  BY <1>1, <1>2

LEMMA SingleGetFacts ==
  ASSUME PipeTypes, PlaceInv, SingleInv, P!SingleGet
  PROVE  /\ pat = "single" /\ todo = <<>> /\ next \in 1 .. Items /\ next' = next + 1
              /\ next' \in 1 .. Items + 1
         /\ slot' \in [P!Slots -> 0 .. Items] /\ <<1, pos>> \in P!Slots
              /\ slot'[<<1, pos>>] = next
         /\ \A s \in P!Slots : s # <<1, pos>> => slot'[s] = slot[s]
         /\ seen' = seen \ {<<1, pos>>}
         /\ pat' \in {"single_shift", "try"} /\ stage' = stage
         /\ todo' \in Todos /\ (NewDue' <=> stage[1] # P!NoSlot)
              /\ (OldDue' <=> stage[2] # P!NoSlot)
         /\ todo' = <<1, 2>> => P!Bucket(stage[1]) # P!Bucket(stage[2])
         /\ UNCHANGED <<count, pstate, fat, fchain, wchain, pos, need, done, pfailed, result>>
<1>0. stage \in Stages /\ need \in 0 .. Chains /\ wchain \in 1 .. Chains
  BY DEF PipeTypes
<1>1. next \in 1 .. Items /\ next' = next + 1 /\ next' \in 1 .. Items + 1
  BY PipeSizes DEF PipeTypes, P!SingleGet, P!Put
<1>2. <<1, pos>> \in P!Slots
  BY SingleFacts DEF P!SingleGet
<1>3. UNCHANGED <<count, pstate, fat, fchain, wchain, pos, need, done, pfailed,
        result>> /\ pat = "single" /\ todo = <<>> /\ P!Step(stage, "single_shift")
  BY DEF P!SingleGet, P!Idle, P!outcome
<1>4. slot' = [slot EXCEPT ![<<1, pos>>] = next] /\ seen' = seen \ {<<1, pos>>}
  BY DEF P!SingleGet, P!Put
<1> QED
  BY <1>0, <1>1, <1>2, <1>3, <1>4, StepFacts DEF PipeTypes

LEMMA SingleShiftFacts ==
  ASSUME PipeTypes, P!SingleShift
  PROVE  /\ pat = "single_shift" /\ todo = <<>> /\ stage' = P!Shifted(<<1, pos>>)
         /\ pos' = (pos % SingleSize) + 1 /\ pat' = "single"
         /\ UNCHANGED <<slot, seen, count, pstate, fat, fchain, next, wchain, todo, need, done,
              pfailed, result>>
BY DEF P!SingleShift, P!Idle, P!caller, P!outcome

LEMMA SingleEndsFacts ==
  ASSUME PipeTypes, P!SingleEnds
  PROVE  /\ pat = "single" /\ todo = <<>> /\ next > Items
         /\ pat' \in {"tail", "try"} /\ stage' = stage
         /\ todo' \in Todos /\ (NewDue' <=> stage[1] # P!NoSlot)
              /\ (OldDue' <=> stage[2] # P!NoSlot)
         /\ todo' = <<1, 2>> => P!Bucket(stage[1]) # P!Bucket(stage[2])
         /\ UNCHANGED <<slot, seen, count, pstate, fat, fchain, next, wchain, pos, need, done,
              pfailed, result>>
<1>0. stage \in Stages /\ need \in 0 .. Chains /\ wchain \in 1 .. Chains
  BY DEF PipeTypes
<1>1. stage \in Stages /\ P!Step(stage, "tail")
  BY <1>0, ShiftedFacts, EntryFacts DEF P!SingleEnds
<1> QED
  BY <1>1, StepFacts DEF P!SingleEnds, P!Idle, P!caller, P!outcome

\* Types.
LEMMA TypesStep ==
  ASSUME PipeTypes, PlaceInv, StageInv, ItemsInv, SingleInv, RingInv, P!Next \/ UNCHANGED P!vars
  PROVE  PipeTypes'
<1>1. ASSUME P!FillFirst, setup' = setup PROVE PipeTypes'
  <2>1. UNCHANGED <<pstate, fchain, pat, wchain, pos, stage, todo, need, done, pfailed, result>>
    BY <1>1, FillFirstFacts
  <2>2. slot' \in [P!Slots -> 0 .. Items]
    BY <1>1, FillFirstFacts DEF PipeTypes
  <2>3. seen' \subseteq P!Slots
    BY <1>1, FillFirstFacts DEF PipeTypes
  <2>4. count' \in [1 .. Chains -> 0 .. ChainSize]
    BY <1>1, FillFirstFacts DEF PipeTypes
  <2>5. next' \in 1 .. Items + 1
    BY <1>1, FillFirstFacts DEF PipeTypes
  <2>6. fat' \in Fats
    BY <1>1, FillFirstFacts, Names
  <2> HIDE DEF PipePlaces, Fats, Stages, Todos
  <2> QED
    BY <1>1, <2>1, <2>2, <2>3, <2>4, <2>5, <2>6 DEF PipeTypes
<1>2. ASSUME P!FirstEnds, setup' = setup PROVE PipeTypes'
  <2>1. UNCHANGED <<slot, seen, count, pstate, fchain, next, pat, wchain, pos, stage, todo, need,
          done, pfailed, result>>
    BY <1>2, FirstEndsFacts
  <2>2. fat' \in Fats
    BY <1>2, FirstEndsFacts, Names
  <2> HIDE DEF PipePlaces, Fats, Stages, Todos
  <2> QED
    BY <1>2, <2>1, <2>2 DEF PipeTypes
<1>3. ASSUME P!Start, setup' = setup PROVE PipeTypes'
  <2>1. UNCHANGED <<slot, seen, count, next, wchain, pos, stage, todo, need, done, pfailed,
          result>>
    BY <1>3, StartFacts
  <2>2. fat' \in Fats
    BY <1>3, StartFacts, Names
  <2>3. pat' \in PipePlaces
    BY <1>3, StartFacts, Names DEF PipeTypes
  <2>4. pstate' \in [1 .. Chains -> 0 .. 2]
    BY <1>3, StartFacts DEF PipeTypes
  <2>5. fchain' \in 1 .. Chains
    BY <1>3, StartFacts, AfterFacts, PipeSizes DEF PipeTypes
  <2> HIDE DEF PipePlaces, Fats, Stages, Todos
  <2> QED
    BY <1>3, <2>1, <2>2, <2>3, <2>4, <2>5 DEF PipeTypes
<1>4. ASSUME P!FillNext, setup' = setup PROVE PipeTypes'
  <2>1. UNCHANGED <<pat, wchain, pos, stage, todo, need, done, pfailed, result>>
    BY <1>4, FillNextFacts
  <2>2. fat' \in Fats
    BY <1>4, FillNextFacts, Names
  <2>3. fchain' \in 1 .. Chains
    BY <1>4, FillNextFacts, AfterFacts, PipeSizes DEF PipeTypes
  <2>4. pstate' \in [1 .. Chains -> 0 .. 2]
    BY <1>4, FillNextFacts DEF PipeTypes
  <2>5. slot' \in [P!Slots -> 0 .. Items]
    BY <1>4, FillNextFacts DEF PipeTypes
  <2>6. seen' \subseteq P!Slots
    BY <1>4, FillNextFacts DEF PipeTypes
  <2>7. count' \in [1 .. Chains -> 0 .. ChainSize]
    BY <1>4, FillNextFacts DEF PipeTypes
  <2>8. next' \in 1 .. Items + 1
    BY <1>4, FillNextFacts DEF PipeTypes
  <2> HIDE DEF PipePlaces, Fats, Stages, Todos
  <2> QED
    BY <1>4, <2>1, <2>2, <2>3, <2>4, <2>5, <2>6, <2>7, <2>8 DEF PipeTypes
<1>5. ASSUME P!Wait, setup' = setup PROVE PipeTypes'
  <2>1. UNCHANGED <<slot, seen, pstate, fchain, next, pat, wchain, pos, stage, todo, need, done,
          pfailed, result>>
    BY <1>5, WaitFacts
  <2>2. fat' \in Fats
    BY <1>5, WaitFacts, Names
  <2>3. count' \in [1 .. Chains -> 0 .. ChainSize]
    BY <1>5, WaitFacts DEF PipeTypes
  <2> HIDE DEF PipePlaces, Fats, Stages, Todos
  <2> QED
    BY <1>5, <2>1, <2>2, <2>3 DEF PipeTypes
<1>6. ASSUME P!FillEnds, setup' = setup PROVE PipeTypes'
  <2>1. UNCHANGED <<slot, seen, count, next, pat, wchain, pos, stage, todo, need, done, pfailed,
          result>>
    BY <1>6, FillEndsFacts
  <2>2. pstate' \in [1 .. Chains -> 0 .. 2]
    BY <1>6, FillEndsFacts DEF PipeTypes
  <2>3. fchain' \in 1 .. Chains
    BY <1>6, FillEndsFacts, AfterFacts, PipeSizes DEF PipeTypes
  <2>4. fat' \in Fats
    BY <1>6, FillEndsFacts, Names
  <2> HIDE DEF PipePlaces, Fats, Stages, Todos
  <2> QED
    BY <1>6, <2>1, <2>2, <2>3, <2>4 DEF PipeTypes
<1>7. ASSUME P!WaitLast, setup' = setup PROVE PipeTypes'
  <2>1. UNCHANGED <<slot, seen, fchain, next, pat, wchain, pos, stage, todo, need, done, pfailed,
          result>>
    BY <1>7, WaitLastFacts
  <2>2. fat' \in Fats
    BY <1>7, WaitLastFacts, Names
  <2>3. count' \in [1 .. Chains -> 0 .. ChainSize]
    BY <1>7, WaitLastFacts DEF PipeTypes
  <2>4. pstate' \in [1 .. Chains -> 0 .. 2]
    BY <1>7, WaitLastFacts DEF PipeTypes
  <2> HIDE DEF PipePlaces, Fats, Stages, Todos
  <2> QED
    BY <1>7, <2>1, <2>2, <2>3, <2>4 DEF PipeTypes
<1>8. ASSUME P!Join, setup' = setup PROVE PipeTypes'
  <2>1. UNCHANGED <<slot, seen, count, pstate, fchain, next, pat, wchain, pos, stage, todo, need,
          done, pfailed>>
    BY <1>8, JoinFacts
  <2>2. fat' \in Fats
    BY <1>8, JoinFacts, Names
  <2>3. result' \in {"none", "flushed", "reverted"}
    BY <1>8, JoinFacts DEF PipeTypes
  <2> HIDE DEF PipePlaces, Fats, Stages, Todos
  <2> QED
    BY <1>8, <2>1, <2>2, <2>3 DEF PipeTypes
<1>9. ASSUME P!Visit, setup' = setup PROVE PipeTypes'
  <2>1. UNCHANGED <<slot, count, fat, fchain, next, wchain, pos, need, result>>
    BY <1>9, VisitFacts
  <2>2. done' \in Seq(1 .. Items)
    <3>1. Head(todo) \in {1, 2} /\ stage \in Stages /\ done \in Seq(1 .. Items)
      BY <1>9, VisitFacts DEF PipeTypes
    <3>a. slot[stage[Head(todo)]] \in 0 .. Items
      BY <1>9, VisitFacts, DueFacts DEF PipeTypes
    <3>2. slot[stage[Head(todo)]] \in 1 .. Items
      BY <1>9, <3>a, VisitFacts, DueFacts DEF ItemsInv, Item
    <3>3. Append(done, slot[stage[Head(todo)]]) \in Seq(1 .. Items)
      BY <3>1, <3>2, AppendProperties
    <3>4. done' = done \/ done' = Append(done, slot[stage[Head(todo)]])
      BY <1>9, VisitFacts
    <3> QED
      BY <3>1, <3>3, <3>4
  <2>3. todo' \in Todos
    BY <1>9, VisitFacts DEF PipeTypes, Todos
  <2>4. stage' \in Stages
    BY <1>9, VisitFacts DEF PipeTypes, Stages
  <2>5. pat' \in PipePlaces
    BY <1>9, VisitFacts, Names DEF PipeTypes
  <2>6. seen' \subseteq P!Slots
    BY <1>9, VisitFacts, DueFacts DEF PipeTypes
  <2>7. pstate' \in [1 .. Chains -> 0 .. 2]
    BY <1>9, VisitFacts DEF PipeTypes
  <2>8. pfailed' \in BOOLEAN
    BY <1>9, VisitFacts DEF PipeTypes
  <2> HIDE DEF PipePlaces, Fats, Stages, Todos
  <2> QED
    BY <1>9, <2>1, <2>2, <2>3, <2>4, <2>5, <2>6, <2>7, <2>8 DEF PipeTypes
<1>10. ASSUME P!Top, setup' = setup PROVE PipeTypes'
  <2>1. UNCHANGED <<slot, seen, count, pstate, fat, fchain, next, wchain, need, done, pfailed,
          result>>
    BY <1>10, TopFacts
  <2>2. pat' \in PipePlaces
    BY <1>10, TopFacts, Names DEF PipeTypes
  <2>3. pos' \in Nat \ {0}
    BY <1>10, TopFacts DEF PipeTypes
  <2>4. stage' \in Stages
    BY <1>10, TopFacts, ShiftedFacts, EmptyFacts DEF PipeTypes
  <2>5. todo' \in Todos
    BY <1>10, TopFacts DEF PipeTypes
  <2> HIDE DEF PipePlaces, Fats, Stages, Todos
  <2> QED
    BY <1>10, <2>1, <2>2, <2>3, <2>4, <2>5 DEF PipeTypes
<1>11. ASSUME P!TailShift, setup' = setup PROVE PipeTypes'
  <2>1. UNCHANGED <<slot, seen, count, pstate, fat, fchain, next, wchain, pos, need, done,
          pfailed, result>>
    BY <1>11, TailShiftFacts
  <2>2. pat' \in PipePlaces
    BY <1>11, TailShiftFacts, Names DEF PipeTypes
  <2>3. stage' \in Stages
    BY <1>11, TailShiftFacts, ShiftedFacts, EmptyFacts DEF PipeTypes
  <2>4. todo' \in Todos
    BY <1>11, TailShiftFacts DEF PipeTypes
  <2> HIDE DEF PipePlaces, Fats, Stages, Todos
  <2> QED
    BY <1>11, <2>1, <2>2, <2>3, <2>4 DEF PipeTypes
<1>12. ASSUME P!TailEnd, setup' = setup PROVE PipeTypes'
  <2>1. UNCHANGED <<slot, seen, count, fat, fchain, next, wchain, pos, todo, done, pfailed,
          result>>
    BY <1>12, TailEndFacts
  <2>2. pat' \in PipePlaces
    BY <1>12, TailEndFacts, Names DEF PipeTypes
  <2>3. stage' \in Stages
    BY <1>12, TailEndFacts, ShiftedFacts, EmptyFacts DEF PipeTypes
  <2>4. pstate' \in [1 .. Chains -> 0 .. 2]
    BY <1>12, TailEndFacts DEF PipeTypes
  <2>5. need' \in 0 .. Chains
    <3>1. need' = need \/ need' = 0
      BY <1>12, TailEndFacts DEF P!NoChain
    <3>2. need \in 0 .. Chains /\ 0 \in 0 .. Chains
      BY PipeSizes DEF PipeTypes
    <3> QED
      BY <3>1, <3>2
  <2> HIDE DEF PipePlaces, Fats, Stages, Todos
  <2> QED
    BY <1>12, <2>1, <2>2, <2>3, <2>4, <2>5 DEF PipeTypes
<1>13. ASSUME P!Begin, setup' = setup PROVE PipeTypes'
  <2>1. UNCHANGED <<slot, seen, count, pstate, fat, fchain, next, wchain, pos, need, done,
          pfailed, result>>
    BY <1>13, BeginFacts
  <2>2. pat' \in PipePlaces
    BY <1>13, BeginFacts, Names DEF PipeTypes
  <2>3. todo' \in Todos
    BY <1>13, BeginFacts DEF PipeTypes
  <2>4. stage' \in Stages
    BY <1>13, BeginFacts, ShiftedFacts, EmptyFacts DEF PipeTypes
  <2> HIDE DEF PipePlaces, Fats, Stages, Todos
  <2> QED
    BY <1>13, <2>1, <2>2, <2>3, <2>4 DEF PipeTypes
<1>14. ASSUME P!Carry, setup' = setup PROVE PipeTypes'
  <2>1. UNCHANGED <<slot, seen, count, pstate, fat, fchain, next, wchain, pos, need, done,
          pfailed, result>>
    BY <1>14, CarryFacts
  <2>2. pat' \in PipePlaces
    BY <1>14, CarryFacts, Names DEF PipeTypes
  <2>3. stage' \in Stages
    <3>1. P!Entry(1) \in P!Slots \cup {P!NoSlot}
      BY EntryFacts
    <3> QED
      BY <1>14, <3>1, CarryFacts, ShiftedFacts
  <2>4. todo' \in Todos
    BY <1>14, CarryFacts DEF PipeTypes
  <2> HIDE DEF PipePlaces, Fats, Stages, Todos
  <2> QED
    BY <1>14, <2>1, <2>2, <2>3, <2>4 DEF PipeTypes
<1>15. ASSUME P!Carried, setup' = setup PROVE PipeTypes'
  <2>1. UNCHANGED <<slot, seen, count, fat, fchain, next, wchain, todo, need, done, pfailed,
          result>>
    BY <1>15, CarriedFacts
  <2>2. pat' \in PipePlaces
    BY <1>15, CarriedFacts, Names DEF PipeTypes
  <2>3. stage' \in Stages
    <3>1. P!Entry(2) \in P!Slots \cup {P!NoSlot}
      BY EntryFacts
    <3> QED
      BY <1>15, <3>1, CarriedFacts, ShiftedFacts
  <2>4. pstate' \in [1 .. Chains -> 0 .. 2]
    BY <1>15, CarriedFacts DEF PipeTypes
  <2>5. pos' \in Nat \ {0}
    BY <1>15, CarriedFacts DEF PipeTypes
  <2> HIDE DEF PipePlaces, Fats, Stages, Todos
  <2> QED
    BY <1>15, <2>1, <2>2, <2>3, <2>4, <2>5 DEF PipeTypes
<1>16. ASSUME P!Loop, setup' = setup PROVE PipeTypes'
  <2>1. UNCHANGED <<slot, seen, count, pstate, fat, fchain, next, wchain, pos, need, done,
          pfailed, result>>
    BY <1>16, LoopFacts
  <2>2. pat' \in PipePlaces
    BY <1>16, LoopFacts, Names DEF PipeTypes
  <2>3. stage' \in Stages
    BY <1>16, LoopFacts, ShiftedFacts, EmptyFacts DEF PipeTypes
  <2>4. todo' \in Todos
    BY <1>16, LoopFacts DEF PipeTypes
  <2> HIDE DEF PipePlaces, Fats, Stages, Todos
  <2> QED
    BY <1>16, <2>1, <2>2, <2>3, <2>4 DEF PipeTypes
<1>17. ASSUME P!Shift, setup' = setup PROVE PipeTypes'
  <2>1. UNCHANGED <<slot, seen, count, pstate, fat, fchain, next, wchain, todo, need, done,
          pfailed, result>>
    BY <1>17, ShiftFacts
  <2>2. pat' \in PipePlaces
    BY <1>17, ShiftFacts, Names DEF PipeTypes
  <2>3. stage' \in Stages
    <3>0. pos <= count[wchain] /\ count[wchain] \in 0 .. ChainSize /\ wchain \in 1 .. Chains
            /\ pos \in Nat \ {0}
      <4>1. setup.multicore /\ pat \notin Stuck
        BY <1>17, ShiftFacts DEF PlaceInv, SidesInv, OffInv, FilledInv, Stuck
      <4> QED
        BY <1>17, <4>1, ShiftFacts DEF PipeTypes, RingInv, RingChains, RingPlaces
    <3>1. wchain \in 1 .. Chains /\ pos \in 1 .. P!Width
      BY <3>0, PipeSizes
    <3>2. <<wchain, pos>> \in P!Slots
      BY <3>1, SlotFacts
    <3> QED
      BY <1>17, <3>2, ShiftFacts, ShiftedFacts
  <2>4. pos' \in Nat \ {0}
    BY <1>17, ShiftFacts DEF PipeTypes
  <2> HIDE DEF PipePlaces, Fats, Stages, Todos
  <2> QED
    BY <1>17, <2>1, <2>2, <2>3, <2>4 DEF PipeTypes
<1>18. ASSUME P!LoopEnds, setup' = setup PROVE PipeTypes'
  <2>1. UNCHANGED <<slot, seen, count, pstate, fat, fchain, next, pos, done, pfailed, result>>
    BY <1>18, LoopEndsFacts
  <2>2. pat' \in PipePlaces
    BY <1>18, LoopEndsFacts, Names DEF PipeTypes
  <2>3. todo' \in Todos
    BY <1>18, LoopEndsFacts DEF PipeTypes
  <2>4. stage' \in Stages
    BY <1>18, LoopEndsFacts, ShiftedFacts, EmptyFacts DEF PipeTypes
  <2>5. need' \in 0 .. Chains
    <3>1. need' = wchain
      BY <1>18, LoopEndsFacts
    <3>2. wchain \in 0 .. Chains
      BY PipeSizes DEF PipeTypes
    <3> QED
      BY <3>1, <3>2
  <2>6. wchain' \in 1 .. Chains
    BY <1>18, LoopEndsFacts, AfterFacts DEF PipeTypes
  <2> HIDE DEF PipePlaces, Fats, Stages, Todos
  <2> QED
    BY <1>18, <2>1, <2>2, <2>3, <2>4, <2>5, <2>6 DEF PipeTypes
<1>19. ASSUME P!SingleGet, setup' = setup PROVE PipeTypes'
  <2>1. UNCHANGED <<count, pstate, fat, fchain, wchain, pos, need, done, pfailed, result>>
    BY <1>19, SingleGetFacts
  <2>2. slot' \in [P!Slots -> 0 .. Items]
    BY <1>19, SingleGetFacts DEF PipeTypes
  <2>3. seen' \subseteq P!Slots
    BY <1>19, SingleGetFacts DEF PipeTypes
  <2>4. next' \in 1 .. Items + 1
    BY <1>19, SingleGetFacts DEF PipeTypes
  <2>5. pat' \in PipePlaces
    BY <1>19, SingleGetFacts, Names DEF PipeTypes
  <2>6. stage' \in Stages
    BY <1>19, SingleGetFacts, ShiftedFacts, EmptyFacts DEF PipeTypes
  <2>7. todo' \in Todos
    BY <1>19, SingleGetFacts DEF PipeTypes
  <2> HIDE DEF PipePlaces, Fats, Stages, Todos
  <2> QED
    BY <1>19, <2>1, <2>2, <2>3, <2>4, <2>5, <2>6, <2>7 DEF PipeTypes
<1>20. ASSUME P!SingleShift, setup' = setup PROVE PipeTypes'
  <2>1. UNCHANGED <<slot, seen, count, pstate, fat, fchain, next, wchain, todo, need, done,
          pfailed, result>>
    BY <1>20, SingleShiftFacts
  <2>2. pat' \in PipePlaces
    BY <1>20, SingleShiftFacts, Names DEF PipeTypes
  <2>3. stage' \in Stages
    <3>2. <<1, pos>> \in P!Slots
      BY <1>20, SingleFacts, SingleShiftFacts
    <3> QED
      BY <1>20, <3>2, SingleShiftFacts, ShiftedFacts
  <2>4. pos' \in Nat \ {0}
    <3>1. pos \in 1 .. SingleSize
      BY <1>20, SingleShiftFacts, SingleFacts
    <3> QED
      BY <1>20, <3>1, SingleShiftFacts, Mod, PipeSizes
  <2> HIDE DEF PipePlaces, Fats, Stages, Todos
  <2> QED
    BY <1>20, <2>1, <2>2, <2>3, <2>4 DEF PipeTypes
<1>21. ASSUME P!SingleEnds, setup' = setup PROVE PipeTypes'
  <2>1. UNCHANGED <<slot, seen, count, pstate, fat, fchain, next, wchain, pos, need, done,
          pfailed, result>>
    BY <1>21, SingleEndsFacts
  <2>2. pat' \in PipePlaces
    BY <1>21, SingleEndsFacts, Names DEF PipeTypes
  <2>3. stage' \in Stages
    BY <1>21, SingleEndsFacts, ShiftedFacts, EmptyFacts DEF PipeTypes
  <2>4. todo' \in Todos
    BY <1>21, SingleEndsFacts DEF PipeTypes
  <2> HIDE DEF PipePlaces, Fats, Stages, Todos
  <2> QED
    BY <1>21, <2>1, <2>2, <2>3, <2>4 DEF PipeTypes
<1>22. CASE UNCHANGED P!vars
  BY <1>22 DEF P!vars, P!caller, P!visits, P!outcome, PipeTypes
<1> QED
  BY <1>1, <1>2, <1>3, <1>4, <1>5, <1>6, <1>7, <1>8, <1>9, <1>10, <1>11, <1>12, <1>13, <1>14,
     <1>15, <1>16, <1>17, <1>18, <1>19, <1>20, <1>21, <1>22 DEF P!Next, P!Caller, P!Worker

\* Where the two sides are.
LEMMA PlaceStep ==
  ASSUME PipeTypes, PlaceInv, StageInv, SingleInv, RingInv, P!Next \/ UNCHANGED P!vars
  PROVE  PlaceInv'
<1>1. ASSUME P!FillFirst, setup' = setup PROVE PlaceInv'
  <2>1. SidesInv'
    BY <1>1, FillFirstFacts DEF PlaceInv, SidesInv, Stuck, Visited
  <2>2. OffInv'
    <3>0. /\ count[1] = next - 1 /\ count'[1] = count[1] + 1 /\ next \in 1 .. Items
               /\ next' = next + 1
          /\ count[1] \in Nat /\ count[1] + 1 \in 1 .. ChainSize /\ ChainSize \in Nat
      <4>1. pat = "off" /\ count'[1] = count[1] + 1 /\ next \in 1 .. Items /\ next' = next + 1
              /\ count[1] + 1 \in 1 .. ChainSize
        BY <1>1, FillFirstFacts
      <4>2. count[1] \in 0 .. ChainSize
        BY PipeSizes DEF PipeTypes
      <4>3. count[1] = next - 1
        BY <4>1 DEF PlaceInv, OffInv
      <4> QED
        BY <4>1, <4>2, <4>3, PipeSizes
    <3>1. \A i \in 1 .. count'[1] : slot'[<<1, i>>] = i
      <4>1. \A i \in 1 .. count[1] : slot[<<1, i>>] = i
        BY <1>1, FillFirstFacts DEF PlaceInv, OffInv
      <4>2. slot'[<<1, count[1] + 1>>] = next /\ \A s \in P!Slots : s # <<1, count[1] + 1>>
              => slot'[s] = slot[s]
        BY <1>1, FillFirstFacts
      <4>3. \A i \in 1 .. count[1] : <<1, i>> \in P!Slots /\ <<1, i>> # <<1, count[1] + 1>>
        BY <3>0, SlotFacts, PipeSizes
      <4> TAKE i \in 1 .. count'[1]
      <4>4. CASE i \in 1 .. count[1]
        BY <4>1, <4>2, <4>3, <4>4
      <4>5. CASE i = count[1] + 1
        BY <3>0, <4>2, <4>5
      <4> QED
        BY <3>0, <4>4, <4>5
    <3>2. /\ fchain' = 1 /\ wchain' = 1 /\ need' = P!NoChain /\ done' = <<>> /\ stage' = P!Empty
          /\ \A c \in 1 .. Chains : pstate'[c] = 0 /\ (c # 1 => count'[c] = 0)
          /\ (fat' = "first" => count'[1] # ChainSize)
               /\ (fat' = "start" => count'[1] = ChainSize)
      BY <1>1, FillFirstFacts DEF PlaceInv, OffInv
    <3> QED
      BY <3>0, <3>1, <3>2 DEF OffInv
  <2>3. FilledInv'
    BY <1>1, FillFirstFacts, PipeSizes, AfterFacts DEF PipeTypes, PlaceInv, SidesInv, OffInv,
       FilledInv
  <2> QED
    BY <2>1, <2>2, <2>3 DEF PlaceInv
<1>2. ASSUME P!FirstEnds, setup' = setup PROVE PlaceInv'
  <2>1. SidesInv'
    BY <1>2, FirstEndsFacts DEF PlaceInv, SidesInv, Stuck, Visited
  <2>2. OffInv'
    BY <1>2, FirstEndsFacts DEF SidesInv, PlaceInv, OffInv
  <2>3. FilledInv'
    BY <1>2, FirstEndsFacts, PipeSizes, AfterFacts DEF PipeTypes, PlaceInv, SidesInv, OffInv,
       FilledInv
  <2> QED
    BY <2>1, <2>2, <2>3 DEF PlaceInv
<1>3. ASSUME P!Start, setup' = setup PROVE PlaceInv'
  <2>1. SidesInv'
    BY <1>3, StartFacts DEF PlaceInv, SidesInv, Stuck, Visited
  <2>2. OffInv'
    BY <1>3, StartFacts DEF SidesInv, PlaceInv, OffInv
  <2>3. FilledInv'
    <3>1. P!After(1) \in 1 .. Chains /\ P!After(1) # 1 /\ pat = "off"
      BY <1>3, AfterFacts, PipeSizes, StartFacts DEF PlaceInv, SidesInv, Stuck
    <3> QED
      BY <1>3, <3>1, StartFacts, PipeSizes DEF PlaceInv, OffInv, FilledInv
  <2> QED
    BY <2>1, <2>2, <2>3 DEF PlaceInv
<1>4. ASSUME P!FillNext, setup' = setup PROVE PlaceInv'
  <2>1. SidesInv'
    BY <1>4, FillNextFacts DEF PlaceInv, SidesInv, Stuck, Visited
  <2>2. OffInv'
    BY <1>4, FillNextFacts DEF SidesInv, PlaceInv, OffInv
  <2>3. FilledInv'
    <3>1. CASE count'[fchain] = ChainSize
      <4>1. fat' = "wait"
        BY <1>4, <3>1, FillNextFacts
      <4> QED
        BY <4>1 DEF FilledInv
    <3>2. CASE count'[fchain] # ChainSize
      <4>1. pstate' = pstate /\ fchain' = fchain /\ fat' = "fill"
              /\ count'[fchain] = count[fchain] + 1
        BY <1>4, <3>2, FillNextFacts
      <4>2. pstate[fchain] = 0 /\ count[fchain] \in 0 .. ChainSize /\ count[fchain] < ChainSize
        BY <1>4, FillNextFacts DEF PipeTypes, PlaceInv, FilledInv
      <4>3. count'[fchain] < ChainSize
        BY <3>2, <4>1, <4>2, PipeSizes
      <4> QED
        BY <4>1, <4>2, <4>3 DEF FilledInv
    <3> QED
      BY <3>1, <3>2
  <2> QED
    BY <2>1, <2>2, <2>3 DEF PlaceInv
<1>5. ASSUME P!Wait, setup' = setup PROVE PlaceInv'
  <2>1. SidesInv'
    BY <1>5, WaitFacts DEF PlaceInv, SidesInv, Stuck, Visited
  <2>2. OffInv'
    BY <1>5, WaitFacts DEF SidesInv, PlaceInv, OffInv
  <2>3. FilledInv'
    <3>1. CASE fat' = "join"
      BY <3>1 DEF FilledInv
    <3>2. CASE fat' = "fill"
      <4>1. pstate[fchain] = 0 /\ count'[fchain] = 0 /\ pstate' = pstate /\ fchain' = fchain
        BY <1>5, <3>2, WaitFacts
      <4>2. 0 < ChainSize
        BY PipeSizes
      <4> QED
        BY <3>2, <4>1, <4>2 DEF FilledInv
    <3> QED
      BY <1>5, <3>1, <3>2, WaitFacts
  <2> QED
    BY <2>1, <2>2, <2>3 DEF PlaceInv
<1>6. ASSUME P!FillEnds, setup' = setup PROVE PlaceInv'
  <2>1. SidesInv'
    BY <1>6, FillEndsFacts DEF PlaceInv, SidesInv, Stuck, Visited
  <2>2. OffInv'
    BY <1>6, FillEndsFacts DEF SidesInv, PlaceInv, OffInv
  <2>3. FilledInv'
    BY <1>6, FillEndsFacts, PipeSizes, AfterFacts DEF PipeTypes, PlaceInv, SidesInv, OffInv,
       FilledInv
  <2> QED
    BY <2>1, <2>2, <2>3 DEF PlaceInv
<1>7. ASSUME P!WaitLast, setup' = setup PROVE PlaceInv'
  <2>1. SidesInv'
    BY <1>7, WaitLastFacts DEF PlaceInv, SidesInv, Stuck, Visited
  <2>2. OffInv'
    BY <1>7, WaitLastFacts DEF SidesInv, PlaceInv, OffInv
  <2>3. FilledInv'
    BY <1>7, WaitLastFacts, PipeSizes, AfterFacts DEF PipeTypes, PlaceInv, SidesInv, OffInv,
       FilledInv
  <2> QED
    BY <2>1, <2>2, <2>3 DEF PlaceInv
<1>8. ASSUME P!Join, setup' = setup PROVE PlaceInv'
  <2>1. SidesInv'
    BY <1>8, JoinFacts DEF PlaceInv, SidesInv, Stuck, Visited
  <2>2. OffInv'
    BY <1>8, JoinFacts DEF SidesInv, PlaceInv, OffInv
  <2>3. FilledInv'
    BY <1>8, JoinFacts, PipeSizes, AfterFacts DEF PipeTypes, PlaceInv, SidesInv, OffInv,
       FilledInv
  <2> QED
    BY <2>1, <2>2, <2>3 DEF PlaceInv
<1>9. ASSUME P!Visit, setup' = setup PROVE PlaceInv'
  <2>1. SidesInv'
    <3>1. pat \in Visited /\ fat' = fat
      BY <1>9, VisitFacts
    <3>2. \/ pat' = pat /\ pfailed' = pfailed
          \/ pat' = "crashed" /\ pfailed' = pfailed
          \/ pat' = "failed" /\ pfailed' = TRUE
      BY <1>9, VisitFacts
    <3> QED
      BY <1>9, <3>1, <3>2 DEF PlaceInv, SidesInv, Stuck, Visited
  <2>2. OffInv'
    <3>1. pat' # "off"
      BY <1>9, VisitFacts DEF Visited
    <3> QED
      BY <3>1 DEF OffInv
  <2>3. FilledInv'
    BY <1>9, VisitFacts, PipeSizes, AfterFacts DEF PipeTypes, PlaceInv, SidesInv, OffInv,
       FilledInv
  <2> QED
    BY <2>1, <2>2, <2>3 DEF PlaceInv
<1>10. ASSUME P!Top, setup' = setup PROVE PlaceInv'
  <2>1. SidesInv'
    BY <1>10, TopFacts DEF PlaceInv, SidesInv, Stuck, Visited
  <2>2. OffInv'
    BY <1>10, TopFacts DEF SidesInv, PlaceInv, OffInv
  <2>3. FilledInv'
    BY <1>10, TopFacts, PipeSizes, AfterFacts DEF PipeTypes, PlaceInv, SidesInv, OffInv,
       FilledInv
  <2> QED
    BY <2>1, <2>2, <2>3 DEF PlaceInv
<1>11. ASSUME P!TailShift, setup' = setup PROVE PlaceInv'
  <2>1. SidesInv'
    BY <1>11, TailShiftFacts DEF PlaceInv, SidesInv, Stuck, Visited
  <2>2. OffInv'
    BY <1>11, TailShiftFacts DEF SidesInv, PlaceInv, OffInv
  <2>3. FilledInv'
    BY <1>11, TailShiftFacts, PipeSizes, AfterFacts DEF PipeTypes, PlaceInv, SidesInv, OffInv,
       FilledInv
  <2> QED
    BY <2>1, <2>2, <2>3 DEF PlaceInv
<1>12. ASSUME P!TailEnd, setup' = setup PROVE PlaceInv'
  <2>1. SidesInv'
    BY <1>12, TailEndFacts DEF PlaceInv, SidesInv, Stuck, Visited
  <2>2. OffInv'
    BY <1>12, TailEndFacts DEF SidesInv, PlaceInv, OffInv
  <2>3. FilledInv'
    BY <1>12, TailEndFacts, PipeSizes, AfterFacts DEF PipeTypes, PlaceInv, SidesInv, OffInv,
       FilledInv
  <2> QED
    BY <2>1, <2>2, <2>3 DEF PlaceInv
<1>13. ASSUME P!Begin, setup' = setup PROVE PlaceInv'
  <2>1. SidesInv'
    BY <1>13, BeginFacts DEF PlaceInv, SidesInv, Stuck, Visited
  <2>2. OffInv'
    BY <1>13, BeginFacts DEF SidesInv, PlaceInv, OffInv
  <2>3. FilledInv'
    BY <1>13, BeginFacts, PipeSizes, AfterFacts DEF PipeTypes, PlaceInv, SidesInv, OffInv,
       FilledInv
  <2> QED
    BY <2>1, <2>2, <2>3 DEF PlaceInv
<1>14. ASSUME P!Carry, setup' = setup PROVE PlaceInv'
  <2>1. SidesInv'
    BY <1>14, CarryFacts DEF PlaceInv, SidesInv, Stuck, Visited
  <2>2. OffInv'
    BY <1>14, CarryFacts DEF SidesInv, PlaceInv, OffInv
  <2>3. FilledInv'
    BY <1>14, CarryFacts, PipeSizes, AfterFacts DEF PipeTypes, PlaceInv, SidesInv, OffInv,
       FilledInv
  <2> QED
    BY <2>1, <2>2, <2>3 DEF PlaceInv
<1>15. ASSUME P!Carried, setup' = setup PROVE PlaceInv'
  <2>1. SidesInv'
    BY <1>15, CarriedFacts DEF PlaceInv, SidesInv, Stuck, Visited
  <2>2. OffInv'
    BY <1>15, CarriedFacts DEF SidesInv, PlaceInv, OffInv
  <2>3. FilledInv'
    BY <1>15, CarriedFacts, PipeSizes, AfterFacts DEF PipeTypes, PlaceInv, SidesInv, OffInv,
       FilledInv
  <2> QED
    BY <2>1, <2>2, <2>3 DEF PlaceInv
<1>16. ASSUME P!Loop, setup' = setup PROVE PlaceInv'
  <2>1. SidesInv'
    BY <1>16, LoopFacts DEF PlaceInv, SidesInv, Stuck, Visited
  <2>2. OffInv'
    BY <1>16, LoopFacts DEF SidesInv, PlaceInv, OffInv
  <2>3. FilledInv'
    BY <1>16, LoopFacts, PipeSizes, AfterFacts DEF PipeTypes, PlaceInv, SidesInv, OffInv,
       FilledInv
  <2> QED
    BY <2>1, <2>2, <2>3 DEF PlaceInv
<1>17. ASSUME P!Shift, setup' = setup PROVE PlaceInv'
  <2>1. SidesInv'
    BY <1>17, ShiftFacts DEF PlaceInv, SidesInv, Stuck, Visited
  <2>2. OffInv'
    BY <1>17, ShiftFacts DEF SidesInv, PlaceInv, OffInv
  <2>3. FilledInv'
    BY <1>17, ShiftFacts, PipeSizes, AfterFacts DEF PipeTypes, PlaceInv, SidesInv, OffInv,
       FilledInv
  <2> QED
    BY <2>1, <2>2, <2>3 DEF PlaceInv
<1>18. ASSUME P!LoopEnds, setup' = setup PROVE PlaceInv'
  <2>1. SidesInv'
    BY <1>18, LoopEndsFacts DEF PlaceInv, SidesInv, Stuck, Visited
  <2>2. OffInv'
    BY <1>18, LoopEndsFacts DEF SidesInv, PlaceInv, OffInv
  <2>3. FilledInv'
    BY <1>18, LoopEndsFacts, PipeSizes, AfterFacts DEF PipeTypes, PlaceInv, SidesInv, OffInv,
       FilledInv
  <2> QED
    BY <2>1, <2>2, <2>3 DEF PlaceInv
<1>19. ASSUME P!SingleGet, setup' = setup PROVE PlaceInv'
  <2>1. SidesInv'
    BY <1>19, SingleGetFacts DEF PlaceInv, SidesInv, Stuck, Visited
  <2>2. OffInv'
    BY <1>19, SingleGetFacts DEF SidesInv, PlaceInv, OffInv
  <2>3. FilledInv'
    BY <1>19, SingleGetFacts, PipeSizes, AfterFacts DEF PipeTypes, PlaceInv, SidesInv, OffInv,
       FilledInv
  <2> QED
    BY <2>1, <2>2, <2>3 DEF PlaceInv
<1>20. ASSUME P!SingleShift, setup' = setup PROVE PlaceInv'
  <2>1. SidesInv'
    BY <1>20, SingleShiftFacts DEF PlaceInv, SidesInv, Stuck, Visited
  <2>2. OffInv'
    BY <1>20, SingleShiftFacts DEF SidesInv, PlaceInv, OffInv
  <2>3. FilledInv'
    BY <1>20, SingleShiftFacts, PipeSizes, AfterFacts DEF PipeTypes, PlaceInv, SidesInv, OffInv,
       FilledInv
  <2> QED
    BY <2>1, <2>2, <2>3 DEF PlaceInv
<1>21. ASSUME P!SingleEnds, setup' = setup PROVE PlaceInv'
  <2>1. SidesInv'
    BY <1>21, SingleEndsFacts DEF PlaceInv, SidesInv, Stuck, Visited
  <2>2. OffInv'
    BY <1>21, SingleEndsFacts DEF SidesInv, PlaceInv, OffInv
  <2>3. FilledInv'
    BY <1>21, SingleEndsFacts, PipeSizes, AfterFacts DEF PipeTypes, PlaceInv, SidesInv, OffInv,
       FilledInv
  <2> QED
    BY <2>1, <2>2, <2>3 DEF PlaceInv
<1>22. CASE UNCHANGED P!vars
  BY <1>22 DEF P!vars, P!caller, P!visits, P!outcome, PlaceInv, SidesInv, OffInv, FilledInv
<1> QED
  BY <1>1, <1>2, <1>3, <1>4, <1>5, <1>6, <1>7, <1>8, <1>9, <1>10, <1>11, <1>12, <1>13, <1>14,
     <1>15, <1>16, <1>17, <1>18, <1>19, <1>20, <1>21, <1>22 DEF P!Next, P!Caller, P!Worker

\* An entry that is under way is in a chain that is not being filled.
LEMMA UnderHeld ==
  ASSUME PipeTypes, PlaceInv, RingInv, EntriesInv, setup.multicore, NEW k \in 1 .. 2, Under(k)
  PROVE  stage[k] \in P!Slots /\ stage[k][1] \in 1 .. Chains /\ pstate[stage[k][1]] # 0
           /\ pat # "off"
<1>1. stage[k] \in P!Slots /\ stage[k][1] \in 1 .. Chains
  <2>1. stage[k] \in P!Slots
    BY DEF PipeTypes, Stages, Under
  <2> QED
    BY <2>1, SlotFacts
<1>2. EntryOk(k)
  BY DEF EntriesInv
<1>3. CASE pat \in Stuck
  BY <1>1, <1>2, <1>3 DEF EntryOk, Stuck
<1>4. CASE pat \notin Stuck
  <2>1. pat \in {"loop", "shift", "carried"} => pstate[wchain] = 1
    BY <1>4 DEF RingInv, RingChains, RingPlaces, Working
  <2>2. pat \in {"top", "begin", "tail", "tail_end", "carry", "carried"} /\ need # P!NoChain
          => pstate[need] = 1
    BY <1>4 DEF RingInv, RingChains, RingPlaces, Held, Turning
  <2>3. pat = "carried" => need # P!NoChain
    BY <1>4 DEF RingInv, RingChains, RingPlaces, Held
  <2>4. pat \notin {"single", "single_shift"} /\ pat # "off"
    BY <1>2 DEF PlaceInv, SidesInv, OffInv, FilledInv, EntryOk
  <2>5. pat \in {"loop", "shift", "carried", "top", "begin", "tail", "tail_end", "carry"}
    BY <1>4, <2>4 DEF PipeTypes, PipePlaces, Fresh, Visited
  <2> QED
    BY <1>1, <1>2, <2>1, <2>2, <2>3, <2>5 DEF EntryOk
<1> QED
  BY <1>3, <1>4

\* A slot that is filled is not one of an entry under way.
LEMMA FillsElse ==
  ASSUME PipeTypes, PlaceInv, SingleInv, RingInv, EntriesInv, P!FillFirst \/ P!FillNext
           \/ P!SingleGet,
         NEW k \in {1, 2}, Under(k)
  PROVE  /\ stage' = stage /\ stage[k] \in P!Slots /\ slot'[stage[k]] = slot[stage[k]]
         /\ stage[k] \in seen' <=> stage[k] \in seen
<1>0. stage[k] \in P!Slots
  BY DEF PipeTypes, Stages, Under
<1>1. CASE P!FillFirst
  BY <1>1, FillFirstFacts DEF Under, PlaceInv, SidesInv, OffInv, FilledInv, P!Empty
<1>2. CASE P!FillNext
  <2>1. setup.multicore /\ pstate[fchain] = 0 /\ fchain \in 1 .. Chains
    BY <1>2, FillNextFacts DEF PlaceInv, SidesInv, OffInv, FilledInv, PipeTypes
  <2>2. stage[k] \in P!Slots /\ pstate[stage[k][1]] # 0
    <3>1. k \in 1 .. 2
      OBVIOUS
    <3> QED
      BY <2>1, <3>1, UnderHeld
  <2>3. stage[k] # <<fchain, count[fchain] + 1>>
    BY <2>1, <2>2
  <2> QED
    BY <1>2, <2>2, <2>3, FillNextFacts
<1>3. CASE P!SingleGet
  <2>1. pos \in 1 .. SingleSize /\ ~setup.multicore /\ pat = "single"
    BY <1>3, SingleGetFacts, SingleFacts
  <2>2. /\ Under(1) => stage[1] = <<1, Before(pos)>>
        /\ Under(2) => stage[2] = <<1, Before(Before(pos))>>
    BY <2>1 DEF SingleInv
  <2>3. Before(pos) \in 1 .. SingleSize /\ Before(pos) # pos
          /\ Before(Before(pos)) \in 1 .. SingleSize /\ Before(Before(pos)) # pos
    BY <2>1, PipeSizes DEF Before
  <2>4. \A n \in 1 .. SingleSize : n # pos => <<1, n>> \in P!Slots /\ <<1, n>> # <<1, pos>>
    BY SlotFacts, PipeSizes
  <2>5. stage[k] # <<1, pos>>
    BY <2>2, <2>3, <2>4
  <2> QED
    BY <1>0, <1>3, <2>5, SingleGetFacts
<1> QED
  BY <1>1, <1>2, <1>3

\* No slot of an entry under way is filled again.
Kept == \A k \in 1 .. 2 : Under(k) => slot'[stage[k]] = slot[stage[k]]

\* No step fills the slot of an entry that is under way.
LEMMA KeptStep ==
  ASSUME PipeTypes, PlaceInv, SingleInv, RingInv, EntriesInv, P!Next \/ UNCHANGED P!vars
  PROVE  Kept
<1>1. ASSUME P!FillFirst, setup' = setup PROVE Kept
  BY <1>1, FillsElse DEF Kept
<1>2. ASSUME P!FirstEnds, setup' = setup PROVE Kept
  BY <1>2, FirstEndsFacts DEF Kept
<1>3. ASSUME P!Start, setup' = setup PROVE Kept
  BY <1>3, StartFacts DEF Kept
<1>4. ASSUME P!FillNext, setup' = setup PROVE Kept
  BY <1>4, FillsElse DEF Kept
<1>5. ASSUME P!Wait, setup' = setup PROVE Kept
  BY <1>5, WaitFacts DEF Kept
<1>6. ASSUME P!FillEnds, setup' = setup PROVE Kept
  BY <1>6, FillEndsFacts DEF Kept
<1>7. ASSUME P!WaitLast, setup' = setup PROVE Kept
  BY <1>7, WaitLastFacts DEF Kept
<1>8. ASSUME P!Join, setup' = setup PROVE Kept
  BY <1>8, JoinFacts DEF Kept
<1>9. ASSUME P!Visit, setup' = setup PROVE Kept
  BY <1>9 DEF P!Visit, Kept
<1>10. ASSUME P!Top, setup' = setup PROVE Kept
  BY <1>10, TopFacts DEF Kept
<1>11. ASSUME P!TailShift, setup' = setup PROVE Kept
  BY <1>11, TailShiftFacts DEF Kept
<1>12. ASSUME P!TailEnd, setup' = setup PROVE Kept
  BY <1>12, TailEndFacts DEF Kept
<1>13. ASSUME P!Begin, setup' = setup PROVE Kept
  BY <1>13, BeginFacts DEF Kept
<1>14. ASSUME P!Carry, setup' = setup PROVE Kept
  BY <1>14, CarryFacts DEF Kept
<1>15. ASSUME P!Carried, setup' = setup PROVE Kept
  BY <1>15, CarriedFacts DEF Kept
<1>16. ASSUME P!Loop, setup' = setup PROVE Kept
  BY <1>16, LoopFacts DEF Kept
<1>17. ASSUME P!Shift, setup' = setup PROVE Kept
  BY <1>17, ShiftFacts DEF Kept
<1>18. ASSUME P!LoopEnds, setup' = setup PROVE Kept
  BY <1>18, LoopEndsFacts DEF Kept
<1>19. ASSUME P!SingleGet, setup' = setup PROVE Kept
  BY <1>19, FillsElse DEF Kept
<1>20. ASSUME P!SingleShift, setup' = setup PROVE Kept
  BY <1>20, SingleShiftFacts DEF Kept
<1>21. ASSUME P!SingleEnds, setup' = setup PROVE Kept
  BY <1>21, SingleEndsFacts DEF Kept
<1>22. CASE UNCHANGED P!vars
  BY <1>22 DEF P!vars, Kept
<1> QED
  BY <1>1, <1>2, <1>3, <1>4, <1>5, <1>6, <1>7, <1>8, <1>9, <1>10, <1>11, <1>12, <1>13, <1>14,
     <1>15, <1>16, <1>17, <1>18, <1>19, <1>20, <1>21, <1>22 DEF P!Next, P!Caller, P!Worker

\* After the visits of a step.
LEMMA RestFacts ==
  ASSUME PipeTypes, StageInv, pat \in Visited, todo = <<>>
  PROVE  ~Under(2) /\ (Under(1) => stage[1] \in seen)
BY TodoNames DEF StageInv, NewDue, OldDue

\* The stage.
LEMMA StageStep ==
  ASSUME PipeTypes, PlaceInv, StageInv, SingleInv, RingInv, EntriesInv, P!Next
           \/ UNCHANGED P!vars
  PROVE  StageInv'
<1>1. ASSUME P!FillFirst, setup' = setup PROVE StageInv'
  <2>1. UNCHANGED <<pat, todo, stage>>
    BY <1>1, FillFirstFacts
  <2>2. \A k \in {1, 2} : Under(k) => slot'[stage[k]] = slot[stage[k]]
          /\ (stage[k] \in seen' <=> stage[k] \in seen)
    BY <1>1, FillsElse
  <2>3. (NewDue' <=> NewDue) /\ (OldDue' <=> OldDue) /\ \A k \in {1, 2} : Under(k)' <=> Under(k)
    BY <2>1 DEF NewDue, OldDue, Under
  <2>4. todo = <<1, 2>> => OldDue /\ NewDue
    BY DEF NewDue, OldDue
  <2>5. pat \in Visited /\ todo = <<1, 2>> => P!Bucket(stage[1])' # P!Bucket(stage[2])'
    BY <2>1, <2>2, <2>4 DEF StageInv, P!Bucket
  <2> QED
    BY <2>1, <2>2, <2>3, <2>5 DEF StageInv
<1>2. ASSUME P!FirstEnds, setup' = setup PROVE StageInv'
  BY <1>2, FirstEndsFacts DEF StageInv, Under, NewDue, OldDue, P!Bucket
<1>3. ASSUME P!Start, setup' = setup PROVE StageInv'
  <2>1. stage = P!Empty /\ todo = <<>> /\ pat = "off"
    BY <1>3, StartFacts DEF PlaceInv, SidesInv, OffInv, StageInv, Fresh, Stuck
  <2>2. stage' = P!Empty /\ todo' = <<>> /\ pat' \in {"ended", "top"}
    BY <1>3, <2>1, StartFacts
  <2> QED
    BY <2>2, EmptyFacts DEF StageInv, Under, Visited
<1>4. ASSUME P!FillNext, setup' = setup PROVE StageInv'
  <2>1. UNCHANGED <<pat, todo, stage>>
    BY <1>4, FillNextFacts
  <2>2. \A k \in {1, 2} : Under(k) => slot'[stage[k]] = slot[stage[k]]
          /\ (stage[k] \in seen' <=> stage[k] \in seen)
    BY <1>4, FillsElse
  <2>3. (NewDue' <=> NewDue) /\ (OldDue' <=> OldDue) /\ \A k \in {1, 2} : Under(k)' <=> Under(k)
    BY <2>1 DEF NewDue, OldDue, Under
  <2>4. todo = <<1, 2>> => OldDue /\ NewDue
    BY DEF NewDue, OldDue
  <2>5. pat \in Visited /\ todo = <<1, 2>> => P!Bucket(stage[1])' # P!Bucket(stage[2])'
    BY <2>1, <2>2, <2>4 DEF StageInv, P!Bucket
  <2> QED
    BY <2>1, <2>2, <2>3, <2>5 DEF StageInv
<1>5. ASSUME P!Wait, setup' = setup PROVE StageInv'
  BY <1>5, WaitFacts DEF StageInv, Under, NewDue, OldDue, P!Bucket
<1>6. ASSUME P!FillEnds, setup' = setup PROVE StageInv'
  BY <1>6, FillEndsFacts DEF StageInv, Under, NewDue, OldDue, P!Bucket
<1>7. ASSUME P!WaitLast, setup' = setup PROVE StageInv'
  BY <1>7, WaitLastFacts DEF StageInv, Under, NewDue, OldDue, P!Bucket
<1>8. ASSUME P!Join, setup' = setup PROVE StageInv'
  BY <1>8, JoinFacts DEF StageInv, Under, NewDue, OldDue, P!Bucket
<1>9. ASSUME P!Visit, setup' = setup PROVE StageInv'
  <2> DEFINE k == Head(todo)
  <2>0. k \in {1, 2} /\ pat \in Visited /\ todo # <<>> /\ UNCHANGED slot /\ stage \in Stages
    BY <1>9, VisitFacts DEF PipeTypes
  <2>1. /\ Under(k) /\ stage[k] \in P!Slots
        /\ k = 1 => /\ NewDue /\ ~(Tail(todo) \in {<<1>>, <<1, 2>>, <<2, 1>>})
                    /\ OldDue <=> Tail(todo) \in {<<2>>, <<1, 2>>, <<2, 1>>}
        /\ k = 2 => /\ OldDue /\ ~(Tail(todo) \in {<<2>>, <<1, 2>>, <<2, 1>>})
                    /\ NewDue <=> Tail(todo) \in {<<1>>, <<1, 2>>, <<2, 1>>}
        /\ Tail(todo) # <<1, 2>>
    BY <2>0, DueFacts
  <2> HIDE DEF k
  <2>2. CASE pat' \in {"crashed", "failed"}
    <3>1. todo' = <<>> /\ UNCHANGED <<stage, seen>>
      BY <1>9, <2>0, <2>2, VisitFacts DEF Visited
    <3> QED
      BY <2>2, <3>1 DEF StageInv, Under, Visited
  <2>3. CASE stage' = [stage EXCEPT ![k] = P!NoSlot] /\ todo' = Tail(todo)
          /\ UNCHANGED <<pat, seen>>
    <3>1. stage'[k] = P!NoSlot /\ \A j \in {1, 2} : j # k => stage'[j] = stage[j]
      BY <2>0, <2>3 DEF Stages
    <3>2. (NewDue' <=> NewDue /\ k # 1) /\ (OldDue' <=> OldDue /\ k # 2) /\ todo' # <<1, 2>>
      BY <2>0, <2>1, <2>3 DEF NewDue, OldDue
    <3>3. \A j \in {1, 2} : Under(j)' <=> Under(j) /\ j # k
      BY <2>0, <3>1 DEF Under
    <3> QED
      BY <2>0, <2>3, <3>1, <3>2, <3>3 DEF StageInv, Visited, Fresh
  <2>4. CASE stage[k] \notin seen /\ seen' = seen \cup {stage[k]} /\ todo' = Tail(todo)
          /\ UNCHANGED <<pat, stage>>
    <3>1. k = 1
      BY <2>0, <2>1, <2>4 DEF StageInv
    <3>2. ~NewDue' /\ (OldDue' <=> OldDue) /\ todo' # <<1, 2>>
      BY <2>1, <2>4, <3>1 DEF NewDue, OldDue
    <3>3. \A j \in {1, 2} : Under(j)' <=> Under(j)
      BY <2>4 DEF Under
    <3> QED
      BY <2>0, <2>4, <3>1, <3>2, <3>3 DEF StageInv, Visited, Fresh
  <2> QED
    BY <1>9, <2>2, <2>3, <2>4, VisitFacts DEF k
<1>10. ASSUME P!Top, setup' = setup PROVE StageInv'
  <2>1. /\ stage' = stage /\ slot' = slot
        /\ \/ pat' = "begin" /\ todo' = <<>>
           \/ /\ pat' \in {"tail", "try"}
              /\ (NewDue' <=> stage[1] # P!NoSlot) /\ (OldDue' <=> stage[2] # P!NoSlot)
              /\ todo' = <<1, 2>> => P!Bucket(stage[1]) # P!Bucket(stage[2])
    BY <1>10, TopFacts
  <2>2. ~Under(2) \/ stage[2] \in seen'
    BY <1>10, TopFacts DEF StageInv
  <2>3. \A k \in {1, 2} : Under(k)' <=> stage[k] # P!NoSlot
    BY <2>1 DEF Under
  <2>4. stage[1] # P!NoSlot /\ stage[2] # P!NoSlot /\ P!Bucket(stage[1]) # P!Bucket(stage[2])
          => P!Bucket(stage[1])' # P!Bucket(stage[2])'
    BY <2>1 DEF P!Bucket
  <2>5. todo' = <<1, 2>> => NewDue' /\ OldDue'
    BY DEF NewDue, OldDue
  <2> QED
    BY <2>1, <2>2, <2>3, <2>4, <2>5 DEF StageInv, Fresh, Visited, Under
<1>11. ASSUME P!TailShift, setup' = setup PROVE StageInv'
  <2>1. ~Under(2) /\ (Under(1) => stage[1] \in seen)
    BY <1>11, TailShiftFacts, RestFacts DEF Visited
  <2>2. stage'[1] = P!NoSlot /\ stage'[2] = stage[1]
    <3>1. P!NoSlot \in P!Slots \cup {P!NoSlot}
      BY Zenon
    <3> QED
      BY <1>11, <3>1, TailShiftFacts, ShiftedFacts
  <2>3. /\ pat' \in {"tail_end", "try"} /\ seen' = seen /\ slot' = slot
        /\ (NewDue' <=> stage'[1] # P!NoSlot) /\ (OldDue' <=> stage'[2] # P!NoSlot)
        /\ todo' = <<1, 2>> => P!Bucket(stage'[1]) # P!Bucket(stage'[2])
    BY <1>11, TailShiftFacts
  <2>4. todo' = <<1, 2>> => P!Bucket(stage[1])' # P!Bucket(stage[2])'
    BY <2>3 DEF P!Bucket
  <2> QED
    BY <2>1, <2>2, <2>3, <2>4 DEF StageInv, Fresh, Visited, Under
<1>12. ASSUME P!TailEnd, setup' = setup PROVE StageInv'
  <2>1. stage' = P!Empty /\ todo' = <<>> /\ pat' \in {"ended", "top"}
    BY <1>12, TailEndFacts
  <2> QED
    BY <2>1, EmptyFacts DEF StageInv, Under, Visited
<1>13. ASSUME P!Begin, setup' = setup PROVE StageInv'
  <2>1. /\ stage' = stage /\ slot' = slot
        /\ \/ pat' = "loop" /\ todo' = <<>>
           \/ /\ pat' \in {"carry", "try"}
              /\ (NewDue' <=> stage[1] # P!NoSlot) /\ (OldDue' <=> stage[2] # P!NoSlot)
              /\ todo' = <<1, 2>> => P!Bucket(stage[1]) # P!Bucket(stage[2])
    BY <1>13, BeginFacts
  <2>2. ~Under(2) \/ stage[2] \in seen'
    BY <1>13, BeginFacts DEF StageInv
  <2>3. \A k \in {1, 2} : Under(k)' <=> stage[k] # P!NoSlot
    BY <2>1 DEF Under
  <2>4. stage[1] # P!NoSlot /\ stage[2] # P!NoSlot /\ P!Bucket(stage[1]) # P!Bucket(stage[2])
          => P!Bucket(stage[1])' # P!Bucket(stage[2])'
    BY <2>1 DEF P!Bucket
  <2>5. todo' = <<1, 2>> => NewDue' /\ OldDue'
    BY DEF NewDue, OldDue
  <2> QED
    BY <2>1, <2>2, <2>3, <2>4, <2>5 DEF StageInv, Fresh, Visited, Under
<1>14. ASSUME P!Carry, setup' = setup PROVE StageInv'
  <2>1. ~Under(2) /\ (Under(1) => stage[1] \in seen)
    BY <1>14, CarryFacts, RestFacts DEF Visited
  <2>2. stage'[1] = P!Entry(1) /\ stage'[2] = stage[1]
    <3>1. P!Entry(1) \in P!Slots \cup {P!NoSlot}
      BY EntryFacts
    <3> QED
      BY <1>14, <3>1, CarryFacts, ShiftedFacts
  <2>3. /\ pat' \in {"carried", "try"} /\ seen' = seen /\ slot' = slot
        /\ (NewDue' <=> stage'[1] # P!NoSlot) /\ (OldDue' <=> stage'[2] # P!NoSlot)
        /\ todo' = <<1, 2>> => P!Bucket(stage'[1]) # P!Bucket(stage'[2])
    BY <1>14, CarryFacts
  <2>4. todo' = <<1, 2>> => P!Bucket(stage[1])' # P!Bucket(stage[2])'
    BY <2>3 DEF P!Bucket
  <2> QED
    BY <2>1, <2>2, <2>3, <2>4 DEF StageInv, Fresh, Visited, Under
<1>15. ASSUME P!Carried, setup' = setup PROVE StageInv'
  <2>1. ~Under(2) /\ (Under(1) => stage[1] \in seen)
    BY <1>15, CarriedFacts, RestFacts DEF Visited
  <2>2. stage'[2] = stage[1]
    BY <1>15, CarriedFacts DEF P!Shifted
  <2>3. pat' \in {"loop", "single"} /\ seen' = seen /\ todo' = <<>>
    BY <1>15, CarriedFacts
  <2> QED
    BY <2>1, <2>2, <2>3 DEF StageInv, Fresh, Visited, Under
<1>16. ASSUME P!Loop, setup' = setup PROVE StageInv'
  <2>1. /\ stage' = stage /\ slot' = slot
        /\ \/ FALSE
           \/ /\ pat' \in {"shift", "try"}
              /\ (NewDue' <=> stage[1] # P!NoSlot) /\ (OldDue' <=> stage[2] # P!NoSlot)
              /\ todo' = <<1, 2>> => P!Bucket(stage[1]) # P!Bucket(stage[2])
    BY <1>16, LoopFacts
  <2>2. ~Under(2) \/ stage[2] \in seen'
    BY <1>16, LoopFacts DEF StageInv
  <2>3. \A k \in {1, 2} : Under(k)' <=> stage[k] # P!NoSlot
    BY <2>1 DEF Under
  <2>4. stage[1] # P!NoSlot /\ stage[2] # P!NoSlot /\ P!Bucket(stage[1]) # P!Bucket(stage[2])
          => P!Bucket(stage[1])' # P!Bucket(stage[2])'
    BY <2>1 DEF P!Bucket
  <2>5. todo' = <<1, 2>> => NewDue' /\ OldDue'
    BY DEF NewDue, OldDue
  <2> QED
    BY <2>1, <2>2, <2>3, <2>4, <2>5 DEF StageInv, Fresh, Visited, Under
<1>17. ASSUME P!Shift, setup' = setup PROVE StageInv'
  <2>1. ~Under(2) /\ (Under(1) => stage[1] \in seen)
    BY <1>17, ShiftFacts, RestFacts DEF Visited
  <2>2. stage'[2] = stage[1]
    BY <1>17, ShiftFacts DEF P!Shifted
  <2>3. pat' \in {"loop", "single"} /\ seen' = seen /\ todo' = <<>>
    BY <1>17, ShiftFacts
  <2> QED
    BY <2>1, <2>2, <2>3 DEF StageInv, Fresh, Visited, Under
<1>18. ASSUME P!LoopEnds, setup' = setup PROVE StageInv'
  <2>1. /\ stage' = stage /\ slot' = slot
        /\ \/ pat' = "top" /\ todo' = <<>>
           \/ /\ pat' \in {"tail", "try"}
              /\ (NewDue' <=> stage[1] # P!NoSlot) /\ (OldDue' <=> stage[2] # P!NoSlot)
              /\ todo' = <<1, 2>> => P!Bucket(stage[1]) # P!Bucket(stage[2])
    BY <1>18, LoopEndsFacts
  <2>2. ~Under(2) \/ stage[2] \in seen'
    BY <1>18, LoopEndsFacts DEF StageInv
  <2>3. \A k \in {1, 2} : Under(k)' <=> stage[k] # P!NoSlot
    BY <2>1 DEF Under
  <2>4. stage[1] # P!NoSlot /\ stage[2] # P!NoSlot /\ P!Bucket(stage[1]) # P!Bucket(stage[2])
          => P!Bucket(stage[1])' # P!Bucket(stage[2])'
    BY <2>1 DEF P!Bucket
  <2>5. todo' = <<1, 2>> => NewDue' /\ OldDue'
    BY DEF NewDue, OldDue
  <2> QED
    BY <2>1, <2>2, <2>3, <2>4, <2>5 DEF StageInv, Fresh, Visited, Under
<1>19. ASSUME P!SingleGet, setup' = setup PROVE StageInv'
  <2>1. /\ stage' = stage
        /\ \/ FALSE
           \/ /\ pat' \in {"single_shift", "try"}
              /\ (NewDue' <=> stage[1] # P!NoSlot) /\ (OldDue' <=> stage[2] # P!NoSlot)
              /\ todo' = <<1, 2>> => P!Bucket(stage[1]) # P!Bucket(stage[2])
    BY <1>19, SingleGetFacts
  <2>2. ~Under(2) \/ stage[2] \in seen'
    BY <1>19, FillsElse DEF StageInv
  <2>3. \A k \in {1, 2} : Under(k)' <=> stage[k] # P!NoSlot
    BY <2>1 DEF Under
  <2>4. stage[1] # P!NoSlot /\ stage[2] # P!NoSlot /\ P!Bucket(stage[1]) # P!Bucket(stage[2])
          => P!Bucket(stage[1])' # P!Bucket(stage[2])'
    BY <1>19, <2>1, FillsElse DEF P!Bucket, Under
  <2>5. todo' = <<1, 2>> => NewDue' /\ OldDue'
    BY DEF NewDue, OldDue
  <2> QED
    BY <2>1, <2>2, <2>3, <2>4, <2>5 DEF StageInv, Fresh, Visited, Under
<1>20. ASSUME P!SingleShift, setup' = setup PROVE StageInv'
  <2>1. ~Under(2) /\ (Under(1) => stage[1] \in seen)
    BY <1>20, SingleShiftFacts, RestFacts DEF Visited
  <2>2. stage'[2] = stage[1]
    BY <1>20, SingleShiftFacts DEF P!Shifted
  <2>3. pat' \in {"loop", "single"} /\ seen' = seen /\ todo' = <<>>
    BY <1>20, SingleShiftFacts
  <2> QED
    BY <2>1, <2>2, <2>3 DEF StageInv, Fresh, Visited, Under
<1>21. ASSUME P!SingleEnds, setup' = setup PROVE StageInv'
  <2>1. /\ stage' = stage /\ slot' = slot
        /\ \/ FALSE
           \/ /\ pat' \in {"tail", "try"}
              /\ (NewDue' <=> stage[1] # P!NoSlot) /\ (OldDue' <=> stage[2] # P!NoSlot)
              /\ todo' = <<1, 2>> => P!Bucket(stage[1]) # P!Bucket(stage[2])
    BY <1>21, SingleEndsFacts
  <2>2. ~Under(2) \/ stage[2] \in seen'
    BY <1>21, SingleEndsFacts DEF StageInv
  <2>3. \A k \in {1, 2} : Under(k)' <=> stage[k] # P!NoSlot
    BY <2>1 DEF Under
  <2>4. stage[1] # P!NoSlot /\ stage[2] # P!NoSlot /\ P!Bucket(stage[1]) # P!Bucket(stage[2])
          => P!Bucket(stage[1])' # P!Bucket(stage[2])'
    BY <2>1 DEF P!Bucket
  <2>5. todo' = <<1, 2>> => NewDue' /\ OldDue'
    BY DEF NewDue, OldDue
  <2> QED
    BY <2>1, <2>2, <2>3, <2>4, <2>5 DEF StageInv, Fresh, Visited, Under
<1>22. CASE UNCHANGED P!vars
  BY <1>22 DEF P!vars, P!caller, P!visits, P!outcome, StageInv, Under, NewDue, OldDue, P!Bucket
<1> QED
  BY <1>1, <1>2, <1>3, <1>4, <1>5, <1>6, <1>7, <1>8, <1>9, <1>10, <1>11, <1>12, <1>13, <1>14,
     <1>15, <1>16, <1>17, <1>18, <1>19, <1>20, <1>21, <1>22 DEF P!Next, P!Caller, P!Worker

\* How far a chain is behind another one.
LEMMA DistFacts ==
  ASSUME NEW a \in 1 .. Chains, NEW c \in 1 .. Chains
  PROVE  /\ Dist(a, c) \in 0 .. Chains - 1 /\ (Dist(a, c) = 0 <=> c = a)
         /\ Dist(a, P!After(c)) = IF P!After(c) = a THEN 0 ELSE Dist(a, c) + 1
         /\ P!After(c) = a <=> Dist(a, c) = Chains - 1
         /\ Dist(P!After(a), c) = IF c = a THEN Chains - 1 ELSE Dist(a, c) - 1
         /\ \A d \in 1 .. Chains : Dist(a, c) = Dist(a, d) => c = d
<1>1. /\ P!After(c) = IF c = Chains THEN 1 ELSE c + 1
      /\ P!After(a) = IF a = Chains THEN 1 ELSE a + 1
  BY AfterFacts
<1>2. Chains \in Nat /\ Chains >= 2 /\ a \in Nat /\ c \in Nat /\ a >= 1 /\ c >= 1 /\ a <= Chains
        /\ c <= Chains
  BY PipeSizes
<1>3. Dist(a, c) \in 0 .. Chains - 1 /\ (Dist(a, c) = 0 <=> c = a)
  BY <1>2 DEF Dist
<1>4. Dist(a, P!After(c)) = IF P!After(c) = a THEN 0 ELSE Dist(a, c) + 1
  BY <1>1, <1>2 DEF Dist
<1>5. P!After(c) = a <=> Dist(a, c) = Chains - 1
  BY <1>1, <1>2 DEF Dist
<1>6. Dist(P!After(a), c) = IF c = a THEN Chains - 1 ELSE Dist(a, c) - 1
  BY <1>1, <1>2 DEF Dist
<1>7. \A d \in 1 .. Chains : Dist(a, c) = Dist(a, d) => c = d
  BY <1>2 DEF Dist
<1> QED
  BY <1>3, <1>4, <1>5, <1>6, <1>7

\* The oldest chain and what the caller has given to the thread.
LEMMA OldestFacts ==
  ASSUME PipeTypes
  PROVE  /\ OldestChain \in 1 .. Chains /\ (~Held => OldestChain = wchain)
              /\ (Held => OldestChain = need)
         /\ \A c \in 1 .. Chains : Off(c) \in 0 .. Chains - 1
              /\ (Off(c) = 0 <=> c = OldestChain)
         /\ Number \in 0 .. Chains
<1>1. OldestChain \in 1 .. Chains /\ (~Held => OldestChain = wchain)
        /\ (Held => OldestChain = need)
  BY PipeSizes DEF OldestChain, Held, PipeTypes, P!NoChain
<1>2. \A c \in 1 .. Chains : Off(c) \in 0 .. Chains - 1 /\ (Off(c) = 0 <=> c = OldestChain)
  BY <1>1, DistFacts DEF Off
<1>3. Number \in 0 .. Chains
  <2>1. Off(fchain) \in 0 .. Chains - 1
    BY <1>2 DEF PipeTypes
  <2> QED
    BY <2>1, PipeSizes DEF Number
<1> QED
  BY <1>1, <1>2, <1>3

LEMMA HiNat ==
  ASSUME PipeTypes
  PROVE  Hi \in Nat /\ Len(done) \in Nat /\ next \in Nat /\ Items \in Nat /\ next <= Items + 1
         /\ \A k \in {1, 2} : Under(k) => Item(k) \in 0 .. Items /\ stage[k] \in P!Slots
<1>1. Len(done) \in Nat
  BY DEF PipeTypes
<1>2. Hi \in Nat
  <2>1. (IF Under(1) THEN 1 ELSE 0) \in Nat /\ (IF Under(2) THEN 1 ELSE 0) \in Nat
    OBVIOUS
  <2>2. \A a, b, c \in Nat : a + b + c \in Nat
    OBVIOUS
  <2> QED
    BY <1>1, <2>1, <2>2, Zenon DEF Hi
<1>3. \A k \in {1, 2} : Under(k) => stage[k] \in P!Slots
  BY DEF PipeTypes, Stages, Under
<1> QED
  BY <1>1, <1>2, <1>3, PipeSizes DEF PipeTypes, Item

\* A step that leaves the entries under way as they are.
LEMMA ItemsFrame ==
  ASSUME PipeTypes, ItemsInv, UNCHANGED <<stage, done>>, next' \in Nat, next' >= next,
         \A k \in {1, 2} : Under(k) => slot'[stage[k]] = slot[stage[k]],
         pat' = "ended" => Hi = Items
  PROVE  ItemsInv' /\ Hi' = Hi
<1>1. \A k \in {1, 2} : (Under(k)' <=> Under(k)) /\ (Under(k) => Item(k)' = Item(k))
  BY DEF Under, Item
<1>2. Hi' = Hi /\ Hi \in Nat /\ next \in Nat
  BY <1>1, HiNat DEF Hi
<1> QED
  BY <1>1, <1>2 DEF ItemsInv

\* A step of the stage: an item comes in that is the next one.
LEMMA ItemsShift ==
  ASSUME PipeTypes, ItemsInv, NEW s \in P!Slots \cup {P!NoSlot}, stage' = P!Shifted(s),
           UNCHANGED <<slot, done, next>>,
         ~Under(2), pat' # "ended", s # P!NoSlot => slot[s] = Hi + 1 /\ Hi + 1 < next
  PROVE  ItemsInv' /\ Hi' = Hi + (IF s = P!NoSlot THEN 0 ELSE 1)
<1>1. stage'[1] = s /\ stage'[2] = stage[1]
  BY ShiftedFacts
<1>2. (Under(1)' <=> s # P!NoSlot) /\ (Under(2)' <=> Under(1))
  BY <1>1 DEF Under
<1>3. Hi \in Nat /\ Len(done) \in Nat /\ next \in Nat
  BY HiNat
<1>4. Hi' = Hi + (IF s = P!NoSlot THEN 0 ELSE 1)
  <2>1. Hi' = Len(done) + (IF s # P!NoSlot THEN 1 ELSE 0) + (IF Under(1) THEN 1 ELSE 0)
    BY <1>2 DEF Hi
  <2>2. Hi = Len(done) + (IF Under(1) THEN 1 ELSE 0)
    BY <1>3 DEF Hi, Under
  <2>3. CASE Under(1)
    BY <1>3, <2>1, <2>2, <2>3
  <2>4. CASE ~Under(1)
    BY <1>3, <2>1, <2>2, <2>4
  <2> QED
    BY <2>3, <2>4
<1>5. (s # P!NoSlot => Item(1)' = Hi + 1) /\ (Under(1) => Item(2)' = Hi /\ Item(2)' >= 1)
  BY <1>1 DEF Item, ItemsInv
<1> HIDE DEF Hi, Item, Under
<1>6. Hi < next
  BY DEF ItemsInv
<1> QED
  BY <1>2, <1>3, <1>4, <1>5, <1>6 DEF ItemsInv

\* What has been done, while the stage stays or moves on.
LEMMA DoneFrame ==
  ASSUME PipeTypes, DoneInv, UNCHANGED <<stage, done>>,
         \A k \in {1, 2} : Under(k) => slot'[stage[k]] = slot[stage[k]]
  PROVE  DoneInv'
<1>1. \A k \in {1, 2} : (Under(k)' <=> Under(k)) /\ (Under(k) => Item(k)' = Item(k))
  BY DEF Under, Item
<1>2. Hi' = Hi /\ P!DoneItems' = P!DoneItems /\ P!InOrder' /\ done' = done
  BY <1>1 DEF Hi, P!DoneItems, P!InOrder, DoneInv
<1>3. \A x \in 1 .. Items : IsDone(x)' <=> IsDone(x)
  BY DEF IsDone
<1> QED
  BY <1>1, <1>2, <1>3 DEF DoneInv

LEMMA DoneShift ==
  ASSUME PipeTypes, ItemsInv, DoneInv, NEW s \in P!Slots \cup {P!NoSlot}, stage' = P!Shifted(s),
           UNCHANGED <<slot, done, next>>,
         ~Under(2), pat' # "ended", s # P!NoSlot => slot[s] = Hi + 1 /\ Hi + 1 < next
  PROVE  DoneInv'
<1>1. stage'[1] = s /\ stage'[2] = stage[1]
  BY ShiftedFacts
<1>2. (Under(1)' <=> s # P!NoSlot) /\ (Under(2)' <=> Under(1)) /\ Item(2)' = Item(1)
        /\ (s # P!NoSlot => Item(1)' = Hi + 1)
  BY <1>1 DEF Under, Item
<1>3. Hi' = (Hi + (IF s = P!NoSlot THEN 0 ELSE 1)) /\ Hi \in Nat
  BY ItemsShift, HiNat
<1>4. P!DoneItems' = P!DoneItems /\ P!InOrder' /\ done' = done
  BY DEF P!DoneItems, P!InOrder, DoneInv
<1>5. \A x \in 1 .. Items : IsDone(x)' <=> IsDone(x)
  BY DEF IsDone
<1>6. \A x \in 1 .. Items : IsDone(x) <=> x <= Hi /\ (Under(1) => x # Item(1))
  BY DEF DoneInv
<1>7. \A x \in 1 .. Items : x <= Hi <=> x <= Hi' /\ (Under(1)' => x # Item(1)')
  BY <1>2, <1>3
<1>8. \A x \in 1 .. Items : IsDone(x)' <=> x <= Hi' /\ (Under(1)' => x # Item(1)')
        /\ (Under(2)' => x # Item(2)')
  BY <1>2, <1>5, <1>6, <1>7
<1> QED
  BY <1>4, <1>8 DEF DoneInv

\* A visit is the last one of its item.
LEMMA DoneFinish ==
  ASSUME PipeTypes, ItemsInv, DoneInv, NEW k \in {1, 2}, Under(k),
           done' = Append(done, Item(k)),
         stage'[k] = P!NoSlot, slot' = slot, \A j \in {1, 2} : j # k => stage'[j] = stage[j],
         k = 1 /\ Under(2) => BucketOf[Hi] # BucketOf[Hi - 1], Hi' = Hi
  PROVE  DoneInv'
<1> DEFINE x0 == Item(k)
<1>0. x0 \in 1 .. Items /\ Hi \in Nat /\ Hi <= Items /\ Items \in Nat
        /\ done \in Seq(1 .. Items) /\ Len(done) \in Nat
  BY HiNat DEF ItemsInv, PipeTypes
<1>1. \A j \in {1, 2} : (Under(j)' <=> Under(j) /\ j # k) /\ (j # k => Item(j)' = Item(j))
  BY DEF Under, Item
<1>2. /\ Len(done') = Len(done) + 1 /\ done'[Len(done) + 1] = x0
      /\ \A i \in 1 .. Len(done) : done'[i] = done[i] /\ done[i] \in 1 .. Items
  <2>1. Append(done, x0) \in Seq(1 .. Items) /\ Len(Append(done, x0)) = Len(done) + 1
    BY <1>0, AppendProperties
  <2>2. /\ \A i \in 1 .. Len(done) : Append(done, x0)[i] = done[i]
        /\ Append(done, x0)[Len(done) + 1] = x0
    BY <1>0, AppendProperties
  <2>3. \A i \in 1 .. Len(done) : done[i] \in 1 .. Items
    BY <1>0, ElementOfSeq
  <2> QED
    BY <2>1, <2>2, <2>3
<1> HIDE DEF x0
<1>3. \A x \in 1 .. Items : IsDone(x)' <=> IsDone(x) \/ x = x0
  <2> TAKE x \in 1 .. Items
  <2>1. IsDone(x)' <=> \E i \in 1 .. Len(done) + 1 : done'[i] = x
    BY <1>2 DEF IsDone
  <2>2. (\E i \in 1 .. Len(done) + 1 : done'[i] = x) <=> (\E i \in 1 .. Len(done) : done'[i] = x) \/ done'[Len(done) + 1] = x
    <3>1. \A i : i \in 1 .. Len(done) + 1 <=> i \in 1 .. Len(done) \/ i = Len(done) + 1
      BY <1>0
    <3> QED
      BY <3>1, Zenon
  <2> QED
    BY <1>2, <2>1, <2>2 DEF IsDone
<1>4. \A x \in 1 .. Items : IsDone(x) <=> x <= Hi /\ (Under(1) => x # Item(1))
        /\ (Under(2) => x # Item(2))
  BY DEF DoneInv
<1>5. /\ x0 <= Hi /\ ~IsDone(x0)
      /\ k = 1 => x0 = Hi /\ (Under(2) => Item(2) = Hi - 1)
      /\ k = 2 => \/ x0 = Hi /\ ~Under(1)
                  \/ x0 = Hi - 1 /\ Under(1) /\ Item(1) = Hi
                  \/ x0 = Hi - 1 /\ ~Under(1) /\ BucketOf[Hi] # BucketOf[Hi - 1]
  <2>1. CASE k = 1
    <3>1. x0 = Item(1) /\ Under(1)
      BY <2>1 DEF x0
    <3>2. x0 = Hi /\ (Under(2) => Item(2) = Hi - 1)
      BY <3>1 DEF ItemsInv
    <3>3. ~IsDone(x0)
      BY <1>0, <1>4, <3>1
    <3> QED
      BY <1>0, <2>1, <3>2, <3>3
  <2>2. CASE k = 2
    <3>1. x0 = Item(2) /\ Under(2)
      BY <2>2 DEF x0
    <3>2. \/ x0 = Hi /\ ~Under(1)
          \/ x0 = Hi - 1 /\ Under(1) /\ Item(1) = Hi
          \/ x0 = Hi - 1 /\ ~Under(1) /\ BucketOf[Hi] # BucketOf[Hi - 1]
      BY <3>1 DEF ItemsInv
    <3>3. ~IsDone(x0)
      BY <1>0, <1>4, <3>1
    <3>4. x0 = Hi \/ x0 = Hi - 1
      BY <3>2
    <3>5. x0 <= Hi
      BY <1>0, <3>4
    <3>6. k # 1
      BY <2>2
    <3> QED
      BY <2>2, <3>2, <3>3, <3>5, <3>6, Zenon
  <2> QED
    BY <2>1, <2>2
<1>6. \A x \in 1 .. Items : IsDone(x)' <=> x <= Hi' /\ (Under(1)' => x # Item(1)')
        /\ (Under(2)' => x # Item(2)')
  <2>1. CASE k = 1
    <3>1. ~Under(1)' /\ (Under(2)' <=> Under(2)) /\ Item(2)' = Item(2) /\ x0 = Item(1)
            /\ Under(1)
      BY <1>1, <2>1 DEF x0
    <3>2. \A x \in 1 .. Items : IsDone(x) \/ x = x0 <=> x <= Hi /\ (Under(2) => x # Item(2))
      BY <1>0, <1>4, <1>5, <2>1, <3>1
    <3> QED
      BY <1>3, <3>1, <3>2
  <2>2. CASE k = 2
    <3>1. ~Under(2)' /\ (Under(1)' <=> Under(1)) /\ Item(1)' = Item(1) /\ x0 = Item(2)
            /\ Under(2)
      BY <1>1, <2>2 DEF x0
    <3>2. \A x \in 1 .. Items : IsDone(x) \/ x = x0 <=> x <= Hi /\ (Under(1) => x # Item(1))
      BY <1>0, <1>4, <1>5, <2>2, <3>1
    <3> QED
      BY <1>3, <3>1, <3>2
  <2> QED
    BY <2>1, <2>2
<1>7. P!DoneItems' = P!DoneItems \cup {x0} /\ x0 \notin P!DoneItems
  <2>1. P!DoneItems' = {done'[i] : i \in 1 .. Len(done) + 1}
    BY <1>2 DEF P!DoneItems
  <2>2. {done'[i] : i \in 1 .. Len(done) + 1} = {done'[i] : i \in 1 .. Len(done)} \cup {done'[Len(done) + 1]}
    BY <1>0
  <2>3. {done'[i] : i \in 1 .. Len(done)} = P!DoneItems
    BY <1>2 DEF P!DoneItems
  <2>4. x0 \notin P!DoneItems
    BY <1>5 DEF P!DoneItems, IsDone
  <2> QED
    BY <1>2, <2>1, <2>2, <2>3, <2>4
<1>8. IsFiniteSet(P!DoneItems)' /\ Len(done') = Cardinality(P!DoneItems')
  <2>1. IsFiniteSet(P!DoneItems) /\ Len(done) = Cardinality(P!DoneItems)
    BY DEF DoneInv
  <2>2. IsFiniteSet(P!DoneItems \cup {x0})
          /\ Cardinality(P!DoneItems \cup {x0}) = Cardinality(P!DoneItems) + 1
    BY <1>7, <2>1, FS_AddElement
  <2> QED
    BY <1>2, <1>7, <2>1, <2>2
<1>9. P!InOrder'
  <2> SUFFICES ASSUME NEW i \in 1 .. Len(done'), NEW j \in 1 .. Len(done'), i < j,
        BucketOf[done'[i]] = BucketOf[done'[j]]
               PROVE  done'[i] < done'[j]
    BY DEF P!InOrder
  <2>1. CASE j \in 1 .. Len(done)
    <3>1. i \in 1 .. Len(done) /\ done'[i] = done[i] /\ done'[j] = done[j]
      BY <1>0, <1>2, <2>1
    <3> QED
      BY <2>1, <3>1 DEF DoneInv, P!InOrder
  <2>2. CASE j = Len(done) + 1
    <3> DEFINE y == done[i]
    <3>1. i \in 1 .. Len(done) /\ done'[i] = y /\ y \in 1 .. Items /\ done'[j] = x0 /\ IsDone(y)
      BY <1>0, <1>2, <2>2 DEF IsDone
    <3> HIDE DEF y
    <3>2. y <= Hi /\ (Under(1) => y # Item(1)) /\ (Under(2) => y # Item(2)) /\ y # x0
      BY <1>4, <1>5, <3>1
    <3>3. BucketOf[y] = BucketOf[x0]
      BY <3>1
    <3>4. x0 = Hi \/ (x0 = Hi - 1 /\ y # Hi)
      <4>1. CASE k = 1
        BY <1>5, <4>1
      <4>2. CASE k = 2
        BY <1>5, <3>2, <3>3, <4>2
      <4> QED
        BY <4>1, <4>2
    <3>5. y < x0
      BY <1>0, <3>1, <3>2, <3>4
    <3> QED
      BY <3>1, <3>5
  <2> QED
    BY <1>0, <1>2, <2>1, <2>2
<1> QED
  BY <1>6, <1>8, <1>9 DEF DoneInv

LEMMA WorkFacts ==
  ASSUME PipeTypes, PlaceInv, RingInv, ChainsInv, pat \in Working, count[wchain] # 0
  PROVE  /\ setup.multicore /\ pat \notin Stuck /\ ~Closes(wchain) /\ Ahead(wchain)
              /\ pstate[wchain] = 1
         /\ count[wchain] \in 1 .. ChainSize /\ Base \in Int
         /\ \A i \in 1 .. count[wchain] : slot[<<wchain, i>>] = Base + i
         /\ Base + 1 + count[wchain] <= next
<1>1. setup.multicore /\ pat \notin Stuck \cup {"off"} /\ wchain \in 1 .. Chains
  BY DEF PlaceInv, SidesInv, Stuck, Working, PipeTypes
<1>2. pstate[wchain] = 1
  BY <1>1 DEF RingInv, RingChains, RingPlaces
<1>3. ~Closes(wchain)
  BY <1>1, <1>2 DEF ChainsInv, Counts, Runs, Front, Filling
<1>4. ~(Held /\ wchain = need)
  <2>1. Held => wchain = P!After(need) /\ need \in 1 .. Chains
    BY <1>1, PipeSizes DEF RingInv, RingChains, RingPlaces, PipeTypes, Held, P!NoChain
  <2> QED
    BY <2>1, AfterFacts
<1>5. Ahead(wchain)
  BY <1>2, <1>3, <1>4 DEF Ahead
<1>6. /\ slot[<<wchain, 1>>] + count[wchain] <= next
      /\ \A i \in 1 .. count[wchain] : slot[<<wchain, i>>] = slot[<<wchain, 1>>] + i - 1
  BY <1>1, <1>5 DEF ChainsInv, Counts, Runs, Front, Filling
<1>7. slot[<<wchain, 1>>] = Base + 1
  BY <1>1, <1>2, <1>3 DEF ChainsInv, Counts, Runs, Front, Filling
<1>8. count[wchain] \in 1 .. ChainSize /\ next \in Nat
  BY <1>1, PipeSizes DEF PipeTypes
<1>9. Base \in Int
  <2>1. Staged \in Nat
    BY <1>8, PipeSizes DEF Staged, Least, PipeTypes
  <2>2. Hi \in Nat
    BY HiNat
  <2> QED
    BY <2>1, <2>2 DEF Base
<1> QED
  BY <1>1, <1>2, <1>3, <1>5, <1>6, <1>7, <1>8, <1>9

\* The chain that closes the work is the last one.
LEMMA ClosingFacts ==
  ASSUME PipeTypes, PlaceInv, RingInv, ChainsInv, setup.multicore, pat = "tail_end",
           count[need] = 0
  PROVE  Hi = Items
<1>1. Held /\ need \in 1 .. Chains /\ wchain = P!After(need) /\ pstate[need] = 1
        /\ pat \notin Stuck \cup {"off"}
  BY HeldFacts
<1>2. Closes(need) /\ need = fchain
  BY <1>1 DEF ChainsInv, Counts, Runs, Front, Filling, Closes
<1>3. fat = "join" /\ next > Items
  BY <1>1, <1>2 DEF RingInv, RingChains, RingPlaces, Closes
<1>4. wchain # need /\ wchain \in 1 .. Chains
  BY <1>1, AfterFacts
<1>5. Number = 1 /\ Off(wchain) # 0 /\ Off(wchain) \in Nat
  <2>1. Off(fchain) = 0
    BY <1>1, <1>2, OldestFacts
  <2>2. Number = 1
    BY <1>2, <2>1 DEF Number
  <2> QED
    BY <1>1, <1>4, <2>2, OldestFacts
<1>6. pstate[wchain] # 1
  BY <1>1, <1>4, <1>5 DEF RingInv, RingChains, RingPlaces
<1>7. Base + Filled + 1 = next
  BY <1>1, <1>6 DEF ChainsInv, Counts, Runs, Front, Filling
<1>8. Base = Hi /\ Filled = 0
  BY <1>3, HiNat DEF Base, Staged, Filled
<1> QED
  BY <1>3, <1>7, <1>8, HiNat

\* A visit changes nothing in how far the items have come.
LEMMA VisitHi ==
  ASSUME PipeTypes, PlaceInv, StageInv, ItemsInv, RingInv, P!Visit
  PROVE  Hi' = Hi
<1> DEFINE k == Head(todo)
<1>0. k \in {1, 2} /\ pat \in Visited
        /\ todo # <<>> /\ UNCHANGED <<slot, next>> /\ stage \in Stages
        /\ done \in Seq(1 .. Items)
  BY VisitFacts DEF PipeTypes
<1>1. Under(k) /\ stage[k] \in P!Slots
  BY <1>0, DueFacts
<1> HIDE DEF k
<1>2. CASE UNCHANGED <<stage, done>>
  BY <1>2 DEF Hi, Under
<1>3. CASE /\ done' = Append(done, slot[stage[k]]) /\ stage' = [stage EXCEPT ![k] = P!NoSlot]
  <2>1. stage'[k] = P!NoSlot /\ \A j \in {1, 2} : j # k => stage'[j] = stage[j]
    BY <1>0, <1>3 DEF Stages
  <2>2. \A j \in {1, 2} : Under(j)' <=> Under(j) /\ j # k
    BY <1>0, <2>1 DEF Under
<2>3. Len(done') = Len(done) + 1
  <3>1. slot[stage[k]] \in 1 .. Items
    BY <1>0, <1>1, HiNat DEF ItemsInv, Item
  <3> QED
    BY <1>0, <1>3, <3>1, AppendProperties
<2>4. Hi' = Hi /\ Hi \in Nat
  <3>1. Len(done) \in Nat /\ Len(done') = Len(done) + 1 /\ Hi \in Nat
    BY <2>3, HiNat
  <3> QED
    <4>1. (Under(1) <=> stage[1] # P!NoSlot) /\ (Under(2) <=> stage[2] # P!NoSlot)
      BY DEF Under
    <4>2. CASE k = 1
      <5>1. Hi' = Len(done') + 0 + (IF Under(2) THEN 1 ELSE 0)
        BY <2>2, <4>2 DEF Hi
      <5>2. Hi = Len(done) + 1 + (IF Under(2) THEN 1 ELSE 0)
        BY <1>1, <4>2 DEF Hi
      <5> QED
        BY <3>1, <4>1, <5>1, <5>2
    <4>3. CASE k = 2
      <5>1. Hi' = Len(done') + (IF Under(1) THEN 1 ELSE 0) + 0
        BY <2>2, <4>3 DEF Hi
      <5>2. Hi = Len(done) + (IF Under(1) THEN 1 ELSE 0) + 1
        BY <1>1, <4>3 DEF Hi
      <5> QED
        BY <3>1, <4>1, <5>1, <5>2
    <4> QED
      BY <1>0, <4>2, <4>3
  <2> QED
    BY <2>4
<1> QED
  BY <1>2, <1>3, VisitFacts DEF k

\* A step that takes the next item in, or none.
LEMMA StepsIn ==
  ASSUME PipeTypes, PlaceInv, StageInv, ItemsInv, DoneInv, SingleInv, RingInv, ChainsInv,
           EntriesInv,
         P!TailShift \/ P!Carry \/ P!Carried \/ P!Shift \/ P!SingleShift
  PROVE  ItemsInv' /\ DoneInv' /\ Hi' = Hi + (IF stage'[1] = P!NoSlot THEN 0 ELSE 1)
<1>1. CASE P!TailShift
  <2>1. stage' = P!Shifted(P!NoSlot) /\ UNCHANGED <<slot, done, next>> /\ ~Under(2)
          /\ pat' # "ended"
    BY <1>1, TailShiftFacts, RestFacts DEF Visited
  <2>2. P!NoSlot \in P!Slots \cup {P!NoSlot}
    OBVIOUS
  <2>3. TRUE
    OBVIOUS
  <2> QED
    BY <2>1, <2>2, <2>3, ItemsShift, DoneShift, ShiftedFacts
<1>2. CASE P!Carry
  <2>1. stage' = P!Shifted(P!Entry(1)) /\ UNCHANGED <<slot, done, next>> /\ ~Under(2)
          /\ pat' # "ended"
    BY <1>2, CarryFacts, RestFacts DEF Visited
  <2>2. P!Entry(1) \in P!Slots \cup {P!NoSlot}
    BY EntryFacts
  <2>3. ASSUME P!Entry(1) # P!NoSlot PROVE slot[P!Entry(1)] = Hi + 1 /\ Hi + 1 < next
    <3>1. P!Entry(1) = <<wchain, 1>> /\ count[wchain] \in Nat /\ 1 <= count[wchain]
      BY <2>3, EntryFacts DEF PipeTypes
    <3>2. slot[<<wchain, 1>>] = Base + 1 /\ Base + 1 + count[wchain] <= next
      <4>1. pat \in Working /\ count[wchain] # 0
        BY <1>2, <3>1, CarryFacts DEF Working
      <4> QED
        BY <3>1, <4>1, WorkFacts
    <3>3. Base = Hi
      BY <1>2, CarryFacts, HiNat DEF Base, Staged
    <3> QED
      BY <3>1, <3>2, <3>3, HiNat
  <2> QED
    BY <2>1, <2>2, <2>3, ItemsShift, DoneShift, ShiftedFacts
<1>3. CASE P!Carried
  <2>1. stage' = P!Shifted(P!Entry(2)) /\ UNCHANGED <<slot, done, next>> /\ ~Under(2)
          /\ pat' # "ended"
    BY <1>3, CarriedFacts, RestFacts DEF Visited
  <2>2. P!Entry(2) \in P!Slots \cup {P!NoSlot}
    BY EntryFacts
  <2>3. ASSUME P!Entry(2) # P!NoSlot PROVE slot[P!Entry(2)] = Hi + 1 /\ Hi + 1 < next
    <3>1. P!Entry(2) = <<wchain, 2>> /\ count[wchain] \in Nat /\ 2 <= count[wchain]
      BY <2>3, EntryFacts DEF PipeTypes
    <3>2. slot[<<wchain, 2>>] = Base + 2 /\ Base + 1 + count[wchain] <= next
      <4>1. pat \in Working /\ count[wchain] # 0
        BY <1>3, <3>1, CarriedFacts DEF Working
      <4> QED
        BY <3>1, <4>1, WorkFacts
    <3>3. Base = Hi - 1
      BY <1>3, <3>1, CarriedFacts, HiNat DEF Base, Staged, Least
    <3>4. Hi \in Nat /\ next \in Nat
      BY HiNat
    <3>5. Base + 2 = Hi + 1 /\ Hi + 1 < next
      BY <3>1, <3>2, <3>3, <3>4
    <3> QED
      BY <3>1, <3>2, <3>5
  <2> QED
    BY <2>1, <2>2, <2>3, ItemsShift, DoneShift, ShiftedFacts
<1>4. CASE P!Shift
  <2>1. stage' = P!Shifted(<<wchain, pos>>) /\ UNCHANGED <<slot, done, next>> /\ ~Under(2)
          /\ pat' # "ended"
    BY <1>4, ShiftFacts, RestFacts DEF Visited
  <2>0. setup.multicore /\ pat \notin Stuck /\ pat = "shift"
    BY <1>4, ShiftFacts DEF PlaceInv, SidesInv, Stuck
  <2>a. pos <= count[wchain] /\ count[wchain] \in 0 .. ChainSize /\ pos \in Nat \ {0}
          /\ wchain \in 1 .. Chains
    BY <2>0 DEF RingInv, RingChains, RingPlaces, PipeTypes
  <2>2. <<wchain, pos>> \in P!Slots
    <3>1. pos \in 1 .. P!Width
      BY <2>a, PipeSizes
    <3> QED
      BY <2>a, <3>1, SlotFacts
  <2>3. slot[<<wchain, pos>>] = Hi + 1 /\ Hi + 1 < next
    <3>2. slot[<<wchain, pos>>] = Base + pos /\ Base + 1 + count[wchain] <= next
      <4>1. pat \in Working /\ count[wchain] # 0 /\ pos \in 1 .. count[wchain]
        BY <2>0, <2>a, PipeSizes DEF Working
      <4> QED
        BY <4>1, WorkFacts
    <3>3. Base = Hi - (pos - 1)
      BY <2>0, <2>a, HiNat, PipeSizes DEF Base, Staged, Least
    <3>4. Hi \in Nat /\ next \in Nat
      BY HiNat
    <3>5. Base \in Int /\ Base + pos = Hi + 1 /\ pos <= count[wchain]
      BY <2>a, <3>3, <3>4
    <3> QED
      BY <2>a, <3>2, <3>4, <3>5
  <2> QED
    BY <2>1, <2>2, <2>3, ItemsShift, DoneShift, ShiftedFacts
<1>5. CASE P!SingleShift
  <2>1. stage' = P!Shifted(<<1, pos>>) /\ UNCHANGED <<slot, done, next>> /\ ~Under(2)
          /\ pat' # "ended"
    BY <1>5, SingleShiftFacts, RestFacts DEF Visited
  <2>2. <<1, pos>> \in P!Slots /\ ~setup.multicore /\ pat = "single_shift"
    BY <1>5, SingleShiftFacts, SingleFacts
  <2>3. slot[<<1, pos>>] = Hi + 1 /\ Hi + 1 < next
    BY <2>2, HiNat DEF SingleInv
  <2> QED
    BY <2>1, <2>2, <2>3, ItemsShift, DoneShift, ShiftedFacts
<1> QED
  BY <1>1, <1>2, <1>3, <1>4, <1>5

\* Which items are under way and which are done.
LEMMA ItemsStep ==
  ASSUME PipeTypes, PlaceInv, StageInv, ItemsInv, DoneInv, SingleInv, RingInv, ChainsInv,
           EntriesInv, P!Next \/ UNCHANGED P!vars
  PROVE  (ItemsInv /\ DoneInv)'
<1>1. ASSUME P!FillFirst, setup' = setup PROVE (ItemsInv /\ DoneInv)'
  <2>1. UNCHANGED <<stage, done>> /\ next \in Nat /\ next' = next + 1
          /\ (pat' = "ended" => pat = "ended")
    BY <1>1, FillFirstFacts
  <2>2. \A k \in {1, 2} : Under(k) => slot'[stage[k]] = slot[stage[k]]
    BY <1>1, FillsElse
  <2>3. pat' = "ended" => Hi = Items
    BY <2>1 DEF ItemsInv
  <2> QED
    BY <2>1, <2>2, <2>3, ItemsFrame, DoneFrame
<1>2. ASSUME P!FirstEnds, setup' = setup PROVE (ItemsInv /\ DoneInv)'
  <2>1. UNCHANGED <<stage, done, slot, next>> /\ next \in Nat
          /\ (pat' = "ended" => pat = "ended")
    BY <1>2, FirstEndsFacts, HiNat
  <2>2. pat' = "ended" => Hi = Items
    BY <2>1 DEF ItemsInv
  <2> QED
    BY <2>1, <2>2, ItemsFrame, DoneFrame
<1>3. ASSUME P!Start, setup' = setup PROVE (ItemsInv /\ DoneInv)'
  <2>1. UNCHANGED <<stage, done, slot, next>> /\ next \in Nat
    BY <1>3, StartFacts, HiNat
  <2>2. ASSUME pat' = "ended" PROVE Hi = Items
    <3>1. count[1] = 0 /\ fat = "start"
      BY <1>3, <2>2, StartFacts
    <3>2. pat = "off"
      BY <3>1, <2>2 DEF PlaceInv, SidesInv, Stuck
    <3>3. count[1] = next - 1 /\ (next > Items \/ count[1] = ChainSize)
            /\ done = <<>> /\ stage = P!Empty
      BY <3>1, <3>2 DEF PlaceInv, OffInv
    <3>4. Hi = 0
      BY <3>3, EmptyFacts DEF Hi, Under
    <3> QED
      BY <3>1, <3>3, <3>4, HiNat, PipeSizes
  <2> QED
    BY <2>1, <2>2, ItemsFrame, DoneFrame
<1>4. ASSUME P!FillNext, setup' = setup PROVE (ItemsInv /\ DoneInv)'
  <2>1. UNCHANGED <<stage, done>> /\ next \in Nat /\ next' = next + 1
          /\ (pat' = "ended" => pat = "ended")
    BY <1>4, FillNextFacts
  <2>2. \A k \in {1, 2} : Under(k) => slot'[stage[k]] = slot[stage[k]]
    BY <1>4, FillsElse
  <2>3. pat' = "ended" => Hi = Items
    BY <2>1 DEF ItemsInv
  <2> QED
    BY <2>1, <2>2, <2>3, ItemsFrame, DoneFrame
<1>5. ASSUME P!Wait, setup' = setup PROVE (ItemsInv /\ DoneInv)'
  <2>1. UNCHANGED <<stage, done, slot, next>> /\ next \in Nat
          /\ (pat' = "ended" => pat = "ended")
    BY <1>5, WaitFacts, HiNat
  <2>2. pat' = "ended" => Hi = Items
    BY <2>1 DEF ItemsInv
  <2> QED
    BY <2>1, <2>2, ItemsFrame, DoneFrame
<1>6. ASSUME P!FillEnds, setup' = setup PROVE (ItemsInv /\ DoneInv)'
  <2>1. UNCHANGED <<stage, done, slot, next>> /\ next \in Nat
          /\ (pat' = "ended" => pat = "ended")
    BY <1>6, FillEndsFacts, HiNat
  <2>2. pat' = "ended" => Hi = Items
    BY <2>1 DEF ItemsInv
  <2> QED
    BY <2>1, <2>2, ItemsFrame, DoneFrame
<1>7. ASSUME P!WaitLast, setup' = setup PROVE (ItemsInv /\ DoneInv)'
  <2>1. UNCHANGED <<stage, done, slot, next>> /\ next \in Nat
          /\ (pat' = "ended" => pat = "ended")
    BY <1>7, WaitLastFacts, HiNat
  <2>2. pat' = "ended" => Hi = Items
    BY <2>1 DEF ItemsInv
  <2> QED
    BY <2>1, <2>2, ItemsFrame, DoneFrame
<1>8. ASSUME P!Join, setup' = setup PROVE (ItemsInv /\ DoneInv)'
  <2>1. UNCHANGED <<stage, done, slot, next>> /\ next \in Nat
          /\ (pat' = "ended" => pat = "ended")
    BY <1>8, JoinFacts, HiNat
  <2>2. pat' = "ended" => Hi = Items
    BY <2>1 DEF ItemsInv
  <2> QED
    BY <2>1, <2>2, ItemsFrame, DoneFrame
<1>9. ASSUME P!Visit, setup' = setup PROVE (ItemsInv /\ DoneInv)'
  <2> DEFINE k == Head(todo)
  <2>0. k \in {1, 2} /\ pat \in Visited
          /\ todo # <<>> /\ UNCHANGED <<slot, next>> /\ stage \in Stages
          /\ done \in Seq(1 .. Items)
    BY <1>9, VisitFacts DEF PipeTypes
  <2>1. Under(k) /\ stage[k] \in P!Slots /\ (k = 1 /\ OldDue => todo = <<1, 2>>)
    BY <2>0, DueFacts
  <2> HIDE DEF k
  <2>2. CASE UNCHANGED <<stage, done>>
    <3>1. pat' # "ended"
      BY <1>9, <2>0, VisitFacts DEF Visited
    <3> QED
      BY <2>0, <2>2, <3>1, HiNat, ItemsFrame, DoneFrame
  <2>3. CASE /\ done' = Append(done, slot[stage[k]]) /\ stage' = [stage EXCEPT ![k] = P!NoSlot]
          /\ UNCHANGED pat
    <3>1. stage'[k] = P!NoSlot /\ \A j \in {1, 2} : j # k => stage'[j] = stage[j]
      BY <2>0, <2>3 DEF Stages
    <3>2. \A j \in {1, 2} : (Under(j)' <=> Under(j) /\ j # k) /\ (j # k => Item(j)' = Item(j))
      BY <2>0, <3>1 DEF Under, Item
    <3>4. Hi' = Hi /\ Hi \in Nat
      BY <1>9, VisitHi, HiNat
    <3>5. pat' # "ended"
      BY <2>0, <2>3 DEF Visited
    <3>6. ASSUME k = 1, Under(2) PROVE BucketOf[Hi] # BucketOf[Hi - 1]
      <4>1. P!Bucket(stage[1]) # P!Bucket(stage[2])
        BY <2>0, <2>1, <3>6 DEF StageInv
      <4>2. Item(1) = Hi /\ Item(2) = Hi - 1
        BY <2>1, <3>6 DEF ItemsInv
      <4> QED
        BY <4>1, <4>2 DEF P!Bucket, Item
    <3>7. ItemsInv'
      BY <2>0, <2>1, <3>2, <3>4, <3>5, <3>6 DEF ItemsInv
    <3>8. DoneInv'
      <4>1. done' = Append(done, Item(k)) /\ slot' = slot
        BY <2>0, <2>3 DEF Item
      <4> QED
        BY <2>0, <2>1, <3>1, <3>4, <3>6, <4>1, DoneFinish
    <3> QED
      BY <3>7, <3>8
  <2> QED
    BY <1>9, <2>2, <2>3, VisitFacts DEF k
<1>10. ASSUME P!Top, setup' = setup PROVE (ItemsInv /\ DoneInv)'
  <2>1. UNCHANGED <<stage, done, slot, next>> /\ next \in Nat
          /\ (pat' = "ended" => pat = "ended")
    BY <1>10, TopFacts, HiNat
  <2>2. pat' = "ended" => Hi = Items
    BY <2>1 DEF ItemsInv
  <2> QED
    BY <2>1, <2>2, ItemsFrame, DoneFrame
<1>11. ASSUME P!TailShift, setup' = setup PROVE (ItemsInv /\ DoneInv)'
  BY <1>11, StepsIn
<1>12. ASSUME P!TailEnd, setup' = setup PROVE (ItemsInv /\ DoneInv)'
  <2>1. ~Under(1) /\ ~Under(2)
    BY <1>12, TailEndFacts, RestFacts DEF Visited, StageInv
  <2>2. stage' = P!Empty /\ UNCHANGED <<done, next>> /\ pat = "tail_end"
    BY <1>12, TailEndFacts
  <2>3. ~Under(1)' /\ ~Under(2)'
    BY <2>2, EmptyFacts DEF Under
  <2>4. Hi' = Hi
    BY <2>1, <2>2, <2>3 DEF Hi
  <2>5. ASSUME pat' = "ended" PROVE Hi = Items
    <3>1. ~setup.multicore \/ count[need] = 0
      BY <1>12, <2>5, TailEndFacts
    <3>2. ~setup.multicore => Hi = Items
      BY <2>2 DEF SingleInv
    <3> QED
      BY <2>2, <3>1, <3>2, ClosingFacts
  <2>6. ItemsInv'
    BY <2>2, <2>3, <2>4, <2>5 DEF ItemsInv
  <2>7. DoneInv'
    <3>1. /\ P!DoneItems' = P!DoneItems /\ P!InOrder' /\ done' = done
          /\ \A x \in 1 .. Items : IsDone(x)' <=> IsDone(x)
      BY <2>2 DEF P!DoneItems, P!InOrder, IsDone, DoneInv
    <3> QED
      BY <2>1, <2>3, <2>4, <3>1 DEF DoneInv
  <2> QED
    BY <2>6, <2>7
<1>13. ASSUME P!Begin, setup' = setup PROVE (ItemsInv /\ DoneInv)'
  <2>1. UNCHANGED <<stage, done, slot, next>> /\ next \in Nat
          /\ (pat' = "ended" => pat = "ended")
    BY <1>13, BeginFacts, HiNat
  <2>2. pat' = "ended" => Hi = Items
    BY <2>1 DEF ItemsInv
  <2> QED
    BY <2>1, <2>2, ItemsFrame, DoneFrame
<1>14. ASSUME P!Carry, setup' = setup PROVE (ItemsInv /\ DoneInv)'
  BY <1>14, StepsIn
<1>15. ASSUME P!Carried, setup' = setup PROVE (ItemsInv /\ DoneInv)'
  BY <1>15, StepsIn
<1>16. ASSUME P!Loop, setup' = setup PROVE (ItemsInv /\ DoneInv)'
  <2>1. UNCHANGED <<stage, done, slot, next>> /\ next \in Nat
          /\ (pat' = "ended" => pat = "ended")
    BY <1>16, LoopFacts, HiNat
  <2>2. pat' = "ended" => Hi = Items
    BY <2>1 DEF ItemsInv
  <2> QED
    BY <2>1, <2>2, ItemsFrame, DoneFrame
<1>17. ASSUME P!Shift, setup' = setup PROVE (ItemsInv /\ DoneInv)'
  BY <1>17, StepsIn
<1>18. ASSUME P!LoopEnds, setup' = setup PROVE (ItemsInv /\ DoneInv)'
  <2>1. UNCHANGED <<stage, done, slot, next>> /\ next \in Nat
          /\ (pat' = "ended" => pat = "ended")
    BY <1>18, LoopEndsFacts, HiNat
  <2>2. pat' = "ended" => Hi = Items
    BY <2>1 DEF ItemsInv
  <2> QED
    BY <2>1, <2>2, ItemsFrame, DoneFrame
<1>19. ASSUME P!SingleGet, setup' = setup PROVE (ItemsInv /\ DoneInv)'
  <2>1. UNCHANGED <<stage, done>> /\ next \in Nat /\ next' = next + 1
          /\ (pat' = "ended" => pat = "ended")
    BY <1>19, SingleGetFacts
  <2>2. \A k \in {1, 2} : Under(k) => slot'[stage[k]] = slot[stage[k]]
    BY <1>19, FillsElse
  <2>3. pat' = "ended" => Hi = Items
    BY <2>1 DEF ItemsInv
  <2> QED
    BY <2>1, <2>2, <2>3, ItemsFrame, DoneFrame
<1>20. ASSUME P!SingleShift, setup' = setup PROVE (ItemsInv /\ DoneInv)'
  BY <1>20, StepsIn
<1>21. ASSUME P!SingleEnds, setup' = setup PROVE (ItemsInv /\ DoneInv)'
  <2>1. UNCHANGED <<stage, done, slot, next>> /\ next \in Nat
          /\ (pat' = "ended" => pat = "ended")
    BY <1>21, SingleEndsFacts, HiNat
  <2>2. pat' = "ended" => Hi = Items
    BY <2>1 DEF ItemsInv
  <2> QED
    BY <2>1, <2>2, ItemsFrame, DoneFrame
<1>22. CASE UNCHANGED P!vars
  BY <1>22 DEF P!vars, P!caller, P!visits, P!outcome, ItemsInv, DoneInv, P!DoneItems, P!InOrder,
     IsDone, Under, Item, Hi
<1> QED
  BY <1>1, <1>2, <1>3, <1>4, <1>5, <1>6, <1>7, <1>8, <1>9, <1>10, <1>11, <1>12, <1>13, <1>14,
     <1>15, <1>16, <1>17, <1>18, <1>19, <1>20, <1>21, <1>22 DEF P!Next, P!Caller, P!Worker

LEMMA HiSame ==
  ASSUME UNCHANGED <<stage, done>>
  PROVE  Hi' = Hi
BY DEF Hi, Under

\* One core.
LEMMA SingleStep ==
  ASSUME PipeTypes, PlaceInv, StageInv, ItemsInv, DoneInv, SingleInv, RingInv, ChainsInv,
           EntriesInv, P!Next \/ UNCHANGED P!vars
  PROVE  SingleInv'
<1>1. ASSUME P!FillFirst, setup' = setup PROVE SingleInv'
  <2>1. fat \notin {"join", "returned"}
    BY <1>1, FillFirstFacts
  <2>2. setup.multicore
    BY <2>1 DEF PlaceInv, SidesInv
  <2> QED
    BY <1>1, <2>2 DEF SingleInv
<1>2. ASSUME P!FirstEnds, setup' = setup PROVE SingleInv'
  <2>1. fat \notin {"join", "returned"}
    BY <1>2, FirstEndsFacts
  <2>2. setup.multicore
    BY <2>1 DEF PlaceInv, SidesInv
  <2> QED
    BY <1>2, <2>2 DEF SingleInv
<1>3. ASSUME P!Start, setup' = setup PROVE SingleInv'
  <2>1. fat \notin {"join", "returned"}
    BY <1>3, StartFacts
  <2>2. setup.multicore
    BY <2>1 DEF PlaceInv, SidesInv
  <2> QED
    BY <1>3, <2>2 DEF SingleInv
<1>4. ASSUME P!FillNext, setup' = setup PROVE SingleInv'
  <2>1. fat \notin {"join", "returned"}
    BY <1>4, FillNextFacts
  <2>2. setup.multicore
    BY <2>1 DEF PlaceInv, SidesInv
  <2> QED
    BY <1>4, <2>2 DEF SingleInv
<1>5. ASSUME P!Wait, setup' = setup PROVE SingleInv'
  <2>1. fat \notin {"join", "returned"}
    BY <1>5, WaitFacts
  <2>2. setup.multicore
    BY <2>1 DEF PlaceInv, SidesInv
  <2> QED
    BY <1>5, <2>2 DEF SingleInv
<1>6. ASSUME P!FillEnds, setup' = setup PROVE SingleInv'
  <2>1. fat \notin {"join", "returned"}
    BY <1>6, FillEndsFacts
  <2>2. setup.multicore
    BY <2>1 DEF PlaceInv, SidesInv
  <2> QED
    BY <1>6, <2>2 DEF SingleInv
<1>7. ASSUME P!WaitLast, setup' = setup PROVE SingleInv'
  <2>1. fat \notin {"join", "returned"}
    BY <1>7, WaitLastFacts
  <2>2. setup.multicore
    BY <2>1 DEF PlaceInv, SidesInv
  <2> QED
    BY <1>7, <2>2 DEF SingleInv
<1>8. ASSUME P!Join, setup' = setup PROVE SingleInv'
  <2>1. pat' \in Stuck
    BY <1>8, JoinFacts DEF Stuck
  <2> QED
    BY <2>1 DEF SingleInv, Stuck
<1>9. ASSUME P!Visit, setup' = setup PROVE SingleInv'
  <2>1. Hi' = Hi
    BY <1>9, VisitHi
  <2>2. UNCHANGED <<slot, next, pos>> /\ pat \in Visited /\ pat' \in {pat, "crashed", "failed"}
          /\ Head(todo) \in {1, 2} /\ stage \in Stages
    BY <1>9, VisitFacts DEF PipeTypes
  <2>3. stage' = stage \/ stage' = [stage EXCEPT ![Head(todo)] = P!NoSlot]
    BY <1>9, VisitFacts
  <2>4. \A j \in {1, 2} : Under(j)' => Under(j) /\ stage'[j] = stage[j]
    BY <2>2, <2>3 DEF Under, Stages
  <2> QED
    BY <1>9, <2>1, <2>2, <2>4 DEF SingleInv, Visited
<1>10. ASSUME P!Top, setup' = setup PROVE SingleInv'
  <2>1. pat \in {"top", "begin", "carry", "carried", "loop", "shift"}
    BY <1>10, TopFacts
  <2>2. setup.multicore
    BY <2>1 DEF PlaceInv, SidesInv, Stuck
  <2> QED
    BY <1>10, <2>2 DEF SingleInv
<1>11. ASSUME P!TailShift, setup' = setup PROVE SingleInv'
  <2>1. pat = "tail" /\ pat' \in {"tail_end", "try"} /\ stage'[1] = P!NoSlot
    BY <1>11, TailShiftFacts, ShiftedFacts
  <2>2. Hi' = Hi
    BY <1>11, <2>1, StepsIn, HiNat
  <2> QED
    BY <1>11, <2>1, <2>2 DEF SingleInv
<1>12. ASSUME P!TailEnd, setup' = setup PROVE SingleInv'
  <2>1. ~setup.multicore => pat' = "ended"
    BY <1>12, TailEndFacts
  <2> QED
    BY <1>12, <2>1 DEF SingleInv
<1>13. ASSUME P!Begin, setup' = setup PROVE SingleInv'
  <2>1. pat \in {"top", "begin", "carry", "carried", "loop", "shift"}
    BY <1>13, BeginFacts
  <2>2. setup.multicore
    BY <2>1 DEF PlaceInv, SidesInv, Stuck
  <2> QED
    BY <1>13, <2>2 DEF SingleInv
<1>14. ASSUME P!Carry, setup' = setup PROVE SingleInv'
  <2>1. pat \in {"top", "begin", "carry", "carried", "loop", "shift"}
    BY <1>14, CarryFacts
  <2>2. setup.multicore
    BY <2>1 DEF PlaceInv, SidesInv, Stuck
  <2> QED
    BY <1>14, <2>2 DEF SingleInv
<1>15. ASSUME P!Carried, setup' = setup PROVE SingleInv'
  <2>1. pat \in {"top", "begin", "carry", "carried", "loop", "shift"}
    BY <1>15, CarriedFacts
  <2>2. setup.multicore
    BY <2>1 DEF PlaceInv, SidesInv, Stuck
  <2> QED
    BY <1>15, <2>2 DEF SingleInv
<1>16. ASSUME P!Loop, setup' = setup PROVE SingleInv'
  <2>1. pat \in {"top", "begin", "carry", "carried", "loop", "shift"}
    BY <1>16, LoopFacts
  <2>2. setup.multicore
    BY <2>1 DEF PlaceInv, SidesInv, Stuck
  <2> QED
    BY <1>16, <2>2 DEF SingleInv
<1>17. ASSUME P!Shift, setup' = setup PROVE SingleInv'
  <2>1. pat \in {"top", "begin", "carry", "carried", "loop", "shift"}
    BY <1>17, ShiftFacts
  <2>2. setup.multicore
    BY <2>1 DEF PlaceInv, SidesInv, Stuck
  <2> QED
    BY <1>17, <2>2 DEF SingleInv
<1>18. ASSUME P!LoopEnds, setup' = setup PROVE SingleInv'
  <2>1. pat \in {"top", "begin", "carry", "carried", "loop", "shift"}
    BY <1>18, LoopEndsFacts
  <2>2. setup.multicore
    BY <2>1 DEF PlaceInv, SidesInv, Stuck
  <2> QED
    BY <1>18, <2>2 DEF SingleInv
<1>19. ASSUME P!SingleGet, setup' = setup PROVE SingleInv'
  <2>0. ~setup.multicore /\ pos \in 1 .. SingleSize
    BY <1>19, SingleGetFacts, SingleFacts
  <2>1. /\ pat = "single" /\ pat' \in {"single_shift", "try"}
             /\ UNCHANGED <<stage, done, pos>> /\ next' = next + 1
        /\ slot'[<<1, pos>>] = next
    BY <1>19, SingleGetFacts
  <2>2. Hi' = Hi
    BY <2>1, HiSame
  <2>3. Hi + 1 = next
    BY <2>0, <2>1 DEF SingleInv
  <2>4. Hi' + 2 = next' /\ slot'[<<1, pos'>>] = next' - 1
    BY <2>1, <2>2, <2>3, HiNat
  <2>5. /\ Under(1)' => stage'[1] = <<1, Before(pos)>>
        /\ Under(2)' => stage'[2] = <<1, Before(Before(pos))>>
    BY <2>0, <2>1 DEF SingleInv, Under
  <2> QED
    BY <1>19, <2>0, <2>1, <2>4, <2>5 DEF SingleInv
<1>20. ASSUME P!SingleShift, setup' = setup PROVE SingleInv'
  <2>0. ~setup.multicore /\ pos \in 1 .. SingleSize /\ <<1, pos>> \in P!Slots
    BY <1>20, SingleShiftFacts, SingleFacts
  <2>1. pat = "single_shift" /\ pat' = "single" /\ next' = next
          /\ stage'[1] = <<1, pos>> /\ stage'[2] = stage[1] /\ pos' = (pos % SingleSize) + 1
    BY <1>20, <2>0, SingleShiftFacts, ShiftedFacts
  <2>2. Hi' = Hi + 1
    <3>1. stage'[1] # P!NoSlot
      BY <2>0, <2>1, SlotFacts
    <3> QED
      BY <1>20, <3>1, StepsIn
  <2>3. pos' \in 1 .. SingleSize /\ Before(pos') = pos
    <3>0. pos \in Nat /\ pos >= 1 /\ pos <= SingleSize /\ SingleSize \in Nat /\ SingleSize >= 1
      BY <2>0, PipeSizes
    <3>1. pos % SingleSize = IF pos = SingleSize THEN 0 ELSE pos
      BY <3>0, Mod
    <3> QED
      BY <2>0, <2>1, <3>1, PipeSizes DEF Before
  <2>4. Hi + 2 = next
    BY <2>0, <2>1 DEF SingleInv
  <2>5. Hi' + 1 = next'
    BY <2>1, <2>2, <2>4, HiNat
  <2>6. Under(2)' => stage'[2] = <<1, Before(Before(pos'))>>
    BY <2>0, <2>1, <2>3 DEF SingleInv, Under
  <2>7. pos' <= SingleSize
    BY <2>3, PipeSizes
  <2> QED
    BY <1>20, <2>1, <2>3, <2>5, <2>6, <2>7 DEF SingleInv
<1>21. ASSUME P!SingleEnds, setup' = setup PROVE SingleInv'
  <2>1. pat = "single" /\ next > Items /\ pat' \in {"tail", "try"} /\ UNCHANGED <<stage, done>>
    BY <1>21, SingleEndsFacts
  <2>2. Hi' = Hi
    BY <2>1, HiSame
  <2>3. ~setup.multicore => Hi + 1 = next
    BY <2>1 DEF SingleInv
  <2>4. ~setup.multicore => Hi = Items
    BY <2>1, <2>3, HiNat
  <2> QED
    BY <1>21, <2>1, <2>2, <2>4 DEF SingleInv
<1>22. CASE UNCHANGED P!vars
  BY <1>22 DEF P!vars, P!caller, P!visits, P!outcome, SingleInv, Under, Hi
<1> QED
  BY <1>1, <1>2, <1>3, <1>4, <1>5, <1>6, <1>7, <1>8, <1>9, <1>10, <1>11, <1>12, <1>13, <1>14,
     <1>15, <1>16, <1>17, <1>18, <1>19, <1>20, <1>21, <1>22 DEF P!Next, P!Caller, P!Worker

\* The ring does not turn.
LEMMA RingFrame ==
  ASSUME RingChains, UNCHANGED <<pstate, fchain>>, OldestChain' = OldestChain,
           Closes(fchain)' <=> Closes(fchain)
  PROVE  RingChains'
<1>1. \A c \in 1 .. Chains : Off(c)' = Off(c)
  BY DEF Off
<1>2. Off(fchain)' = Off(fchain)
  BY DEF Off
<1>3. Number' = Number
  BY <1>2 DEF Number
<1> QED
  BY <1>1, <1>3 DEF RingChains

LEMMA OldestSame ==
  ASSUME UNCHANGED <<wchain, need>>, pat' \in Turning <=> pat \in Turning
  PROVE  OldestChain' = OldestChain /\ (Held' <=> Held)
BY DEF OldestChain, Held

LEMMA ClosesSame ==
  ASSUME UNCHANGED <<fat, fchain>>
  PROVE  Closes(fchain)' <=> Closes(fchain)
BY DEF Closes

\* The caller gives its chain to the thread and goes on to the next one.
LEMMA RingGrows ==
  ASSUME PipeTypes, RingChains, pstate[fchain] = 0, ~Closes(fchain), OldestChain' = OldestChain,
         pstate' \in [1 .. Chains -> 0 .. 2], pstate'[fchain] = 1,
         \A d \in 1 .. Chains : d # fchain => pstate'[d] = pstate[d],
         \/ fchain' = P!After(fchain) /\ fat' \notin {"join", "returned"}
         \/ fchain' = fchain /\ fat' = "join"
  PROVE  RingChains'
<1> DEFINE f == fchain
           g == P!After(fchain)
<1>0. f \in 1 .. Chains /\ g \in 1 .. Chains /\ g # f /\ Chains \in Nat /\ Chains >= 2
  BY AfterFacts, PipeSizes DEF PipeTypes
<1>a. OldestChain \in 1 .. Chains /\ \A c : Off(c) = Dist(OldestChain, c)
  BY OldestFacts DEF Off
<1>b. \A c \in 1 .. Chains : Off(c)' = Off(c)
  BY DEF Off
<1>1. \A c \in 1 .. Chains : Off(c) \in 0 .. Chains - 1 /\ Off(c)' = Off(c)
        /\ (Off(c) = Off(f) => c = f) /\ (Off(c) = 0 <=> c = OldestChain)
  <2>1. \A c \in 1 .. Chains : Dist(OldestChain, c) \in 0 .. Chains - 1
          /\ (Dist(OldestChain, c) = Dist(OldestChain, f) => c = f)
          /\ (Dist(OldestChain, c) = 0 <=> c = OldestChain)
    <3>1. \A c \in 1 .. Chains : Dist(OldestChain, c) \in 0 .. Chains - 1
            /\ (Dist(OldestChain, c) = 0 <=> c = OldestChain)
      BY <1>a, DistFacts
    <3>2. \A c \in 1 .. Chains : \A d \in 1 .. Chains : Dist(OldestChain, c) = Dist(OldestChain,
            d) => c = d
      BY <1>a, DistFacts
    <3> QED
      BY <1>0, <3>1, <3>2
  <2> QED
    BY <1>a, <1>b, <2>1
<1>2. Number = Off(f)
  BY DEF Number
<1> DEFINE n == Off(f) + 1
<1>3. \A c \in 1 .. Chains : pstate'[c] \in {0, 1} /\ (pstate'[c] = 1 <=> Off(c) < n)
  <2> TAKE c \in 1 .. Chains
  <2>1. pstate[c] \in {0, 1} /\ (pstate[c] = 1 <=> Off(c) < Off(f))
    BY <1>2 DEF RingChains
  <2>2. CASE c = f
    BY <1>0, <1>1, <2>2
  <2>3. CASE c # f
    <3>1. pstate'[c] = pstate[c]
      BY <2>3
    <3>2. Off(c) < n <=> Off(c) < Off(f)
      BY <1>0, <1>1, <2>3
    <3> QED
      BY <2>1, <3>1, <3>2
  <2> QED
    BY <2>2, <2>3
<1>4. Off(g) = IF g = OldestChain THEN 0 ELSE n
  <2>1. Dist(OldestChain, g) = IF g = OldestChain THEN 0 ELSE Dist(OldestChain, f) + 1
    BY <1>0, <1>a, DistFacts
  <2> QED
    BY <1>a, <2>1
<1>5. g = OldestChain => n = Chains
  <2>1. g = OldestChain <=> Off(f) = Chains - 1
    <3>1. g = OldestChain <=> Dist(OldestChain, f) = Chains - 1
      BY <1>0, <1>a, DistFacts
    <3> QED
      BY <1>a, <3>1
  <2> QED
    BY <1>0, <2>1
<1>6. CASE fchain' = g /\ fat' \notin {"join", "returned"}
  <2>1. ~Closes(fchain)' /\ Off(fchain)' = Off(g) /\ pstate'[fchain'] = pstate'[g]
    BY <1>0, <1>1, <1>6 DEF Closes, Off
  <2>2. CASE g = OldestChain
    <3>1. n \in Nat /\ n >= 1
      BY <1>0, <1>1
    <3>2. pstate'[g] = 1
      BY <1>0, <1>3, <1>4, <2>2, <3>1
    <3>3. Number' = n
      BY <1>5, <2>1, <2>2, <3>2 DEF Number
    <3> QED
      BY <1>1, <1>3, <1>6, <2>2, <3>3 DEF RingChains
  <2>3. CASE g # OldestChain
    <3>1. pstate'[g] # 1
      BY <1>0, <1>1, <1>3, <1>4, <2>3
    <3>2. Number' = n
      BY <1>4, <2>1, <2>3, <3>1 DEF Number
    <3> QED
      BY <1>1, <1>3, <2>1, <3>1, <3>2 DEF RingChains
  <2> QED
    BY <2>2, <2>3
<1>7. CASE fchain' = f /\ fat' = "join"
  <2>1. Closes(fchain)' /\ Off(fchain)' = Off(f)
    BY <1>0, <1>1, <1>7 DEF Closes, Off
  <2>2. Number' = n
    BY <2>1 DEF Number
  <2> QED
    BY <1>1, <1>3, <2>1, <2>2 DEF RingChains
<1> QED
  BY <1>6, <1>7

\* The thread gives its oldest chain back.
LEMMA RingTurns ==
  ASSUME PipeTypes, RingChains, UNCHANGED <<fat, fchain, wchain>>, Held, wchain = P!After(need),
           pstate[need] = 1, ~Held',
         GivesBack(need), ~Closes(need)
  PROVE  RingChains' /\ Number >= 1
<1> DEFINE f == fchain
           w == need
<1>0. f \in 1 .. Chains /\ w \in 1 .. Chains /\ Chains \in Nat /\ Chains >= 2 /\ OldestChain = w
        /\ OldestChain' = P!After(w)
  <2>1. need \in 1 .. Chains
    BY PipeSizes DEF PipeTypes, Held, P!NoChain
  <2> QED
    BY <2>1, PipeSizes DEF PipeTypes, OldestChain
<1>1. \A c \in 1 .. Chains : Off(c) \in 0 .. Chains - 1 /\ (Off(c) = 0 <=> c = w)
        /\ Off(c)' = IF c = w THEN Chains - 1 ELSE Off(c) - 1
  BY <1>0, OldestFacts, DistFacts DEF Off
<1>2. Number \in 0 .. Chains /\ Number >= 1
  <2>1. Off(w) < Number
    BY <1>0 DEF RingChains
  <2> QED
    BY <1>0, <1>1, <2>1, OldestFacts
<1>3. Off(fchain)' = IF f = w THEN Chains - 1 ELSE Off(f) - 1
  BY <1>0, <1>1 DEF Off
<1>4. pstate'[w] = 0 /\ \A d \in 1 .. Chains : d # w => pstate'[d] = pstate[d]
  BY DEF GivesBack
<1>5. Closes(fchain)' <=> Closes(fchain)
  BY ClosesSame
<1>6. \A c \in 1 .. Chains : pstate'[c] \in {0, 1} /\ (pstate'[c] = 1 <=> Off(c)' < Number - 1)
  <2> TAKE c \in 1 .. Chains
  <2>1. pstate[c] \in {0, 1} /\ (pstate[c] = 1 <=> Off(c) < Number)
    BY DEF RingChains
  <2>2. CASE c = w
    <3>1. Off(c)' = Chains - 1 /\ pstate'[c] = 0
      BY <1>1, <1>4, <2>2
    <3> QED
      BY <1>0, <1>2, <3>1
  <2>3. CASE c # w
    <3>1. pstate'[c] = pstate[c] /\ Off(c)' = Off(c) - 1 /\ Off(c) \in Nat
      BY <1>0, <1>1, <1>4, <2>3
    <3>2. Off(c)' < Number - 1 <=> Off(c) < Number
      BY <1>2, <3>1
    <3> QED
      BY <2>1, <3>1, <3>2
  <2> QED
    BY <2>2, <2>3
<1>7. Number' = Number - 1
  <2>1. CASE Closes(fchain)
    <3>1. f # w
      BY <2>1
    <3>2. Number = Off(f) + 1 /\ Number' = (Off(f) - 1) + 1 /\ Off(f) \in Nat
      BY <1>0, <1>1, <1>3, <1>5, <2>1, <3>1 DEF Number
    <3> QED
      BY <3>2
  <2>2. CASE ~Closes(fchain) /\ pstate[f] = 1
    <3>1. f = w
      BY <1>0, <2>2 DEF RingChains
    <3>2. Number = Chains /\ pstate'[f] # 1 /\ fchain' = f
      BY <1>4, <2>2, <3>1 DEF Number
    <3>3. Number' = Chains - 1
      BY <1>3, <1>5, <2>2, <3>1, <3>2 DEF Number
    <3> QED
      BY <3>2, <3>3
  <2>3. CASE ~Closes(fchain) /\ pstate[f] # 1
    <3>1. f # w /\ pstate'[f] = pstate[f] /\ fchain' = f
      BY <1>0, <1>4, <2>3
    <3>2. Number = Off(f) /\ Number' = Off(f) - 1
      BY <1>3, <1>5, <2>3, <3>1 DEF Number
    <3> QED
      BY <3>2
  <2> QED
    BY <2>1, <2>2, <2>3
<1>8. ~(pstate'[fchain'] = 1 /\ ~Closes(fchain)')
  <2> SUFFICES ASSUME pstate'[f] = 1, ~Closes(fchain)
               PROVE  FALSE
    BY <1>5
  <2>1. f # w /\ pstate[f] = 1
    BY <1>0, <1>4
  <2> QED
    BY <1>0, <2>1 DEF RingChains
<1> QED
  BY <1>2, <1>6, <1>7, <1>8 DEF RingChains

\* The ring of chains.
LEMMA RingStep ==
  ASSUME PipeTypes, PlaceInv, StageInv, ItemsInv, DoneInv, SingleInv, RingInv, ChainsInv,
           EntriesInv, P!Next \/ UNCHANGED P!vars
  PROVE  RingInv'
<1>1. ASSUME P!FillFirst, setup' = setup PROVE RingInv'
  <2> SUFFICES ASSUME setup'.multicore, pat' \notin Stuck
               PROVE  RingChains' /\ RingPlaces'
    BY DEF RingInv
  <2>1. pat = "off" /\ pat' = pat /\ setup.multicore
          /\ fat' \notin {"wait_last", "join", "returned"}
    BY <1>1, FillFirstFacts DEF PlaceInv, SidesInv
  <2>2. RingChains /\ RingPlaces
    BY <2>1 DEF RingInv, Stuck
  <2>3. OldestChain' = OldestChain /\ (Held' <=> Held) /\ ~Held'
    <3>1. UNCHANGED <<wchain, need, pat>>
      BY <1>1, <2>1, FillFirstFacts
    <3> QED
      BY <2>1, <3>1, OldestSame DEF Held, Turning
  <2>4. RingChains'
    <3>1. UNCHANGED <<pstate, fchain>> /\ fat \notin {"join", "returned"}
      BY <1>1, FillFirstFacts
    <3>2. Closes(fchain)' <=> Closes(fchain)
      BY <2>1, <3>1 DEF Closes
    <3> QED
      BY <2>2, <2>3, <3>1, <3>2, RingFrame
  <2>5. RingPlaces'
    BY <2>1, <2>3 DEF RingPlaces, Working
  <2> QED
    BY <2>4, <2>5
<1>2. ASSUME P!FirstEnds, setup' = setup PROVE RingInv'
  <2> SUFFICES ASSUME setup'.multicore, pat' \notin Stuck
               PROVE  RingChains' /\ RingPlaces'
    BY DEF RingInv
  <2>1. pat = "off" /\ pat' = pat /\ setup.multicore
          /\ fat' \notin {"wait_last", "join", "returned"}
    BY <1>2, FirstEndsFacts DEF PlaceInv, SidesInv
  <2>2. RingChains /\ RingPlaces
    BY <2>1 DEF RingInv, Stuck
  <2>3. OldestChain' = OldestChain /\ (Held' <=> Held) /\ ~Held'
    <3>1. UNCHANGED <<wchain, need, pat>>
      BY <1>2, <2>1, FirstEndsFacts
    <3> QED
      BY <2>1, <3>1, OldestSame DEF Held, Turning
  <2>4. RingChains'
    <3>1. UNCHANGED <<pstate, fchain>> /\ fat \notin {"join", "returned"}
      BY <1>2, FirstEndsFacts
    <3>2. Closes(fchain)' <=> Closes(fchain)
      BY <2>1, <3>1 DEF Closes
    <3> QED
      BY <2>2, <2>3, <3>1, <3>2, RingFrame
  <2>5. RingPlaces'
    BY <2>1, <2>3 DEF RingPlaces, Working
  <2> QED
    BY <2>4, <2>5
<1>3. ASSUME P!Start, setup' = setup PROVE RingInv'
  <2> SUFFICES ASSUME setup'.multicore, pat' \notin Stuck
               PROVE  RingChains' /\ RingPlaces'
    BY DEF RingInv
  <2>1. pat' = "top" /\ fat' = "fill" /\ fchain' = P!After(1) /\ pstate'[1] = 1
          /\ \A d \in 1 .. Chains : d # 1 => pstate'[d] = pstate[d]
    BY <1>3, StartFacts DEF Stuck
  <2>2. pat = "off" /\ setup.multicore
    <3>1. fat = "start"
      BY <1>3, StartFacts
    <3> QED
      BY <1>3, <2>1, <3>1 DEF PlaceInv, SidesInv, Stuck
  <2>3. need = P!NoChain /\ wchain = 1 /\ \A c \in 1 .. Chains : pstate[c] = 0
    BY <2>2 DEF PlaceInv, OffInv
  <2>4. need' = P!NoChain /\ wchain' = 1
    BY <1>3, <2>3, StartFacts
  <2>5. ~Held' /\ OldestChain' = 1
    BY <2>4 DEF Held, OldestChain
  <2>6. 1 \in 1 .. Chains /\ P!After(1) \in 1 .. Chains /\ P!After(1) # 1 /\ Chains \in Nat
    BY PipeSizes, AfterFacts
  <2>7. \A c \in 1 .. Chains : Off(c)' \in 0 .. Chains - 1 /\ (Off(c)' = 0 <=> c = 1)
    <3>1. \A c \in 1 .. Chains : Dist(1, c) \in 0 .. Chains - 1 /\ (Dist(1, c) = 0 <=> c = 1)
      BY <2>6, DistFacts
    <3> QED
      BY <2>5, <3>1 DEF Off
  <2>8. Off(fchain)' = 1
    <3>1. Dist(1, 1) = 0 /\ Dist(1, P!After(1)) = Dist(1, 1) + 1
      BY <2>6, DistFacts
    <3> QED
      BY <2>1, <2>5, <3>1 DEF Off
  <2>9. ~Closes(fchain)' /\ pstate'[fchain'] # 1
    BY <2>1, <2>3, <2>6 DEF Closes
  <2>10. Number' = 1
    BY <2>8, <2>9 DEF Number
  <2>11. RingChains'
    <3>1. \A c \in 1 .. Chains : pstate'[c] \in {0, 1} /\ (pstate'[c] = 1 <=> c = 1)
      BY <2>1, <2>3, <2>6
    <3>2. \A c \in 1 .. Chains : Off(c)' < 1 <=> c = 1
      BY <2>6, <2>7
    <3> QED
      BY <2>9, <2>10, <3>1, <3>2 DEF RingChains
  <2>12. RingPlaces'
    BY <2>1, <2>5 DEF RingPlaces, Working
  <2> QED
    BY <2>11, <2>12
<1>4. ASSUME P!FillNext, setup' = setup PROVE RingInv'
  <2> SUFFICES ASSUME setup'.multicore, pat' \notin Stuck
               PROVE  RingChains' /\ RingPlaces'
    BY DEF RingInv
  <2>1. setup.multicore /\ pat \notin Stuck /\ UNCHANGED <<pat, wchain, need>>
    BY <1>4, FillNextFacts
  <2>2. RingChains /\ RingPlaces
    BY <2>1 DEF RingInv
  <2>3. OldestChain' = OldestChain /\ (Held' <=> Held)
    BY <2>1, OldestSame
  <2>4. RingChains'
    <3>1. pstate[fchain] = 0 /\ ~Closes(fchain)
      BY <1>4, <2>1, <2>2, FillNextFacts DEF PlaceInv, FilledInv, Closes
    <3>2. CASE count'[fchain] = ChainSize
      <4>1. /\ pstate' \in [1 .. Chains -> 0 .. 2] /\ pstate'[fchain] = 1
                 /\ \A d \in 1 .. Chains : d # fchain => pstate'[d] = pstate[d]
            /\ fchain' = P!After(fchain) /\ fat' = "wait"
        BY <1>4, <3>2, FillNextFacts
      <4> QED
        BY <2>2, <2>3, <3>1, <4>1, RingGrows
    <3>3. CASE count'[fchain] # ChainSize
      <4>1. UNCHANGED <<pstate, fchain, fat>>
        BY <1>4, <3>3, FillNextFacts
      <4> QED
        BY <2>2, <2>3, <4>1, RingFrame, ClosesSame
    <3> QED
      BY <3>2, <3>3
  <2>5. RingPlaces'
    <3>1. (Held' <=> Held) /\ UNCHANGED <<pat, wchain, need, pos>> /\ fat' \in {"fill", "wait",
            "wait_last", "join"} /\ (fat' = "join" => next' > Items)
            /\ (fat' = "wait_last" => next' > Items)
      BY <1>4, <2>1, <2>2, <2>3, FillNextFacts DEF RingPlaces
    <3>2. \A c \in 1 .. Chains : pstate[c] = 1 => pstate'[c] = 1 /\ count'[c] = count[c]
      BY <1>4, <2>2, FillNextFacts DEF PlaceInv, FilledInv, RingChains
    <3>3. wchain \in 1 .. Chains /\ (Held => need \in 1 .. Chains)
      BY PipeSizes DEF PipeTypes, Held, P!NoChain
    <3>4. pat = "shift" => pat \in Working
      BY DEF Working
    <3> QED
      BY <2>2, <3>1, <3>2, <3>3, <3>4 DEF RingPlaces
  <2> QED
    BY <2>4, <2>5
<1>5. ASSUME P!Wait, setup' = setup PROVE RingInv'
  <2> SUFFICES ASSUME setup'.multicore, pat' \notin Stuck
               PROVE  RingChains' /\ RingPlaces'
    BY DEF RingInv
  <2>1. setup.multicore /\ pat \notin Stuck /\ UNCHANGED <<pat, wchain, need>>
    BY <1>5, WaitFacts
  <2>2. RingChains /\ RingPlaces
    BY <2>1 DEF RingInv
  <2>3. OldestChain' = OldestChain /\ (Held' <=> Held)
    BY <2>1, OldestSame
  <2>4. RingChains'
    <3>1. pstate[fchain] = 0 /\ ~Closes(fchain)
      <4>1. fchain \in 1 .. Chains /\ pstate[fchain] \in {0, 1} /\ pstate[fchain] # 1
              /\ fat = "wait"
        BY <1>5, <2>2, WaitFacts DEF RingChains, PipeTypes
      <4> QED
        BY <4>1 DEF Closes
    <3>2. UNCHANGED <<pstate, fchain>> /\ fat' \notin {"join", "returned"}
            /\ fat \notin {"join", "returned"}
      BY <1>5, <3>1, WaitFacts
    <3>3. Closes(fchain)' <=> Closes(fchain)
      BY <3>2 DEF Closes
    <3> QED
      BY <2>2, <2>3, <3>2, <3>3, RingFrame
  <2>5. RingPlaces'
    <3>1. (Held' <=> Held) /\ UNCHANGED <<pat, wchain, need, pos>> /\ fat' \in {"fill", "wait",
            "wait_last", "join"} /\ (fat' = "join" => next' > Items)
            /\ (fat' = "wait_last" => next' > Items)
      <4>1. pstate[fchain] # 2
        BY <2>2 DEF PipeTypes, RingChains
      <4> QED
        BY <1>5, <2>1, <2>2, <2>3, <4>1, WaitFacts DEF RingPlaces
    <3>2. \A c \in 1 .. Chains : pstate[c] = 1 => pstate'[c] = 1 /\ count'[c] = count[c]
      BY <1>5, <2>2, WaitFacts DEF PlaceInv, FilledInv, RingChains
    <3>3. wchain \in 1 .. Chains /\ (Held => need \in 1 .. Chains)
      BY PipeSizes DEF PipeTypes, Held, P!NoChain
    <3>4. pat = "shift" => pat \in Working
      BY DEF Working
    <3> QED
      BY <2>2, <3>1, <3>2, <3>3, <3>4 DEF RingPlaces
  <2> QED
    BY <2>4, <2>5
<1>6. ASSUME P!FillEnds, setup' = setup PROVE RingInv'
  <2> SUFFICES ASSUME setup'.multicore, pat' \notin Stuck
               PROVE  RingChains' /\ RingPlaces'
    BY DEF RingInv
  <2>1. setup.multicore /\ pat \notin Stuck /\ UNCHANGED <<pat, wchain, need>>
    BY <1>6, FillEndsFacts
  <2>2. RingChains /\ RingPlaces
    BY <2>1 DEF RingInv
  <2>3. OldestChain' = OldestChain /\ (Held' <=> Held)
    BY <2>1, OldestSame
  <2>4. RingChains'
    <3>1. pstate[fchain] = 0 /\ ~Closes(fchain)
      BY <1>6, <2>1, <2>2, FillEndsFacts DEF PlaceInv, FilledInv, Closes
    <3>2. /\ pstate' \in [1 .. Chains -> 0 .. 2] /\ pstate'[fchain] = 1
               /\ \A d \in 1 .. Chains : d # fchain => pstate'[d] = pstate[d]
          /\ \/ fchain' = P!After(fchain) /\ fat' \notin {"join", "returned"}
             \/ fchain' = fchain /\ fat' = "join"
      BY <1>6, FillEndsFacts
    <3> QED
      BY <2>2, <2>3, <3>1, <3>2, RingGrows
  <2>5. RingPlaces'
    <3>1. (Held' <=> Held) /\ UNCHANGED <<pat, wchain, need, pos>> /\ fat' \in {"fill", "wait",
            "wait_last", "join"} /\ (fat' = "join" => next' > Items)
            /\ (fat' = "wait_last" => next' > Items)
      BY <1>6, <2>1, <2>2, <2>3, FillEndsFacts DEF RingPlaces
    <3>2. \A c \in 1 .. Chains : pstate[c] = 1 => pstate'[c] = 1 /\ count'[c] = count[c]
      BY <1>6, <2>2, FillEndsFacts DEF PlaceInv, FilledInv, RingChains
    <3>3. wchain \in 1 .. Chains /\ (Held => need \in 1 .. Chains)
      BY PipeSizes DEF PipeTypes, Held, P!NoChain
    <3>4. pat = "shift" => pat \in Working
      BY DEF Working
    <3> QED
      BY <2>2, <3>1, <3>2, <3>3, <3>4 DEF RingPlaces
  <2> QED
    BY <2>4, <2>5
<1>7. ASSUME P!WaitLast, setup' = setup PROVE RingInv'
  <2> SUFFICES ASSUME setup'.multicore, pat' \notin Stuck
               PROVE  RingChains' /\ RingPlaces'
    BY DEF RingInv
  <2>1. setup.multicore /\ pat \notin Stuck /\ UNCHANGED <<pat, wchain, need>>
    BY <1>7, WaitLastFacts
  <2>2. RingChains /\ RingPlaces
    BY <2>1 DEF RingInv
  <2>3. OldestChain' = OldestChain /\ (Held' <=> Held)
    BY <2>1, OldestSame
  <2>4. RingChains'
    <3>1. pstate[fchain] = 0 /\ ~Closes(fchain)
      <4>1. fchain \in 1 .. Chains /\ pstate[fchain] \in {0, 1} /\ pstate[fchain] # 1
              /\ fat = "wait_last"
        BY <1>7, <2>2, WaitLastFacts DEF RingChains, PipeTypes
      <4> QED
        BY <4>1 DEF Closes
    <3>2. /\ pstate' \in [1 .. Chains -> 0 .. 2] /\ pstate'[fchain] = 1
               /\ \A d \in 1 .. Chains : d # fchain => pstate'[d] = pstate[d]
          /\ fchain' = fchain /\ fat' = "join"
      BY <1>7, <3>1, WaitLastFacts
    <3> QED
      BY <2>2, <2>3, <3>1, <3>2, RingGrows
  <2>5. RingPlaces'
    <3>1. (Held' <=> Held) /\ UNCHANGED <<pat, wchain, need, pos>> /\ fat' \in {"fill", "wait",
            "wait_last", "join"} /\ (fat' = "join" => next' > Items)
            /\ (fat' = "wait_last" => next' > Items)
      BY <1>7, <2>1, <2>2, <2>3, WaitLastFacts DEF RingPlaces
    <3>2. \A c \in 1 .. Chains : pstate[c] = 1 => pstate'[c] = 1 /\ count'[c] = count[c]
      BY <1>7, <2>2, WaitLastFacts DEF PlaceInv, FilledInv, RingChains
    <3>3. wchain \in 1 .. Chains /\ (Held => need \in 1 .. Chains)
      BY PipeSizes DEF PipeTypes, Held, P!NoChain
    <3>4. pat = "shift" => pat \in Working
      BY DEF Working
    <3> QED
      BY <2>2, <3>1, <3>2, <3>3, <3>4 DEF RingPlaces
  <2> QED
    BY <2>4, <2>5
<1>8. ASSUME P!Join, setup' = setup PROVE RingInv'
  <2> SUFFICES ASSUME setup'.multicore, pat' \notin Stuck
               PROVE  RingChains' /\ RingPlaces'
    BY DEF RingInv
  <2>1. pat' \in Stuck
    BY <1>8, JoinFacts DEF Stuck
  <2> QED
    BY <2>1
<1>9. ASSUME P!Visit, setup' = setup PROVE RingInv'
  <2> SUFFICES ASSUME setup'.multicore, pat' \notin Stuck
               PROVE  RingChains' /\ RingPlaces'
    BY DEF RingInv
  <2>1. pat' = pat /\ UNCHANGED <<pstate, count, fat, fchain, next, wchain, pos, need>>
    BY <1>9, VisitFacts DEF Stuck
  <2>2. RingChains /\ RingPlaces
    BY <1>9, <2>1 DEF RingInv
  <2>3. OldestChain' = OldestChain /\ (Held' <=> Held)
    BY <2>1, OldestSame
  <2>4. RingChains'
    BY <2>1, <2>2, <2>3, RingFrame, ClosesSame
  <2>5. RingPlaces'
    BY <2>1, <2>2, <2>3 DEF RingPlaces
  <2> QED
    BY <2>4, <2>5
<1>10. ASSUME P!Top, setup' = setup PROVE RingInv'
  <2> SUFFICES ASSUME setup'.multicore, pat' \notin Stuck
               PROVE  RingChains' /\ RingPlaces'
    BY DEF RingInv
  <2>1. setup.multicore /\ pat \notin Stuck
    BY <1>10, TopFacts DEF Stuck, Visited
  <2>2. RingChains /\ RingPlaces
    BY <2>1 DEF RingInv
  <2>3. OldestChain' = OldestChain /\ (Held' <=> Held)
    <3>1. UNCHANGED <<wchain, need>> /\ (pat' \in Turning <=> pat \in Turning)
      BY <1>10, <2>1, TopFacts DEF Turning, Stuck
    <3> QED
      BY <3>1, OldestSame
  <2>4. RingChains'
    <3>1. UNCHANGED <<pstate, fat, fchain>>
      BY <1>10, TopFacts DEF Stuck
    <3> QED
      BY <2>2, <2>3, <3>1, RingFrame, ClosesSame
  <2>5. RingPlaces'
    <3>1. CASE pat' = "tail"
      <4>1. need # P!NoChain /\ pat = "top"
              /\ UNCHANGED <<pstate, count, fat, next, wchain, need>>
        BY <1>10, <3>1, TopFacts
      <4>2. Held
        BY <4>1 DEF Held, Turning
      <4> QED
        BY <2>2, <2>3, <3>1, <4>1, <4>2 DEF RingPlaces, Working
    <3>2. CASE pat' = "begin"
      <4>1. pstate[wchain] # 0 /\ pos' = 1 /\ pat = "top"
              /\ UNCHANGED <<pstate, count, fat, next, wchain, need>>
        BY <1>10, <3>2, TopFacts
      <4>2. pstate[wchain] = 1
        BY <2>2, <4>1 DEF RingChains, PipeTypes
      <4> QED
        BY <2>2, <2>3, <3>2, <4>1, <4>2 DEF RingPlaces
    <3> QED
      BY <1>10, <3>1, <3>2, TopFacts DEF Stuck
  <2> QED
    BY <2>4, <2>5
<1>11. ASSUME P!TailShift, setup' = setup PROVE RingInv'
  <2> SUFFICES ASSUME setup'.multicore, pat' \notin Stuck
               PROVE  RingChains' /\ RingPlaces'
    BY DEF RingInv
  <2>1. setup.multicore /\ pat \notin Stuck
    BY <1>11, TailShiftFacts DEF Stuck, Visited
  <2>2. RingChains /\ RingPlaces
    BY <2>1 DEF RingInv
  <2>3. OldestChain' = OldestChain /\ (Held' <=> Held)
    <3>1. UNCHANGED <<wchain, need>> /\ (pat' \in Turning <=> pat \in Turning)
      BY <1>11, <2>1, TailShiftFacts DEF Turning, Stuck
    <3> QED
      BY <3>1, OldestSame
  <2>4. RingChains'
    <3>1. UNCHANGED <<pstate, fat, fchain>>
      BY <1>11, TailShiftFacts DEF Stuck
    <3> QED
      BY <2>2, <2>3, <3>1, RingFrame, ClosesSame
  <2>5. RingPlaces'
    BY <1>11, <2>2, <2>3, TailShiftFacts DEF RingPlaces, Working, Stuck
  <2> QED
    BY <2>4, <2>5
<1>12. ASSUME P!TailEnd, setup' = setup PROVE RingInv'
  <2> SUFFICES ASSUME setup'.multicore, pat' \notin Stuck
               PROVE  RingChains' /\ RingPlaces'
    BY DEF RingInv
  <2>1. /\ count[need] # 0 /\ need' = P!NoChain /\ pat' = "top" /\ pat = "tail_end"
             /\ need \in 1 .. Chains
        /\ GivesBack(need) /\ UNCHANGED <<fat, fchain, wchain, count, next>>
    BY <1>12, TailEndFacts DEF Stuck, GivesBack
  <2>2. setup.multicore /\ pat \notin Stuck /\ Held /\ wchain = P!After(need)
          /\ pstate[need] = 1
    BY <1>12, <2>1, HeldFacts
  <2>3. RingChains /\ RingPlaces
    BY <2>2 DEF RingInv
  <2>4. ~Closes(need)
    BY <2>1, <2>2 DEF ChainsInv, Counts, Runs, Front, Filling
  <2>5. ~Held'
    BY <2>1 DEF Held
  <2>6. RingChains'
    BY <2>1, <2>2, <2>3, <2>4, <2>5, RingTurns
  <2>7. RingPlaces'
    BY <2>1, <2>3, <2>5 DEF RingPlaces, Working
  <2> QED
    BY <2>6, <2>7
<1>13. ASSUME P!Begin, setup' = setup PROVE RingInv'
  <2> SUFFICES ASSUME setup'.multicore, pat' \notin Stuck
               PROVE  RingChains' /\ RingPlaces'
    BY DEF RingInv
  <2>1. setup.multicore /\ pat \notin Stuck
    BY <1>13, BeginFacts DEF Stuck, Visited
  <2>2. RingChains /\ RingPlaces
    BY <2>1 DEF RingInv
  <2>3. OldestChain' = OldestChain /\ (Held' <=> Held)
    <3>1. CASE pat' = "carry"
      <4>1. UNCHANGED <<wchain, need>> /\ (pat' \in Turning <=> pat \in Turning)
        BY <1>13, <3>1, BeginFacts DEF Turning, Stuck
      <4> QED
        BY <4>1, OldestSame
    <3>2. CASE pat' = "loop"
      <4>1. need = P!NoChain /\ UNCHANGED <<wchain, need>>
        BY <1>13, <3>2, BeginFacts
      <4> QED
        BY <4>1 DEF Held, OldestChain
    <3> QED
      BY <1>13, <3>1, <3>2, BeginFacts DEF Stuck
  <2>4. RingChains'
    <3>1. UNCHANGED <<pstate, fat, fchain>>
      BY <1>13, BeginFacts DEF Stuck
    <3> QED
      BY <2>2, <2>3, <3>1, RingFrame, ClosesSame
  <2>5. RingPlaces'
    <3>1. CASE pat' = "carry"
      <4>1. need # P!NoChain /\ pat = "begin"
              /\ UNCHANGED <<pstate, count, fat, next, wchain, need>>
        BY <1>13, <3>1, BeginFacts
      <4>2. Held
        BY <4>1 DEF Held, Turning
      <4> QED
        BY <2>2, <2>3, <3>1, <4>1, <4>2 DEF RingPlaces, Working
    <3>2. CASE pat' = "loop"
      <4>1. pat = "begin" /\ UNCHANGED <<pstate, count, fat, next, wchain, need>>
        BY <1>13, BeginFacts
      <4> QED
        BY <2>2, <2>3, <3>2, <4>1 DEF RingPlaces, Working
    <3> QED
      BY <1>13, <3>1, <3>2, BeginFacts DEF Stuck
  <2> QED
    BY <2>4, <2>5
<1>14. ASSUME P!Carry, setup' = setup PROVE RingInv'
  <2> SUFFICES ASSUME setup'.multicore, pat' \notin Stuck
               PROVE  RingChains' /\ RingPlaces'
    BY DEF RingInv
  <2>1. setup.multicore /\ pat \notin Stuck
    BY <1>14, CarryFacts DEF Stuck, Visited
  <2>2. RingChains /\ RingPlaces
    BY <2>1 DEF RingInv
  <2>3. OldestChain' = OldestChain /\ (Held' <=> Held)
    <3>1. UNCHANGED <<wchain, need>> /\ (pat' \in Turning <=> pat \in Turning)
      BY <1>14, <2>1, CarryFacts DEF Turning, Stuck
    <3> QED
      BY <3>1, OldestSame
  <2>4. RingChains'
    <3>1. UNCHANGED <<pstate, fat, fchain>>
      BY <1>14, CarryFacts DEF Stuck
    <3> QED
      BY <2>2, <2>3, <3>1, RingFrame, ClosesSame
  <2>5. RingPlaces'
    BY <1>14, <2>2, <2>3, CarryFacts DEF RingPlaces, Working, Stuck
  <2> QED
    BY <2>4, <2>5
<1>15. ASSUME P!Carried, setup' = setup PROVE RingInv'
  <2> SUFFICES ASSUME setup'.multicore, pat' \notin Stuck
               PROVE  RingChains' /\ RingPlaces'
    BY DEF RingInv
  <2>1. /\ pat' = "loop" /\ pat = "carried" /\ need \in 1 .. Chains
        /\ GivesBack(need) /\ UNCHANGED <<fat, fchain, wchain, count, next>>
    BY <1>15, CarriedFacts DEF GivesBack
  <2>2. setup.multicore /\ pat \notin Stuck /\ Held /\ wchain = P!After(need)
          /\ pstate[need] = 1
    BY <1>15, <2>1, HeldFacts
  <2>3. RingChains /\ RingPlaces
    BY <2>2 DEF RingInv
  <2>4. pstate[wchain] = 1 /\ wchain \in 1 .. Chains /\ wchain # need
    BY <2>1, <2>2, <2>3, AfterFacts DEF RingPlaces, Working
  <2>5. ~Closes(need)
    <3> SUFFICES ASSUME Closes(need)
                 PROVE  FALSE
      OBVIOUS
    <3>1. need = fchain /\ Off(need) = 0
      BY <2>1, <2>2, OldestFacts DEF Closes
    <3>2. Number = 1
      BY <3>1 DEF Number
    <3>3. Off(wchain) < 1
      BY <2>3, <2>4, <3>2 DEF RingChains
    <3>4. Off(wchain) = 0
      BY <2>4, <3>3, OldestFacts, PipeSizes
    <3> QED
      BY <2>2, <2>4, <3>4, OldestFacts
  <2>6. ~Held'
    BY <2>1 DEF Held, Turning
  <2>7. RingChains'
    BY <2>1, <2>2, <2>3, <2>5, <2>6, RingTurns
  <2>8. RingPlaces'
    <3>1. pstate'[wchain] = 1
      BY <2>1, <2>4 DEF GivesBack
    <3> QED
      BY <2>1, <2>3, <2>6, <3>1 DEF RingPlaces
  <2> QED
    BY <2>7, <2>8
<1>16. ASSUME P!Loop, setup' = setup PROVE RingInv'
  <2> SUFFICES ASSUME setup'.multicore, pat' \notin Stuck
               PROVE  RingChains' /\ RingPlaces'
    BY DEF RingInv
  <2>1. setup.multicore /\ pat \notin Stuck
    BY <1>16, LoopFacts DEF Stuck, Visited
  <2>2. RingChains /\ RingPlaces
    BY <2>1 DEF RingInv
  <2>3. OldestChain' = OldestChain /\ (Held' <=> Held)
    <3>1. UNCHANGED <<wchain, need>> /\ (pat' \in Turning <=> pat \in Turning)
      BY <1>16, <2>1, LoopFacts DEF Turning, Stuck
    <3> QED
      BY <3>1, OldestSame
  <2>4. RingChains'
    <3>1. UNCHANGED <<pstate, fat, fchain>>
      BY <1>16, LoopFacts DEF Stuck
    <3> QED
      BY <2>2, <2>3, <3>1, RingFrame, ClosesSame
  <2>5. RingPlaces'
    BY <1>16, <2>2, <2>3, LoopFacts DEF RingPlaces, Working, Stuck
  <2> QED
    BY <2>4, <2>5
<1>17. ASSUME P!Shift, setup' = setup PROVE RingInv'
  <2> SUFFICES ASSUME setup'.multicore, pat' \notin Stuck
               PROVE  RingChains' /\ RingPlaces'
    BY DEF RingInv
  <2>1. setup.multicore /\ pat \notin Stuck
    BY <1>17, ShiftFacts DEF Stuck, Visited
  <2>2. RingChains /\ RingPlaces
    BY <2>1 DEF RingInv
  <2>3. OldestChain' = OldestChain /\ (Held' <=> Held)
    <3>1. UNCHANGED <<wchain, need>> /\ (pat' \in Turning <=> pat \in Turning)
      BY <1>17, <2>1, ShiftFacts DEF Turning, Stuck
    <3> QED
      BY <3>1, OldestSame
  <2>4. RingChains'
    <3>1. UNCHANGED <<pstate, fat, fchain>>
      BY <1>17, ShiftFacts DEF Stuck
    <3> QED
      BY <2>2, <2>3, <3>1, RingFrame, ClosesSame
  <2>5. RingPlaces'
    BY <1>17, <2>2, <2>3, ShiftFacts DEF RingPlaces, Working, Stuck
  <2> QED
    BY <2>4, <2>5
<1>18. ASSUME P!LoopEnds, setup' = setup PROVE RingInv'
  <2> SUFFICES ASSUME setup'.multicore, pat' \notin Stuck
               PROVE  RingChains' /\ RingPlaces'
    BY DEF RingInv
  <2>1. setup.multicore /\ pat \notin Stuck /\ pat = "loop" /\ pat' \in {"tail", "top"}
          /\ need' = wchain /\ wchain' = P!After(wchain) /\ wchain \in 1 .. Chains
    BY <1>18, LoopEndsFacts DEF Stuck, PipeTypes
  <2>2. RingChains /\ RingPlaces
    BY <2>1 DEF RingInv
  <2>3. ~Held /\ Held' /\ OldestChain' = OldestChain
    <3>1. wchain # P!NoChain
      BY <2>1, PipeSizes DEF P!NoChain
    <3> QED
      BY <2>1, <3>1 DEF Held, OldestChain, Turning
  <2>4. UNCHANGED <<pstate, fat, fchain, count, next>>
    BY <1>18, LoopEndsFacts
  <2>5. RingChains'
    BY <2>2, <2>3, <2>4, RingFrame, ClosesSame
  <2>6. RingPlaces'
    BY <2>1, <2>2, <2>3, <2>4 DEF RingPlaces, Working
  <2> QED
    BY <2>5, <2>6
<1>19. ASSUME P!SingleGet, setup' = setup PROVE RingInv'
  <2>1. pat \in {"single", "single_shift"}
    BY <1>19, SingleGetFacts
  <2>2. ~setup.multicore
    BY <2>1 DEF PlaceInv, SidesInv
  <2> QED
    BY <1>19, <2>2 DEF RingInv
<1>20. ASSUME P!SingleShift, setup' = setup PROVE RingInv'
  <2>1. pat \in {"single", "single_shift"}
    BY <1>20, SingleShiftFacts
  <2>2. ~setup.multicore
    BY <2>1 DEF PlaceInv, SidesInv
  <2> QED
    BY <1>20, <2>2 DEF RingInv
<1>21. ASSUME P!SingleEnds, setup' = setup PROVE RingInv'
  <2>1. pat \in {"single", "single_shift"}
    BY <1>21, SingleEndsFacts
  <2>2. ~setup.multicore
    BY <2>1 DEF PlaceInv, SidesInv
  <2> QED
    BY <1>21, <2>2 DEF RingInv
<1>22. CASE UNCHANGED P!vars
  BY <1>22 DEF P!vars, P!caller, P!visits, P!outcome, RingInv, RingChains, RingPlaces, Off,
     OldestChain, Held, Number, Closes
<1> QED
  BY <1>1, <1>2, <1>3, <1>4, <1>5, <1>6, <1>7, <1>8, <1>9, <1>10, <1>11, <1>12, <1>13, <1>14,
     <1>15, <1>16, <1>17, <1>18, <1>19, <1>20, <1>21, <1>22 DEF P!Next, P!Caller, P!Worker

LEMMA RingOf ==
  ASSUME PlaceInv, RingInv, pat \in {"carry", "carried"}
           \/ (setup.multicore /\ pat \notin Stuck)
  PROVE  setup.multicore /\ pat \notin Stuck /\ RingChains /\ RingPlaces
<1>1. setup.multicore /\ pat \notin Stuck
  BY DEF PlaceInv, SidesInv, Stuck
<1> QED
  BY <1>1 DEF RingInv

\* Whose entries are under way.
LEMMA EntriesStep ==
  ASSUME PipeTypes, PlaceInv, StageInv, ItemsInv, DoneInv, SingleInv, RingInv, ChainsInv,
           EntriesInv, P!Next \/ UNCHANGED P!vars
  PROVE  EntriesInv'
<1>1. ASSUME P!FillFirst, setup' = setup PROVE EntriesInv'
  <2> SUFFICES ASSUME setup.multicore, NEW k \in 1 .. 2, Under(k)'
               PROVE  EntryOk(k)'
    BY <1>1 DEF EntriesInv
  <2>1. pat = "off" /\ stage' = stage
    BY <1>1, FillFirstFacts DEF PlaceInv, SidesInv
  <2>2. Under(k)
    BY <2>1 DEF Under
  <2> QED
    BY <2>1, <2>2, UnderHeld
<1>2. ASSUME P!FirstEnds, setup' = setup PROVE EntriesInv'
  <2> SUFFICES ASSUME setup.multicore, NEW k \in 1 .. 2, Under(k)'
               PROVE  EntryOk(k)'
    BY <1>2 DEF EntriesInv
  <2>1. UNCHANGED <<stage, pat, wchain, need>>
    BY <1>2, FirstEndsFacts
  <2>2. Under(k)
    BY <2>1 DEF Under
  <2>3. stage[k][1] \in 1 .. Chains /\ pstate[stage[k][1]] # 0 /\ EntryOk(k)
    BY <2>2, UnderHeld DEF EntriesInv
  <2>4. \A c \in 1 .. Chains : pstate[c] # 0 => pstate'[c] # 0
    BY <1>2, FirstEndsFacts
  <2> QED
    BY <2>1, <2>3, <2>4 DEF EntryOk
<1>3. ASSUME P!Start, setup' = setup PROVE EntriesInv'
  <2> SUFFICES ASSUME setup.multicore, NEW k \in 1 .. 2, Under(k)'
               PROVE  EntryOk(k)'
    BY <1>3 DEF EntriesInv
  <2>1. pat = "off" /\ stage' = stage
    BY <1>3, StartFacts DEF PlaceInv, SidesInv
  <2>2. Under(k)
    BY <2>1 DEF Under
  <2> QED
    BY <2>1, <2>2, UnderHeld
<1>4. ASSUME P!FillNext, setup' = setup PROVE EntriesInv'
  <2> SUFFICES ASSUME setup.multicore, NEW k \in 1 .. 2, Under(k)'
               PROVE  EntryOk(k)'
    BY <1>4 DEF EntriesInv
  <2>1. UNCHANGED <<stage, pat, wchain, need>>
    BY <1>4, FillNextFacts
  <2>2. Under(k)
    BY <2>1 DEF Under
  <2>3. stage[k][1] \in 1 .. Chains /\ pstate[stage[k][1]] # 0 /\ EntryOk(k)
    BY <2>2, UnderHeld DEF EntriesInv
  <2>4. \A c \in 1 .. Chains : pstate[c] # 0 => pstate'[c] # 0
    BY <1>4, FillNextFacts
  <2> QED
    BY <2>1, <2>3, <2>4 DEF EntryOk
<1>5. ASSUME P!Wait, setup' = setup PROVE EntriesInv'
  <2> SUFFICES ASSUME setup.multicore, NEW k \in 1 .. 2, Under(k)'
               PROVE  EntryOk(k)'
    BY <1>5 DEF EntriesInv
  <2>1. UNCHANGED <<stage, pat, wchain, need>>
    BY <1>5, WaitFacts
  <2>2. Under(k)
    BY <2>1 DEF Under
  <2>3. stage[k][1] \in 1 .. Chains /\ pstate[stage[k][1]] # 0 /\ EntryOk(k)
    BY <2>2, UnderHeld DEF EntriesInv
  <2>4. \A c \in 1 .. Chains : pstate[c] # 0 => pstate'[c] # 0
    BY <1>5, WaitFacts
  <2> QED
    BY <2>1, <2>3, <2>4 DEF EntryOk
<1>6. ASSUME P!FillEnds, setup' = setup PROVE EntriesInv'
  <2> SUFFICES ASSUME setup.multicore, NEW k \in 1 .. 2, Under(k)'
               PROVE  EntryOk(k)'
    BY <1>6 DEF EntriesInv
  <2>1. UNCHANGED <<stage, pat, wchain, need>>
    BY <1>6, FillEndsFacts
  <2>2. Under(k)
    BY <2>1 DEF Under
  <2>3. stage[k][1] \in 1 .. Chains /\ pstate[stage[k][1]] # 0 /\ EntryOk(k)
    BY <2>2, UnderHeld DEF EntriesInv
  <2>4. \A c \in 1 .. Chains : pstate[c] # 0 => pstate'[c] # 0
    BY <1>6, FillEndsFacts
  <2> QED
    BY <2>1, <2>3, <2>4 DEF EntryOk
<1>7. ASSUME P!WaitLast, setup' = setup PROVE EntriesInv'
  <2> SUFFICES ASSUME setup.multicore, NEW k \in 1 .. 2, Under(k)'
               PROVE  EntryOk(k)'
    BY <1>7 DEF EntriesInv
  <2>1. UNCHANGED <<stage, pat, wchain, need>>
    BY <1>7, WaitLastFacts
  <2>2. Under(k)
    BY <2>1 DEF Under
  <2>3. stage[k][1] \in 1 .. Chains /\ pstate[stage[k][1]] # 0 /\ EntryOk(k)
    BY <2>2, UnderHeld DEF EntriesInv
  <2>4. \A c \in 1 .. Chains : pstate[c] # 0 => pstate'[c] # 0
    BY <1>7, WaitLastFacts
  <2> QED
    BY <2>1, <2>3, <2>4 DEF EntryOk
<1>8. ASSUME P!Join, setup' = setup PROVE EntriesInv'
  <2> SUFFICES ASSUME setup.multicore, NEW k \in 1 .. 2, Under(k)'
               PROVE  EntryOk(k)'
    BY <1>8 DEF EntriesInv
  <2>1. UNCHANGED <<stage, pat, wchain, need>>
    BY <1>8, JoinFacts
  <2>2. Under(k)
    BY <2>1 DEF Under
  <2>3. stage[k][1] \in 1 .. Chains /\ pstate[stage[k][1]] # 0 /\ EntryOk(k)
    BY <2>2, UnderHeld DEF EntriesInv
  <2>4. \A c \in 1 .. Chains : pstate[c] # 0 => pstate'[c] # 0
    BY <1>8, JoinFacts
  <2> QED
    BY <2>1, <2>3, <2>4 DEF EntryOk
<1>9. ASSUME P!Visit, setup' = setup PROVE EntriesInv'
  <2> SUFFICES ASSUME setup.multicore, NEW k \in 1 .. 2, Under(k)'
               PROVE  EntryOk(k)'
    BY <1>9 DEF EntriesInv
  <2>1. UNCHANGED <<wchain, need>> /\ pat' \in {pat, "crashed", "failed"}
          /\ (pat' = pat => pstate' = pstate) /\ pat \in Visited
    BY <1>9, VisitFacts DEF Visited
  <2>2. stage' = stage \/ stage' = [stage EXCEPT ![Head(todo)] = P!NoSlot]
    BY <1>9, VisitFacts
  <2>3. Under(k) /\ stage'[k] = stage[k]
    <3>1. stage \in Stages
      BY DEF PipeTypes
    <3> QED
      BY <2>2, <3>1 DEF Under, Stages
  <2>4. stage[k][1] \in 1 .. Chains /\ pstate[stage[k][1]] # 0 /\ EntryOk(k)
    BY <2>3, UnderHeld DEF EntriesInv
  <2>5. \A c \in 1 .. Chains : pstate[c] # 0 => pstate'[c] # 0
    <3>1. pstate' = pstate \/ \A c \in 1 .. Chains : pstate'[c] = pstate[c]
            \/ (pstate[c] = 1 /\ pstate'[c] = 2)
      BY <1>9, VisitFacts
    <3> QED
      BY <3>1
  <2> QED
    BY <2>1, <2>3, <2>4, <2>5 DEF EntryOk, Visited, Stuck
<1>10. ASSUME P!Top, setup' = setup PROVE EntriesInv'
  <2> SUFFICES ASSUME setup.multicore, NEW k \in 1 .. 2, Under(k)'
               PROVE  EntryOk(k)'
    BY <1>10 DEF EntriesInv
  <2>1. stage' = stage /\ pstate' = pstate /\ pat = "top"
          /\ UNCHANGED <<wchain, need>> /\ pat' \in {"tail", "try", "begin"}
    BY <1>10, TopFacts DEF PipeTypes
  <2>2. Under(k)
    BY <2>1 DEF Under
  <2>3. stage[k][1] \in 1 .. Chains /\ pstate[stage[k][1]] # 0 /\ EntryOk(k)
    BY <2>2, UnderHeld DEF EntriesInv
  <2> QED
    BY <2>1, <2>3, PipeSizes DEF EntryOk, Stuck, P!NoChain
<1>11. ASSUME P!TailShift, setup' = setup PROVE EntriesInv'
  <2> SUFFICES ASSUME setup.multicore, NEW k \in 1 .. 2, Under(k)'
               PROVE  EntryOk(k)'
    BY <1>11 DEF EntriesInv
  <2>1. stage'[1] = P!NoSlot /\ stage'[2] = stage[1]
    BY <1>11, TailShiftFacts, ShiftedFacts
  <2>2. pat = "tail" /\ pat' \in {"tail_end", "try"}
          /\ UNCHANGED <<wchain, need>> /\ pstate' = pstate
    BY <1>11, TailShiftFacts
  <2>3. CASE k = 2
    <3>1. Under(1)
      BY <2>1, <2>3 DEF Under
    <3>2. pstate[stage[1][1]] # 0 /\ EntryOk(1)
      <4>1. 1 \in 1 .. 2
        OBVIOUS
      <4> QED
        BY <3>1, <4>1, UnderHeld DEF EntriesInv
    <3> QED
      BY <2>1, <2>2, <2>3, <3>2 DEF EntryOk, Stuck
  <2>4. CASE k = 1
    BY <2>1, <2>4 DEF Under
  <2> QED
    BY <2>3, <2>4
<1>12. ASSUME P!TailEnd, setup' = setup PROVE EntriesInv'
  <2>1. stage' = P!Empty
    BY <1>12, TailEndFacts
  <2> QED
    BY <2>1, EmptyFacts DEF EntriesInv, Under
<1>13. ASSUME P!Begin, setup' = setup PROVE EntriesInv'
  <2> SUFFICES ASSUME setup.multicore, NEW k \in 1 .. 2, Under(k)'
               PROVE  EntryOk(k)'
    BY <1>13 DEF EntriesInv
  <2>1. stage' = stage /\ pstate' = pstate /\ pat = "begin"
          /\ UNCHANGED <<wchain, need>> /\ (pat' \in {"carry", "try"} \/ need = P!NoChain)
    BY <1>13, BeginFacts DEF PipeTypes
  <2>2. Under(k)
    BY <2>1 DEF Under
  <2>3. stage[k][1] \in 1 .. Chains /\ pstate[stage[k][1]] # 0 /\ EntryOk(k)
    BY <2>2, UnderHeld DEF EntriesInv
  <2> QED
    BY <2>1, <2>3, PipeSizes DEF EntryOk, Stuck, P!NoChain
<1>14. ASSUME P!Carry, setup' = setup PROVE EntriesInv'
  <2> SUFFICES ASSUME setup.multicore, NEW k \in 1 .. 2, Under(k)'
               PROVE  EntryOk(k)'
    BY <1>14 DEF EntriesInv
  <2>1. stage'[1] = P!Entry(1) /\ stage'[2] = stage[1]
    <3>1. P!Entry(1) \in P!Slots \cup {P!NoSlot}
      BY EntryFacts
    <3> QED
      BY <1>14, <3>1, CarryFacts, ShiftedFacts
  <2>2. pat = "carry" /\ pat' \in {"carried", "try"}
          /\ UNCHANGED <<wchain, need>> /\ pstate' = pstate
    BY <1>14, CarryFacts
  <2>3. CASE k = 2
    <3>1. Under(1)
      BY <2>1, <2>3 DEF Under
    <3>2. pstate[stage[1][1]] # 0 /\ EntryOk(1)
      <4>1. 1 \in 1 .. 2
        OBVIOUS
      <4> QED
        BY <3>1, <4>1, UnderHeld DEF EntriesInv
    <3> QED
      BY <2>1, <2>2, <2>3, <3>2 DEF EntryOk, Stuck
  <2>4. CASE k = 1
    <3>1. stage'[1] = <<wchain, 1>>
      BY <2>1, <2>4, EntryFacts DEF Under, P!Entry
    <3>2. pstate[wchain] # 0
      BY <1>14, <2>2, RingOf DEF RingPlaces, Working
    <3> QED
      BY <2>2, <2>4, <3>1, <3>2 DEF EntryOk, Stuck
  <2> QED
    BY <2>3, <2>4
<1>15. ASSUME P!Carried, setup' = setup PROVE EntriesInv'
  <2> SUFFICES ASSUME setup.multicore, NEW k \in 1 .. 2, Under(k)'
               PROVE  EntryOk(k)'
    BY <1>15 DEF EntriesInv
  <2>1. stage'[1] = P!Entry(2) /\ stage'[2] = stage[1]
    <3>1. P!Entry(2) \in P!Slots \cup {P!NoSlot}
      BY EntryFacts
    <3> QED
      BY <1>15, <3>1, CarriedFacts, ShiftedFacts
  <2>2. pat = "carried" /\ pat' = "loop" /\ wchain' = wchain
    BY <1>15, CarriedFacts
  <2>3. CASE k = 2
    <3>1. Under(1)
      BY <2>1, <2>3 DEF Under
    <3>2. pstate[stage[1][1]] # 0 /\ EntryOk(1)
      <4>1. 1 \in 1 .. 2
        OBVIOUS
      <4> QED
        BY <3>1, <4>1, UnderHeld DEF EntriesInv
    <3> QED
      BY <2>1, <2>2, <2>3, <3>2 DEF EntryOk, Stuck
  <2>4. CASE k = 1
    <3>1. stage'[1] = <<wchain, 2>>
      BY <2>1, <2>4, EntryFacts DEF Under, P!Entry
    <3> QED
      BY <2>2, <2>4, <3>1 DEF EntryOk, Stuck
  <2> QED
    BY <2>3, <2>4
<1>16. ASSUME P!Loop, setup' = setup PROVE EntriesInv'
  <2> SUFFICES ASSUME setup.multicore, NEW k \in 1 .. 2, Under(k)'
               PROVE  EntryOk(k)'
    BY <1>16 DEF EntriesInv
  <2>1. stage' = stage /\ pstate' = pstate /\ pat = "loop"
          /\ UNCHANGED <<wchain, need>> /\ pat' \in {"shift", "try"}
    BY <1>16, LoopFacts DEF PipeTypes
  <2>2. Under(k)
    BY <2>1 DEF Under
  <2>3. stage[k][1] \in 1 .. Chains /\ pstate[stage[k][1]] # 0 /\ EntryOk(k)
    BY <2>2, UnderHeld DEF EntriesInv
  <2> QED
    BY <2>1, <2>3, PipeSizes DEF EntryOk, Stuck, P!NoChain
<1>17. ASSUME P!Shift, setup' = setup PROVE EntriesInv'
  <2> SUFFICES ASSUME setup.multicore, NEW k \in 1 .. 2, Under(k)'
               PROVE  EntryOk(k)'
    BY <1>17 DEF EntriesInv
  <2>1. stage'[1] = <<wchain, pos>> /\ stage'[2] = stage[1]
    BY <1>17, ShiftFacts DEF P!Shifted
  <2>2. pat = "shift" /\ pat' = "loop" /\ wchain' = wchain
    BY <1>17, ShiftFacts
  <2>3. CASE k = 2
    <3>1. Under(1)
      BY <2>1, <2>3 DEF Under
    <3>2. pstate[stage[1][1]] # 0 /\ EntryOk(1)
      <4>1. 1 \in 1 .. 2
        OBVIOUS
      <4> QED
        BY <3>1, <4>1, UnderHeld DEF EntriesInv
    <3> QED
      BY <2>1, <2>2, <2>3, <3>2 DEF EntryOk, Stuck
  <2>4. CASE k = 1
    <3>1. stage'[1] = <<wchain, pos>>
      BY <2>1, <2>4 DEF Under
    <3> QED
      BY <2>2, <2>4, <3>1 DEF EntryOk, Stuck
  <2> QED
    BY <2>3, <2>4
<1>18. ASSUME P!LoopEnds, setup' = setup PROVE EntriesInv'
  <2> SUFFICES ASSUME setup.multicore, NEW k \in 1 .. 2, Under(k)'
               PROVE  EntryOk(k)'
    BY <1>18 DEF EntriesInv
  <2>1. stage' = stage /\ pstate' = pstate /\ pat = "loop" /\ need' = wchain
          /\ wchain \in 1 .. Chains /\ pat' \in {"tail", "try", "top"}
    BY <1>18, LoopEndsFacts DEF PipeTypes
  <2>2. Under(k)
    BY <2>1 DEF Under
  <2>3. stage[k][1] \in 1 .. Chains /\ pstate[stage[k][1]] # 0 /\ EntryOk(k)
    BY <2>2, UnderHeld DEF EntriesInv
  <2> QED
    BY <2>1, <2>3, PipeSizes DEF EntryOk, Stuck, P!NoChain
<1>19. ASSUME P!SingleGet, setup' = setup PROVE EntriesInv'
  <2>1. pat \in {"single", "single_shift"}
    BY <1>19, SingleGetFacts
  <2>2. ~setup.multicore
    BY <2>1 DEF PlaceInv, SidesInv
  <2> QED
    BY <1>19, <2>2 DEF EntriesInv
<1>20. ASSUME P!SingleShift, setup' = setup PROVE EntriesInv'
  <2>1. pat \in {"single", "single_shift"}
    BY <1>20, SingleShiftFacts
  <2>2. ~setup.multicore
    BY <2>1 DEF PlaceInv, SidesInv
  <2> QED
    BY <1>20, <2>2 DEF EntriesInv
<1>21. ASSUME P!SingleEnds, setup' = setup PROVE EntriesInv'
  <2>1. pat \in {"single", "single_shift"}
    BY <1>21, SingleEndsFacts
  <2>2. ~setup.multicore
    BY <2>1 DEF PlaceInv, SidesInv
  <2> QED
    BY <1>21, <2>2 DEF EntriesInv
<1>22. CASE UNCHANGED P!vars
  BY <1>22 DEF P!vars, P!caller, P!visits, P!outcome, EntriesInv, EntryOk, Under
<1> QED
  BY <1>1, <1>2, <1>3, <1>4, <1>5, <1>6, <1>7, <1>8, <1>9, <1>10, <1>11, <1>12, <1>13, <1>14,
     <1>15, <1>16, <1>17, <1>18, <1>19, <1>20, <1>21, <1>22 DEF P!Next, P!Caller, P!Worker

LEMMA ChainsOf ==
  ASSUME ChainsInv, setup.multicore, pat \notin Stuck, pat # "off"
  PROVE  Counts /\ Runs /\ Front /\ Filling
BY DEF ChainsInv

\* Only the chain that is being filled is waited for.
LEMMA FrontIs ==
  ASSUME PipeTypes, RingChains, RingPlaces, pstate[wchain] # 1, ~Closes(fchain)
  PROVE  wchain = fchain
<1>0. wchain \in 1 .. Chains /\ fchain \in 1 .. Chains /\ Chains \in Nat /\ Chains >= 2
  BY PipeSizes DEF PipeTypes
<1>1. Off(wchain) \in 0 .. 1 /\ Off(wchain) >= Number /\ Off(fchain) \in 0 .. Chains - 1
  <2>1. Off(wchain) \in Nat /\ Number \in Nat /\ ~(Off(wchain) < Number)
          /\ Off(fchain) \in 0 .. Chains - 1
    BY <1>0, OldestFacts DEF RingChains
  <2>2. CASE Held
    <3>1. need \in 1 .. Chains /\ wchain = P!After(need) /\ OldestChain = need
      BY <2>2, PipeSizes, OldestFacts DEF RingPlaces, PipeTypes, Held, P!NoChain
    <3>2. Dist(need, wchain) = Dist(need, need) + 1 /\ Dist(need, need) = 0
      BY <3>1, DistFacts, AfterFacts
    <3> QED
      BY <2>1, <3>1, <3>2 DEF Off
  <2>3. CASE ~Held
    <3>1. Off(wchain) = 0
      BY <1>0, <2>3, OldestFacts
    <3> QED
      BY <2>1, <3>1
  <2> QED
    BY <2>2, <2>3
<1>2. pstate[fchain] # 1
  <2>1. pstate[fchain] = 1 => Number = Chains
    BY DEF Number
  <2> QED
    BY <1>0, <1>1, <2>1
<1>3. Number = Off(fchain)
  BY <1>2 DEF Number
<1>4. Held => Number >= 1
  <2>1. Held => need \in 1 .. Chains /\ pstate[need] = 1
    BY PipeSizes DEF RingPlaces, PipeTypes, Held, P!NoChain
  <2>2. \A c \in 1 .. Chains : pstate[c] = 1 => Off(c) < Number /\ Off(c) \in Nat
    BY OldestFacts DEF RingChains
  <2> QED
    BY <2>1, <2>2, OldestFacts
<1>5. Off(fchain) = Off(wchain)
  <2>1. CASE Held
    BY <1>1, <1>3, <1>4, <2>1
  <2>2. CASE ~Held
    <3>1. Off(wchain) = 0
      BY <1>0, <2>2, OldestFacts
    <3> QED
      BY <1>1, <1>3, <3>1
  <2> QED
    BY <2>1, <2>2
<1>6. OldestChain \in 1 .. Chains
  BY OldestFacts
<1>7. Dist(OldestChain, fchain) = Dist(OldestChain, wchain)
  BY <1>5 DEF Off
<1> QED
  BY <1>0, <1>6, <1>7, DistFacts

LEMMA BaseFacts ==
  ASSUME PipeTypes
  PROVE  Staged \in Nat /\ Base \in Int /\ Filled \in 0 .. ChainSize /\ next \in Nat
           /\ Hi \in Nat
         /\ \A c \in 1 .. Chains : count[c] \in 0 .. ChainSize
              /\ \A i \in 1 .. ChainSize : slot[<<c, i>>] \in Nat
<1>1. count[wchain] \in 0 .. ChainSize /\ count[fchain] \in 0 .. ChainSize /\ pos \in Nat \ {0}
        /\ ChainSize \in Nat
  BY PipeSizes DEF PipeTypes
<1>2. Staged \in Nat
  BY <1>1 DEF Staged, Least
<1>3. Hi \in Nat /\ next \in Nat
  BY HiNat
<1>4. Base \in Int
  BY <1>2, <1>3 DEF Base
<1>5. Filled \in 0 .. ChainSize
  BY <1>1 DEF Filled
<1>6. \A c \in 1 .. Chains : count[c] \in 0 .. ChainSize
        /\ \A i \in 1 .. ChainSize : slot[<<c, i>>] \in Nat
  <2> TAKE c \in 1 .. Chains
  <2>1. count[c] \in 0 .. ChainSize
    BY DEF PipeTypes
  <2>2. ASSUME NEW i \in 1 .. ChainSize PROVE slot[<<c, i>>] \in Nat
    <3>1. i \in 1 .. P!Width
      BY PipeSizes
    <3>2. <<c, i>> \in P!Slots
      BY <3>1, SlotFacts
    <3>3. slot[<<c, i>>] \in 0 .. Items
      BY <3>2 DEF PipeTypes
    <3> QED
      BY <3>3, PipeSizes
  <2> QED
    BY <2>1, <2>2
<1> QED
  BY <1>2, <1>3, <1>4, <1>5, <1>6

\* What a step of the thread leaves of the chains.
LEMMA ChainsKept ==
  ASSUME Counts, Runs, Filling, UNCHANGED <<slot, count, fat, fchain, next>>,
         \A c \in 1 .. Chains : (pstate'[c] = 1 => pstate[c] = 1) /\ (Ahead(c)' => Ahead(c))
  PROVE  Counts' /\ Runs' /\ Filling' /\ Filled' = Filled /\ \A c : Closes(c)' <=> Closes(c)
<1>1. Filled' = Filled /\ \A c : Closes(c)' <=> Closes(c)
  BY DEF Filled, Closes
<1>2. Counts'
  BY <1>1 DEF Counts
<1>3. Runs'
  BY <1>1 DEF Runs
<1>4. Filling'
  BY DEF Filling
<1> QED
  BY <1>1, <1>2, <1>3, <1>4

LEMMA AheadKept ==
  ASSUME UNCHANGED <<fat, fchain, need>>, Held' <=> Held,
         NEW c, pstate'[c] = 1 => pstate[c] = 1
  PROVE  Ahead(c)' => Ahead(c)
BY DEF Ahead, Closes

LEMMA FrontKept ==
  ASSUME Front, UNCHANGED <<slot, wchain, next>>, pstate'[wchain] = 1 <=> pstate[wchain] = 1,
         Base' = Base, Filled' = Filled, \A c : Closes(c)' <=> Closes(c)
  PROVE  Front'
<1>1. Closes(wchain)' <=> Closes(wchain)
  BY DEF Closes
<1> QED
  BY <1>1 DEF Front

\* A chain is handed over and the caller goes on to the next one.
LEMMA ChainsGrow ==
  ASSUME PipeTypes, RingChains, RingPlaces, Counts, Runs, Front, fat = "fill",
           pstate[fchain] = 0,
         pstate'[fchain] = 1, count'[fchain] \in 1 .. ChainSize, next' \in Nat, next' >= next,
         next' - count'[fchain] = next - count[fchain],
         \A d \in 1 .. Chains : d # fchain => /\ pstate'[d] = pstate[d] /\ count'[d] = count[d]
                                           /\ \A i \in 1 .. ChainSize : slot'[<<d,
                                                i>>] = slot[<<d, i>>],
         \A i \in 1 .. count'[fchain] : slot'[<<fchain, i>>] = next' - count'[fchain] + i - 1,
         fchain' = P!After(fchain), fat' \in {"wait", "wait_last"},
         UNCHANGED <<need, wchain>>, Held' <=> Held, Base' = Base
  PROVE  Counts' /\ Runs' /\ Front' /\ Filling'
<1> DEFINE f == fchain
           n == count'[fchain]
<1>0. f \in 1 .. Chains /\ P!After(f) \in 1 .. Chains /\ P!After(f) # f /\ n \in Nat /\ n >= 1
        /\ 1 \in 1 .. ChainSize
      /\ next \in Nat /\ count[f] \in Nat /\ ChainSize \in Nat
  <2>1. f \in 1 .. Chains
    BY DEF PipeTypes
  <2>2. P!After(f) \in 1 .. Chains /\ P!After(f) # f
    BY <2>1, AfterFacts
  <2>3. next \in Nat /\ count[f] \in 0 .. ChainSize
    BY <2>1, BaseFacts
  <2>4. ChainSize \in Nat /\ ChainSize >= 1
    BY PipeSizes
  <2> QED
    BY <2>1, <2>2, <2>3, <2>4
<1>1. Filled = count[f] /\ Filled' = 0 /\ \A c : ~Closes(c) /\ ~Closes(c)'
  BY DEF Filled, Closes
<1>2. slot'[<<f, 1>>] = next' - n /\ next' - n = next - count[f]
  <2>1. slot'[<<f, 1>>] = next' - n + 1 - 1
    BY <1>0
  <2> QED
    BY <1>0, <2>1
<1> HIDE DEF n
<1>3. Counts'
  <2> SUFFICES ASSUME NEW c \in 1 .. Chains, pstate'[c] = 1
               PROVE  count'[c] # 0
    BY <1>1 DEF Counts
  <2>1. CASE c = f
    BY <1>0, <2>1 DEF n
  <2>2. CASE c # f
    BY <1>1, <2>2 DEF Counts
  <2> QED
    BY <2>1, <2>2
<1>4. Runs'
  <2> SUFFICES ASSUME NEW c \in 1 .. Chains, Ahead(c)'
               PROVE  /\ slot'[<<c, 1>>] + count'[c] <= next'
                      /\ \A i \in 1 .. count'[c] : slot'[<<c, i>>] = slot'[<<c, 1>>] + i - 1
                      /\ IF P!After(c) = fchain' THEN slot'[<<c,
                           1>>] + count'[c] + Filled' = next'
                         ELSE slot'[<<P!After(c), 1>>] = slot'[<<c, 1>>] + count'[c]
    BY DEF Runs
  <2>1. CASE c = f
    <3>1. slot'[<<c, 1>>] + count'[c] = next'
      BY <1>0, <1>2, <2>1 DEF n
    <3>2. \A i \in 1 .. count'[c] : slot'[<<c, i>>] = slot'[<<c, 1>>] + i - 1
      BY <1>2, <2>1 DEF n
    <3> QED
      BY <1>0, <1>1, <2>1, <3>1, <3>2
  <2>2. CASE c # f
    <3>1. Ahead(c) /\ count'[c] = count[c] /\ count[c] \in 0 .. ChainSize
            /\ slot'[<<c, 1>>] = slot[<<c, 1>>] /\ slot[<<c, 1>>] \in Nat
      BY <1>0, <1>1, <2>2, BaseFacts DEF Ahead
    <3>2. /\ slot[<<c, 1>>] + count[c] <= next
          /\ \A i \in 1 .. count[c] : slot[<<c, i>>] = slot[<<c, 1>>] + i - 1
          /\ IF P!After(c) = f THEN slot[<<c, 1>>] + count[c] + Filled = next
             ELSE slot[<<P!After(c), 1>>] = slot[<<c, 1>>] + count[c]
      BY <3>1 DEF Runs
    <3>3. slot[<<c, 1>>] + count[c] <= next'
      BY <1>0, <3>1, <3>2
    <3>4. \A i \in 1 .. count'[c] : slot'[<<c, i>>] = slot'[<<c, 1>>] + i - 1
      <4>1. \A i \in 1 .. count[c] : i \in 1 .. ChainSize
        BY <1>0, <3>1
      <4> QED
        BY <2>2, <3>1, <3>2, <4>1
    <3>5. P!After(c) # fchain' /\ P!After(c) \in 1 .. Chains
      <4>1. P!After(c) # P!After(f)
        <5>1. P!After(c) = (IF c = Chains THEN 1 ELSE c + 1)
                /\ P!After(f) = (IF f = Chains THEN 1 ELSE f + 1)
          BY <1>0, AfterFacts
        <5> QED
          BY <1>0, <2>2, <5>1
      <4> QED
        BY <4>1, AfterFacts
    <3>6. slot'[<<P!After(c), 1>>] = slot'[<<c, 1>>] + count'[c]
      <4>1. CASE P!After(c) = f
        <5>1. slot[<<c, 1>>] + count[c] + count[f] = next
          BY <1>1, <3>2, <4>1
        <5>2. slot[<<c, 1>>] + count[c] = next - count[f]
          BY <1>0, <3>1, <5>1
        <5> QED
          BY <1>2, <3>1, <4>1, <5>2
      <4>2. CASE P!After(c) # f
        <5>1. slot'[<<P!After(c), 1>>] = slot[<<P!After(c), 1>>]
          BY <1>0, <3>5, <4>2
        <5> QED
          BY <3>1, <3>2, <4>2, <5>1
      <4> QED
        BY <4>1, <4>2
    <3> QED
      BY <3>1, <3>3, <3>4, <3>5, <3>6
  <2> QED
    BY <2>1, <2>2
<1>5. Front'
  <2>0. wchain \in 1 .. Chains /\ Base \in Int
    BY BaseFacts DEF PipeTypes
  <2>1. pstate'[wchain] = 1 /\ ~Closes(wchain)'
    BY <1>0, <1>1, <2>0, FrontIs
  <2>2. slot'[<<wchain, 1>>] = Base + 1
    <3>1. CASE wchain = f
      <4>1. Base + count[f] + 1 = next
        BY <1>1, <3>1 DEF Front
      <4>2. Base + 1 = next - count[f]
        BY <1>0, <2>0, <4>1
      <4> QED
        BY <1>2, <3>1, <4>2
    <3>2. CASE wchain # f
      <4>1. pstate[wchain] = 1 /\ slot'[<<wchain, 1>>] = slot[<<wchain, 1>>]
        BY <1>0, <2>0, <2>1, <3>2
      <4> QED
        BY <1>1, <4>1 DEF Front
    <3> QED
      BY <3>1, <3>2
  <2> QED
    BY <2>1, <2>2 DEF Front
<1>6. Filling'
  BY DEF Filling
<1> QED
  BY <1>3, <1>4, <1>5, <1>6

\* The empty chain that ends the work is handed over.
LEMMA ChainsClose ==
  ASSUME PipeTypes, Counts, Runs, Front, fat \in {"fill", "wait_last"}, Filled = 0,
           pstate[fchain] = 0,
         pstate'[fchain] = 1, count'[fchain] = 0,
         \A d \in 1 .. Chains : d # fchain => pstate'[d] = pstate[d] /\ count'[d] = count[d],
         UNCHANGED <<slot, next, need, wchain, fchain>>, fat' = "join", Held' <=> Held,
           Base' = Base
  PROVE  Counts' /\ Runs' /\ Front' /\ Filling'
<1>0. fchain \in 1 .. Chains /\ wchain \in 1 .. Chains
  BY DEF PipeTypes
<1>1. Filled' = 0 /\ \A c : ~Closes(c) /\ (Closes(c)' <=> c = fchain)
  BY DEF Filled, Closes
<1>2. Counts'
  BY <1>0, <1>1 DEF Counts
<1>3. \A c \in 1 .. Chains : Ahead(c)' => c # fchain /\ Ahead(c)
  BY <1>1 DEF Ahead
<1>4. Runs'
  BY <1>1, <1>3 DEF Runs
<1>5. Front'
  <2>1. Closes(wchain)' <=> wchain = fchain
    BY DEF Closes
  <2>2. pstate[wchain] = 1 /\ ~Closes(wchain) <=> pstate'[wchain] = 1 /\ ~Closes(wchain)'
    BY <1>0, <1>1, <2>1
  <2> QED
    BY <1>1, <2>2 DEF Front
<1>6. Filling'
  BY DEF Filling
<1> QED
  BY <1>2, <1>4, <1>5, <1>6

LEMMA TailEndHi ==
  ASSUME PipeTypes, PlaceInv, StageInv, RingInv, P!TailEnd
  PROVE  Hi' = Hi
<1>1. ~Under(1) /\ ~Under(2)
  BY TailEndFacts, RestFacts DEF Visited, StageInv
<1>2. stage' = P!Empty /\ done' = done
  BY TailEndFacts
<1>3. ~Under(1)' /\ ~Under(2)'
  BY <1>2, EmptyFacts DEF Under
<1> QED
  BY <1>1, <1>2, <1>3 DEF Hi

\* The caller does not disturb what the thread has staged.
LEMMA BaseSame ==
  ASSUME UNCHANGED <<stage, done, pat, pos, wchain>>, pat \in Working
           => count'[wchain] = count[wchain]
  PROVE  Base' = Base
<1>1. Hi' = Hi
  BY HiSame
<1>2. Staged' = Staged
  BY DEF Staged, Working
<1> QED
  BY <1>1, <1>2 DEF Base

\* What the chains have.
LEMMA ChainsStep ==
  ASSUME PipeTypes, PlaceInv, StageInv, ItemsInv, DoneInv, SingleInv, RingInv, ChainsInv,
           EntriesInv, P!Next \/ UNCHANGED P!vars
  PROVE  ChainsInv'
<1>1. ASSUME P!FillFirst, setup' = setup PROVE ChainsInv'
  <2> SUFFICES ASSUME setup.multicore, pat' \notin Stuck, pat' # "off"
               PROVE  Counts' /\ Runs' /\ Front' /\ Filling'
    BY <1>1 DEF ChainsInv
  <2>1. pat = "off" /\ pat' = pat
    BY <1>1, FillFirstFacts DEF PlaceInv, SidesInv
  <2> QED
    BY <2>1
<1>2. ASSUME P!FirstEnds, setup' = setup PROVE ChainsInv'
  <2> SUFFICES ASSUME setup.multicore, pat' \notin Stuck, pat' # "off"
               PROVE  Counts' /\ Runs' /\ Front' /\ Filling'
    BY <1>2 DEF ChainsInv
  <2>1. pat = "off" /\ pat' = pat
    BY <1>2, FirstEndsFacts DEF PlaceInv, SidesInv
  <2> QED
    BY <2>1
<1>3. ASSUME P!Start, setup' = setup PROVE ChainsInv'
  <2> SUFFICES ASSUME setup.multicore, pat' \notin Stuck, pat' # "off"
               PROVE  Counts' /\ Runs' /\ Front' /\ Filling'
    BY <1>3 DEF ChainsInv
  <2>1. pat' = "top" /\ fat' = "fill" /\ fchain' = P!After(1) /\ pstate'[1] = 1 /\ count[1] # 0
        /\ (\A d \in 1 .. Chains : d # 1 => pstate'[d] = pstate[d])
             /\ UNCHANGED <<slot, count, next, wchain, stage, done, need>>
    BY <1>3, StartFacts DEF Stuck
  <2>2. pat = "off"
    <3>1. fat = "start"
      BY <1>3, StartFacts
    <3> QED
      BY <1>3, <2>1, <3>1 DEF PlaceInv, SidesInv, Stuck
  <2>3. /\ wchain = 1 /\ done = <<>> /\ stage = P!Empty /\ need = P!NoChain
        /\ \A c \in 1 .. Chains : pstate[c] = 0 /\ (c # 1 => count[c] = 0)
        /\ count[1] = next - 1 /\ \A i \in 1 .. count[1] : slot[<<1, i>>] = i
    BY <2>2 DEF PlaceInv, OffInv
  <2>4. /\ 1 \in 1 .. Chains /\ P!After(1) \in 1 .. Chains /\ P!After(1) # 1 /\ next \in Nat
             /\ count[1] \in Nat
        /\ slot[<<1, 1>>] = 1
    <3>1. 1 \in 1 .. Chains /\ P!After(1) \in 1 .. Chains /\ P!After(1) # 1
      BY PipeSizes, AfterFacts
    <3>2. next \in Nat /\ count[1] \in Nat
      BY <3>1, PipeSizes DEF PipeTypes
    <3>3. 1 \in 1 .. count[1]
      BY <2>1, <3>2
    <3> QED
      BY <2>3, <3>1, <3>2, <3>3
  <2>5. Hi' = 0 /\ Staged' = 0 /\ Base' = 0
    <3>1. ~Under(1)' /\ ~Under(2)' /\ Len(done') = 0
      BY <2>1, <2>3, EmptyFacts DEF Under
    <3>2. Hi' = 0 /\ Staged' = 0
      BY <2>1, <3>1 DEF Hi, Staged
    <3> QED
      BY <3>2 DEF Base
  <2>6. count'[fchain'] = 0 /\ Filled' = 0 /\ \A c : ~Closes(c)'
    BY <2>1, <2>3, <2>4 DEF Filled, Closes
  <2>7. Counts'
    BY <2>1, <2>3, <2>4, <2>6 DEF Counts
  <2>8. Runs'
    <3>1. \A c \in 1 .. Chains : Ahead(c)' => c = 1
      BY <2>1, <2>3 DEF Ahead
    <3>2. slot'[<<1, 1>>] + count'[1] = next' /\ slot'[<<1, 1>>] + count'[1] + Filled' = next'
            /\ next' \in Nat
      BY <2>1, <2>3, <2>4, <2>6
    <3>3. \A i \in 1 .. count'[1] : slot'[<<1, i>>] = slot'[<<1, 1>>] + i - 1
      <4> TAKE i \in 1 .. count'[1]
      <4>1. slot'[<<1, i>>] = i /\ i \in Int
        BY <2>1, <2>3, <2>4
      <4>2. slot'[<<1, 1>>] = 1
        BY <2>1, <2>4
      <4> QED
        BY <4>1, <4>2
    <3>4. slot'[<<1, 1>>] + count'[1] <= next'
      BY <3>2
    <3> QED
      BY <2>1, <3>1, <3>2, <3>3, <3>4 DEF Runs
  <2>9. Front'
    <3>1. slot'[<<wchain', 1>>] = Base' + 1 /\ pstate'[wchain'] = 1 /\ wchain' = 1
      BY <2>1, <2>3, <2>4, <2>5
    <3> QED
      BY <2>6, <3>1 DEF Front
  <2>10. Filling'
    <3>1. \A i : i \notin 1 .. 0
      OBVIOUS
    <3> QED
      BY <2>6, <3>1 DEF Filling
  <2> QED
    BY <2>7, <2>8, <2>9, <2>10
<1>4. ASSUME P!FillNext, setup' = setup PROVE ChainsInv'
  <2> SUFFICES ASSUME setup.multicore, pat' \notin Stuck, pat' # "off"
               PROVE  Counts' /\ Runs' /\ Front' /\ Filling'
    BY <1>4 DEF ChainsInv
  <2>1. pat \notin Stuck /\ pat # "off" /\ UNCHANGED <<pat, wchain, pos, stage, done, need>>
    BY <1>4, FillNextFacts
  <2>2. RingChains /\ RingPlaces /\ Counts /\ Runs /\ Front /\ Filling
    BY <2>1, RingOf, ChainsOf
  <2>3. Held' <=> Held
    BY <2>1 DEF Held
  <2>4. fchain \in 1 .. Chains /\ wchain \in 1 .. Chains /\ pstate[fchain] = 0
          /\ fat \in {"fill", "wait", "wait_last"}
    BY <1>4, <2>2, FillNextFacts DEF PipeTypes, PlaceInv, FilledInv, RingChains
  <2>5. Base' = Base
    <3>1. pat \in Working => count'[wchain] = count[wchain]
      <4>1. pat \in Working => wchain # fchain
        BY <2>2, <2>4 DEF RingPlaces
      <4> QED
        BY <1>4, <2>4, <4>1, FillNextFacts
    <3> QED
      BY <2>1, <3>1, BaseSame
  <2>6. \A c : ~Closes(c)
    BY <2>4 DEF Closes
  <2>7. /\ fat = "fill" /\ next' = next + 1 /\ count'[fchain] = count[fchain] + 1
             /\ count'[fchain] \in 1 .. ChainSize
        /\ slot'[<<fchain, count[fchain] + 1>>] = next /\ next \in Nat /\ count[fchain] \in Nat
        /\ \A d \in 1 .. Chains : d # fchain => count'[d] = count[d]
    BY <1>4, <2>4, FillNextFacts, BaseFacts
  <2>8. \A d \in 1 .. Chains : d # fchain
          => \A i \in 1 .. ChainSize : slot'[<<d, i>>] = slot[<<d, i>>]
    <3> SUFFICES ASSUME NEW d \in 1 .. Chains, d # fchain, NEW i \in 1 .. ChainSize
                 PROVE  slot'[<<d, i>>] = slot[<<d, i>>]
      OBVIOUS
    <3>1. i \in 1 .. P!Width
      BY PipeSizes
    <3>2. <<d, i>> \in P!Slots /\ <<d, i>> # <<fchain, count[fchain] + 1>>
      BY <3>1, SlotFacts
    <3> QED
      BY <1>4, <3>2, FillNextFacts
  <2>9. \A i \in 1 .. count'[fchain] : slot'[<<fchain, i>>] = next' - count'[fchain] + i - 1
    <3> TAKE i \in 1 .. count'[fchain]
    <3>1. CASE i = count[fchain] + 1
      BY <2>7, <3>1
    <3>2. CASE i # count[fchain] + 1
      <4>1. i \in 1 .. count[fchain] /\ i \in 1 .. P!Width
        BY <2>7, <3>2, PipeSizes
      <4>2. <<fchain, i>> \in P!Slots /\ <<fchain, i>> # <<fchain, count[fchain] + 1>>
        BY <2>4, <3>2, <4>1, SlotFacts
      <4>3. slot'[<<fchain, i>>] = slot[<<fchain, i>>]
        BY <1>4, <4>2, FillNextFacts
      <4>4. slot[<<fchain, i>>] = next - count[fchain] + i - 1
        BY <2>2, <2>7, <4>1 DEF Filling
      <4>5. next' - count'[fchain] = next - count[fchain]
        BY <2>7
      <4> QED
        BY <4>3, <4>4, <4>5
    <3> QED
      BY <3>1, <3>2
  <2>10. CASE count'[fchain] = ChainSize
    <3>1. /\ pstate'[fchain] = 1 /\ fchain' = P!After(fchain) /\ fat' = "wait"
          /\ \A d \in 1 .. Chains : d # fchain => pstate'[d] = pstate[d]
      BY <1>4, <2>10, FillNextFacts
    <3>2. next' \in Nat /\ next' >= next /\ next' - count'[fchain] = next - count[fchain]
      BY <2>7
    <3>3. \A d \in 1 .. Chains : d # fchain => /\ pstate'[d] = pstate[d] /\ count'[d] = count[d]
                                            /\ \A i \in 1 .. ChainSize : slot'[<<d,
                                                 i>>] = slot[<<d, i>>]
      BY <2>7, <2>8, <3>1
    <3> QED
      BY <2>1, <2>2, <2>3, <2>4, <2>5, <2>7, <2>9, <3>1, <3>2, <3>3, ChainsGrow
  <2>11. CASE count'[fchain] # ChainSize
    <3>1. UNCHANGED <<pstate, fchain, fat>>
      BY <1>4, <2>11, FillNextFacts
    <3>2. Filled' = Filled + 1 /\ Filled = count[fchain] /\ \A c : ~Closes(c)'
      BY <2>7, <3>1 DEF Filled, Closes
    <3>3. Counts'
      BY <2>2, <2>4, <2>6, <2>7, <3>1, <3>2 DEF Counts
    <3>4. Runs'
      <4> SUFFICES ASSUME NEW c \in 1 .. Chains, Ahead(c)'
                   PROVE  /\ slot'[<<c, 1>>] + count'[c] <= next'
                          /\ \A i \in 1 .. count'[c] : slot'[<<c, i>>] = slot'[<<c, 1>>] + i - 1
                          /\ IF P!After(c) = fchain' THEN slot'[<<c,
                               1>>] + count'[c] + Filled' = next'
                             ELSE slot'[<<P!After(c), 1>>] = slot'[<<c, 1>>] + count'[c]
        BY DEF Runs
      <4>1. Ahead(c) /\ c # fchain
        BY <2>1, <2>3, <2>4, <2>6, <3>1 DEF Ahead
      <4>2. /\ slot[<<c, 1>>] + count[c] <= next
            /\ \A i \in 1 .. count[c] : slot[<<c, i>>] = slot[<<c, 1>>] + i - 1
            /\ IF P!After(c) = fchain THEN slot[<<c, 1>>] + count[c] + Filled = next
               ELSE slot[<<P!After(c), 1>>] = slot[<<c, 1>>] + count[c]
        BY <2>2, <4>1 DEF Runs
      <4>3. /\ 1 \in 1 .. ChainSize /\ P!After(c) \in 1 .. Chains /\ slot[<<c, 1>>] \in Nat
                 /\ count[c] \in 0 .. ChainSize
            /\ count'[c] = count[c] /\ slot'[<<c, 1>>] = slot[<<c, 1>>]
        BY <2>7, <2>8, <4>1, BaseFacts, AfterFacts, PipeSizes
      <4>4. slot[<<c, 1>>] + count[c] <= next'
        BY <2>7, <4>2, <4>3
      <4>5. \A i \in 1 .. count'[c] : slot'[<<c, i>>] = slot'[<<c, 1>>] + i - 1
        <5>1. \A i \in 1 .. count[c] : i \in 1 .. ChainSize
          BY <4>3, PipeSizes
        <5> QED
          BY <2>8, <4>1, <4>2, <4>3, <5>1
      <4>6. CASE P!After(c) = fchain
        <5>1. slot[<<c, 1>>] + count[c] + Filled' = next'
          BY <2>7, <3>2, <4>2, <4>3, <4>6
        <5> QED
          BY <3>1, <4>3, <4>4, <4>5, <4>6, <5>1
      <4>7. CASE P!After(c) # fchain
        <5>1. slot'[<<P!After(c), 1>>] = slot[<<P!After(c), 1>>]
          BY <2>8, <4>3, <4>7
        <5> QED
          BY <3>1, <4>2, <4>3, <4>4, <4>5, <4>7, <5>1
      <4> QED
        BY <4>6, <4>7
    <3>5. Front'
      <4>1. CASE pstate[wchain] = 1
        <5>1. slot'[<<wchain, 1>>] = slot[<<wchain, 1>>]
          <6>1. wchain # fchain /\ 1 \in 1 .. ChainSize
            BY <2>4, <4>1, PipeSizes
          <6> QED
            BY <2>4, <2>8, <6>1
        <5>2. slot[<<wchain, 1>>] = Base + 1
          BY <2>2, <2>6, <4>1 DEF Front
        <5>3. pstate'[wchain'] = 1 /\ slot'[<<wchain', 1>>] = Base' + 1
          BY <2>1, <2>5, <3>1, <4>1, <5>1, <5>2
        <5> QED
          BY <3>2, <5>3 DEF Front
      <4>2. CASE pstate[wchain] # 1
        <5>1. Base + Filled + 1 = next
          BY <2>2, <4>2 DEF Front
        <5>2. Base + Filled' + 1 = next'
          BY <2>7, <3>2, <5>1, BaseFacts
        <5>3. pstate'[wchain'] # 1 /\ Base' + Filled' + 1 = next'
          BY <2>1, <2>5, <3>1, <4>2, <5>2
        <5> QED
          BY <5>3 DEF Front
      <4> QED
        BY <4>1, <4>2
    <3>6. Filling'
      BY <2>9, <3>1 DEF Filling
    <3> QED
      BY <3>3, <3>4, <3>5, <3>6
  <2> QED
    BY <2>10, <2>11
<1>5. ASSUME P!Wait, setup' = setup PROVE ChainsInv'
  <2> SUFFICES ASSUME setup.multicore, pat' \notin Stuck, pat' # "off"
               PROVE  Counts' /\ Runs' /\ Front' /\ Filling'
    BY <1>5 DEF ChainsInv
  <2>1. pat \notin Stuck /\ pat # "off" /\ UNCHANGED <<pat, wchain, pos, stage, done, need>>
    BY <1>5, WaitFacts
  <2>2. RingChains /\ RingPlaces /\ Counts /\ Runs /\ Front /\ Filling
    BY <2>1, RingOf, ChainsOf
  <2>3. Held' <=> Held
    BY <2>1 DEF Held
  <2>4. fchain \in 1 .. Chains /\ wchain \in 1 .. Chains /\ pstate[fchain] = 0
          /\ fat \in {"fill", "wait", "wait_last"}
    BY <1>5, <2>2, WaitFacts DEF PipeTypes, PlaceInv, FilledInv, RingChains
  <2>5. Base' = Base
    <3>1. pat \in Working => count'[wchain] = count[wchain]
      <4>1. pat \in Working => wchain # fchain
        BY <2>2, <2>4 DEF RingPlaces
      <4> QED
        BY <1>5, <2>4, <4>1, WaitFacts
    <3> QED
      BY <2>1, <3>1, BaseSame
  <2>6. \A c : ~Closes(c)
    BY <2>4 DEF Closes
  <2>7. /\ fat = "wait" /\ fat' = "fill" /\ count'[fchain] = 0
             /\ UNCHANGED <<slot, next, fchain, pstate>>
        /\ \A d \in 1 .. Chains : d # fchain => count'[d] = count[d]
    BY <1>5, <2>4, WaitFacts
  <2>8. Filled = 0 /\ Filled' = 0 /\ \A c : ~Closes(c)'
    BY <2>7 DEF Filled, Closes
  <2>9. Counts'
    BY <2>2, <2>4, <2>6, <2>7, <2>8 DEF Counts
  <2>10. \A c \in 1 .. Chains : Ahead(c)' => Ahead(c) /\ c # fchain
    BY <2>1, <2>3, <2>4, <2>6, <2>7 DEF Ahead
  <2>11. Runs'
    <3> SUFFICES ASSUME NEW c \in 1 .. Chains, Ahead(c)'
                 PROVE  /\ slot'[<<c, 1>>] + count'[c] <= next'
                        /\ \A i \in 1 .. count'[c] : slot'[<<c, i>>] = slot'[<<c, 1>>] + i - 1
                        /\ IF P!After(c) = fchain' THEN slot'[<<c,
                             1>>] + count'[c] + Filled' = next'
                           ELSE slot'[<<P!After(c), 1>>] = slot'[<<c, 1>>] + count'[c]
      BY DEF Runs
    <3>1. Ahead(c) /\ c # fchain
      BY <2>10
    <3>2. /\ slot[<<c, 1>>] + count[c] <= next
          /\ \A i \in 1 .. count[c] : slot[<<c, i>>] = slot[<<c, 1>>] + i - 1
          /\ IF P!After(c) = fchain THEN slot[<<c, 1>>] + count[c] + Filled = next
             ELSE slot[<<P!After(c), 1>>] = slot[<<c, 1>>] + count[c]
      BY <2>2, <3>1 DEF Runs
    <3>3. count'[c] = count[c] /\ slot' = slot /\ next' = next /\ fchain' = fchain
            /\ Filled' = Filled
      BY <2>7, <2>8, <3>1
    <3> QED
      BY <3>2, <3>3
  <2>12. Front'
    BY <2>1, <2>2, <2>5, <2>6, <2>7, <2>8 DEF Front
  <2>13. Filling'
    <3>1. \A i : i \notin 1 .. 0
      OBVIOUS
    <3> QED
      BY <2>7, <3>1 DEF Filling
  <2> QED
    BY <2>9, <2>11, <2>12, <2>13
<1>6. ASSUME P!FillEnds, setup' = setup PROVE ChainsInv'
  <2> SUFFICES ASSUME setup.multicore, pat' \notin Stuck, pat' # "off"
               PROVE  Counts' /\ Runs' /\ Front' /\ Filling'
    BY <1>6 DEF ChainsInv
  <2>1. pat \notin Stuck /\ pat # "off" /\ UNCHANGED <<pat, wchain, pos, stage, done, need>>
    BY <1>6, FillEndsFacts
  <2>2. RingChains /\ RingPlaces /\ Counts /\ Runs /\ Front /\ Filling
    BY <2>1, RingOf, ChainsOf
  <2>3. Held' <=> Held
    BY <2>1 DEF Held
  <2>4. fchain \in 1 .. Chains /\ wchain \in 1 .. Chains /\ pstate[fchain] = 0
          /\ fat \in {"fill", "wait", "wait_last"}
    BY <1>6, <2>2, FillEndsFacts DEF PipeTypes, PlaceInv, FilledInv, RingChains
  <2>5. Base' = Base
    <3>1. pat \in Working => count'[wchain] = count[wchain]
      <4>1. pat \in Working => wchain # fchain
        BY <2>2, <2>4 DEF RingPlaces
      <4> QED
        BY <1>6, <2>4, <4>1, FillEndsFacts
    <3> QED
      BY <2>1, <3>1, BaseSame
  <2>6. \A c : ~Closes(c)
    BY <2>4 DEF Closes
  <2>7. CASE count[fchain] > 0
    <3>1. /\ fat = "fill" /\ pstate'[fchain] = 1
               /\ UNCHANGED <<slot, count, next>> /\ fchain' = P!After(fchain)
               /\ fat' = "wait_last"
          /\ \A d \in 1 .. Chains : d # fchain => pstate'[d] = pstate[d]
      BY <1>6, <2>7, FillEndsFacts
    <3>2. count'[fchain] \in 1 .. ChainSize /\ next' \in Nat /\ next' >= next
            /\ next' - count'[fchain] = next - count[fchain]
      BY <2>4, <2>7, <3>1, BaseFacts
    <3>3. \A i \in 1 .. count'[fchain] : slot'[<<fchain, i>>] = next' - count'[fchain] + i - 1
      BY <2>2, <3>1 DEF Filling
    <3>4. \A d \in 1 .. Chains : d # fchain => /\ pstate'[d] = pstate[d] /\ count'[d] = count[d]
                                            /\ \A i \in 1 .. ChainSize : slot'[<<d,
                                                 i>>] = slot[<<d, i>>]
      BY <3>1
    <3> QED
      BY <2>1, <2>2, <2>3, <2>4, <2>5, <3>1, <3>2, <3>3, <3>4, ChainsGrow
  <2>8. CASE count[fchain] = 0
    <3>1. /\ fat = "fill" /\ pstate'[fchain] = 1
               /\ UNCHANGED <<slot, count, next, fchain>> /\ fat' = "join"
          /\ \A d \in 1 .. Chains : d # fchain => pstate'[d] = pstate[d]
      BY <1>6, <2>8, FillEndsFacts
    <3>2. Filled = 0
      BY <2>8 DEF Filled
    <3> QED
      BY <2>1, <2>2, <2>3, <2>4, <2>5, <2>8, <3>1, <3>2, ChainsClose
  <2> QED
    BY <1>6, <2>7, <2>8, FillEndsFacts
<1>7. ASSUME P!WaitLast, setup' = setup PROVE ChainsInv'
  <2> SUFFICES ASSUME setup.multicore, pat' \notin Stuck, pat' # "off"
               PROVE  Counts' /\ Runs' /\ Front' /\ Filling'
    BY <1>7 DEF ChainsInv
  <2>1. pat \notin Stuck /\ pat # "off" /\ UNCHANGED <<pat, wchain, pos, stage, done, need>>
    BY <1>7, WaitLastFacts
  <2>2. RingChains /\ RingPlaces /\ Counts /\ Runs /\ Front /\ Filling
    BY <2>1, RingOf, ChainsOf
  <2>3. Held' <=> Held
    BY <2>1 DEF Held
  <2>4. fchain \in 1 .. Chains /\ wchain \in 1 .. Chains /\ pstate[fchain] = 0
          /\ fat \in {"fill", "wait", "wait_last"}
    BY <1>7, <2>2, WaitLastFacts DEF PipeTypes, PlaceInv, FilledInv, RingChains
  <2>5. Base' = Base
    <3>1. pat \in Working => count'[wchain] = count[wchain]
      <4>1. pat \in Working => wchain # fchain
        BY <2>2, <2>4 DEF RingPlaces
      <4> QED
        BY <1>7, <2>4, <4>1, WaitLastFacts
    <3> QED
      BY <2>1, <3>1, BaseSame
  <2>6. \A c : ~Closes(c)
    BY <2>4 DEF Closes
  <2>7. /\ fat = "wait_last" /\ pstate'[fchain] = 1 /\ count'[fchain] = 0
             /\ UNCHANGED <<slot, next, fchain>> /\ fat' = "join"
        /\ \A d \in 1 .. Chains : d # fchain => pstate'[d] = pstate[d] /\ count'[d] = count[d]
    BY <1>7, <2>4, WaitLastFacts
  <2>8. Filled = 0
    BY <2>7 DEF Filled
  <2> QED
    BY <2>1, <2>2, <2>3, <2>4, <2>5, <2>7, <2>8, ChainsClose
<1>8. ASSUME P!Join, setup' = setup PROVE ChainsInv'
  <2> SUFFICES ASSUME setup.multicore, pat' \notin Stuck, pat' # "off"
               PROVE  Counts' /\ Runs' /\ Front' /\ Filling'
    BY <1>8 DEF ChainsInv
  <2>1. pat' \in Stuck
    BY <1>8, JoinFacts DEF Stuck
  <2> QED
    BY <2>1
<1>9. ASSUME P!Visit, setup' = setup PROVE ChainsInv'
  <2> SUFFICES ASSUME setup.multicore, pat' \notin Stuck, pat' # "off"
               PROVE  Counts' /\ Runs' /\ Front' /\ Filling'
    BY <1>9 DEF ChainsInv
  <2>1. pat \notin Stuck /\ pat # "off"
    BY <1>9, VisitFacts DEF Stuck, Visited
  <2>2. RingChains /\ RingPlaces /\ Counts /\ Runs /\ Front /\ Filling
    BY <2>1, RingOf, ChainsOf
  <2>3. \A c \in 1 .. Chains : (pstate'[c] = 1 => pstate[c] = 1) /\ (Ahead(c)' => Ahead(c))
    <3>1. UNCHANGED <<pstate, fat, fchain, need>> /\ (Held' <=> Held)
      BY <1>9, VisitFacts DEF Held, Turning, Stuck, Visited
    <3> QED
      BY <3>1, AheadKept
  <2>4. UNCHANGED <<slot, count, fat, fchain, next>>
    BY <1>9, VisitFacts
  <2>5. Counts' /\ Runs' /\ Filling' /\ Filled' = Filled /\ \A c : Closes(c)' <=> Closes(c)
    BY <2>2, <2>3, <2>4, ChainsKept
  <2>6. wchain \in 1 .. Chains /\ count[wchain] \in 0 .. ChainSize /\ ChainSize \in Nat
          /\ pos \in Nat \ {0}
    BY PipeSizes DEF PipeTypes
  <2>7. Base' = Base
    <3>1. Hi' = Hi
      BY <1>9, VisitHi
    <3>2. pat' = pat /\ UNCHANGED <<pos, wchain, count>>
      BY <1>9, VisitFacts DEF Stuck
    <3>3. Staged' = Staged
      BY <3>2 DEF Staged
    <3> QED
      BY <3>1, <3>3 DEF Base
  <2>8. wchain' = wchain /\ (pstate'[wchain] = 1 <=> pstate[wchain] = 1)
    BY <1>9, VisitFacts DEF Stuck
  <2>9. Front'
    BY <2>2, <2>4, <2>5, <2>7, <2>8, FrontKept
  <2> QED
    BY <2>5, <2>9
<1>10. ASSUME P!Top, setup' = setup PROVE ChainsInv'
  <2> SUFFICES ASSUME setup.multicore, pat' \notin Stuck, pat' # "off"
               PROVE  Counts' /\ Runs' /\ Front' /\ Filling'
    BY <1>10 DEF ChainsInv
  <2>1. pat \notin Stuck /\ pat # "off"
    BY <1>10, TopFacts DEF Stuck, Visited
  <2>2. RingChains /\ RingPlaces /\ Counts /\ Runs /\ Front /\ Filling
    BY <2>1, RingOf, ChainsOf
  <2>3. \A c \in 1 .. Chains : (pstate'[c] = 1 => pstate[c] = 1) /\ (Ahead(c)' => Ahead(c))
    <3>1. UNCHANGED <<pstate, fat, fchain, need>> /\ (Held' <=> Held)
      BY <1>10, TopFacts DEF Held, Turning, Stuck, Visited
    <3> QED
      BY <3>1, AheadKept
  <2>4. UNCHANGED <<slot, count, fat, fchain, next>>
    BY <1>10, TopFacts
  <2>5. Counts' /\ Runs' /\ Filling' /\ Filled' = Filled /\ \A c : Closes(c)' <=> Closes(c)
    BY <2>2, <2>3, <2>4, ChainsKept
  <2>6. wchain \in 1 .. Chains /\ count[wchain] \in 0 .. ChainSize /\ ChainSize \in Nat
          /\ pos \in Nat \ {0}
    BY PipeSizes DEF PipeTypes
  <2>7. Base' = Base
    <3>1. Hi' = Hi
      <4>1. UNCHANGED <<stage, done>>
        BY <1>10, TopFacts
      <4> QED
        BY <4>1, HiSame
    <3>2. Staged' = Staged
      BY <1>10, TopFacts DEF Staged, Stuck
    <3> QED
      BY <3>1, <3>2 DEF Base
  <2>8. wchain' = wchain /\ (pstate'[wchain] = 1 <=> pstate[wchain] = 1)
    BY <1>10, TopFacts DEF Stuck
  <2>9. Front'
    BY <2>2, <2>4, <2>5, <2>7, <2>8, FrontKept
  <2> QED
    BY <2>5, <2>9
<1>11. ASSUME P!TailShift, setup' = setup PROVE ChainsInv'
  <2> SUFFICES ASSUME setup.multicore, pat' \notin Stuck, pat' # "off"
               PROVE  Counts' /\ Runs' /\ Front' /\ Filling'
    BY <1>11 DEF ChainsInv
  <2>1. pat \notin Stuck /\ pat # "off"
    BY <1>11, TailShiftFacts DEF Stuck, Visited
  <2>2. RingChains /\ RingPlaces /\ Counts /\ Runs /\ Front /\ Filling
    BY <2>1, RingOf, ChainsOf
  <2>3. \A c \in 1 .. Chains : (pstate'[c] = 1 => pstate[c] = 1) /\ (Ahead(c)' => Ahead(c))
    <3>1. UNCHANGED <<pstate, fat, fchain, need>> /\ (Held' <=> Held)
      BY <1>11, TailShiftFacts DEF Held, Turning, Stuck, Visited
    <3> QED
      BY <3>1, AheadKept
  <2>4. UNCHANGED <<slot, count, fat, fchain, next>>
    BY <1>11, TailShiftFacts
  <2>5. Counts' /\ Runs' /\ Filling' /\ Filled' = Filled /\ \A c : Closes(c)' <=> Closes(c)
    BY <2>2, <2>3, <2>4, ChainsKept
  <2>6. wchain \in 1 .. Chains /\ count[wchain] \in 0 .. ChainSize /\ ChainSize \in Nat
          /\ pos \in Nat \ {0}
    BY PipeSizes DEF PipeTypes
  <2>7. Base' = Base
    <3>1. stage'[1] = P!NoSlot
      BY <1>11, TailShiftFacts, ShiftedFacts
    <3>2. Hi' = Hi
      BY <1>11, <3>1, StepsIn, HiNat
    <3>3. Staged' = Staged
      BY <1>11, TailShiftFacts DEF Staged, Stuck
    <3> QED
      BY <3>2, <3>3 DEF Base
  <2>8. wchain' = wchain /\ (pstate'[wchain] = 1 <=> pstate[wchain] = 1)
    BY <1>11, TailShiftFacts DEF Stuck
  <2>9. Front'
    BY <2>2, <2>4, <2>5, <2>7, <2>8, FrontKept
  <2> QED
    BY <2>5, <2>9
<1>12. ASSUME P!TailEnd, setup' = setup PROVE ChainsInv'
  <2> SUFFICES ASSUME setup.multicore, pat' \notin Stuck, pat' # "off"
               PROVE  Counts' /\ Runs' /\ Front' /\ Filling'
    BY <1>12 DEF ChainsInv
  <2>1. pat \notin Stuck /\ pat # "off"
    BY <1>12, TailEndFacts DEF Stuck, Visited
  <2>2. RingChains /\ RingPlaces /\ Counts /\ Runs /\ Front /\ Filling
    BY <2>1, RingOf, ChainsOf
  <2>3. \A c \in 1 .. Chains : (pstate'[c] = 1 => pstate[c] = 1) /\ (Ahead(c)' => Ahead(c))
    <3>1. GivesBack(need) /\ UNCHANGED <<fat, fchain>> /\ Held /\ need \in 1 .. Chains
      BY <1>12, TailEndFacts, HeldFacts DEF GivesBack, Stuck
    <3> QED
      BY <3>1 DEF GivesBack, Ahead, Closes
  <2>4. UNCHANGED <<slot, count, fat, fchain, next>>
    BY <1>12, TailEndFacts
  <2>5. Counts' /\ Runs' /\ Filling' /\ Filled' = Filled /\ \A c : Closes(c)' <=> Closes(c)
    BY <2>2, <2>3, <2>4, ChainsKept
  <2>6. wchain \in 1 .. Chains /\ count[wchain] \in 0 .. ChainSize /\ ChainSize \in Nat
          /\ pos \in Nat \ {0}
    BY PipeSizes DEF PipeTypes
  <2>7. Base' = Base
    <3>1. Hi' = Hi
      BY <1>12, TailEndHi
    <3>2. Staged' = Staged
      BY <1>12, TailEndFacts DEF Staged, Stuck
    <3> QED
      BY <3>1, <3>2 DEF Base
  <2>8. wchain' = wchain /\ (pstate'[wchain] = 1 <=> pstate[wchain] = 1)
    <3>1. wchain # need /\ GivesBack(need) /\ wchain' = wchain
      BY <1>12, TailEndFacts, HeldFacts, AfterFacts DEF GivesBack, Stuck
    <3> QED
      BY <2>6, <3>1 DEF GivesBack
  <2>9. Front'
    BY <2>2, <2>4, <2>5, <2>7, <2>8, FrontKept
  <2> QED
    BY <2>5, <2>9
<1>13. ASSUME P!Begin, setup' = setup PROVE ChainsInv'
  <2> SUFFICES ASSUME setup.multicore, pat' \notin Stuck, pat' # "off"
               PROVE  Counts' /\ Runs' /\ Front' /\ Filling'
    BY <1>13 DEF ChainsInv
  <2>1. pat \notin Stuck /\ pat # "off"
    BY <1>13, BeginFacts DEF Stuck, Visited
  <2>2. RingChains /\ RingPlaces /\ Counts /\ Runs /\ Front /\ Filling
    BY <2>1, RingOf, ChainsOf
  <2>3. \A c \in 1 .. Chains : (pstate'[c] = 1 => pstate[c] = 1) /\ (Ahead(c)' => Ahead(c))
    <3>1. UNCHANGED <<pstate, fat, fchain, need>> /\ (Held' <=> Held)
      BY <1>13, BeginFacts DEF Held, Turning, Stuck
    <3> QED
      BY <3>1, AheadKept
  <2>4. UNCHANGED <<slot, count, fat, fchain, next>>
    BY <1>13, BeginFacts
  <2>5. Counts' /\ Runs' /\ Filling' /\ Filled' = Filled /\ \A c : Closes(c)' <=> Closes(c)
    BY <2>2, <2>3, <2>4, ChainsKept
  <2>6. wchain \in 1 .. Chains /\ count[wchain] \in 0 .. ChainSize /\ ChainSize \in Nat
          /\ pos \in Nat \ {0}
    BY PipeSizes DEF PipeTypes
  <2>7. Base' = Base
    <3>1. Hi' = Hi
      <4>1. UNCHANGED <<stage, done>>
        BY <1>13, BeginFacts
      <4> QED
        BY <4>1, HiSame
    <3>2. Staged' = Staged
      <4>1. pos' = pos /\ count' = count /\ wchain' = wchain /\ pat = "begin"
              /\ pat' \in {"carry", "loop"}
        BY <1>13, BeginFacts DEF Stuck
      <4>2. pos = 1
        BY <2>2, <4>1 DEF RingPlaces
      <4>3. Least(0, count[wchain]) = 0
        BY <2>6 DEF Least
      <4> QED
        BY <4>1, <4>2, <4>3 DEF Staged
    <3> QED
      BY <3>1, <3>2 DEF Base
  <2>8. wchain' = wchain /\ (pstate'[wchain] = 1 <=> pstate[wchain] = 1)
    BY <1>13, BeginFacts DEF Stuck
  <2>9. Front'
    BY <2>2, <2>4, <2>5, <2>7, <2>8, FrontKept
  <2> QED
    BY <2>5, <2>9
<1>14. ASSUME P!Carry, setup' = setup PROVE ChainsInv'
  <2> SUFFICES ASSUME setup.multicore, pat' \notin Stuck, pat' # "off"
               PROVE  Counts' /\ Runs' /\ Front' /\ Filling'
    BY <1>14 DEF ChainsInv
  <2>1. pat \notin Stuck /\ pat # "off"
    BY <1>14, CarryFacts DEF Stuck, Visited
  <2>2. RingChains /\ RingPlaces /\ Counts /\ Runs /\ Front /\ Filling
    BY <2>1, RingOf, ChainsOf
  <2>3. \A c \in 1 .. Chains : (pstate'[c] = 1 => pstate[c] = 1) /\ (Ahead(c)' => Ahead(c))
    <3>1. UNCHANGED <<pstate, fat, fchain, need>> /\ (Held' <=> Held)
      BY <1>14, CarryFacts DEF Held, Turning, Stuck, Visited
    <3> QED
      BY <3>1, AheadKept
  <2>4. UNCHANGED <<slot, count, fat, fchain, next>>
    BY <1>14, CarryFacts
  <2>5. Counts' /\ Runs' /\ Filling' /\ Filled' = Filled /\ \A c : Closes(c)' <=> Closes(c)
    BY <2>2, <2>3, <2>4, ChainsKept
  <2>6. wchain \in 1 .. Chains /\ count[wchain] \in 0 .. ChainSize /\ ChainSize \in Nat
          /\ pos \in Nat \ {0}
    BY PipeSizes DEF PipeTypes
  <2>7. Base' = Base
    <3>0. pat = "carry" /\ pat' = "carried" /\ UNCHANGED <<count, wchain>>
      BY <1>14, CarryFacts DEF Stuck
    <3>1. stage'[1] = P!Entry(1)
      <4>1. P!Entry(1) \in P!Slots \cup {P!NoSlot}
        BY EntryFacts
      <4> QED
        BY <1>14, <4>1, CarryFacts, ShiftedFacts
    <3>2. Hi' = Hi + (IF P!Entry(1) = P!NoSlot THEN 0 ELSE 1)
      BY <1>14, <3>1, StepsIn
    <3>3. Staged = 0 /\ Staged' = Least(1, count[wchain])
      BY <3>0 DEF Staged
    <3>4. P!Entry(1) = P!NoSlot <=> count[wchain] = 0
      BY <2>6, EntryFacts
    <3> QED
      BY <2>6, <3>2, <3>3, <3>4, HiNat DEF Base, Least
  <2>8. wchain' = wchain /\ (pstate'[wchain] = 1 <=> pstate[wchain] = 1)
    BY <1>14, CarryFacts DEF Stuck
  <2>9. Front'
    BY <2>2, <2>4, <2>5, <2>7, <2>8, FrontKept
  <2> QED
    BY <2>5, <2>9
<1>15. ASSUME P!Carried, setup' = setup PROVE ChainsInv'
  <2> SUFFICES ASSUME setup.multicore, pat' \notin Stuck, pat' # "off"
               PROVE  Counts' /\ Runs' /\ Front' /\ Filling'
    BY <1>15 DEF ChainsInv
  <2>1. pat \notin Stuck /\ pat # "off"
    BY <1>15, CarriedFacts DEF Stuck, Visited
  <2>2. RingChains /\ RingPlaces /\ Counts /\ Runs /\ Front /\ Filling
    BY <2>1, RingOf, ChainsOf
  <2>3. \A c \in 1 .. Chains : (pstate'[c] = 1 => pstate[c] = 1) /\ (Ahead(c)' => Ahead(c))
    <3>1. GivesBack(need) /\ UNCHANGED <<fat, fchain, need>> /\ Held /\ need \in 1 .. Chains
      BY <1>15, CarriedFacts, HeldFacts DEF GivesBack
    <3> QED
      BY <3>1 DEF GivesBack, Ahead, Closes
  <2>4. UNCHANGED <<slot, count, fat, fchain, next>>
    BY <1>15, CarriedFacts
  <2>5. Counts' /\ Runs' /\ Filling' /\ Filled' = Filled /\ \A c : Closes(c)' <=> Closes(c)
    BY <2>2, <2>3, <2>4, ChainsKept
  <2>6. wchain \in 1 .. Chains /\ count[wchain] \in 0 .. ChainSize /\ ChainSize \in Nat
          /\ pos \in Nat \ {0}
    BY PipeSizes DEF PipeTypes
  <2>7. Base' = Base
    <3>0. pat = "carried" /\ pat' = "loop" /\ pos' = 3 /\ UNCHANGED <<count, wchain>>
      BY <1>15, CarriedFacts
    <3>1. stage'[1] = P!Entry(2)
      <4>1. P!Entry(2) \in P!Slots \cup {P!NoSlot}
        BY EntryFacts
      <4> QED
        BY <1>15, <4>1, CarriedFacts, ShiftedFacts
    <3>2. Hi' = Hi + (IF P!Entry(2) = P!NoSlot THEN 0 ELSE 1)
      BY <1>15, <3>1, StepsIn
    <3>3. Staged = Least(1, count[wchain]) /\ Staged' = Least(2, count[wchain])
      BY <3>0 DEF Staged
    <3>4. P!Entry(2) = P!NoSlot <=> count[wchain] < 2
      BY <2>6, EntryFacts
    <3>5. Staged' = Staged + (IF P!Entry(2) = P!NoSlot THEN 0 ELSE 1) /\ Staged \in Nat
      BY <2>6, <3>3, <3>4 DEF Least
    <3> QED
      BY <3>2, <3>5, HiNat DEF Base
  <2>8. wchain' = wchain /\ (pstate'[wchain] = 1 <=> pstate[wchain] = 1)
    <3>1. wchain # need /\ GivesBack(need) /\ wchain' = wchain
      BY <1>15, CarriedFacts, HeldFacts, AfterFacts DEF GivesBack
    <3> QED
      BY <2>6, <3>1 DEF GivesBack
  <2>9. Front'
    BY <2>2, <2>4, <2>5, <2>7, <2>8, FrontKept
  <2> QED
    BY <2>5, <2>9
<1>16. ASSUME P!Loop, setup' = setup PROVE ChainsInv'
  <2> SUFFICES ASSUME setup.multicore, pat' \notin Stuck, pat' # "off"
               PROVE  Counts' /\ Runs' /\ Front' /\ Filling'
    BY <1>16 DEF ChainsInv
  <2>1. pat \notin Stuck /\ pat # "off"
    BY <1>16, LoopFacts DEF Stuck, Visited
  <2>2. RingChains /\ RingPlaces /\ Counts /\ Runs /\ Front /\ Filling
    BY <2>1, RingOf, ChainsOf
  <2>3. \A c \in 1 .. Chains : (pstate'[c] = 1 => pstate[c] = 1) /\ (Ahead(c)' => Ahead(c))
    <3>1. UNCHANGED <<pstate, fat, fchain, need>> /\ (Held' <=> Held)
      BY <1>16, LoopFacts DEF Held, Turning, Stuck, Visited
    <3> QED
      BY <3>1, AheadKept
  <2>4. UNCHANGED <<slot, count, fat, fchain, next>>
    BY <1>16, LoopFacts
  <2>5. Counts' /\ Runs' /\ Filling' /\ Filled' = Filled /\ \A c : Closes(c)' <=> Closes(c)
    BY <2>2, <2>3, <2>4, ChainsKept
  <2>6. wchain \in 1 .. Chains /\ count[wchain] \in 0 .. ChainSize /\ ChainSize \in Nat
          /\ pos \in Nat \ {0}
    BY PipeSizes DEF PipeTypes
  <2>7. Base' = Base
    <3>1. Hi' = Hi
      <4>1. UNCHANGED <<stage, done>>
        BY <1>16, LoopFacts
      <4> QED
        BY <4>1, HiSame
    <3>2. Staged' = Staged
      BY <1>16, LoopFacts DEF Staged, Stuck
    <3> QED
      BY <3>1, <3>2 DEF Base
  <2>8. wchain' = wchain /\ (pstate'[wchain] = 1 <=> pstate[wchain] = 1)
    BY <1>16, LoopFacts DEF Stuck
  <2>9. Front'
    BY <2>2, <2>4, <2>5, <2>7, <2>8, FrontKept
  <2> QED
    BY <2>5, <2>9
<1>17. ASSUME P!Shift, setup' = setup PROVE ChainsInv'
  <2> SUFFICES ASSUME setup.multicore, pat' \notin Stuck, pat' # "off"
               PROVE  Counts' /\ Runs' /\ Front' /\ Filling'
    BY <1>17 DEF ChainsInv
  <2>1. pat \notin Stuck /\ pat # "off"
    BY <1>17, ShiftFacts DEF Stuck, Visited
  <2>2. RingChains /\ RingPlaces /\ Counts /\ Runs /\ Front /\ Filling
    BY <2>1, RingOf, ChainsOf
  <2>3. \A c \in 1 .. Chains : (pstate'[c] = 1 => pstate[c] = 1) /\ (Ahead(c)' => Ahead(c))
    <3>1. UNCHANGED <<pstate, fat, fchain, need>> /\ (Held' <=> Held)
      BY <1>17, ShiftFacts DEF Held, Turning, Stuck, Visited
    <3> QED
      BY <3>1, AheadKept
  <2>4. UNCHANGED <<slot, count, fat, fchain, next>>
    BY <1>17, ShiftFacts
  <2>5. Counts' /\ Runs' /\ Filling' /\ Filled' = Filled /\ \A c : Closes(c)' <=> Closes(c)
    BY <2>2, <2>3, <2>4, ChainsKept
  <2>6. wchain \in 1 .. Chains /\ count[wchain] \in 0 .. ChainSize /\ ChainSize \in Nat
          /\ pos \in Nat \ {0}
    BY PipeSizes DEF PipeTypes
  <2>7. Base' = Base
    <3>0. pat = "shift" /\ pat' = "loop" /\ pos' = pos + 1
            /\ UNCHANGED <<count, wchain>> /\ stage'[1] = <<wchain, pos>>
      BY <1>17, ShiftFacts DEF P!Shifted
    <3>1. pos <= count[wchain]
      BY <2>2, <3>0 DEF RingPlaces
    <3>2. Hi' = Hi + 1
      <4>1. pos \in 1 .. P!Width
        BY <2>6, <3>1, PipeSizes
      <4>2. stage'[1] # P!NoSlot
        BY <2>6, <3>0, <4>1, SlotFacts
      <4> QED
        BY <1>17, <4>2, StepsIn
    <3>3. Staged = Least(pos - 1, count[wchain])
            /\ Staged' = Least((pos + 1) - 1, count[wchain])
      BY <3>0 DEF Staged
    <3>4. Staged' = Staged + 1 /\ Staged \in Nat
      BY <2>6, <3>1, <3>3 DEF Least
    <3> QED
      BY <3>2, <3>4, HiNat DEF Base
  <2>8. wchain' = wchain /\ (pstate'[wchain] = 1 <=> pstate[wchain] = 1)
    BY <1>17, ShiftFacts DEF Stuck
  <2>9. Front'
    BY <2>2, <2>4, <2>5, <2>7, <2>8, FrontKept
  <2> QED
    BY <2>5, <2>9
<1>18. ASSUME P!LoopEnds, setup' = setup PROVE ChainsInv'
  <2> SUFFICES ASSUME setup.multicore, pat' \notin Stuck, pat' # "off"
               PROVE  Counts' /\ Runs' /\ Front' /\ Filling'
    BY <1>18 DEF ChainsInv
  <2>1. pat \notin Stuck /\ pat # "off"
    BY <1>18, LoopEndsFacts DEF Stuck, Visited
  <2>2. RingChains /\ RingPlaces /\ Counts /\ Runs /\ Front /\ Filling
    BY <2>1, RingOf, ChainsOf
  <2>3. \A c \in 1 .. Chains : (pstate'[c] = 1 => pstate[c] = 1) /\ (Ahead(c)' => Ahead(c))
    <3>1. UNCHANGED <<pstate, fat, fchain>> /\ pat = "loop"
      BY <1>18, LoopEndsFacts
    <3>2. ~Held
      BY <3>1 DEF Held, Turning
    <3> QED
      BY <3>1, <3>2 DEF Ahead, Closes
  <2>4. UNCHANGED <<slot, count, fat, fchain, next>>
    BY <1>18, LoopEndsFacts
  <2>5. Counts' /\ Runs' /\ Filling' /\ Filled' = Filled /\ \A c : Closes(c)' <=> Closes(c)
    BY <2>2, <2>3, <2>4, ChainsKept
  <2>6. wchain \in 1 .. Chains /\ count[wchain] \in 0 .. ChainSize /\ ChainSize \in Nat
          /\ pos \in Nat \ {0}
    BY PipeSizes DEF PipeTypes
  <2>7. /\ pat = "loop" /\ pat' \in {"tail", "top"} /\ pos > count[wchain]
             /\ wchain' = P!After(wchain) /\ UNCHANGED <<stage, done, pstate>>
        /\ ~Held /\ pstate[wchain] = 1 /\ OldestChain = wchain
    <3>1. /\ pat = "loop" /\ pat' \in {"tail", "top"} /\ pos > count[wchain]
               /\ wchain' = P!After(wchain) /\ UNCHANGED <<stage, done, pstate>>
      BY <1>18, LoopEndsFacts DEF Stuck
    <3>2. ~Held
      BY <3>1 DEF Held, Turning
    <3>3. pstate[wchain] = 1
      BY <2>2, <3>1 DEF RingPlaces, Working
    <3> QED
      BY <3>1, <3>2, <3>3 DEF OldestChain
  <2>8. Base' = Base + count[wchain] /\ Base' = Hi /\ Base \in Int
    <3>1. Hi' = Hi
      BY <2>7, HiSame
    <3>2. Staged' = 0
      BY <2>7 DEF Staged
    <3>3. Staged = Least(pos - 1, count[wchain])
      BY <2>7 DEF Staged
    <3>4. Staged = count[wchain]
      BY <2>6, <2>7, <3>3 DEF Least
    <3> QED
      BY <2>6, <3>1, <3>2, <3>4, HiNat DEF Base
  <2>a. P!After(wchain) \in 1 .. Chains /\ P!After(wchain) # wchain /\ fchain \in 1 .. Chains
    BY <2>6, AfterFacts DEF PipeTypes
  <2>b. Off(wchain) = 0 /\ Off(P!After(wchain)) = 1
    <3>1. Dist(wchain, wchain) = 0 /\ Dist(wchain, P!After(wchain)) = Dist(wchain, wchain) + 1
      BY <2>6, <2>a, DistFacts
    <3> QED
      BY <2>7, <3>1 DEF Off
  <2>9. Front'
    <3>1. CASE Closes(wchain)
      <4>1. count[wchain] = 0 /\ Base + Filled + 1 = next
        BY <2>2, <2>6, <2>7, <3>1 DEF Counts, Front
      <4>2. wchain = fchain
        BY <3>1 DEF Closes
      <4>3. Number = 1
        BY <2>b, <3>1, <4>2 DEF Number
      <4>4. pstate[P!After(wchain)] # 1
        BY <2>2, <2>a, <2>b, <4>3 DEF RingChains
      <4>5. pstate'[wchain'] # 1
        BY <2>7, <4>4
      <4>6. Base' + Filled' + 1 = next'
        BY <2>4, <2>5, <2>8, <4>1
      <4> QED
        BY <4>5, <4>6 DEF Front
    <3>2. CASE ~Closes(wchain)
      <4>1. Ahead(wchain)
        BY <2>7, <3>2 DEF Ahead
      <4>2. /\ slot[<<wchain, 1>>] = Base + 1
            /\ IF P!After(wchain) = fchain THEN slot[<<wchain,
                 1>>] + count[wchain] + Filled = next
               ELSE slot[<<P!After(wchain), 1>>] = slot[<<wchain, 1>>] + count[wchain]
        BY <2>2, <2>6, <2>7, <3>2, <4>1 DEF Front, Runs
      <4>3. CASE P!After(wchain) = fchain
        <5>1. Base + 1 + count[wchain] + Filled = next
          BY <4>2, <4>3
        <5>2. Base' + Filled' + 1 = next'
          BY <2>4, <2>5, <2>6, <2>8, <5>1, BaseFacts
        <5>3. ~(pstate[fchain] = 1 /\ ~Closes(fchain))
          BY <2>2, <2>7, <2>a, <4>3 DEF RingChains
        <5>4. ~(pstate'[wchain'] = 1 /\ ~Closes(wchain)')
          <6>1. wchain' = fchain /\ pstate' = pstate
            BY <2>7, <4>3
          <6>2. Closes(wchain)' <=> Closes(fchain)
            BY <2>4, <6>1 DEF Closes
          <6> QED
            BY <5>3, <6>1, <6>2
        <5> QED
          BY <5>2, <5>4 DEF Front
      <4>4. CASE P!After(wchain) # fchain
        <5>1. slot[<<P!After(wchain), 1>>] = Base' + 1
          BY <2>6, <2>8, <4>2, <4>4
        <5>2. Number # 1
          <6>1. SUFFICES ASSUME Number = 1 PROVE FALSE
            OBVIOUS
          <6>2. ~Closes(fchain)
            <7>1. Closes(fchain) => Off(fchain) + 1 = 1
              BY <6>1 DEF Number
            <7>2. Closes(fchain) => fchain = wchain
              BY <2>7, <2>a, <7>1, OldestFacts
            <7> QED
              BY <3>2, <7>2
          <6>3. pstate[fchain] # 1
            BY <6>1, <6>2, PipeSizes DEF Number
          <6>4. Off(fchain) = Off(P!After(wchain))
            BY <2>b, <6>1, <6>2, <6>3 DEF Number
          <6>5. Dist(wchain, fchain) = Dist(wchain, P!After(wchain))
            BY <2>7, <6>4 DEF Off
          <6> QED
            BY <2>6, <2>a, <4>4, <6>5, DistFacts
        <5>3. Number \in Nat /\ Number >= 2
          <6>1. Off(wchain) < Number /\ Number \in Nat
            BY <2>2, <2>6, <2>7, OldestFacts, PipeSizes DEF RingChains
          <6> QED
            BY <2>b, <5>2, <6>1
        <5>4. pstate[P!After(wchain)] = 1
          BY <2>2, <2>a, <2>b, <5>3 DEF RingChains
        <5>5. pstate'[wchain'] = 1 /\ slot'[<<wchain', 1>>] = Base' + 1
          BY <2>4, <2>7, <5>1, <5>4
        <5>6. ~Closes(wchain)'
          BY <2>4, <2>7, <4>4 DEF Closes
        <5> QED
          BY <5>5, <5>6 DEF Front
      <4> QED
        BY <4>3, <4>4
    <3> QED
      BY <3>1, <3>2
  <2> QED
    BY <2>5, <2>9
<1>19. ASSUME P!SingleGet, setup' = setup PROVE ChainsInv'
  <2>1. pat \in {"single", "single_shift"}
    BY <1>19, SingleGetFacts
  <2>2. ~setup.multicore
    BY <2>1 DEF PlaceInv, SidesInv
  <2> QED
    BY <1>19, <2>2 DEF ChainsInv
<1>20. ASSUME P!SingleShift, setup' = setup PROVE ChainsInv'
  <2>1. pat \in {"single", "single_shift"}
    BY <1>20, SingleShiftFacts
  <2>2. ~setup.multicore
    BY <2>1 DEF PlaceInv, SidesInv
  <2> QED
    BY <1>20, <2>2 DEF ChainsInv
<1>21. ASSUME P!SingleEnds, setup' = setup PROVE ChainsInv'
  <2>1. pat \in {"single", "single_shift"}
    BY <1>21, SingleEndsFacts
  <2>2. ~setup.multicore
    BY <2>1 DEF PlaceInv, SidesInv
  <2> QED
    BY <1>21, <2>2 DEF ChainsInv
<1>22. CASE UNCHANGED P!vars
  BY <1>22 DEF P!vars, P!caller, P!visits, P!outcome, ChainsInv, Counts, Runs, Front, Filling,
     Filled, Base, Staged, Hi, Under, Ahead, Held, Closes
<1> QED
  BY <1>1, <1>2, <1>3, <1>4, <1>5, <1>6, <1>7, <1>8, <1>9, <1>10, <1>11, <1>12, <1>13, <1>14,
     <1>15, <1>16, <1>17, <1>18, <1>19, <1>20, <1>21, <1>22 DEF P!Next, P!Caller, P!Worker

\* Nothing is done, or, of a call that has returned, all.
LEMMA NumbersFacts ==
  ASSUME NEW n \in Nat, n <= Items
  PROVE  LET d == [i \in 1 .. n |-> i] IN
         /\ d \in Seq(1 .. Items) /\ Len(d) = n
         /\ \A i \in 1 .. n : d[i] = i
         /\ {d[i] : i \in 1 .. Len(d)} = 1 .. n
         /\ IsFiniteSet(1 .. n) /\ Cardinality(1 .. n) = n
<1> DEFINE d == [i \in 1 .. n |-> i]
<1>1. d \in [1 .. n -> 1 .. Items] /\ \A i \in 1 .. n : d[i] = i
  BY PipeSizes
<1>2. d \in Seq(1 .. Items) /\ Len(d) = n
  BY <1>1
<1>3. IsFiniteSet(1 .. n) /\ Cardinality(1 .. n) = n
  <2>1. IsFiniteSet(1 .. n) /\ Cardinality(1 .. n) = IF 1 > n THEN 0 ELSE n - 1 + 1
    BY FS_Interval
  <2> QED
    BY <2>1
<1>4. {d[i] : i \in 1 .. Len(d)} = 1 .. n
  BY <1>1, <1>2
<1> QED
  BY <1>1, <1>2, <1>3, <1>4

LEMMA InitAtFacts ==
  ASSUME NEW n \in Nat, n <= Items, NEW f \in Fats, NEW p \in PipePlaces, P!InitAt(f, p, n + 1)
  PROVE  /\ setup \in Setups /\ slot = [s \in P!Slots |-> 0] /\ seen = {}
         /\ count = [c \in 1 .. Chains |-> 0] /\ pstate = [c \in 1 .. Chains |-> 0]
         /\ fat = f /\ pat = p /\ fchain = 1 /\ next = n + 1 /\ wchain = 1 /\ pos = 1
              /\ stage = P!Empty /\ todo = <<>>
         /\ need = P!NoChain /\ pfailed = FALSE /\ result = "none"
         /\ done \in Seq(1 .. Items) /\ Len(done) = n /\ (\A i \in 1 .. n : done[i] = i)
         /\ P!DoneItems = 1 .. n /\ IsFiniteSet(P!DoneItems) /\ Cardinality(P!DoneItems) = n
         /\ ~Under(1) /\ ~Under(2) /\ Hi = n
<1>1. /\ setup \in Setups /\ slot = [s \in P!Slots |-> 0] /\ seen = {}
      /\ count = [c \in 1 .. Chains |-> 0] /\ pstate = [c \in 1 .. Chains |-> 0]
      /\ fat = f /\ pat = p /\ fchain = 1 /\ next = n + 1 /\ wchain = 1 /\ pos = 1
           /\ stage = P!Empty /\ todo = <<>>
      /\ need = P!NoChain /\ pfailed = FALSE /\ result = "none"
  BY DEF P!InitAt
<1>2. done = [i \in 1 .. n |-> i]
  <2>1. done = [i \in 1 .. n + 1 - 1 |-> i]
    BY DEF P!InitAt
  <2>2. n + 1 - 1 = n
    OBVIOUS
  <2> QED
    BY <2>1, <2>2
<1>3. /\ done \in Seq(1 .. Items) /\ Len(done) = n /\ (\A i \in 1 .. n : done[i] = i)
      /\ P!DoneItems = 1 .. n /\ IsFiniteSet(1 .. n) /\ Cardinality(1 .. n) = n
  BY <1>2, NumbersFacts DEF P!DoneItems
<1>4. ~Under(1) /\ ~Under(2)
  BY <1>1, EmptyFacts DEF Under
<1>5. Hi = n
  BY <1>3, <1>4 DEF Hi
<1> QED
  BY <1>1, <1>3, <1>4, <1>5

LEMMA InitTypes ==
  ASSUME NEW n \in Nat, n <= Items, NEW f \in Fats, NEW p \in PipePlaces, P!InitAt(f, p, n + 1)
  PROVE  PipeTypes /\ DoneInv
<1>1. /\ setup \in Setups /\ slot = [s \in P!Slots |-> 0] /\ seen = {}
      /\ count = [c \in 1 .. Chains |-> 0] /\ pstate = [c \in 1 .. Chains |-> 0]
      /\ fat = f /\ pat = p /\ fchain = 1 /\ next = n + 1 /\ wchain = 1 /\ pos = 1
           /\ stage = P!Empty /\ todo = <<>>
      /\ need = P!NoChain /\ pfailed = FALSE /\ result = "none"
      /\ done \in Seq(1 .. Items)
  BY InitAtFacts
<1>2. PipeTypes
  <2>1. slot \in [P!Slots -> 0 .. Items]
    BY <1>1, PipeSizes
  <2>2. count \in [1 .. Chains -> 0 .. ChainSize] /\ pstate \in [1 .. Chains -> 0 .. 2]
    BY <1>1, PipeSizes
  <2>3. next \in 1 .. Items + 1 /\ 1 \in 1 .. Chains /\ need \in 0 .. Chains
          /\ pos \in Nat \ {0}
    BY <1>1, PipeSizes DEF P!NoChain
  <2>4. stage \in Stages /\ todo \in Todos
    BY <1>1, EmptyFacts DEF Todos
  <2> QED
    BY <1>1, <2>1, <2>2, <2>3, <2>4 DEF PipeTypes
<1>3. DoneInv
  <2>1. /\ Len(done) = n /\ (\A i \in 1 .. n : done[i] = i)
        /\ IsFiniteSet(P!DoneItems) /\ Cardinality(P!DoneItems) = n /\ ~Under(1) /\ ~Under(2)
             /\ Hi = n
    BY InitAtFacts
  <2>2. \A x \in 1 .. Items : IsDone(x) <=> x <= Hi
    BY <2>1, PipeSizes DEF IsDone
  <2>3. P!InOrder
    BY <2>1 DEF P!InOrder
  <2> QED
    BY <2>1, <2>2, <2>3 DEF DoneInv
<1> QED
  BY <1>2, <1>3

LEMMA InitStage ==
  ASSUME NEW n \in Nat, n <= Items, NEW f \in Fats, NEW p \in PipePlaces, P!InitAt(f, p, n + 1)
  PROVE  Len(done) = n /\ ~Under(1) /\ ~Under(2) /\ Hi = n
BY InitAtFacts

\* The invariant holds when a call begins, and of a call that has returned.
LEMMA InitHolds ==
  ASSUME P!Init
  PROVE  PipesInv
<1>1. CASE P!InitAt("first", "off", 1) /\ setup.multicore
  <2>1. P!InitAt("first", "off", 0 + 1) /\ 0 \in Nat /\ 0 <= Items
    BY <1>1, PipeSizes
  <2>2. PipeTypes /\ DoneInv
    BY <2>1, InitTypes, Names
  <2>3. /\ count = [c \in 1 .. Chains |-> 0] /\ pstate = [c \in 1 .. Chains |-> 0]
        /\ fat = "first" /\ pat = "off" /\ fchain = 1 /\ next = 1 /\ wchain = 1 /\ pos = 1
             /\ stage = P!Empty /\ todo = <<>>
        /\ need = P!NoChain /\ pfailed = FALSE /\ Len(done) = 0 /\ ~Under(1) /\ ~Under(2)
             /\ Hi = 0
    <3>1. Len(done) = 0 /\ ~Under(1) /\ ~Under(2) /\ Hi = 0
      BY <2>1, InitStage, Names
    <3> QED
      BY <1>1, <3>1 DEF P!InitAt
  <2>4. done = <<>>
    BY <2>2, <2>3 DEF PipeTypes
  <2>5. SidesInv
    BY <1>1, <2>3 DEF SidesInv
  <2>6. OffInv
    BY <2>3, <2>4, PipeSizes DEF OffInv
  <2>7. FilledInv
    BY <2>3, PipeSizes DEF FilledInv
  <2>8. StageInv
    BY <2>3 DEF StageInv, Visited, Fresh
  <2>9. ItemsInv
    BY <2>3 DEF ItemsInv
  <2>10. SingleInv
    BY <1>1 DEF SingleInv
  <2>11. RingInv
    <3>1. OldestChain = 1 /\ ~Held /\ ~Closes(fchain)
      BY <2>3 DEF OldestChain, Held, Closes
    <3>2. \A c \in 1 .. Chains : Off(c) \in Nat
      BY <2>2, OldestFacts
    <3>3. Off(1) = 0
      BY <3>1, PipeSizes DEF Off, Dist
    <3>4. Number = 0
      BY <2>3, <3>1, <3>3, PipeSizes DEF Number
    <3>5. RingChains
      BY <2>3, <3>1, <3>2, <3>4, PipeSizes DEF RingChains
    <3>6. RingPlaces
      BY <2>3, <3>1 DEF RingPlaces, Working
    <3> QED
      BY <3>5, <3>6 DEF RingInv
  <2>12. ChainsInv
    BY <2>3 DEF ChainsInv
  <2>13. EntriesInv
    BY <2>3 DEF EntriesInv
  <2> QED
    BY <2>2, <2>5, <2>6, <2>7, <2>8, <2>9, <2>10, <2>11, <2>12, <2>13 DEF PipesInv, PlaceInv
<1>2. CASE P!InitAt("join", "single", 1) /\ ~setup.multicore
  <2>1. P!InitAt("join", "single", 0 + 1) /\ 0 \in Nat /\ 0 <= Items
    BY <1>2, PipeSizes
  <2>2. PipeTypes /\ DoneInv
    BY <2>1, InitTypes, Names
  <2>3. /\ fat = "join" /\ pat = "single" /\ fchain = 1 /\ next = 1 /\ wchain = 1 /\ pos = 1
             /\ todo = <<>>
        /\ pfailed = FALSE /\ ~Under(1) /\ ~Under(2) /\ Hi = 0
    <3>1. ~Under(1) /\ ~Under(2) /\ Hi = 0
      BY <2>1, InitStage, Names
    <3> QED
      BY <1>2, <3>1 DEF P!InitAt
  <2>4. SidesInv
    BY <1>2, <2>3 DEF SidesInv
  <2>5. OffInv /\ FilledInv
    BY <2>3 DEF OffInv, FilledInv
  <2>6. StageInv
    BY <2>3 DEF StageInv, Visited, Fresh
  <2>7. ItemsInv
    BY <2>3 DEF ItemsInv
  <2>8. SingleInv
    BY <2>3, PipeSizes DEF SingleInv
  <2>9. RingInv /\ ChainsInv /\ EntriesInv
    BY <1>2 DEF RingInv, ChainsInv, EntriesInv
  <2> QED
    BY <2>2, <2>4, <2>5, <2>6, <2>7, <2>8, <2>9 DEF PipesInv, PlaceInv
<1> QED
  BY <1>1, <1>2 DEF P!Init

LEMMA ReturnedHolds ==
  ASSUME P!InitReturned
  PROVE  PipesInv
<1>1. P!InitAt("returned", "ended", Items + 1) /\ Items \in Nat
  BY PipeSizes DEF P!InitReturned
<1>2. PipeTypes /\ DoneInv
  BY <1>1, InitTypes, Names
<1>3. /\ fat = "returned" /\ pat = "ended" /\ fchain = 1 /\ next = Items + 1 /\ todo = <<>>
      /\ pfailed = FALSE /\ ~Under(1) /\ ~Under(2) /\ Hi = Items
  <2>1. Items <= Items
    BY <1>1
  <2>2. ~Under(1) /\ ~Under(2) /\ Hi = Items
    BY <1>1, <2>1, InitStage, Names
  <2> QED
    BY <1>1, <2>2 DEF P!InitAt
<1>4. SidesInv
  BY <1>3 DEF SidesInv, Stuck
<1>5. OffInv /\ FilledInv
  BY <1>3 DEF OffInv, FilledInv
<1>6. StageInv
  BY <1>3 DEF StageInv, Visited, Fresh
<1>7. ItemsInv
  BY <1>1, <1>3 DEF ItemsInv
<1>8. SingleInv
  BY <1>3 DEF SingleInv
<1>9. RingInv /\ ChainsInv /\ EntriesInv
  BY <1>3 DEF RingInv, ChainsInv, EntriesInv, Stuck
<1> QED
  BY <1>2, <1>4, <1>5, <1>6, <1>7, <1>8, <1>9 DEF PipesInv, PlaceInv

LEMMA PipeStep ==
  ASSUME PipesInv, P!Next \/ UNCHANGED P!vars
  PROVE  PipesInv'
<1>1. PipeTypes /\ PlaceInv /\ StageInv /\ ItemsInv /\ DoneInv /\ SingleInv /\ RingInv
        /\ ChainsInv /\ EntriesInv
  BY DEF PipesInv
<1> QED
  BY <1>1, TypesStep, PlaceStep, StageStep, ItemsStep, SingleStep, RingStep, ChainsStep,
     EntriesStep DEF PipesInv

LEMMA PipeKept ==
  ASSUME PipesInv, P!Next \/ UNCHANGED P!vars
  PROVE  \A k \in 1 .. 2 : stage[k] # P!NoSlot => slot'[stage[k]] = slot[stage[k]]
<1>1. PipeTypes /\ PlaceInv /\ SingleInv /\ RingInv /\ EntriesInv
  BY DEF PipesInv
<1>2. Kept
  BY <1>1, KeptStep
<1> QED
  BY <1>2 DEF Kept, Under

\* Pipeline counts as FiniteSets does.
LEMMA PipeCard == \A S : P!Cardinality(S) = Cardinality(S)
BY DEF P!Cardinality, Cardinality

\* What the invariant says of the lines that are done.
LEMMA PipeDone ==
  ASSUME PipesInv
  PROVE  P!DoneOnce /\ P!InOrder
<1>0. PipeTypes /\ PlaceInv /\ StageInv /\ ItemsInv /\ DoneInv
  BY DEF PipesInv
<1>1. Len(done) = Cardinality(P!DoneItems) /\ P!InOrder
  BY <1>0 DEF DoneInv
<1>2. done \in Seq(1 .. Items) /\ next \in 1 .. Items + 1 /\ Items \in Nat /\ Hi \in Nat
  BY <1>0, HiNat, PipeSizes DEF PipeTypes
<1>3. \A x \in P!DoneItems : x \in 1 .. Items /\ IsDone(x)
  <2> SUFFICES ASSUME NEW i \in 1 .. Len(done) PROVE done[i] \in 1 .. Items /\ IsDone(done[i])
    BY DEF P!DoneItems
  <2> QED
    BY <1>2 DEF IsDone
<1>4. P!DoneItems \subseteq 1 .. next - 1
  <2> SUFFICES ASSUME NEW x \in P!DoneItems PROVE x \in 1 .. next - 1
    OBVIOUS
  <2>1. x \in 1 .. Items /\ x <= Hi
    BY <1>0, <1>3 DEF DoneInv
  <2>2. Hi < next
    BY <1>0 DEF ItemsInv
  <2> QED
    BY <1>2, <2>1, <2>2
<1>5. ASSUME fat = "returned", ~pfailed PROVE P!DoneItems = 1 .. Items
  <2>1. pat = "ended"
    BY <1>0, <1>5 DEF PlaceInv, SidesInv
  <2>2. ~Under(1) /\ ~Under(2) /\ Hi = Items
    BY <1>0, <2>1 DEF StageInv, ItemsInv
  <2>3. \A x \in 1 .. Items : IsDone(x)
    BY <1>0, <1>2, <2>2 DEF DoneInv
  <2>4. \A x : IsDone(x) => x \in P!DoneItems
    BY DEF IsDone, P!DoneItems
  <2> QED
    BY <1>3, <2>3, <2>4
<1>6. fat = "returned" /\ pfailed /\ ~setup.file => result = "reverted"
  BY <1>0 DEF PlaceInv, SidesInv
<1>7. fat = "returned" /\ ~pfailed => P!DoneItems = 1 .. Items
  BY <1>5
<1> QED
  BY <1>1, <1>4, <1>6, <1>7, PipeCard, Zenon DEF P!DoneOnce

-----------------------------------------------------------------------------
(* The calls: one part works while the others are at rest, and a part that  *)
(* is at rest stays there.                                                  *)

\* The parts of WritesSound.
LEMMA WriteSeen == WriteInv => WritesSound
<1> SUFFICES ASSUME WriteInv PROVE W!InBounds /\ W!NoDataRace /\ W!WrittenIsText
  BY DEF WritesSound
<1>1. WriteTypes /\ HandInv /\ RoomInv /\ LengthInv /\ (~failed => TextInv)
  BY DEF WriteInv
<1>2. W!InBounds
  BY <1>1 DEF W!InBounds, RoomInv
<1>3. W!NoDataRace
  <2>1. wworkbuf = wmbuf \/ wworkbuf = W!Other(wmbuf)
    BY <1>1 DEF WriteTypes, W!Buffers, W!Other
  <2> SUFFICES ASSUME wat = "write", wmat # "join"
               PROVE  /\ wmat = "at" => wworkbuf # wmbuf
                      /\ wmat = "wait" /\ wworkbuf # wmbuf => filled[wworkbuf] <= from
    BY DEF W!NoDataRace
  <2>2. wmat = "at" => wworkbuf # wmbuf
    BY <1>1 DEF HandInv
  <2>3. ASSUME wmat = "wait", wworkbuf # wmbuf PROVE filled[wworkbuf] <= from
    <3>1. wworkbuf = W!Other(wmbuf) /\ wstate[wworkbuf] = "process"
      BY <1>1, <2>1, <2>3 DEF HandInv, WriteTypes
    <3>2. filled[wworkbuf] = from /\ from \in Nat
      BY <1>1, <2>3, <3>1 DEF RoomInv, WriteTypes
    <3> QED
      BY <3>2
  <2> QED
    BY <2>2, <2>3
<1>4. ASSUME ~failed PROVE Len(disk) <= Len(text) /\ \A i \in 1 .. Len(disk) : disk[i] = text[i]
  BY <1>1, <1>4 DEF TextInv
<1>5. disk \in Seq(Nat) /\ text \in Seq(Nat) /\ Len(disk) \in Nat /\ Len(text) \in Nat
  BY <1>1, LenProperties DEF WriteTypes
<1>6. W!DiskIsText
  <2> SUFFICES ASSUME ~failed PROVE W!IsPrefix(disk, text)
    BY DEF W!DiskIsText
  <2>1. /\ SubSeq(disk, 1, Len(disk)) \in Seq(Nat)
             /\ Len(SubSeq(disk, 1, Len(disk))) = Len(disk)
        /\ \A i \in 1 .. Len(disk) : SubSeq(disk, 1, Len(disk))[i] = disk[i]
    BY <1>5, FrontFacts
  <2>2. /\ SubSeq(text, 1, Len(disk)) \in Seq(Nat)
             /\ Len(SubSeq(text, 1, Len(disk))) = Len(disk)
        /\ \A i \in 1 .. Len(disk) : SubSeq(text, 1, Len(disk))[i] = text[i]
    BY <1>4, <1>5, FrontFacts
  <2>3. SubSeq(disk, 1, Len(disk)) = SubSeq(text, 1, Len(disk))
    BY <1>4, <2>1, <2>2, SeqEqual
  <2> QED
    BY <1>4, <2>3 DEF W!IsPrefix
<1>7. W!AllWritten
  <2> SUFFICES ASSUME wmat = "end", ~failed PROVE disk = text
    BY DEF W!AllWritten
  <2>1. TextInv /\ TextStart \in [W!Buffers -> Int] /\ wworkbuf \in W!Buffers
    BY <1>1, TextStartType DEF WriteTypes
  <2>2. wat = "done" /\ wstate[wworkbuf] = "stop" /\ wworkbuf = wmbuf
    BY <1>1 DEF HandInv, WriteTypes, W!Buffers, W!Other
  <2>3. TextStart[wmbuf] = Len(disk) - filled[wmbuf]
    BY <2>1, <2>2 DEF TextStart, Passed
  <2>4. filled[wmbuf] = commited /\ commited \in Nat
    BY <1>1 DEF RoomInv, WriteTypes
  <2>5. TextStart[wmbuf] + commited = Len(text)
    BY <2>1 DEF TextInv
  <2>6. Len(disk) = Len(text)
    BY <1>5, <2>1, <2>3, <2>4, <2>5
  <2> QED
    BY <1>4, <1>5, <2>6, SeqEqual
<1> QED
  BY <1>2, <1>3, <1>6, <1>7 DEF W!WrittenIsText

ReadsInv == (OwnInv /\ OrderInv) \/ (rat = "done" /\ mat = "end")

WritesInv == WriteInv \/ (wat = "done" /\ wmat = "end" /\ WritesSound)

LEMMA ReadsInit == FileInit => ReadsInv
BY OwnInit, OrderInit DEF FileInit, ReadsInv, NoRead, InitAt

LEMMA ReadsStep == ReadsInv /\ [FileNext]_<<vars, output, pipe>> => ReadsInv'
<1> SUFFICES ASSUME ReadsInv, [FileNext]_<<vars, output, pipe>> PROVE ReadsInv'
  OBVIOUS
<1>1. [Next]_vars
  BY DEF FileNext
<1>2. CASE OwnInv /\ OrderInv
  BY <1>1, <1>2, OwnStep, OrderStep DEF ReadsInv
<1>3. CASE rat = "done" /\ mat = "end"
  BY <1>1, <1>3 DEF ReadsInv, Next, ReadThread, Parser, ReadBlock, ReadFails, Release,
     Acquire,
     FirstBlock, IncPos, NextBlock, NextBlockComes, KeyRef, KeyMove, KeyGive, TakeKey, BadKey,
     Finish, Join, vars, caller, reader
<1> QED
  BY <1>2, <1>3 DEF ReadsInv

LEMMA WritesInit == FileInit => WritesInv
<1> SUFFICES ASSUME FileInit PROVE WritesInv
  OBVIOUS
<1>1. CASE W!Init
  BY <1>1, WriteInit DEF WritesInv
<1>2. CASE NoWrite
  <2>1. /\ wat = "done" /\ wmat = "end" /\ disk = <<>> /\ text = <<>>
        /\ filled = [b \in W!Buffers |-> 0] /\ total = [b \in W!Buffers |-> OutSize + Grow]
    BY <1>2 DEF NoWrite, W!InitAt
  <2>2. W!InBounds
    BY <2>1, WriteSizes DEF W!InBounds
  <2>3. W!NoDataRace
    BY <2>1 DEF W!NoDataRace
  <2>4. Len(disk) \in Nat
    BY <2>1, EmptySeq
  <2>5. W!WrittenIsText
    BY <2>1, <2>4 DEF W!WrittenIsText, W!DiskIsText, W!AllWritten, W!IsPrefix
  <2> QED
    BY <2>1, <2>2, <2>3, <2>5 DEF WritesInv, WritesSound
<1> QED
  BY <1>1, <1>2 DEF FileInit

LEMMA WritesStep == WritesInv /\ [FileNext]_<<vars, output, pipe>> => WritesInv'
<1> SUFFICES ASSUME WritesInv, [FileNext]_<<vars, output, pipe>> PROVE WritesInv'
  OBVIOUS
<1>1. W!Next \/ UNCHANGED output
  BY DEF FileNext
<1>2. CASE WriteInv
  BY <1>1, <1>2, WriteStep DEF WritesInv
<1>3. CASE wat = "done" /\ wmat = "end" /\ WritesSound
  <2>1. ~W!Next
    BY <1>3 DEF W!Next, W!WriteThread, W!Caller, W!Commits, W!Acquire, W!Write,
       W!WriteFails,
       W!Written, W!Put, W!Rollback, W!CommitSmall, W!Commit, W!CommitMoves, W!Finish, W!Join
  <2>2. UNCHANGED output
    BY <1>1, <2>1
  <2> QED
    BY <1>3, <2>2 DEF WritesInv, WritesSound, output, W!InBounds, W!NoDataRace,
       W!WrittenIsText,
       W!DiskIsText, W!AllWritten
<1> QED
  BY <1>2, <1>3 DEF WritesInv

LEMMA PipesInit == FileInit => PipesInv
BY InitHolds, ReturnedHolds DEF FileInit, NoPipeline

LEMMA PipesStep == PipesInv /\ [FileNext]_<<vars, output, pipe>> => PipesInv'
<1> SUFFICES ASSUME PipesInv, [FileNext]_<<vars, output, pipe>> PROVE PipesInv'
  OBVIOUS
<1>1. P!Next \/ UNCHANGED P!vars
  BY DEF FileNext, pipe, P!vars, P!caller, P!visits, P!outcome
<1> QED
  BY <1>1, PipeStep

\* The thread reads into a buffer only while it is to be filled, and nothing
\* that the caller uses is: filebuf.c:32-53 and 104-137 need no lock around
\* the symbols themselves.
THEOREM NoDataRaceHolds == FileSpec => []NoDataRace
<1>1. ReadsInv => NoDataRace
  BY DEF ReadsInv, OwnInv, ReaderOwns, CallerOwns, NoDataRace, InUse
<1> QED
  BY ReadsInit, ReadsStep, <1>1, PTL DEF FileSpec

\* A key is in one piece, no symbol is lost or read twice and the end is the
\* file's, for every length of the file and of the buffers: the tail that
\* fbr_get_key_ref moves in front of a block is the end of the block before.
THEOREM FileInOrderHolds == FileSpec => []FileInOrder
<1>1. ReadsInv => FileInOrder
  BY OrderSeen DEF ReadsInv, FileInOrder, KeyWhole, SymbolHere, EofIsEnd
<1> QED
  BY ReadsInit, ReadsStep, <1>1, PTL DEF FileSpec

\* Nothing is put past the end of a buffer, nothing is put into what the thread
\* writes, and the file is the committed text, for pages, buffers and entries of
\* any size and any order of commits, rollbacks and writes.
THEOREM WritesSoundHolds == FileSpec => []WritesSound
<1>1. WritesInv => WritesSound
  BY WriteSeen DEF WritesInv
<1> QED
  BY WritesInit, WritesStep, <1>1, PTL DEF FileSpec

\* Every line of a file and every key of a call is done once and none is lost,
\* those of one chain in the order of the source, for chains of any size and
\* number, any keys and any interleaving of the two threads: a block is handed
\* over, worked on and given back in the order of the ring, and the two entries
\* that are still under way belong to a block that is not given back
\* (pl_pipeline1, pl_pipeline2).
THEOREM LinesDoneHolds == FileSpec => []LinesDone
<1>1. PipesInv => LinesDone
  BY PipeDone DEF LinesDone
<1> QED
  BY PipesInit, PipesStep, <1>1, PTL DEF FileSpec

\* The caller fills an entry again only when its visits are over, for chains of
\* any size (process_thread).
THEOREM EntriesKeptHolds == FileSpec => EntriesKept
<1>1. PipesInv /\ [FileNext]_<<vars, output, pipe>> =>
        [\A k \in 1 .. 2 : stage[k] # P!NoSlot => slot'[stage[k]] = slot[stage[k]]]_P!vars
  <2> SUFFICES ASSUME PipesInv, [FileNext]_<<vars, output, pipe>>
               PROVE  \A k \in 1 .. 2 : stage[k] # P!NoSlot => slot'[stage[k]] = slot[stage[k]]
    OBVIOUS
  <2>1. P!Next \/ UNCHANGED P!vars
    BY DEF FileNext, pipe, P!vars, P!caller, P!visits, P!outcome
  <2> QED
    BY <2>1, PipeKept
<1> QED
  BY PipesInit, PipesStep, <1>1, PTL DEF FileSpec, EntriesKept, P!EntriesKept
=============================================================================
