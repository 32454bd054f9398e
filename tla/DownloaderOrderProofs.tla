----------------------- MODULE DownloaderOrderProofs -----------------------
(***************************************************************************)
(* What the downloader's blocks hold, for every configuration: who is      *)
(* inside a block when the blocks are given back, which part each one      *)
(* holds, what the reader has returned, and how many are taken.            *)
(***************************************************************************)
EXTENDS DownloaderProofs

-----------------------------------------------------------------------------
(***************************************************************************)
(* The steps of the specification, by what they do to the blocks.          *)
(***************************************************************************)
\* A step of the reader, interrupt or the environment that sends nothing.
Stays ==
    /\ UNCHANGED <<cfg, nextChunk, chunkCh, worker>>
    /\ concurrency' > 0 => concurrency' = concurrency \/ nextChunk = 0
    /\ ctxDone => ctxDone'

SameReader == reader'.pos = reader.pos /\ reader'.curBuf = reader.curBuf

\* Nothing happens to the blocks.
Quiet ==
    /\ Stays /\ SameReader /\ UNCHANGED <<hc, bufMap, buf, delivered>>
    /\ \/ reader' = reader
       \/ reader.st \in Single /\ reader'.st \in Early
       \/ reader.st \in {"ready", "waiting"} /\ reader'.st = "failed"
       \/ reader.st = "ready" /\ reader.curBuf = 0 /\ reader'.st = "eof"
       \/ reader.st = "ready" /\ reader.curBuf # 0 /\ cur.offR >= cur.limit /\ reader'.st = "partEnd"
       \/ reader.st = "sendTask" /\ reader'.st = "sending"
       \/ reader.st \in {"ready", "eof", "failed", "closed"} /\ reader'.st = "interrupt"
       \/ reader.st = "interrupt" /\ reader'.st = "closing"

\* The reader waits for the part it is in.
Announces ==
    /\ Stays /\ SameReader /\ UNCHANGED <<hc, bufMap, delivered>>
    /\ reader.curBuf \in Buffers /\ Touches(reader.curBuf) /\ SameData(reader.curBuf)
    /\ buf'[reader.curBuf].open = buf[reader.curBuf].open
    /\ buf'[reader.curBuf].ioWg = buf[reader.curBuf].ioWg
    /\ reader.st \in {"ready", "waiting"} /\ reader'.st = "waiting"

\* The reader goes into the block it reads.
Enters ==
    /\ Stays /\ SameReader /\ UNCHANGED <<hc, bufMap, delivered>>
    /\ reader.curBuf \in Buffers /\ Touches(reader.curBuf) /\ SameData(reader.curBuf)
    /\ buf'[reader.curBuf].open = buf[reader.curBuf].open
    /\ buf'[reader.curBuf].ioWg = buf[reader.curBuf].ioWg + 1
    /\ reader.st \in {"ready", "waiting"} /\ reader'.st = "reading"
    /\ reader'.k \in Nat \ {0} /\ buf[reader.curBuf].offR + reader'.k <= buf[reader.curBuf].offW

\* The reader comes out with what it has read.
Leaves ==
    LET c == reader.curBuf
    IN  /\ Stays /\ SameReader /\ UNCHANGED <<hc, bufMap>>
        /\ c \in Buffers /\ Touches(c) /\ buf'[c].open = buf[c].open
        /\ buf'[c].ioWg = buf[c].ioWg - 1 /\ buf'[c].limit = buf[c].limit
        /\ buf'[c].offR = buf[c].offR + reader.k
        /\ buf'[c].offW = buf[c].offW /\ buf'[c].block = buf[c].block
        /\ reader.st = "reading" /\ reader'.st \in {"ready", "partEnd"}
        /\ reader'.st = "partEnd" => buf[c].offR + reader.k >= buf[c].limit
        /\ delivered' = delivered \o [i \in 1..reader.k |-> buf[c].block[buf[c].offR + i - 1]]

\* The reader turns to the next part.
Advances ==
    /\ Stays /\ UNCHANGED <<hc, buf, delivered>>
    /\ reader.st = "partEnd" /\ reader'.pos = reader.pos + 1 /\ reader'.curBuf = reader.curBuf
    /\ \/ reader.pos + 1 = maxPart /\ reader'.st = "eof" /\ bufMap' = bufMap
       \/ /\ reader.pos + 1 < maxPart /\ bufMap[nextChunk] = 0 /\ reader'.st = "sendTask"
          /\ bufMap' = [bufMap EXCEPT ![nextChunk] = reader.curBuf]
       \/ /\ reader.pos + 1 < maxPart /\ bufMap[nextChunk] # 0 /\ reader'.st = "closePrev"
          /\ bufMap' = bufMap

\* A block is closed, by the reader or by interrupt.
Closes(b) ==
    /\ Stays /\ SameReader /\ UNCHANGED <<hc, bufMap, delivered>>
    /\ Touches(b) /\ SameData(b) /\ ~buf'[b].open /\ buf'[b].ioWg = buf[b].ioWg
    /\ \/ /\ b = reader.curBuf /\ buf[b].ioWg = 0
          /\ reader.st = "closePrev" /\ reader'.st = "pop"
       \/ reader.st = "closing" /\ reader' = reader

\* The reader gets the block of its part.
Pops ==
    /\ Stays /\ UNCHANGED <<hc, buf, delivered>>
    /\ reader.st \in {"open", "pop"} /\ reader'.st = "ready"
    /\ reader'.pos = reader.pos /\ reader'.curBuf = bufMap[reader.pos]
    /\ bufMap' = popBuf(reader.pos)

\* The blocks are given back.
Ends ==
    /\ Stays /\ SameReader /\ UNCHANGED <<buf, delivered>>
    /\ reader.st = "closing" /\ reader'.st = "closed" /\ hc' = -1 /\ bufMap' = NoBufs
    /\ \A b \in BufsOf(bufMap) : ~buf[b].open /\ buf[b].ioWg = 0

LEMMA QuietKind ==
  ASSUME SlotInv,
         \/ Acquire \/ DownloadSingle \/ CloseSingle \/ ReadFails \/ ReadEof \/ FinishWaits
         \/ Close \/ InterruptLocks \/ Others \/ UNCHANGED vars
  PROVE  Quiet
  <1>1. Shape /\ reader \in ReaderRec
    BY DEF SlotInv, Shape, ReaderTypes
  <1>2. Stays /\ UNCHANGED <<hc, bufMap, buf, delivered>>
    <2>1. UNCHANGED <<cfg, nextChunk, chunkCh, worker, hc, bufMap, buf, delivered>>
      BY DEF Acquire, DownloadSingle, CloseSingle, ReadFails, ReadEof, FinishWaits, Close, InterruptLocks,
           Others, ParentCancels, OthersAcquire, OthersRelease, vars, readerOnly, world, shared, counters
    <2>2. ctxDone => ctxDone'
      BY DEF Acquire, DownloadSingle, CloseSingle, ReadFails, ReadEof, FinishWaits, Close, InterruptLocks,
           Others, ParentCancels, OthersAcquire, OthersRelease, vars, readerOnly
    <2>3. concurrency' = concurrency \/ nextChunk = 0
      <3>1. CASE Acquire
        BY <1>1, <3>1 DEF Acquire, ReaderAt, Shape, Stage, Early, Single
      <3>2. CASE ~Acquire
        BY <3>2 DEF DownloadSingle, CloseSingle, ReadFails, ReadEof, FinishWaits, Close, InterruptLocks,
           Others, ParentCancels, OthersAcquire, OthersRelease, vars, readerOnly, shared, counters
      <3> QED BY <3>1, <3>2
    <2> QED BY <2>1, <2>2, <2>3 DEF Stays
  <1>3. ASSUME NEW st, NEW next \in ReaderStates, ReaderAt(st, next)
        PROVE  SameReader /\ reader.st = st /\ reader'.st = next
    BY <1>1, <1>3, ReaderGoes DEF SameReader
  <1> USE DEF ReaderStates, Early, Single, Reading, Between, Ending
  <1>4. CASE Acquire \/ DownloadSingle \/ CloseSingle
    <2>1. \E st \in Single, next \in Early : ReaderAt(st, next)
      BY <1>4 DEF Acquire, DownloadSingle, CloseSingle
    <2> QED BY <1>2, <1>3, <2>1 DEF Quiet
  <1>5. CASE ReadFails \/ ReadEof
    <2>1. \/ \E st \in {"ready", "waiting"} : ReaderAt(st, "failed")
          \/ reader.curBuf = 0 /\ ReaderAt("ready", "eof")
          \/ reader.curBuf # 0 /\ cur.offR >= cur.limit /\ ReaderAt("ready", "partEnd")
      BY <1>5 DEF ReadFails, ReadEof
    <2> QED BY <1>2, <1>3, <2>1 DEF Quiet
  <1>6. CASE FinishWaits \/ InterruptLocks
    <2>1. ReaderAt("sendTask", "sending") \/ ReaderAt("interrupt", "closing")
      BY <1>6 DEF FinishWaits, InterruptLocks
    <2> QED BY <1>2, <1>3, <2>1 DEF Quiet
  <1>7. CASE Close
    <2>1. reader.st \in {"ready", "eof", "failed", "closed"}
      BY <1>7 DEF Close
    <2>2. reader' = [reader EXCEPT !.st = "interrupt", !.closes = @ + 1]
      BY <1>7 DEF Close
    <2> DEFINE n == reader.closes + 1
    <2>3. reader' = [reader EXCEPT !.st = "interrupt", !.closes = n]
      BY <2>2
    <2> HIDE DEF n
    <2>4. SameReader /\ reader'.st = "interrupt"
      BY <1>1, <2>3 DEF SameReader, ReaderRec
    <2> QED BY <1>2, <2>1, <2>4 DEF Quiet
  <1>8. CASE Others \/ UNCHANGED vars
    <2>1. reader' = reader
      BY <1>8 DEF Others, ParentCancels, OthersAcquire, OthersRelease, vars
    <2> QED BY <1>2, <2>1 DEF Quiet, SameReader
  <1> QED BY <1>4, <1>5, <1>6, <1>7, <1>8

LEMMA ReadKind ==
  ASSUME SlotInv, ReadWaits \/ ReadWakes \/ ReadStart \/ ReadEnd
  PROVE  Announces \/ Enters \/ Leaves
  <1> DEFINE c == reader.curBuf
  <1>1. Shape /\ reader \in ReaderRec /\ BufTypes /\ reader.k \in Int /\ cfg' = cfg
    BY ReadMoves DEF SlotInv, Shape, ReaderTypes, ReaderRec, Calm
  <1>2. Stays /\ UNCHANGED <<hc, bufMap>>
    <2>1. UNCHANGED readerOnly
      BY DEF ReadWaits, ReadWakes, ReadStart, ReadEnd
    <2> QED BY <2>1 DEF readerOnly, world, shared, counters, Stays
  <1>3. reader.st \in {"ready", "waiting", "reading"} /\ c # 0
    BY <1>1 DEF ReadWaits, ReadWakes, ReadStart, ReadEnd, ReaderAt, Shape, Stage, Reading
  <1>4. c \in Buffers /\ cur = buf[c] /\ cur.offR \in Int /\ cur.offW \in Int
    BY <1>1, <1>3, CurTypes
  <1>5. CASE ReadWaits
    <2>1. buf' = [buf EXCEPT ![c].readPending = TRUE] /\ ReaderAt("ready", "waiting") /\ delivered' = delivered
      BY <1>5 DEF ReadWaits
    <2>2. SameReader /\ reader.st = "ready" /\ reader'.st = "waiting"
      BY <1>1, <2>1, ReaderGoes DEF SameReader, ReaderStates, Reading
    <2>3. Touches(c) /\ SameData(c) /\ buf'[c].open = buf[c].open /\ buf'[c].ioWg = buf[c].ioWg
      <3> HIDE DEF c
      <3> QED BY <1>1, <1>4, <2>1, AnnounceFacts
    <2> QED BY <1>2, <1>4, <2>1, <2>2, <2>3 DEF Announces
  <1>6. CASE ReadWakes \/ ReadStart
    <2>1. delivered' = delivered /\ reader.st \in {"ready", "waiting"}
      BY <1>6 DEF ReadWakes, ReadStart
    <2>2. \/ /\ buf' = [buf EXCEPT ![c].readSignal = FALSE, ![c].readPending = TRUE] /\ reader' = reader
             /\ reader.st = "waiting"
          \/ /\ \/ buf' = [buf EXCEPT ![c].readSignal = FALSE, ![c].ioWg = @ + 1]
                \/ buf' = [buf EXCEPT ![c].ioWg = @ + 1]
             /\ \E k \in 1..(cur.offW - cur.offR) : reader' = [reader EXCEPT !.st = "reading", !.k = k]
      BY <1>6 DEF ReadWakes, ReadStart
    <2>3. CASE /\ buf' = [buf EXCEPT ![c].readSignal = FALSE, ![c].readPending = TRUE] /\ reader' = reader
               /\ reader.st = "waiting"
      <3>1. Touches(c) /\ SameData(c) /\ buf'[c].open = buf[c].open /\ buf'[c].ioWg = buf[c].ioWg
        <4> HIDE DEF c
        <4> QED BY <1>1, <1>4, <2>3, AnnounceFacts
      <3> QED BY <1>2, <1>4, <2>1, <2>3, <3>1 DEF Announces, SameReader
    <2>4. CASE /\ \/ buf' = [buf EXCEPT ![c].readSignal = FALSE, ![c].ioWg = @ + 1]
                  \/ buf' = [buf EXCEPT ![c].ioWg = @ + 1]
               /\ \E k \in 1..(cur.offW - cur.offR) : reader' = [reader EXCEPT !.st = "reading", !.k = k]
      <3>1. Touches(c) /\ SameData(c) /\ buf'[c].open = buf[c].open /\ buf'[c].ioWg = buf[c].ioWg + 1
        <4> HIDE DEF c
        <4> QED BY <1>1, <1>4, <2>4, EnterFacts
      <3>2. PICK k \in 1..(cur.offW - cur.offR) : reader' = [reader EXCEPT !.st = "reading", !.k = k]
        BY <2>4
      <3>3. k \in Nat \ {0} /\ buf[c].offR + k <= buf[c].offW
        BY <1>4, <3>2
      <3>4. SameReader /\ reader'.st = "reading" /\ reader'.k = k
        BY <1>1, <3>2 DEF SameReader, ReaderRec
      <3> QED BY <1>2, <1>4, <2>1, <3>1, <3>3, <3>4 DEF Enters
    <2> QED BY <2>2, <2>3, <2>4
  <1>7. CASE ReadEnd
    <2>1. /\ reader.st = "reading" /\ buf' = [buf EXCEPT ![c].offR = @ + reader.k, ![c].ioWg = @ - 1]
          /\ delivered' = delivered \o [i \in 1..reader.k |-> buf[c].block[buf[c].offR + i - 1]]
      BY <1>4, <1>7 DEF ReadEnd
    <2>2. PICK st \in {"ready", "partEnd"} : /\ reader' = [reader EXCEPT !.st = st, !.k = 0]
                                             /\ st = "partEnd" => buf[c].offR + reader.k >= buf[c].limit
      BY <1>4, <1>7 DEF ReadEnd
    <2>3. SameReader /\ reader'.st = st
      BY <1>1, <2>2 DEF SameReader, ReaderRec
    <2>4. /\ Touches(c) /\ buf'[c].open = buf[c].open /\ buf'[c].ioWg = buf[c].ioWg - 1
          /\ buf'[c].limit = buf[c].limit /\ buf'[c].offR = buf[c].offR + reader.k
          /\ buf'[c].offW = buf[c].offW /\ buf'[c].block = buf[c].block
      <3> HIDE DEF c
      <3> QED BY <1>1, <1>4, <2>1, LeaveFacts
    <2> QED BY <1>2, <1>4, <2>1, <2>2, <2>3, <2>4 DEF Leaves
  <1> QED BY <1>5, <1>6, <1>7

\* A buffer that is closed keeps its data.
LEMMA CloseKeeps ==
  ASSUME BufTypes, cfg' = cfg, NEW b \in Buffers, buf' = [buf EXCEPT ![b] = Closed(buf[b])]
  PROVE  Touches(b) /\ SameData(b) /\ ~buf'[b].open /\ buf'[b].ioWg = buf[b].ioWg
  <1> DEFINE br == buf[b]
             q  == Closed(br)
  <1>1. br \in PipeBuffer
    BY DEF BufTypes
  <1> HIDE DEF br
  <1>2. q \in PipeBuffer /\ ~q.open
    BY <1>1, ClosedFacts
  <1>3. /\ q.ioWg = br.ioWg /\ q.limit = br.limit /\ q.offR = br.offR /\ q.offW = br.offW
        /\ q.block = br.block
    BY <1>1, ClosedFacts
  <1>4. buf' = [buf EXCEPT ![b] = q]
    BY DEF br
  <1> HIDE DEF q
  <1>5. Touches(b) /\ buf'[b] = q
    BY <1>2, <1>4, Replaced
  <1>6. ~buf'[b].open
    BY <1>2, <1>5
  <1>7. SameData(b) /\ buf'[b].ioWg = buf[b].ioWg
    BY <1>3, <1>5 DEF SameData, br
  <1> QED BY <1>5, <1>6, <1>7

LEMMA PartKind ==
  ASSUME SlotInv, NextPart \/ FinishCloses \/ FinishPops \/ DownloadReturns
  PROVE  Advances \/ Pops \/ \E b \in Buffers : Closes(b)
  <1>1. Shape /\ reader \in ReaderRec /\ BufTypes /\ cfg' = cfg /\ reader.pos \in Nat /\ maxPart \in Nat
    BY ReadMoves, RangeFacts DEF SlotInv, Shape, ReaderTypes, ReaderRec, Calm
  <1>2. Stays /\ UNCHANGED <<hc, delivered>>
    BY DEF NextPart, FinishCloses, FinishPops, DownloadReturns, readerOnly, world, shared, counters, Stays
  <1>3. CASE NextPart
    <2>1. reader.st = "partEnd" /\ buf' = buf
      BY <1>3 DEF NextPart
    <2>2. reader.pos < maxPart
      BY <1>1, <2>1 DEF Shape, ReaderTypes, Reading
    <2>3. PICK st \in {"eof", "sendTask", "closePrev"} :
            /\ reader' = [reader EXCEPT !.pos = @ + 1, !.st = st]
            /\ \/ reader.pos + 1 >= maxPart /\ st = "eof" /\ bufMap' = bufMap
               \/ /\ reader.pos + 1 < maxPart /\ bufMap[nextChunk] = 0 /\ st = "sendTask"
                  /\ bufMap' = [bufMap EXCEPT ![nextChunk] = reader.curBuf]
               \/ reader.pos + 1 < maxPart /\ bufMap[nextChunk] # 0 /\ st = "closePrev" /\ bufMap' = bufMap
      BY <1>1, <1>3 DEF NextPart
    <2>4. reader'.st = st /\ reader'.pos = reader.pos + 1 /\ reader'.curBuf = reader.curBuf
      BY <1>1, <2>3 DEF ReaderRec
    <2> QED BY <1>1, <1>2, <2>1, <2>2, <2>3, <2>4 DEF Advances
  <1>4. CASE FinishCloses
    <2> DEFINE c == reader.curBuf
    <2>1. ReaderAt("closePrev", "pop") /\ cur.ioWg = 0 /\ bufMap' = bufMap /\ buf' = [buf EXCEPT ![c] = Closed(@)]
      BY <1>4 DEF FinishCloses, readerOnly, shared
    <2>2. SameReader /\ reader.st = "closePrev" /\ reader'.st = "pop"
      BY <1>1, <2>1, ReaderGoes DEF SameReader, ReaderStates, Between
    <2>3. c # 0
      BY <1>1, <2>2 DEF Shape, Stage, Between
    <2>4. c \in Buffers /\ buf[c].ioWg = 0 /\ buf[c] \in PipeBuffer
      BY <1>1, <2>1, <2>3, CurTypes
    <2>5. buf' = [buf EXCEPT ![c] = Closed(buf[c])]
      BY <1>1, <2>1, <2>4 DEF BufTypes
    <2>6. Touches(c) /\ SameData(c) /\ ~buf'[c].open /\ buf'[c].ioWg = buf[c].ioWg
      <3>1. cfg' = cfg
        BY <1>1
      <3> HIDE DEF c
      <3> QED BY <1>1, <2>4, <2>5, <3>1, CloseKeeps
    <2> QED BY <1>2, <2>1, <2>2, <2>4, <2>6 DEF Closes
  <1>5. CASE FinishPops \/ DownloadReturns
    <2>1. PICK id \in {0, reader.pos} : /\ reader' = [reader EXCEPT !.st = "ready", !.curBuf = bufMap[id]]
                                        /\ bufMap' = popBuf(id) /\ (id # reader.pos => reader.st = "open")
      BY <1>5 DEF FinishPops, DownloadReturns
    <2>2. reader.st \in {"open", "pop"} /\ buf' = buf
      BY <1>5 DEF FinishPops, DownloadReturns
    <2>3. id = reader.pos
      BY <1>1, <2>1, <2>2 DEF Shape, Stage
    <2>4. reader'.st = "ready" /\ reader'.curBuf = bufMap[id] /\ reader'.pos = reader.pos
      BY <1>1, <2>1 DEF ReaderRec
    <2> QED BY <1>2, <2>1, <2>2, <2>3, <2>4 DEF Pops
  <1> QED BY <1>3, <1>4, <1>5

LEMMA InterruptKind ==
  ASSUME SlotInv, InterruptEnds \/ \E b \in Buffers : InterruptCloses(b)
  PROVE  Ends \/ \E b \in Buffers : Closes(b)
  <1>1. Shape /\ reader \in ReaderRec /\ BufTypes /\ concurrency \in Int
    BY DEF SlotInv, Shape, ReaderTypes, Counts
  <1>2. ASSUME NEW b \in Buffers, InterruptCloses(b) PROVE Closes(b)
    <2>1. /\ Stays /\ UNCHANGED <<hc, bufMap, delivered>> /\ reader' = reader /\ reader.st = "closing"
          /\ buf' = [buf EXCEPT ![b] = Closed(buf[b])] /\ cfg' = cfg /\ buf[b] \in PipeBuffer
      BY <1>1, <1>2 DEF InterruptCloses, readerOnly, world, shared, counters, Stays, BufTypes
    <2>2. Touches(b) /\ SameData(b) /\ ~buf'[b].open /\ buf'[b].ioWg = buf[b].ioWg
      BY <1>1, <2>1, CloseKeeps
    <2> QED BY <2>1, <2>2 DEF Closes, SameReader
  <1>3. CASE InterruptEnds
    <2>1. ReaderAt("closing", "closed")
      BY <1>3 DEF InterruptEnds
    <2>2. SameReader /\ reader.st = "closing" /\ reader'.st = "closed"
      BY <1>1, <2>1, ReaderGoes DEF SameReader, ReaderStates, Ending
    <2>3. Stays
      BY <1>1, <1>3 DEF InterruptEnds, Stays, world
    <2> QED BY <1>3, <2>2, <2>3 DEF Ends, InterruptEnds
  <1> QED BY <1>2, <1>3

-----------------------------------------------------------------------------
\* The steps of worker w that send nothing; r is its record behind the step.
Labours(w, r) ==
    /\ worker' = [worker EXCEPT ![w] = r] /\ r \in WorkerRec
    /\ UNCHANGED <<cfg, nextChunk, hc, bufMap, reader, delivered>>
    /\ concurrency' > 0 => concurrency' = concurrency
    /\ ctxDone => ctxDone'

\* It ends, with its part back in the channel or not.
Quits(w, r) ==
    /\ Labours(w, r) /\ r.st = "gone" /\ buf' = buf /\ concurrency' = concurrency
    /\ worker[w].st \notin {"idle", "gone", "writing"}
    /\ \/ chunkCh' = chunkCh
       \/ /\ worker[w].st = "requeue" /\ Len(chunkCh) < Capacity
          /\ chunkCh' = Append(chunkCh, worker[w].ch)

Takes(w, r) ==
    /\ Labours(w, r) /\ buf' = buf /\ worker[w].st = "take"
    /\ chunkCh # <<>> /\ chunkCh' = Tail(chunkCh)
    /\ r.st = "request" /\ r.ch = Head(chunkCh) /\ r.n = 0 /\ r.k = 0

\* It keeps its part and what it has copied of it.
Keeps(w, r) ==
    /\ Labours(w, r) /\ UNCHANGED <<buf, chunkCh>>
    /\ r.ch = worker[w].ch /\ r.n = worker[w].n
    /\ worker[w].st \in {"request", "requeue", "body", "write"} /\ r.st \in {"judge", "requeue", "write"}
    /\ r.st = "requeue" => worker[w].st \in {"request", "requeue"}
    /\ r.st = "requeue" /\ worker[w].st = "request" => concurrency' <= 0

\* It has copied its part and looks for another one.
Rests(w, r) ==
    /\ Labours(w, r) /\ UNCHANGED <<buf, chunkCh>>
    /\ worker[w].st = "body" /\ Left(w) = 0
    /\ r.st = "take" /\ r.n = 0 /\ r.k = 0

\* It goes into the block of its part.
GoesIn(w, r) ==
    LET b == worker[w].ch.buf
    IN  /\ Labours(w, r) /\ chunkCh' = chunkCh
        /\ buf[b].open /\ Touches(b) /\ SameData(b) /\ buf'[b].open = buf[b].open
        /\ buf'[b].ioWg = buf[b].ioWg + 1
        /\ worker[w].st = "write" /\ r.st = "writing" /\ r.ch = worker[w].ch /\ r.n = worker[w].n
        /\ r.k \in Nat \ {0} /\ r.k <= Left(w)

\* It comes out of the block.
ComesOut(w, r) ==
    LET b == worker[w].ch.buf
    IN  /\ Labours(w, r) /\ chunkCh' = chunkCh
        /\ Touches(b) /\ buf'[b] = Written(buf[b], worker[w].ch.start + worker[w].n, worker[w].k)
        /\ worker[w].st = "writing" /\ r.st = "body" /\ r.ch = worker[w].ch
        /\ r.n = worker[w].n + worker[w].k /\ r.k = 0

\* It asks for the rest of its part.
Retries(w, r) ==
    /\ Labours(w, r) /\ UNCHANGED <<buf, chunkCh>>
    /\ worker[w].st = "judge" /\ r.st = "request" /\ r.n = 0 /\ r.k = 0
    /\ r.ch.start = worker[w].ch.start + worker[w].n /\ r.ch.size = worker[w].ch.size - worker[w].n
    /\ r.ch.id = worker[w].ch.id /\ r.ch.buf = worker[w].ch.buf

WorkKind(w) ==
    \E r \in WorkerRec : \/ Quits(w, r) \/ Takes(w, r) \/ Keeps(w, r) \/ Rests(w, r)
                         \/ GoesIn(w, r) \/ ComesOut(w, r) \/ Retries(w, r)

LEMMA WorkerKind ==
  ASSUME SlotInv, NEW w \in Workers,
         \/ WorkerTakes(w) \/ RequestFails(w) \/ RequestRefused(w) \/ Requeue(w)
         \/ WriteEnters(w) \/ WriteStart(w) \/ WriteEnd(w) \/ BodyEnds(w) \/ BodyBreaks(w) \/ Judge(w)
  PROVE  WorkKind(w)
  <1>1. Shape /\ concurrency \in Int
    BY DEF SlotInv, Shape, Counts
  <1>2. delivered' = delivered
    BY DEF WorkerTakes, RequestFails, RequestRefused, Requeue, WriteEnters, WriteStart, WriteEnd,
         BodyEnds, BodyBreaks, Judge, workerOnly
  <1> DEFINE frame == /\ UNCHANGED <<cfg, nextChunk, hc, bufMap, reader, delivered>>
                      /\ concurrency' > 0 => concurrency' = concurrency
                      /\ ctxDone => ctxDone'
  <1>3. frame
    <2>1. CASE WorkerTakes(w)
      BY <1>1, <1>2, <2>1, WorkerTakesFacts
    <2>2. CASE RequestFails(w) \/ RequestRefused(w) \/ WriteEnters(w) \/ BodyBreaks(w) \/ BodyEnds(w)
      BY <1>1, <1>2, <2>2, RequestFacts
    <2>3. CASE Requeue(w) \/ WriteStart(w) \/ WriteEnd(w) \/ Judge(w)
      BY <1>1, <1>2, <2>3, BodyFrame
    <2> QED BY <2>1, <2>2, <2>3
  <1>4. ASSUME NEW st, NEW ch, NEW n, NEW k, Becomes(w, st, ch, n, k)
        PROVE  \E r \in WorkerRec : Labours(w, r) /\ r.st = st /\ r.ch = ch /\ r.n = n /\ r.k = k
    BY <1>3, <1>4 DEF Becomes, Labours
  <1>5. ASSUME Exit(w) PROVE \E r \in WorkerRec : Labours(w, r) /\ r.st = "gone"
    <2> DEFINE r == [Idle EXCEPT !.st = "gone"]
    <2>1. worker' = [worker EXCEPT ![w] = r] /\ r \in WorkerRec /\ r.st = "gone"
      BY <1>1, <1>5, ExitFacts
    <2> HIDE DEF r
    <2> QED BY <1>3, <2>1 DEF Labours
  <1> HIDE DEF frame
  <1>6. CASE WorkerTakes(w)
    <2>1. /\ concurrency' = concurrency /\ buf' = buf /\ worker[w].st = "take"
          /\ \/ Exit(w) /\ chunkCh' = chunkCh
             \/ /\ chunkCh # <<>> /\ chunkCh' = Tail(chunkCh)
                /\ Becomes(w, "request", Head(chunkCh), 0, 0)
      BY <1>1, <1>6, WorkerTakesFacts
    <2>2. CASE Exit(w) /\ chunkCh' = chunkCh
      BY <1>5, <2>1, <2>2 DEF WorkKind, Quits
    <2>3. CASE /\ chunkCh # <<>> /\ chunkCh' = Tail(chunkCh)
               /\ Becomes(w, "request", Head(chunkCh), 0, 0)
      BY <1>4, <2>1, <2>3 DEF WorkKind, Takes
    <2> QED BY <2>1, <2>2, <2>3
  <1>7. CASE RequestFails(w) \/ RequestRefused(w) \/ WriteEnters(w) \/ BodyBreaks(w) \/ BodyEnds(w)
    <2>1. /\ UNCHANGED <<buf, chunkCh>> /\ worker[w].st \in {"request", "body"}
          /\ \/ worker[w].st = "body" /\ Left(w) = 0 /\ Becomes(w, "take", Idle.ch, 0, 0)
             \/ \E st \in {"judge", "requeue", "write"} :
                  /\ Becomes(w, st, worker[w].ch, worker[w].n, worker[w].k)
                  /\ st = "requeue" => worker[w].st = "request" /\ concurrency' <= 0
                  /\ st = "write" => worker[w].st = "body"
      BY <1>1, <1>7, RequestFacts
    <2>2. CASE worker[w].st = "body" /\ Left(w) = 0 /\ Becomes(w, "take", Idle.ch, 0, 0)
      BY <1>4, <2>1, <2>2 DEF WorkKind, Rests
    <2>3. ASSUME NEW st \in {"judge", "requeue", "write"},
                 Becomes(w, st, worker[w].ch, worker[w].n, worker[w].k),
                 st = "requeue" => worker[w].st = "request" /\ concurrency' <= 0
          PROVE  WorkKind(w)
      BY <1>4, <2>1, <2>3 DEF WorkKind, Keeps
    <2> QED BY <2>1, <2>2, <2>3
  <1>8. CASE Requeue(w)
    <2>1. /\ buf' = buf /\ worker[w].st = "requeue" /\ concurrency' = concurrency
          /\ \/ Exit(w) /\ chunkCh' = chunkCh
             \/ Exit(w) /\ Len(chunkCh) < Capacity /\ chunkCh' = Append(chunkCh, worker[w].ch)
             \/ UNCHANGED <<chunkCh, worker>>
      BY <1>1, <1>8, RequeueFacts, BodyFrame
    <2>2. CASE Exit(w)
      <3>1. \/ chunkCh' = chunkCh
            \/ Len(chunkCh) < Capacity /\ chunkCh' = Append(chunkCh, worker[w].ch)
        BY <2>1
      <3> QED BY <1>5, <2>1, <2>2, <3>1 DEF WorkKind, Quits
    <2>3. CASE UNCHANGED <<chunkCh, worker>>
      <3>1. worker[w] \in WorkerRec /\ worker' = [worker EXCEPT ![w] = worker[w]]
        BY <1>1, <2>3 DEF Shape, WorkerTypes
      <3> QED BY <1>3, <2>1, <2>3, <3>1 DEF WorkKind, Keeps, Labours, frame
    <2> QED BY <2>1, <2>2, <2>3
  <1>9. CASE WriteStart(w)
    <2> DEFINE b == worker[w].ch.buf
    <2>1. /\ worker[w].st = "write" /\ chunkCh' = chunkCh
          /\ \/ /\ buf[b].open /\ Touches(b) /\ SameData(b) /\ buf'[b].open = buf[b].open
                /\ buf'[b].ioWg = buf[b].ioWg + 1
                /\ \E k \in Nat \ {0} : /\ k <= Left(w)
                                        /\ Becomes(w, "writing", worker[w].ch, worker[w].n, k)
             \/ buf' = buf /\ Becomes(w, "judge", worker[w].ch, worker[w].n, worker[w].k)
      BY <1>1, <1>9, WriteStartFacts
    <2>2. ASSUME NEW k \in Nat \ {0}, k <= Left(w), Becomes(w, "writing", worker[w].ch, worker[w].n, k),
                 buf[b].open, Touches(b), SameData(b), buf'[b].open = buf[b].open,
                 buf'[b].ioWg = buf[b].ioWg + 1
          PROVE  WorkKind(w)
      BY <1>4, <2>1, <2>2 DEF WorkKind, GoesIn
    <2>3. CASE buf' = buf /\ Becomes(w, "judge", worker[w].ch, worker[w].n, worker[w].k)
      BY <1>4, <2>1, <2>3 DEF WorkKind, Keeps
    <2> QED BY <2>1, <2>2, <2>3
  <1>10. CASE WriteEnd(w)
    <2> DEFINE b == worker[w].ch.buf
    <2>1. /\ worker[w].st = "writing" /\ chunkCh' = chunkCh
          /\ Touches(b) /\ buf'[b] = Written(buf[b], worker[w].ch.start + worker[w].n, worker[w].k)
          /\ Becomes(w, "body", worker[w].ch, worker[w].n + worker[w].k, 0)
      BY <1>1, <1>10, WriteEndFacts
    <2> QED BY <1>4, <2>1 DEF WorkKind, ComesOut
  <1>11. CASE Judge(w)
    <2>1. /\ worker[w].st = "judge" /\ UNCHANGED <<chunkCh, buf>> /\ concurrency' = concurrency
          /\ \/ Exit(w)
             \/ \E ch \in Chunk : /\ ch.start = worker[w].ch.start + worker[w].n
                                  /\ ch.size = worker[w].ch.size - worker[w].n
                                  /\ ch.id = worker[w].ch.id /\ ch.buf = worker[w].ch.buf
                                  /\ Becomes(w, "request", ch, 0, 0)
      BY <1>1, <1>11, JudgeFacts, BodyFrame
    <2>2. CASE Exit(w)
      BY <1>5, <2>1, <2>2 DEF WorkKind, Quits
    <2>3. ASSUME NEW ch \in Chunk, ch.start = worker[w].ch.start + worker[w].n,
                 ch.size = worker[w].ch.size - worker[w].n,
                 ch.id = worker[w].ch.id, ch.buf = worker[w].ch.buf, Becomes(w, "request", ch, 0, 0)
          PROVE  WorkKind(w)
      BY <1>4, <2>1, <2>3 DEF WorkKind, Retries
    <2> QED BY <2>1, <2>2, <2>3
  <1> QED BY <1>6, <1>7, <1>8, <1>9, <1>10, <1>11

-----------------------------------------------------------------------------
\* The steps that send: the part is in the channel, lost to the cancelled context,
\* or there is nothing to send.
Sent(nc) ==
    /\ pos < maxPos
    /\ \E b \in Buffers : Prepare(b) /\ chunkCh' = Append(chunkCh, NextChunk(nc, b))

Dropped ==
    /\ ctxDone /\ pos < maxPos /\ chunkCh' = chunkCh
    /\ \E b \in Buffers : Prepare(b)

NotSent == UNCHANGED <<pos, nextChunk, hc, bufMap, buf, chunkCh>>

\* The workers keep their parts; one may have been answered and one may be new.
Similar ==
    /\ WorkerTypes'
    /\ \A u \in Workers :
         /\ worker'[u].ch = worker[u].ch /\ worker'[u].n = worker[u].n /\ worker'[u].k = worker[u].k
         /\ \/ worker'[u].st = worker[u].st
            \/ worker[u].st = "request" /\ worker'[u].st = "body"
            \/ worker[u].st = "idle" /\ worker'[u].st = "take"

Spawns ==
    /\ concurrency > 0 /\ concurrency' = concurrency - 1
    /\ Cardinality(Started') = Cardinality(Started) + 1

Remains == concurrency' = concurrency /\ Started' = Started

SendKind ==
    /\ cfg' = cfg /\ delivered' = delivered /\ Similar /\ SameReader
    /\ ctxDone => ctxDone'
    /\ \/ Sent(TRUE) /\ Spawns
       \/ Sent(FALSE) /\ Remains /\ reader.st \in {"sendTask", "sending"} /\ reader'.st = "pop"
       \/ Dropped /\ Remains
       \/ NotSent /\ Remains /\ (reader.st \in {"sendTask", "sending"} /\ reader'.st = "pop" =>
                                     NoTask(FALSE) \/ SendFails(FALSE))
    /\ \/ reader.st = "first" /\ reader'.st = "open" /\ Sent(TRUE)
       \/ reader.st = "first" /\ reader'.st = "interrupt"
       \/ reader.st \in {"sendTask", "sending"} /\ reader'.st = "pop"
       \/ reader' = reader /\ reader.st \notin Early

\* The workers after a send, once the sender's own step is known.
LEMMA SimilarFacts ==
  ASSUME Shape, NEW ws, Alike(ws),
         \A u \in Workers : ws[u].st = worker[u].st \/ (worker[u].st = "request" /\ ws[u].st = "body"),
         \/ worker' = ws
         \/ \E v \in Workers : worker[v].st = "idle" /\ worker' = [ws EXCEPT ![v].st = "take"]
  PROVE  Similar
  <1>1. CASE worker' = ws
    BY <1>1 DEF Alike, Similar, WorkerTypes
  <1>2. ASSUME NEW v \in Workers, worker[v].st = "idle", worker' = [ws EXCEPT ![v].st = "take"]
        PROVE  Similar
    <2> DEFINE r == [ws[v] EXCEPT !.st = "take"]
    <2>1. worker' = [ws EXCEPT ![v] = r] /\ ws[v] \in WorkerRec /\ ws \in [Workers -> WorkerRec]
      BY <1>2 DEF Alike
    <2>2. r \in WorkerRec /\ r.st = "take" /\ r.n = ws[v].n /\ r.k = ws[v].k /\ r.ch = ws[v].ch
      BY <2>1 DEF WorkerRec, WorkerStates
    <2> HIDE DEF r
    <2> QED BY <1>2, <2>1, <2>2 DEF Alike, Similar, WorkerTypes
  <1> QED BY <1>1, <1>2

\* sendChunkTask in the hands of the reader or a worker.
LEMMA SendParts ==
  ASSUME Shape, Spawned, cfg' = cfg, maxPart > 1, NEW nc \in BOOLEAN, NEW ws, Alike(ws),
         \A u \in Workers : ws[u].st = worker[u].st \/ (worker[u].st = "request" /\ ws[u].st = "body"),
         \/ SendQueues(nc, ws)
         \/ SendCancelled(nc) /\ worker' = ws
         \/ (NoTask(nc) \/ SendFails(nc)) /\ worker' = ws /\ UNCHANGED <<shared, buf>>
  PROVE  /\ Similar
         /\ \/ Sent(nc) /\ (nc => Spawns) /\ (~nc => Remains)
            \/ Dropped /\ Remains
            \/ NotSent /\ Remains /\ (NoTask(nc) \/ SendFails(nc))
  <1>1. WorkerTypes
    BY DEF Shape
  <1>2. worker' = ws => Started' = Started
    BY <1>1, SendCounts
  <1>3. CASE SendQueues(nc, ws)
    <2>1. /\ Sends(nc, ws)
          /\ ~nc => worker' = ws
          /\ nc => worker' # ws
          /\ Sent(nc)
      BY <1>3, QueuesSends DEF Sent
    <2>2. CASE nc
      <3>1. /\ concurrency > 0 /\ concurrency' = concurrency - 1
            /\ \E v \in Workers : worker[v].st = "idle" /\ worker' = [ws EXCEPT ![v].st = "take"]
        BY <2>1, <2>2 DEF Sends
      <3>2. Cardinality(Started') = Cardinality(Started) + 1
        BY <1>1, <3>1, SendCounts
      <3> QED BY <2>1, <2>2, <3>1, <3>2, SimilarFacts DEF Spawns
    <2>3. CASE ~nc
      <3>1. concurrency' = concurrency
        BY <1>3, <2>3 DEF SendQueues
      <3> QED BY <1>2, <2>1, <2>3, <3>1, SimilarFacts DEF Remains
    <2> QED BY <2>2, <2>3
  <1>4. CASE SendCancelled(nc) /\ worker' = ws
    <2>1. Dropped /\ concurrency' = concurrency
      BY <1>4, CancelledSends DEF Dropped
    <2> QED BY <1>2, <1>4, <2>1, SimilarFacts DEF Remains
  <1>5. CASE (NoTask(nc) \/ SendFails(nc)) /\ worker' = ws /\ UNCHANGED <<shared, buf>>
    <2>1. NotSent /\ concurrency' = concurrency
      BY <1>5 DEF NotSent, shared, counters
    <2> QED BY <1>2, <1>5, <2>1, SimilarFacts DEF Remains
  <1> QED BY <1>3, <1>4, <1>5

LEMMA SendingKind ==
  ASSUME SlotInv, DownloadFirst \/ FinishSends \/ FinishResumes \/ \E w \in Workers : RequestSucceeds(w)
  PROVE  SendKind
  <1>1. Shape /\ Spawned
    BY DEF SlotInv
  <1>2. Alike(worker)
    BY <1>1, AlikeFacts
  <1>3. CASE DownloadFirst
    <2>1. cfg' = cfg /\ delivered' = delivered /\ reader.st = "first"
      BY <1>3 DEF DownloadFirst, world, ReaderAt
    <2>2. maxPart > 1
      BY <1>1, <2>1 DEF Shape, ReaderTypes, Single
    <2>3. \/ SendQueues(TRUE, worker) /\ ReaderAt("first", "open") /\ UNCHANGED ctxDone
          \/ /\ \/ SendCancelled(TRUE) /\ worker' = worker
                \/ SendFails(TRUE) /\ worker' = worker /\ UNCHANGED <<shared, buf>>
             /\ ReaderAt("first", "interrupt") /\ ctxDone'
      BY <1>3 DEF DownloadFirst
    <2>4. /\ Similar
          /\ \/ Sent(TRUE) /\ Spawns
             \/ Dropped /\ Remains
             \/ NotSent /\ Remains
      BY <1>1, <1>2, <2>1, <2>2, <2>3, SendParts
    <2>5. \/ ReaderAt("first", "open") /\ UNCHANGED ctxDone /\ Sent(TRUE)
          \/ ReaderAt("first", "interrupt") /\ ctxDone'
      <3>1. CASE SendQueues(TRUE, worker)
        BY <1>1, <1>2, <2>1, <2>2, <2>3, <3>1, QueuesSends DEF Sent
      <3> QED BY <2>3, <3>1
    <2>6. ASSUME NEW next \in {"open", "interrupt"}, ReaderAt("first", next)
          PROVE  SameReader /\ reader'.st = next
      BY <1>1, <2>6, ReaderGoes DEF SameReader, ReaderStates, Ending
    <2>7. CASE ReaderAt("first", "open") /\ UNCHANGED ctxDone /\ Sent(TRUE)
      <3>1. SameReader /\ reader'.st = "open"
        BY <2>6, <2>7
      <3> QED BY <2>1, <2>4, <2>7, <3>1 DEF SendKind
    <2>8. CASE ReaderAt("first", "interrupt") /\ ctxDone'
      <3>1. SameReader /\ reader'.st = "interrupt"
        BY <2>6, <2>8
      <3> QED BY <2>1, <2>4, <2>8, <3>1 DEF SendKind
    <2> QED BY <2>5, <2>7, <2>8
  <1>4. CASE FinishSends \/ FinishResumes
    <2>1. /\ cfg' = cfg /\ ctxDone' = ctxDone
          /\ reader.st \in {"sendTask", "sending"} /\ reader'.st = "pop" /\ SameReader
          /\ maxPart > 1 /\ delivered' = delivered
      BY <1>1, <1>4, FinishFacts DEF SameReader
    <2>2. \/ SendQueues(FALSE, worker)
          \/ SendCancelled(FALSE) /\ worker' = worker
          \/ (NoTask(FALSE) \/ SendFails(FALSE)) /\ worker' = worker /\ UNCHANGED <<shared, buf>>
      BY <1>4 DEF FinishSends, FinishResumes, sendChunkTask
    <2>3. /\ Similar
          /\ \/ Sent(FALSE) /\ Remains
             \/ Dropped /\ Remains
             \/ NotSent /\ Remains /\ (NoTask(FALSE) \/ SendFails(FALSE))
      BY <1>1, <1>2, <2>1, <2>2, SendParts
    <2> QED BY <2>1, <2>3 DEF SendKind
  <1>5. ASSUME NEW w \in Workers, RequestSucceeds(w) PROVE SendKind
    <2> DEFINE ws == Step(w, "body")
    <2>1. /\ cfg' = cfg /\ ctxDone' = ctxDone /\ reader' = reader /\ delivered' = delivered
          /\ worker[w].st = "request" /\ maxPart > 1 /\ reader.st \notin Early /\ Alike(ws)
      BY <1>1, <1>5, SucceedsFacts
    <2>2. \/ SendQueues(TRUE, ws)
          \/ SendCancelled(TRUE) /\ worker' = ws
          \/ (NoTask(TRUE) \/ SendFails(TRUE)) /\ worker' = ws /\ UNCHANGED <<shared, buf>>
      BY <1>5 DEF RequestSucceeds, sendChunkTask
    <2>3. \A u \in Workers : ws[u].st = worker[u].st \/ (worker[u].st = "request" /\ ws[u].st = "body")
      BY <1>1, <2>1 DEF Step, Shape, WorkerTypes, WorkerRec
    <2> HIDE DEF ws
    <2>4. /\ Similar
          /\ \/ Sent(TRUE) /\ Spawns
             \/ Dropped /\ Remains
             \/ NotSent /\ Remains
      BY <1>1, <2>1, <2>2, <2>3, SendParts
    <2>5. SameReader /\ ~(reader.st \in {"sendTask", "sending"} /\ reader'.st = "pop")
      BY <2>1 DEF SameReader
    <2> QED BY <2>1, <2>4, <2>5 DEF SendKind
  <1> QED BY <1>3, <1>4, <1>5

\* Every step is of one of these kinds.
Kinds ==
    \/ Quiet \/ Announces \/ Enters \/ Leaves \/ Advances \/ Pops \/ Ends \/ SendKind
    \/ \E b \in Buffers : Closes(b)
    \/ \E w \in Workers : WorkKind(w)

LEMMA StepKinds ==
  ASSUME SlotInv, [Next]_vars
  PROVE  Kinds /\ cfg' = cfg
  <1>1. Kinds
    <2>1. CASE UNCHANGED vars
      BY <2>1, QuietKind DEF Kinds
    <2>2. CASE Start \/ CloseSingle
      BY <2>2, QuietKind, SendingKind, PartKind DEF Start, Kinds
    <2>3. CASE Read
      BY <2>3, QuietKind, ReadKind, PartKind, SendingKind DEF Read, Kinds
    <2>4. CASE Close \/ Interrupt \/ Others
      BY <2>4, QuietKind, InterruptKind DEF Interrupt, Kinds
    <2>5. ASSUME NEW w \in Workers, Work(w) PROVE Kinds
      <3>1. CASE RequestSucceeds(w)
        BY <3>1, SendingKind DEF Kinds
      <3>2. CASE ~RequestSucceeds(w)
        BY <2>5, <3>2, WorkerKind DEF Work, Kinds
      <3> QED BY <3>1, <3>2
    <2> QED BY <2>1, <2>2, <2>3, <2>4, <2>5 DEF Next
  <1>2. ASSUME NEW w \in Workers, WorkKind(w) PROVE cfg' = cfg
    BY <1>2 DEF WorkKind, Quits, Takes, Keeps, Rests, GoesIn, ComesOut, Retries, Labours
  <1>3. ASSUME NEW b \in Buffers, Closes(b) PROVE cfg' = cfg
    BY <1>3 DEF Closes, Stays
  <1>4. CASE Quiet \/ Announces \/ Enters \/ Leaves \/ Advances \/ Pops \/ Ends \/ SendKind
    <2>1. cfg' = cfg
      BY <1>4 DEF Quiet, Announces, Enters, Leaves, Advances, Pops, Ends, SendKind, Stays
    <2> QED BY <1>1, <2>1
  <1> QED BY <1>1, <1>2, <1>3, <1>4 DEF Kinds

-----------------------------------------------------------------------------
(***************************************************************************)
(* Who is inside the blocks, and that interrupt finds every block in use.  *)
(***************************************************************************)
Writers(b) == {w \in Workers : worker[w].st = "writing" /\ worker[w].ch.buf = b}

\* ioWg counts who is inside a block.
IoCounted ==
    \A b \in Buffers :
        buf[b].ioWg = Cardinality(Writers(b))
                       + (IF reader.st = "reading" /\ reader.curBuf = b THEN 1 ELSE 0)

InUse(b) == buf[b].open \/ buf[b].ioWg # 0

HasPart == {"request", "requeue", "body", "write", "writing", "judge"}

\* Nobody knows of a block that was not taken from the store.
KnownBlocks ==
    hc # -1 =>
      /\ \A id \in Ids : bufMap[id] <= hc
      /\ reader.curBuf <= hc
      /\ \A w \in Workers : worker[w].st \in HasPart => worker[w].ch.buf <= hc
      /\ \A i \in DOMAIN chunkCh : chunkCh[i].buf <= hc

\* Every block in use is in bufMap, where interrupt looks for it: the one that is
\* read under -1 until its successor is there.
Kept ==
    /\ hc # -1 => \A b \in Buffers : InUse(b) => b \in BufsOf(bufMap)
    /\ hc = -1 => bufMap = NoBufs /\ \A b \in Buffers : ~InUse(b)
    /\ hc # -1 /\ reader.curBuf # 0 => bufMap[-1] = reader.curBuf
    /\ hc # -1 /\ reader.st \in Early \cup {"open"} => bufMap[-1] = 0
    /\ reader.st \in {"sendTask", "sending"} => \E id \in Ids \ {-1} : bufMap[id] = reader.curBuf
    /\ reader.st = "pop" =>
         (\E id \in Ids \ {-1} : bufMap[id] = reader.curBuf) \/ ~InUse(reader.curBuf)

BlockInv == SlotInv /\ IoCounted /\ KnownBlocks /\ Kept

\* The numbers of writers.
LEMMA WritersFinite ==
  ASSUME Shape
  PROVE  \A b \in Buffers : /\ IsFiniteSet(Writers(b)) /\ Cardinality(Writers(b)) \in Nat
                            /\ buf[b] \in PipeBuffer /\ buf[b].ioWg \in Int
  <1>1. \A b \in Buffers : IsFiniteSet(Writers(b)) /\ Cardinality(Writers(b)) \in Nat
    BY WorkersFinite DEF Writers
  <1> QED BY <1>1 DEF Shape, BufTypes, PipeBuffer

LEMMA SameWriters ==
  ASSUME worker' = worker
  PROVE  \A b \in Buffers : Cardinality(Writers(b))' = Cardinality(Writers(b))
  BY DEF Writers

\* What the types say of the fields below.
LEMMA BlockTypes ==
  ASSUME Shape
  PROVE  /\ hc \in Int /\ nextChunk \in Ids /\ nextChunk \in Nat /\ -1 \in Ids /\ reader.pos \in Ids
         /\ reader.pos \in Nat /\ reader.curBuf \in {0} \cup Buffers /\ reader.curBuf \in Nat
         /\ \A id \in Ids : bufMap[id] \in {0} \cup Buffers /\ bufMap[id] \in Nat
         /\ DOMAIN bufMap = Ids
         /\ \A b \in Buffers : b \in Nat \ {0}
  <1>1. Buffers \subseteq Nat \ {0} /\ -1..maxPart \subseteq Ids /\ maxPart \in Nat
    BY RangeFacts DEF Shape
  <1>2. hc \in Int /\ nextChunk \in 0..maxPart
    BY DEF Shape, Counts, Positions
  <1>3. reader.pos \in Nat /\ reader.pos <= maxPart /\ reader.curBuf \in {0} \cup Buffers
    BY DEF Shape, ReaderTypes, ReaderRec
  <1>4. bufMap \in [Ids -> {0} \cup Buffers]
    BY DEF Shape, MapTypes
  <1>5. nextChunk \in Ids /\ nextChunk \in Nat /\ -1 \in Ids /\ reader.pos \in Ids
    BY <1>1, <1>2, <1>3
  <1>6. \A id \in Ids : bufMap[id] \in {0} \cup Buffers
    BY <1>4
  <1>7. \A b \in {0} \cup Buffers : b \in Nat
    BY <1>1
  <1>8. \A b \in Buffers : b \in Nat \ {0}
    BY <1>1
  <1>9. DOMAIN bufMap = Ids
    BY <1>4
  <1> QED BY <1>2, <1>3, <1>5, <1>6, <1>7, <1>8, <1>9

LEMMA QuietBlocks ==
  ASSUME BlockInv, SlotInv', Quiet
  PROVE  IoCounted' /\ KnownBlocks' /\ Kept'
  <1>1. \A b \in Buffers : Cardinality(Writers(b))' = Cardinality(Writers(b))
    BY SameWriters DEF Quiet, Stays
  <1>2. Stage'
    BY DEF SlotInv, Shape
  <1>3. IoCounted'
    BY <1>1 DEF BlockInv, Quiet, IoCounted, SameReader, Early, Single
  <1>4. KnownBlocks'
    BY DEF BlockInv, Quiet, Stays, KnownBlocks, SameReader
  <1>5. Kept'
    BY <1>2 DEF BlockInv, Quiet, Kept, SameReader, InUse, Early, Single
  <1> QED BY <1>3, <1>4, <1>5

\* The reader waits, goes in or comes out.
LEMMA ReadBlocks ==
  ASSUME BlockInv, SlotInv', Announces \/ Enters \/ Leaves
  PROVE  IoCounted' /\ KnownBlocks' /\ Kept'
  <1> DEFINE c == reader.curBuf
  <1>1. /\ Stays /\ SameReader /\ UNCHANGED <<hc, bufMap>> /\ c \in Buffers /\ Touches(c)
        /\ reader.st \in {"ready", "waiting", "reading"} /\ reader'.st \in {"ready", "waiting", "reading", "partEnd"}
    BY DEF Announces, Enters, Leaves
  <1>2. /\ buf'[c].open = buf[c].open
        /\ buf'[c].ioWg = buf[c].ioWg + (IF reader'.st = "reading" THEN 1 ELSE 0)
                                      - (IF reader.st = "reading" THEN 1 ELSE 0)
    <2>1. buf[c].ioWg \in Int
      BY <1>1, WritersFinite DEF BlockInv, SlotInv
    <2>2. buf'[c].open = buf[c].open
      BY DEF Announces, Enters, Leaves
    <2>3. buf'[c].ioWg = buf[c].ioWg + (IF reader'.st = "reading" THEN 1 ELSE 0)
                                     - (IF reader.st = "reading" THEN 1 ELSE 0)
      <3>1. CASE Announces
        BY <2>1, <3>1 DEF Announces
      <3>2. CASE Enters
        BY <2>1, <3>2 DEF Enters
      <3>3. CASE Leaves
        BY <2>1, <3>3 DEF Leaves
      <3> QED BY <3>1, <3>2, <3>3
    <2> QED BY <2>2, <2>3
  <1>3. \A b \in Buffers : b # c => buf'[b] = buf[b]
    BY <1>1 DEF Touches
  <1>4. hc # -1 /\ bufMap[-1] = c
    <2>1. hc # -1
      BY <1>1 DEF BlockInv, SlotInv, Shape, Stage, Ending
    <2> QED BY <1>1, <2>1, BlockTypes DEF BlockInv, SlotInv, Kept
  <1>5. \A b \in Buffers : Cardinality(Writers(b))' = Cardinality(Writers(b)) /\ Cardinality(Writers(b)) \in Nat
    BY <1>1, SameWriters, WritersFinite DEF Stays, BlockInv, SlotInv
  <1>6. IoCounted'
    BY <1>1, <1>2, <1>3, <1>5 DEF BlockInv, IoCounted, SameReader
  <1>7. KnownBlocks'
    BY <1>1 DEF BlockInv, Stays, KnownBlocks, SameReader
  <1>8. Kept'
    <2>1. \A b \in Buffers : InUse(b)' => b = c \/ InUse(b)
      BY <1>3 DEF InUse
    <2>2. c \in BufsOf(bufMap)
      BY <1>1, <1>4, BlockTypes DEF BufsOf, BlockInv, SlotInv
    <2>3. \A b \in Buffers : InUse(b)' => b \in BufsOf(bufMap')
      BY <1>1, <1>4, <2>1, <2>2 DEF BlockInv, Kept
    <2>4. hc' # -1 /\ bufMap'[-1] = reader'.curBuf
      BY <1>1, <1>4 DEF SameReader
    <2> QED BY <1>1, <2>3, <2>4 DEF Kept, Early, Single
  <1> QED BY <1>6, <1>7, <1>8

\* The reader turns to the next part.
LEMMA AdvanceBlocks ==
  ASSUME BlockInv, SlotInv', Advances
  PROVE  IoCounted' /\ KnownBlocks' /\ Kept'
  <1>1. /\ Stays /\ UNCHANGED <<hc, buf>> /\ reader.st = "partEnd" /\ reader'.st \in {"eof", "sendTask", "closePrev"}
        /\ reader'.curBuf = reader.curBuf
    BY DEF Advances
  <1>2. \/ bufMap' = bufMap /\ reader'.st # "sendTask"
        \/ bufMap[nextChunk] = 0 /\ bufMap' = [bufMap EXCEPT ![nextChunk] = reader.curBuf]
    BY DEF Advances
  <1>3. /\ hc # -1 /\ reader.curBuf # 0 /\ hc \in Int
    BY <1>1 DEF BlockInv, SlotInv, Shape, Stage, Ending, Reading, Counts
  <1>4. \A b \in Buffers : Cardinality(Writers(b))' = Cardinality(Writers(b))
    BY <1>1, SameWriters DEF Stays
  <1>5. IoCounted'
    BY <1>1, <1>4 DEF BlockInv, IoCounted
  <1>6. /\ nextChunk \in Ids \ {-1} /\ -1 \in Ids /\ DOMAIN bufMap = Ids
        /\ \A b \in Buffers : b # 0
    BY BlockTypes DEF BlockInv, SlotInv
  <1>7. KnownBlocks'
    BY <1>1, <1>2, <1>3, <1>6 DEF BlockInv, Stays, KnownBlocks
  <1>8. BufsOf(bufMap) \subseteq BufsOf(bufMap')
    BY <1>2, <1>6 DEF BufsOf
  <1>9. Kept'
    <2>1. \A b \in Buffers : InUse(b)' => b \in BufsOf(bufMap')
      BY <1>1, <1>3, <1>8 DEF BlockInv, Kept, InUse
    <2>2. bufMap'[-1] = reader'.curBuf
      BY <1>1, <1>2, <1>3, <1>6 DEF BlockInv, Kept
    <2>3. reader'.st = "sendTask" => \E id \in Ids \ {-1} : bufMap'[id] = reader'.curBuf
      BY <1>1, <1>2, <1>6
    <2> QED BY <1>1, <1>3, <2>1, <2>2, <2>3 DEF Kept, Early, Single
  <1> QED BY <1>5, <1>7, <1>9

\* A block is closed.
LEMMA CloseBlocks ==
  ASSUME BlockInv, SlotInv', NEW b \in Buffers, Closes(b)
  PROVE  IoCounted' /\ KnownBlocks' /\ Kept'
  <1>1. /\ Stays /\ SameReader /\ UNCHANGED <<hc, bufMap>> /\ Touches(b)
        /\ ~buf'[b].open /\ buf'[b].ioWg = buf[b].ioWg
        /\ \/ b = reader.curBuf /\ buf[b].ioWg = 0 /\ reader.st = "closePrev" /\ reader'.st = "pop"
           \/ reader.st = "closing" /\ reader' = reader
    BY DEF Closes
  <1>2. \A c \in Buffers : c # b => buf'[c] = buf[c]
    BY <1>1 DEF Touches
  <1>3. \A c \in Buffers : Cardinality(Writers(c))' = Cardinality(Writers(c))
    BY <1>1, SameWriters DEF Stays
  <1>4. IoCounted'
    BY <1>1, <1>2, <1>3 DEF BlockInv, IoCounted, SameReader
  <1>5. KnownBlocks'
    BY <1>1 DEF BlockInv, Stays, KnownBlocks, SameReader
  <1>6. \A c \in Buffers : InUse(c)' => InUse(c)
    BY <1>1, <1>2 DEF InUse
  <1>7. Kept'
    <2>1. reader'.st = "pop" => ~InUse(reader.curBuf)'
      BY <1>1 DEF InUse, SameReader
    <2> QED BY <1>1, <1>6, <2>1 DEF BlockInv, Kept, SameReader, Early, Single
  <1> QED BY <1>4, <1>5, <1>7

\* interrupt gives the blocks back.
LEMMA EndBlocks ==
  ASSUME BlockInv, SlotInv', Ends
  PROVE  IoCounted' /\ KnownBlocks' /\ Kept'
  <1>1. /\ Stays /\ SameReader /\ buf' = buf /\ reader.st = "closing" /\ reader'.st = "closed"
        /\ hc' = -1 /\ bufMap' = NoBufs /\ \A b \in BufsOf(bufMap) : ~buf[b].open /\ buf[b].ioWg = 0
    BY DEF Ends
  <1>2. \A c \in Buffers : Cardinality(Writers(c))' = Cardinality(Writers(c))
    BY <1>1, SameWriters DEF Stays
  <1>3. IoCounted'
    BY <1>1, <1>2 DEF BlockInv, IoCounted, SameReader
  <1>4. KnownBlocks'
    BY <1>1 DEF KnownBlocks
  <1>5. \A b \in Buffers : ~InUse(b)
    BY <1>1 DEF BlockInv, Kept, InUse
  <1>6. Kept'
    BY <1>1, <1>5 DEF Kept, InUse
  <1> QED BY <1>3, <1>4, <1>6

\* The reader gets its block: the one before it is elsewhere in the map, or not in use.
LEMMA PopBlocks ==
  ASSUME BlockInv, SlotInv', Pops
  PROVE  IoCounted' /\ KnownBlocks' /\ Kept'
  <1> DEFINE p == reader.pos
  <1>1. /\ Stays /\ UNCHANGED <<hc, buf>> /\ reader.st \in {"open", "pop"} /\ reader'.st = "ready"
        /\ reader'.curBuf = bufMap[p] /\ bufMap' = popBuf(p)
    BY DEF Pops
  <1>2. p \in Ids /\ p # -1 /\ -1 \in Ids /\ DOMAIN bufMap = Ids /\ hc \in Int
    BY BlockTypes DEF BlockInv, SlotInv
  <1>3. hc # -1 /\ (reader.st = "open" => reader.curBuf = 0) /\ (reader.st = "pop" => reader.curBuf # 0)
    BY <1>1 DEF BlockInv, SlotInv, Shape, Stage, Ending, Between
  <1>4. \A c \in Buffers : Cardinality(Writers(c))' = Cardinality(Writers(c))
    BY <1>1, SameWriters DEF Stays
  <1>5. IoCounted'
    BY <1>1, <1>4 DEF BlockInv, IoCounted
  <1>6. /\ bufMap[p] = 0 => bufMap' = bufMap
        /\ bufMap[p] # 0 => /\ bufMap'[p] = 0 /\ bufMap'[-1] = bufMap[p]
                            /\ \A id \in Ids : id # p /\ id # -1 => bufMap'[id] = bufMap[id]
    BY <1>1, <1>2 DEF popBuf
  <1>7. KnownBlocks'
    <2>1. \A id \in Ids : bufMap'[id] <= hc
      <3>1. (\A id \in Ids : bufMap[id] <= hc) /\ 0 <= hc
        BY <1>2, <1>3 DEF BlockInv, KnownBlocks, SlotInv, Shape, Stage
      <3> QED BY <1>2, <1>6, <3>1
    <2>2. reader'.curBuf <= hc
      BY <1>1, <1>2, <1>3 DEF BlockInv, KnownBlocks
    <2> QED BY <1>1, <1>3, <2>1, <2>2 DEF BlockInv, KnownBlocks, Stays
  <1>8. Kept'
    <2>1. ASSUME NEW b \in Buffers, InUse(b)' PROVE b \in BufsOf(bufMap')
      <3>1. InUse(b) /\ b # 0
        BY <1>1, <2>1, BlockTypes DEF InUse, BlockInv, SlotInv
      <3>2. PICK i \in Ids : bufMap[i] = b
        BY <1>3, <3>1 DEF BlockInv, Kept, BufsOf
      <3>3. CASE bufMap[p] = 0
        BY <1>6, <3>1, <3>2, <3>3 DEF BufsOf
      <3>4. CASE bufMap[p] # 0 /\ i = p
        BY <1>2, <1>6, <3>1, <3>2, <3>4 DEF BufsOf
      <3>5. CASE bufMap[p] # 0 /\ i # p /\ i # -1
        BY <1>6, <3>1, <3>2, <3>5 DEF BufsOf
      <3>6. CASE bufMap[p] # 0 /\ i = -1
        <4>1. reader.st = "pop" /\ b = reader.curBuf
          BY <1>1, <1>3, <3>1, <3>2, <3>6 DEF BlockInv, Kept
        <4>2. PICK j \in Ids \ {-1} : bufMap[j] = b
          BY <3>1, <4>1 DEF BlockInv, Kept
        <4>3. b \in {bufMap'[-1], bufMap'[j]} /\ j \in Ids
          BY <1>6, <3>6, <4>2
        <4> QED BY <1>2, <3>1, <4>3 DEF BufsOf
      <3> QED BY <3>3, <3>4, <3>5, <3>6
    <2>2. reader'.curBuf # 0 => bufMap'[-1] = reader'.curBuf
      BY <1>1, <1>6
    <2> QED BY <1>1, <1>3, <2>1, <2>2 DEF Kept, Early, Single
  <1> QED BY <1>5, <1>7, <1>8

\* A send leaves the reader inside or outside of a block, and the writers too.
LEMMA SendFrame ==
  ASSUME SlotInv, SendKind
  PROVE  /\ maxPart > 1 /\ SameReader /\ cfg' = cfg
         /\ reader'.st = "reading" <=> reader.st = "reading"
         /\ \A b \in Buffers : Writers(b)' = Writers(b)
         /\ reader'.st \notin Early
         /\ \/ Dropped \/ NotSent \/ Sent(TRUE) \/ Sent(FALSE)
  <1>1. reader.st = "first" \/ reader.st \notin Early \/ reader.st \in {"sendTask", "sending"}
    BY DEF SendKind
  <1>2. maxPart > 1
    BY <1>1 DEF SlotInv, Shape, ReaderTypes, Early, Single
  <1>3. /\ reader'.st = "reading" <=> reader.st = "reading"
        /\ reader'.st \notin Early /\ SameReader /\ cfg' = cfg
        /\ Dropped \/ NotSent \/ Sent(TRUE) \/ Sent(FALSE)
    BY DEF SendKind, Early, Single
  <1>4. \A b \in Buffers : Writers(b)' = Writers(b)
    BY DEF SendKind, Similar, Writers
  <1> QED BY <1>2, <1>3, <1>4

LEMMA SendBlocks ==
  ASSUME BlockInv, SlotInv', SendKind
  PROVE  IoCounted' /\ KnownBlocks' /\ Kept'
  <1>1. /\ maxPart > 1 /\ SameReader /\ cfg' = cfg
        /\ reader'.st = "reading" <=> reader.st = "reading"
        /\ \A b \in Buffers : Writers(b)' = Writers(b)
        /\ reader'.st \notin Early
        /\ \/ Dropped \/ NotSent \/ Sent(TRUE) \/ Sent(FALSE)
    BY SendFrame DEF BlockInv
  <1>2. Shape /\ SlotInv
    BY DEF BlockInv, SlotInv
  <1>3. Similar
    BY DEF SendKind
  <1>4. /\ hc \in Int /\ nextChunk \in Ids /\ nextChunk # -1 /\ -1 \in Ids /\ DOMAIN bufMap = Ids
        /\ reader.curBuf \in Nat /\ \A c \in Buffers : c \in Nat \ {0}
    BY <1>2, BlockTypes
  <1>5. \/ reader'.st = "open" /\ reader.st = "first"
        \/ reader'.st \in {"interrupt", "pop"} /\ reader.st \in {"first", "sendTask", "sending"}
           /\ (reader'.st = "pop" => reader.st # "first")
        \/ reader'.st = reader.st /\ reader.st \notin Early
    BY DEF SendKind
  <1>6. CASE NotSent
    <2>1. UNCHANGED <<hc, bufMap, buf, chunkCh>>
      BY <1>6 DEF NotSent
    <2>2. IoCounted'
      BY <1>1, <2>1 DEF BlockInv, IoCounted, SameReader
    <2>3. KnownBlocks'
      BY <1>1, <1>3, <2>1 DEF BlockInv, KnownBlocks, SameReader, Similar, HasPart
    <2>4. Kept'
      BY <1>1, <1>5, <2>1 DEF BlockInv, Kept, SameReader, InUse, Early
    <2> QED BY <2>2, <2>3, <2>4
  <1>7. ASSUME NEW b \in Buffers, Prepare(b), pos < maxPos,
               \/ chunkCh' = chunkCh
               \/ \E nc \in BOOLEAN : chunkCh' = Append(chunkCh, NextChunk(nc, b))
        PROVE  IoCounted' /\ KnownBlocks' /\ Kept'
    <2>1. /\ hc >= 0 /\ hc' >= 0 /\ hc' \in Int
          /\ bufMap' = [bufMap EXCEPT ![nextChunk] = b]
          /\ \/ bufMap[nextChunk] = b /\ buf[b].open /\ buf[b].ioWg = 0 /\ hc' = hc
             \/ bufMap[nextChunk] = 0 /\ b = hc + 1 /\ hc' = b
          /\ Touches(b) /\ buf'[b].ioWg = 0
          /\ \A nc \in BOOLEAN : NextChunk(nc, b) \in Chunk
      BY <1>1, <1>2, <1>7, PrepareFacts
    <2>2. \A c \in Buffers : c # b => buf'[c] = buf[c]
      BY <2>1 DEF Touches
    <2>3. Writers(b) = {} /\ ~(reader.st = "reading" /\ reader.curBuf = b)
      <3>1. CASE bufMap[nextChunk] = b /\ buf[b].ioWg = 0
        <4>1. IsFiniteSet(Writers(b)) /\ Cardinality(Writers(b)) \in Nat
          BY <1>2, WritersFinite
        <4>2. Cardinality(Writers(b)) = 0 /\ ~(reader.st = "reading" /\ reader.curBuf = b)
          BY <3>1, <4>1 DEF BlockInv, IoCounted
        <4> QED BY <4>1, <4>2, FS_EmptySet
      <3>2. CASE b = hc + 1
        <4>1. hc # -1 /\ ~(b <= hc)
          BY <1>4, <2>1, <3>2
        <4>2. /\ reader.curBuf <= hc
              /\ \A w \in Workers : worker[w].st \in HasPart => worker[w].ch.buf <= hc
          BY <4>1 DEF BlockInv, KnownBlocks
        <4> QED BY <4>1, <4>2 DEF Writers, HasPart
      <3> QED BY <2>1, <3>1, <3>2
    <2>4. IoCounted'
      <3>1. Cardinality({}) = 0
        BY FS_EmptySet
      <3>2. ASSUME NEW c \in Buffers
            PROVE  buf'[c].ioWg = Cardinality(Writers(c)')
                                  + (IF reader'.st = "reading" /\ reader'.curBuf = c THEN 1 ELSE 0)
        <4>1. Writers(c)' = Writers(c)
          BY <1>1
        <4>2. CASE c = b
          <5>1. Writers(c) = {} /\ ~(reader.st = "reading" /\ reader.curBuf = c) /\ buf'[c].ioWg = 0
            BY <2>1, <2>3, <4>2 DEF Writers
          <5> QED BY <1>1, <3>1, <4>1, <5>1 DEF SameReader
        <4>3. CASE c # b
          BY <1>1, <2>2, <4>1, <4>3 DEF BlockInv, IoCounted, SameReader
        <4> QED BY <4>2, <4>3
      <3> QED BY <3>2 DEF IoCounted
    <2>5. hc # -1 /\ hc' # -1 /\ hc <= hc' /\ b <= hc'
      BY <1>4, <2>1 DEF BlockInv, KnownBlocks
    <2>6. KnownBlocks'
      <3>1. \A id \in Ids : bufMap'[id] <= hc'
        <4>1. \A id \in Ids : bufMap[id] <= hc /\ bufMap[id] \in Nat
          BY <1>2, <2>5, BlockTypes DEF BlockInv, KnownBlocks
        <4> QED BY <1>4, <2>1, <2>5, <4>1
      <3>2. reader'.curBuf <= hc'
        BY <1>1, <1>4, <2>1, <2>5 DEF BlockInv, KnownBlocks, SameReader
      <3>3. ASSUME NEW w \in Workers, worker'[w].st \in HasPart PROVE worker'[w].ch.buf <= hc'
        <4>1. worker'[w].ch = worker[w].ch /\ worker[w].st \in HasPart
          BY <1>3, <3>3 DEF Similar, HasPart
        <4>2. worker[w].ch.buf <= hc /\ worker[w].ch.buf \in Buffers
          BY <1>2, <2>5, <4>1, HolderTypes DEF BlockInv, KnownBlocks
        <4> QED BY <1>4, <2>1, <2>5, <4>1, <4>2
      <3>4. \A i \in DOMAIN chunkCh' : chunkCh'[i].buf <= hc'
        <4>1. chunkCh \in Seq(Chunk)
          BY <1>2 DEF Shape, ChTypes
        <4>2. \A i \in DOMAIN chunkCh : chunkCh[i].buf <= hc' /\ i \in 1..Len(chunkCh)
          <5>1. \A i \in DOMAIN chunkCh : chunkCh[i] \in Chunk
            BY <4>1
          <5>2. \A i \in DOMAIN chunkCh : chunkCh[i].buf \in Buffers /\ chunkCh[i].buf <= hc
            BY <2>5, <5>1 DEF BlockInv, KnownBlocks, Chunk
          <5>3. \A i \in DOMAIN chunkCh : chunkCh[i].buf <= hc'
            BY <1>4, <2>1, <2>5, <5>2
          <5> QED BY <4>1, <5>3
        <4>3. CASE chunkCh' = chunkCh
          BY <4>2, <4>3
        <4>4. ASSUME NEW nc \in BOOLEAN, chunkCh' = Append(chunkCh, NextChunk(nc, b))
              PROVE  \A i \in DOMAIN chunkCh' : chunkCh'[i].buf <= hc'
          <5>1. NextChunk(nc, b).buf = b
            BY DEF NextChunk
          <5>2. \A i \in DOMAIN chunkCh' : chunkCh'[i] = NextChunk(nc, b)
                    \/ (i \in DOMAIN chunkCh /\ chunkCh'[i] = chunkCh[i])
            BY <2>1, <4>1, <4>4, AppendProperties
          <5> QED BY <2>5, <4>2, <5>1, <5>2
        <4> QED BY <1>7, <4>3, <4>4
      <3> QED BY <2>5, <3>1, <3>2, <3>3, <3>4 DEF KnownBlocks
    <2>7. Kept'
      <3>1. \A c \in BufsOf(bufMap) \cup {b} : c \in BufsOf(bufMap')
        BY <1>4, <2>1 DEF BufsOf
      <3>2. \A c \in Buffers : InUse(c)' => c \in BufsOf(bufMap')
        <4>1. \A c \in Buffers : c # b /\ InUse(c)' => InUse(c)
          BY <2>2 DEF InUse
        <4> QED BY <2>5, <3>1, <4>1 DEF BlockInv, Kept
      <3>3. bufMap'[-1] = bufMap[-1]
        BY <1>4, <2>1
      <3>4. ASSUME reader.curBuf # 0, \E id \in Ids \ {-1} : bufMap[id] = reader.curBuf
            PROVE  \E id \in Ids \ {-1} : bufMap'[id] = reader'.curBuf
        BY <1>1, <1>4, <2>1, <3>4 DEF SameReader
      <3>5. reader.st \in {"sendTask", "sending", "pop"} => reader.curBuf # 0
        BY <1>2 DEF Shape, Stage, Between
      <3>6. ASSUME reader.st = "pop", ~InUse(reader.curBuf) PROVE ~InUse(reader.curBuf)'
        <4>1. reader.curBuf # b /\ reader.curBuf \in Buffers
          <5>1. reader.curBuf \in Buffers
            BY <1>2, <3>5, <3>6, CurTypes
          <5>2. reader.curBuf <= hc
            BY <2>5 DEF BlockInv, KnownBlocks
          <5> QED BY <1>4, <2>1, <3>6, <5>1, <5>2 DEF InUse
        <4> QED BY <1>1, <2>2, <3>6, <4>1 DEF InUse, SameReader
      <3>7. reader'.st \in {"sendTask", "sending"} => \E id \in Ids \ {-1} : bufMap'[id] = reader'.curBuf
        BY <1>5, <3>4, <3>5 DEF BlockInv, Kept
      <3>8. reader'.st = "pop" => (\E id \in Ids \ {-1} : bufMap'[id] = reader'.curBuf) \/ ~InUse(reader.curBuf)'
        BY <1>5, <3>4, <3>5, <3>6 DEF BlockInv, Kept
      <3>9. reader'.curBuf # 0 => bufMap'[-1] = reader'.curBuf
        BY <1>1, <2>5, <3>3 DEF BlockInv, Kept, SameReader
      <3>10. reader'.st \in Early \cup {"open"} => bufMap'[-1] = 0
        BY <1>1, <1>5, <2>5, <3>3 DEF BlockInv, Kept, Early
      <3> QED BY <2>5, <3>2, <3>7, <3>8, <3>9, <3>10 DEF Kept
    <2> QED BY <2>4, <2>6, <2>7
  <1>8. CASE Dropped
    BY <1>7, <1>8 DEF Dropped
  <1>9. CASE Sent(TRUE) \/ Sent(FALSE)
    BY <1>7, <1>9 DEF Sent
  <1> QED BY <1>1, <1>6, <1>8, <1>9

\* What a worker's step leaves, and what it keeps of a part it had.
LEMMA LabourFacts ==
  ASSUME Shape, NEW w \in Workers, NEW r, Labours(w, r)
  PROVE  /\ UNCHANGED <<cfg, nextChunk, hc, bufMap, reader, delivered>> /\ r \in WorkerRec
         /\ worker'[w] = r /\ \A u \in Workers : u # w => worker'[u] = worker[u]
         /\ ctxDone => ctxDone'
         /\ concurrency' > 0 => concurrency' = concurrency
  BY DEF Labours, Shape, WorkerTypes

\* The writers of a block when one worker changes.
LEMMA WritersChange ==
  ASSUME Shape, NEW w \in Workers, NEW r, Labours(w, r)
  PROVE  \A c \in Buffers :
           /\ worker[w].st # "writing" /\ r.st # "writing" => Writers(c)' = Writers(c)
           /\ worker[w].st # "writing" /\ r.st = "writing" =>
                Writers(c)' = IF r.ch.buf = c THEN Writers(c) \cup {w} ELSE Writers(c)
           /\ worker[w].st # "writing" => w \notin Writers(c)
           /\ worker[w].st = "writing" => w \in Writers(worker[w].ch.buf)
           /\ worker[w].st = "writing" /\ r.st # "writing" =>
                Writers(c)' = IF worker[w].ch.buf = c THEN Writers(c) \ {w} ELSE Writers(c)
  <1>1. worker'[w] = r /\ \A u \in Workers : u # w => worker'[u] = worker[u]
    BY LabourFacts
  <1> QED BY <1>1 DEF Writers

\* The parts in the channel are known blocks behind a worker's step.
LEMMA WorkKnown ==
  ASSUME BlockInv, NEW w \in Workers, NEW r \in WorkerRec, Labours(w, r),
         \/ chunkCh' = chunkCh /\ (r.st \in HasPart => worker[w].st \in HasPart /\ r.ch.buf = worker[w].ch.buf)
         \/ Takes(w, r) \/ Quits(w, r)
  PROVE  KnownBlocks'
  <1>1. Shape
    BY DEF BlockInv, SlotInv
  <1>2. /\ UNCHANGED <<hc, bufMap, reader>>
        /\ worker'[w] = r /\ \A u \in Workers : u # w => worker'[u] = worker[u]
    BY <1>1, LabourFacts
  <1>3. chunkCh \in Seq(Chunk)
    BY <1>1 DEF Shape, ChTypes
  <1> SUFFICES ASSUME hc # -1
               PROVE  /\ r.st \in HasPart => r.ch.buf <= hc
                      /\ \A i \in DOMAIN chunkCh' : chunkCh'[i].buf <= hc
    BY <1>2 DEF BlockInv, KnownBlocks
  <1>4. /\ \A u \in Workers : worker[u].st \in HasPart => worker[u].ch.buf <= hc
        /\ \A i \in DOMAIN chunkCh : chunkCh[i].buf <= hc
    BY DEF BlockInv, KnownBlocks
  <1>5. CASE chunkCh' = chunkCh /\ (r.st \in HasPart => worker[w].st \in HasPart /\ r.ch.buf = worker[w].ch.buf)
    BY <1>4, <1>5
  <1>6. CASE Takes(w, r)
    <2>1. chunkCh # <<>> /\ chunkCh' = Tail(chunkCh) /\ r.ch = Head(chunkCh)
      BY <1>6 DEF Takes
    <2>2. /\ Head(chunkCh) = chunkCh[1] /\ 1 \in DOMAIN chunkCh
          /\ \A i \in DOMAIN Tail(chunkCh) : i + 1 \in DOMAIN chunkCh /\ Tail(chunkCh)[i] = chunkCh[i + 1]
      BY <1>3, <2>1
    <2> QED BY <1>4, <2>1, <2>2
  <1>7. CASE Quits(w, r)
    <2>1. /\ r.st \notin HasPart
          /\ \/ chunkCh' = chunkCh
             \/ worker[w].st \in HasPart /\ chunkCh' = Append(chunkCh, worker[w].ch)
      BY <1>7 DEF Quits, HasPart
    <2>2. ASSUME worker[w].st \in HasPart, chunkCh' = Append(chunkCh, worker[w].ch)
          PROVE  \A i \in DOMAIN chunkCh' : chunkCh'[i].buf <= hc
      <3>1. worker[w].ch \in Chunk
        BY <1>1, HolderTypes
      <3>2. \A i \in DOMAIN chunkCh' : chunkCh'[i] = worker[w].ch
                \/ (i \in DOMAIN chunkCh /\ chunkCh'[i] = chunkCh[i])
        BY <1>3, <2>2, <3>1, AppendProperties
      <3> QED BY <1>4, <2>2, <3>2
    <2> QED BY <1>4, <2>1, <2>2
  <1> QED BY <1>5, <1>6, <1>7

\* The map keeps its blocks when no block that was not in use comes into use.
LEMMA WorkKept ==
  ASSUME BlockInv, UNCHANGED <<hc, bufMap, reader>>, \A b \in Buffers : InUse(b)' => InUse(b)
  PROVE  Kept'
  <1>1. reader.st = "pop" => reader.curBuf \in Buffers
    <2>1. reader.st = "pop" => reader.curBuf # 0
      BY DEF BlockInv, SlotInv, Shape, Stage, Between
    <2> QED BY <2>1, CurTypes DEF BlockInv, SlotInv
  <1>2. reader.st = "pop" /\ ~InUse(reader.curBuf) => ~InUse(reader.curBuf)'
    BY <1>1
  <1> QED BY <1>2 DEF BlockInv, Kept

LEMMA WorkBlocks ==
  ASSUME BlockInv, SlotInv', NEW w \in Workers, WorkKind(w)
  PROVE  IoCounted' /\ KnownBlocks' /\ Kept'
  <1>1. Shape
    BY DEF BlockInv, SlotInv
  <1>2. PICK r \in WorkerRec : \/ Quits(w, r) \/ Takes(w, r) \/ Keeps(w, r) \/ Rests(w, r)
                               \/ GoesIn(w, r) \/ ComesOut(w, r) \/ Retries(w, r)
    BY DEF WorkKind
  <1>3. Labours(w, r)
    BY <1>2 DEF Quits, Takes, Keeps, Rests, GoesIn, ComesOut, Retries
  <1>4. UNCHANGED <<hc, bufMap, reader>>
    BY <1>3 DEF Labours
  <1>5. KnownBlocks'
    BY <1>2, <1>3, WorkKnown DEF Keeps, Rests, GoesIn, ComesOut, Retries, HasPart
  <1>6. CASE Quits(w, r) \/ Takes(w, r) \/ Keeps(w, r) \/ Rests(w, r) \/ Retries(w, r)
    <2>1. buf' = buf /\ worker[w].st # "writing" /\ r.st # "writing"
      BY <1>6 DEF Quits, Takes, Keeps, Rests, Retries
    <2>2. \A c \in Buffers : Writers(c)' = Writers(c)
      BY <1>1, <1>3, <2>1, WritersChange
    <2>3. IoCounted'
      BY <1>4, <2>1, <2>2 DEF BlockInv, IoCounted
    <2>4. Kept'
      BY <1>4, <2>1, WorkKept DEF InUse
    <2> QED BY <1>5, <2>3, <2>4
  <1> DEFINE b == worker[w].ch.buf
  <1>7. /\ b \in Buffers /\ worker[w].ch.start \in Nat /\ worker[w].n \in Nat /\ worker[w].k \in Nat
        /\ PartSize \in Int
    BY <1>1, HolderTypes, RangeFacts DEF Shape
  <1>8. \A c \in Buffers : IsFiniteSet(Writers(c)) /\ Cardinality(Writers(c)) \in Nat /\ buf[c] \in PipeBuffer
                            /\ buf[c].ioWg \in Int
    BY <1>1, WritersFinite
  <1>9. CASE GoesIn(w, r)
    <2>1. /\ buf[b].open /\ Touches(b) /\ buf'[b].open = buf[b].open /\ buf'[b].ioWg = buf[b].ioWg + 1
          /\ worker[w].st = "write" /\ r.st = "writing" /\ r.ch = worker[w].ch
      BY <1>9 DEF GoesIn
    <2>2. \A c \in Buffers : c # b => buf'[c] = buf[c]
      BY <2>1 DEF Touches
    <2>3. IoCounted'
      <3> SUFFICES ASSUME NEW c \in Buffers
                   PROVE  buf'[c].ioWg = Cardinality(Writers(c)')
                                         + (IF reader'.st = "reading" /\ reader'.curBuf = c THEN 1 ELSE 0)
        BY DEF IoCounted
      <3>1. buf[c].ioWg = Cardinality(Writers(c))
                         + (IF reader.st = "reading" /\ reader.curBuf = c THEN 1 ELSE 0)
        BY DEF BlockInv, IoCounted
      <3>2. w \notin Writers(c) /\ Writers(c)' = IF b = c THEN Writers(c) \cup {w} ELSE Writers(c)
        BY <1>1, <1>3, <2>1, WritersChange
      <3>3. Cardinality(Writers(c) \cup {w}) = Cardinality(Writers(c)) + 1
        BY <1>8, <3>2, FS_AddElement
      <3>4. CASE c = b
        BY <1>4, <1>8, <2>1, <3>1, <3>2, <3>3, <3>4
      <3>5. CASE c # b
        BY <1>4, <2>2, <3>1, <3>2, <3>5
      <3> QED BY <3>4, <3>5
    <2>4. \A c \in Buffers : InUse(c)' => InUse(c)
      BY <2>1, <2>2 DEF InUse
    <2>5. Kept'
      BY <1>4, <2>4, WorkKept
    <2> QED BY <1>5, <2>3, <2>5
  <1>10. CASE ComesOut(w, r)
    <2> DEFINE s == worker[w].ch.start + worker[w].n
    <2>1. /\ Touches(b) /\ buf'[b] = Written(buf[b], s, worker[w].k)
          /\ worker[w].st = "writing" /\ r.st = "body"
      BY <1>10 DEF ComesOut
    <2>2. \A c \in Buffers : c # b => buf'[c] = buf[c]
      BY <2>1 DEF Touches
    <2>3. buf'[b].open = buf[b].open /\ buf'[b].ioWg = buf[b].ioWg - 1
      <3>1. s \in Int /\ worker[w].k \in Int /\ buf[b] \in PipeBuffer
        BY <1>7, <1>8
      <3> HIDE DEF s, b
      <3> DEFINE q == Written(buf[b], s, worker[w].k)
      <3>2. q.open = buf[b].open /\ q.ioWg = buf[b].ioWg - 1
        <4> DEFINE br == buf[b]
                   n  == worker[w].k
        <4>1. br \in PipeBuffer /\ s \in Int /\ n \in Int /\ PartSize \in Int
          BY <1>7, <3>1
        <4> HIDE DEF br, n
        <4>2. LET p == Written(br, s, n) IN p.open = br.open /\ p.ioWg = br.ioWg - 1
          BY <4>1, WrittenFacts
        <4> QED BY <4>2 DEF br, n
      <3>3. buf'[b] = q
        BY <2>1
      <3> HIDE DEF q
      <3>4. buf'[b].open = buf[b].open
        BY <3>2, <3>3
      <3>5. buf'[b].ioWg = buf[b].ioWg - 1
        BY <3>2, <3>3
      <3> QED BY <3>4, <3>5
    <2>4. IoCounted'
      <3> SUFFICES ASSUME NEW c \in Buffers
                   PROVE  buf'[c].ioWg = Cardinality(Writers(c)')
                                         + (IF reader'.st = "reading" /\ reader'.curBuf = c THEN 1 ELSE 0)
        BY DEF IoCounted
      <3>1. buf[c].ioWg = Cardinality(Writers(c))
                         + (IF reader.st = "reading" /\ reader.curBuf = c THEN 1 ELSE 0)
        BY DEF BlockInv, IoCounted
      <3>2. w \in Writers(b) /\ Writers(c)' = IF b = c THEN Writers(c) \ {w} ELSE Writers(c)
        BY <1>1, <1>3, <1>7, <2>1, WritersChange
      <3>3. w \in Writers(c) => Cardinality(Writers(c) \ {w}) = Cardinality(Writers(c)) - 1
        BY <1>8, FS_RemoveElement
      <3>4. CASE c = b
        <4>1. w \in Writers(c) /\ Writers(c)' = Writers(c) \ {w}
          BY <3>2, <3>4 DEF Writers
        <4> QED BY <1>4, <1>8, <2>3, <3>1, <3>3, <3>4, <4>1
      <3>5. CASE c # b
        BY <1>4, <2>2, <3>1, <3>2, <3>5
      <3> QED BY <3>4, <3>5
    <2>5. \A c \in Buffers : InUse(c)' => InUse(c)
      <3>1. ASSUME buf[b].ioWg = 0 PROVE FALSE
        <4>1. w \in Writers(b)
          BY <1>1, <1>3, <1>7, <2>1, WritersChange
        <4>2. Cardinality(Writers(b)) = 0
          BY <1>7, <1>8, <3>1 DEF BlockInv, IoCounted
        <4> QED BY <1>7, <1>8, <4>1, <4>2, FS_EmptySet
      <3> QED BY <2>2, <2>3, <3>1 DEF InUse
    <2>6. Kept'
      BY <1>4, <2>5, WorkKept
    <2> QED BY <1>5, <2>4, <2>6
  <1> QED BY <1>2, <1>6, <1>9, <1>10

LEMMA InitBlocks ==
  ASSUME Init
  PROVE  BlockInv
  <1>1. SlotInv
    BY InitSlots
  <1>2. \A b \in Buffers : buf[b].ioWg = 0 /\ ~buf[b].open
    BY DEF Init, Unused, NewPipeBuffer
  <1>3. \A b \in Buffers : Writers(b) = {}
    BY DEF Init, Idle, Writers
  <1>4. IoCounted
    <2>1. Cardinality({}) = 0
      BY FS_EmptySet
    <2>2. reader.st = "new"
      BY DEF Init
    <2>3. \A b \in Buffers : buf[b].ioWg = 0 /\ Cardinality(Writers(b)) = 0
      <3>1. \A b \in Buffers : buf[b].ioWg = 0
        BY <1>2
      <3>2. \A b \in Buffers : Cardinality(Writers(b)) = 0
        BY <1>3, <2>1
      <3> QED BY <3>1, <3>2
    <2> QED BY <2>2, <2>3 DEF IoCounted
  <1>5. KnownBlocks
    BY DEF Init, KnownBlocks, NoBufs, Idle, HasPart
  <1>6. Kept
    <2>1. -1 \in Ids
      BY <1>1, BlockTypes DEF SlotInv
    <2> QED BY <1>2, <2>1 DEF Init, Kept, NoBufs, InUse
  <1> QED BY <1>1, <1>4, <1>5, <1>6 DEF BlockInv

LEMMA NextBlocks ==
  ASSUME BlockInv, [Next]_vars
  PROVE  BlockInv'
  <1>1. SlotInv /\ SlotInv'
    BY NextSlots DEF BlockInv
  <1>2. Kinds
    BY <1>1, StepKinds
  <1>3. IoCounted' /\ KnownBlocks' /\ Kept'
    BY <1>1, <1>2, QuietBlocks, ReadBlocks, AdvanceBlocks, CloseBlocks, EndBlocks, PopBlocks, SendBlocks,
       WorkBlocks DEF Kinds
  <1> QED BY <1>1, <1>3 DEF BlockInv

\* When interrupt gives the blocks back to the store, nobody reads or writes inside
\* one, and nobody can come in later (request.go 296-326, pipe.go 138-164).
THEOREM NoIOInGivenBlocks == Spec => []BlocksOutliveIO
  <1>1. Init => BlockInv
    BY InitBlocks
  <1>2. BlockInv /\ [Next]_vars => BlockInv'
    BY NextBlocks
  <1>3. BlockInv => BlocksOutliveIO
    BY DEF BlockInv, Kept, InUse, BlocksOutliveIO
  <1> QED BY <1>1, <1>2, <1>3, PTL DEF Spec

-----------------------------------------------------------------------------
(***************************************************************************)
(* Which part each block holds, how far it is filled, and what the reader  *)
(* has returned.                                                           *)
(***************************************************************************)
Starts == [i \in 0..maxPart |-> StartOf(i)]
Sizes  == [i \in 0..maxPart |-> ChunkSize(i)]

\* The reader is in a part; before, curBuf is the block of the part before.
Holds == reader.curBuf # 0 /\ reader.st \notin Between

\* The block of each part from the reader's on.
BlockOf == [j \in Ids |-> IF j = reader.pos /\ Holds THEN reader.curBuf ELSE bufMap[j]]

\* The parts the reader has not left, and the next one, for which a block may wait.
Ahead == reader.pos..nextChunk

\* Where the reader is among the parts.
Placed ==
    /\ reader.pos <= nextChunk
    /\ Holds /\ reader.pos < maxPart => reader.pos < nextChunk
    /\ reader.st \in {"closePrev", "pop", "open"} => reader.pos < nextChunk
    /\ reader.st \in {"sendTask", "sending"} => reader.pos < nextChunk \/ bufMap[nextChunk] = reader.curBuf
    /\ reader.st = "ready" => reader.curBuf # 0
    /\ \A j \in Ids : j > nextChunk => bufMap[j] = 0
    /\ bufMap[nextChunk] # 0 /\ nextChunk < maxPart => reader.st \in {"sendTask", "sending"}
    /\ reader.st = "closePrev" => \A j \in Ahead : bufMap[j] # reader.curBuf

\* Every part that was sent has a block, no two the same.
Filled ==
    /\ \A j \in Ahead : j < nextChunk => BlockOf[j] # 0
    /\ \A i, j \in Ahead : i # j /\ BlockOf[i] = BlockOf[j] => BlockOf[i] = 0

Opened ==
    reader.st # "closing" => \A j \in Ahead : BlockOf[j] # 0 => buf[BlockOf[j]].open

Offsets ==
    \A b \in Buffers :
        /\ 0 <= buf[b].offR /\ buf[b].offR <= buf[b].offW
        /\ buf[b].offW <= buf[b].limit /\ buf[b].limit <= PartSize

\* The block of a part holds a prefix of it.
Content ==
    \A j \in Ahead : j < nextChunk =>
        /\ buf[BlockOf[j]].limit = Sizes[j]
        /\ \A i \in 0..(PartSize - 1) :
              i < buf[BlockOf[j]].offW => buf[BlockOf[j]].block[i] = Starts[j] + i
        /\ ~(j = reader.pos /\ Holds) => buf[BlockOf[j]].offR = 0

\* A worker with bytes to copy.
Busy(w) == worker[w].st \in HasPart /\ worker[w].n < worker[w].ch.size

\* What is left of task ch, behind n bytes, is what its block lacks.
Task(ch, n) ==
    /\ ch.id \in Ahead /\ ch.id < nextChunk
    /\ ch.buf = BlockOf[ch.id]
    /\ ch.start + ch.size = Starts[ch.id + 1]
    /\ buf[ch.buf].offW = ch.start + n - Starts[ch.id]

\* Each part is with one worker, or once in the channel, until it is copied.
Tasks ==
    /\ \A i \in DOMAIN chunkCh : ~Empty(chunkCh[i]) => Task(chunkCh[i], 0)
    /\ \A w \in Workers : Busy(w) => Task(worker[w].ch, worker[w].n)
    /\ \A i, j \in DOMAIN chunkCh :
         ~Empty(chunkCh[i]) /\ ~Empty(chunkCh[j]) /\ chunkCh[i].id = chunkCh[j].id => i = j
    /\ \A w, v \in Workers : Busy(w) /\ Busy(v) /\ worker[w].ch.id = worker[v].ch.id => w = v
    /\ \A w \in Workers, i \in DOMAIN chunkCh :
         Busy(w) /\ ~Empty(chunkCh[i]) => worker[w].ch.id # chunkCh[i].id

\* A worker that asks for its part has copied nothing of it.
Fresh ==
    \A w \in Workers :
        /\ worker[w].st \in {"request", "requeue"} => worker[w].n = 0
        /\ worker[w].st = "writing" => worker[w].k > 0

\* What was returned is the range up to where the reader is.
Returned ==
    /\ delivered \in Seq(Int) /\ \A i \in DOMAIN delivered : delivered[i] = i - 1
    /\ reader.st \in Reading => Len(delivered) = Starts[reader.pos] + cur.offR
    /\ reader.st \in Between \cup {"open", "eof"} => Len(delivered) = Starts[reader.pos]
    /\ reader.st = "eof" => reader.pos = maxPart
    /\ reader.st \in Early => Len(delivered) = 0
    /\ reader.st = "reading" => cur.offR + reader.k <= cur.offW
    /\ reader.st = "partEnd" => cur.offR >= cur.limit

OrderInv ==
    /\ BlockInv
    /\ hc # -1 => Placed /\ Filled /\ Opened /\ Content /\ Tasks
    /\ Offsets /\ Fresh /\ Returned

\* The parts, as functions of their numbers.
LEMMA PartsAdd ==
  ASSUME Shape
  PROVE  /\ maxPart \in Nat \ {0} /\ PartSize \in Nat \ {0} /\ cfg.Length \in Nat \ {0}
         /\ nextChunk \in 0..maxPart
         /\ maxPart > 1 =>
              /\ Starts[0] = 0 /\ Starts[maxPart] = cfg.Length /\ pos = Starts[nextChunk]
              /\ \A i \in 0..(maxPart - 1) :
                   /\ Sizes[i] \in 1..PartSize /\ Sizes[i] = ChunkSize(i)
                   /\ Starts[i] \in Nat /\ Starts[i] < cfg.Length
                   /\ Starts[i + 1] = Starts[i] + Sizes[i]
  <1>1. /\ maxPart \in Nat \ {0} /\ PartSize \in Nat \ {0} /\ cfg.Length \in Nat \ {0}
        /\ nextChunk \in 0..maxPart /\ cfg \in Configs
    BY RangeFacts DEF Shape, Positions
  <1>2. \A i \in 0..maxPart : Starts[i] = StartOf(i) /\ Sizes[i] = ChunkSize(i)
    BY DEF Starts, Sizes
  <1>3. ASSUME maxPart > 1
        PROVE  /\ Starts[0] = 0 /\ Starts[maxPart] = cfg.Length /\ pos = Starts[nextChunk]
               /\ \A i \in 0..(maxPart - 1) :
                    /\ Sizes[i] \in 1..PartSize /\ Sizes[i] = ChunkSize(i)
                    /\ Starts[i] \in Nat /\ Starts[i] < cfg.Length
                    /\ Starts[i + 1] = Starts[i] + Sizes[i]
    <2>1. /\ StartOf(0) = 0 /\ StartOf(maxPart) = cfg.Length
          /\ \A i \in 0..(maxPart - 1) :
               /\ ChunkSize(i) \in 1..PartSize
               /\ StartOf(i) \in Nat /\ StartOf(i) < cfg.Length
               /\ StartOf(i + 1) = StartOf(i) + ChunkSize(i)
      BY <1>1, <1>3, PartFacts
    <2>2. \A i \in 0..(maxPart - 1) : i \in 0..maxPart /\ i + 1 \in 0..maxPart
      BY <1>1
    <2>3. 0 \in 0..maxPart /\ maxPart \in 0..maxPart
      BY <1>1
    <2>4. pos = StartOf(nextChunk)
      BY <1>3 DEF Shape, Positions
    <2> QED BY <1>1, <1>2, <2>1, <2>2, <2>3, <2>4
  <1> QED BY <1>1, <1>3

LEMMA SameRange ==
  ASSUME cfg' = cfg
  PROVE  /\ Starts' = Starts /\ Sizes' = Sizes /\ maxPart' = maxPart /\ PartSize' = PartSize
         /\ Capacity' = Capacity
  BY DEF Starts, Sizes, StartOf, ChunkSize, maxPart, PartsOf, PartSize, Capacity, cfgConcurrency

\* What the types say of the parts ahead.
LEMMA AheadTypes ==
  ASSUME Shape
  PROVE  /\ reader.pos \in Nat /\ nextChunk \in Nat /\ reader.curBuf \in {0} \cup Buffers /\ 0 \notin Buffers
         /\ \A j \in Ahead : j \in Ids /\ j \in Nat /\ j # -1 /\ j <= maxPart /\ reader.pos <= j /\ j <= nextChunk
         /\ BlockOf \in [Ids -> {0} \cup Buffers]
         /\ \A j \in Ids : BlockOf[j] = IF j = reader.pos /\ Holds THEN reader.curBuf ELSE bufMap[j]
         /\ nextChunk \in Ids /\ -1 \in Ids /\ reader.pos \in Ids
  <1>1. /\ reader.pos \in Nat /\ nextChunk \in Nat /\ reader.curBuf \in {0} \cup Buffers
        /\ nextChunk \in Ids /\ -1 \in Ids /\ reader.pos \in Ids
        /\ \A id \in Ids : bufMap[id] \in {0} \cup Buffers
        /\ \A b \in Buffers : b \in Nat \ {0}
    BY BlockTypes
  <1>2. -1..maxPart \subseteq Ids /\ maxPart \in Nat /\ nextChunk <= maxPart
    BY RangeFacts DEF Shape, Positions
  <1>3. \A j \in Ahead : j \in Ids /\ j \in Nat /\ j # -1 /\ j <= maxPart /\ reader.pos <= j /\ j <= nextChunk
    BY <1>1, <1>2 DEF Ahead
  <1>4. \A j \in Ids : BlockOf[j] = IF j = reader.pos /\ Holds THEN reader.curBuf ELSE bufMap[j]
    BY DEF BlockOf
  <1>5. BlockOf \in [Ids -> {0} \cup Buffers]
    BY <1>1 DEF BlockOf
  <1> QED BY <1>1, <1>3, <1>4, <1>5

\* The data of a buffer.
LEMMA DataTypes ==
  ASSUME BufTypes, NEW b \in Buffers
  PROVE  /\ buf[b].limit \in Int /\ buf[b].offR \in Int /\ buf[b].offW \in Int /\ buf[b].ioWg \in Int
         /\ buf[b].block \in [0..(PartSize - 1) -> Int]
  <1>1. buf[b] \in PipeBuffer
    BY DEF BufTypes
  <1> QED BY <1>1 DEF PipeBuffer

\* A chunk's fields.
LEMMA ChunkTypes ==
  ASSUME NEW ch \in Chunk
  PROVE  /\ ch.start \in Nat /\ ch.size \in Nat /\ ch.id \in Ids /\ ch.buf \in Buffers
  BY DEF Chunk

-----------------------------------------------------------------------------
\* The steps that leave the parts where they are.
SameParts ==
    /\ hc' = hc /\ nextChunk' = nextChunk /\ reader'.pos = reader.pos
    /\ \A j \in Ahead : BlockOf'[j] = BlockOf[j]
    /\ Holds => Holds'

Steady ==
    \/ Quiet \/ Announces \/ Enters \/ Leaves \/ Pops
    \/ \E b \in Buffers : Closes(b)
    \/ \E w \in Workers : WorkKind(w)

\* A step in which the reader keeps its place and block, and bufMap stays.
LEMMA PlaceKept ==
  ASSUME Shape, Shape', Placed, Filled, UNCHANGED <<cfg, hc, nextChunk, bufMap>>, SameReader,
         reader'.st \in Between <=> reader.st \in Between,
         reader'.st \in {"closePrev", "open"} => reader'.st = reader.st,
         reader'.st = "pop" => reader.st \in {"pop", "closePrev"},
         reader'.st = "ready" => reader.curBuf # 0,
         reader'.st \in {"sendTask", "sending"} <=> reader.st \in {"sendTask", "sending"}
  PROVE  SameParts /\ Placed' /\ Filled'
  <1>1. Holds' = Holds
    BY DEF Holds, SameReader
  <1>2. BlockOf' = BlockOf /\ Ahead' = Ahead
    BY <1>1 DEF BlockOf, SameReader, Ahead
  <1>3. maxPart' = maxPart
    BY SameRange
  <1>4. SameParts
    BY <1>1, <1>2 DEF SameParts, SameReader
  <1>5. Filled'
    BY <1>2 DEF Filled
  <1>6. Placed'
    BY <1>1, <1>2, <1>3 DEF Placed, SameReader
  <1> QED BY <1>4, <1>5, <1>6

LEMMA SteadyParts ==
  ASSUME OrderInv, SlotInv', cfg' = cfg, hc # -1, Steady
  PROVE  SameParts /\ Placed' /\ Filled'
  <1>1. Shape /\ Shape' /\ Placed /\ Filled
    BY DEF OrderInv, BlockInv, SlotInv
  <1>2. reader.st = "ready" => reader.curBuf # 0
    BY <1>1 DEF Placed
  <1> USE DEF Reading, Between, Early, Single
  <1>3. CASE Quiet
    <2>1. UNCHANGED <<hc, nextChunk, bufMap>> /\ SameReader
      BY <1>3 DEF Quiet, Stays
    <2>2. /\ reader'.st \in Between <=> reader.st \in Between
          /\ reader'.st \in {"closePrev", "open"} => reader'.st = reader.st
          /\ reader'.st = "pop" => reader.st \in {"pop", "closePrev"}
          /\ reader'.st = "ready" => reader.st = "ready"
          /\ reader'.st \in {"sendTask", "sending"} <=> reader.st \in {"sendTask", "sending"}
      BY <1>3 DEF Quiet
    <2> QED BY <1>1, <1>2, <2>1, <2>2, PlaceKept
  <1>4. CASE Announces \/ Enters \/ Leaves
    <2>1. UNCHANGED <<hc, nextChunk, bufMap>> /\ SameReader /\ reader.curBuf \in Buffers
      BY <1>4 DEF Announces, Enters, Leaves, Stays
    <2>2. /\ reader.st \in {"ready", "waiting", "reading"}
          /\ reader'.st \in {"ready", "waiting", "reading", "partEnd"}
      BY <1>4 DEF Announces, Enters, Leaves
    <2>3. reader.curBuf # 0
      BY <1>1, <2>1, AheadTypes
    <2> QED BY <1>1, <2>1, <2>2, <2>3, PlaceKept
  <1>5. ASSUME NEW b \in Buffers, Closes(b) PROVE SameParts /\ Placed' /\ Filled'
    <2>1. UNCHANGED <<hc, nextChunk, bufMap>> /\ SameReader
      BY <1>5 DEF Closes, Stays
    <2>2. (reader.st = "closePrev" /\ reader'.st = "pop") \/ (reader.st = "closing" /\ reader' = reader)
      BY <1>5 DEF Closes
    <2> QED BY <1>1, <2>1, <2>2, PlaceKept
  <1>6. ASSUME NEW w \in Workers, WorkKind(w) PROVE SameParts /\ Placed' /\ Filled'
    <2>1. UNCHANGED <<hc, nextChunk, bufMap, reader>>
      BY <1>6 DEF WorkKind, Quits, Takes, Keeps, Rests, GoesIn, ComesOut, Retries, Labours
    <2> QED BY <1>1, <1>2, <2>1, PlaceKept DEF SameReader
  <1>7. CASE Pops
    <2> DEFINE p == reader.pos
    <2>1. /\ UNCHANGED <<hc, nextChunk>> /\ reader.st \in {"open", "pop"} /\ reader'.st = "ready"
          /\ reader'.pos = p /\ reader'.curBuf = bufMap[p] /\ bufMap' = popBuf(p)
      BY <1>7 DEF Pops, Stays
    <2>2. ~Holds
      BY <1>1, <2>1 DEF Holds, Shape, Stage
    <2>3. /\ p \in Nat /\ nextChunk \in Nat /\ p < nextChunk /\ p \in Ids /\ p \in Ahead /\ nextChunk \in Ids
      BY <1>1, <2>1, AheadTypes DEF Placed, Ahead
    <2>4. \A j \in Ids : BlockOf[j] = bufMap[j]
      BY <1>1, <2>2, AheadTypes
    <2>5. bufMap[p] # 0
      BY <1>1, <2>3, <2>4 DEF Filled
    <2>6. /\ Holds' /\ Ahead' = Ahead
      BY <2>1, <2>5 DEF Holds, Ahead
    <2>7. /\ DOMAIN bufMap = Ids /\ -1 \in Ids
          /\ \A j \in Ahead : j \in Ids /\ j \in Nat /\ p <= j /\ j <= nextChunk
      BY <1>1, AheadTypes, BlockTypes
    <2>8. \A j \in Ids : j # p /\ j # -1 => bufMap'[j] = bufMap[j]
      BY <2>1, <2>3, <2>5, <2>7 DEF popBuf
    <2>9. \A j \in Ids : BlockOf'[j] = IF j = reader'.pos /\ Holds' THEN reader'.curBuf ELSE bufMap'[j]
      BY <1>1 DEF BlockOf
    <2>10. \A j \in Ahead : BlockOf'[j] = BlockOf[j]
      <3> SUFFICES ASSUME NEW j \in Ahead PROVE BlockOf'[j] = bufMap[j]
        BY <2>4, <2>7
      <3>1. CASE j = p
        BY <2>1, <2>6, <2>7, <2>9, <3>1
      <3>2. CASE j # p
        BY <2>1, <2>7, <2>8, <2>9, <3>2
      <3> QED BY <3>1, <3>2
    <2>11. SameParts
      BY <2>1, <2>2, <2>10 DEF SameParts
    <2>12. Filled'
      BY <1>1, <2>1, <2>6, <2>7, <2>10 DEF Filled
    <2>13. Placed'
      <3>1. maxPart' = maxPart
        BY SameRange
      <3>2. bufMap'[nextChunk] = bufMap[nextChunk]
        BY <2>3, <2>8
      <3>3. \A j \in Ids : j > nextChunk => bufMap'[j] = bufMap[j]
        BY <1>1, <2>3, <2>8
      <3>4. reader'.curBuf # 0 /\ reader'.st = "ready"
        BY <2>1, <2>5
      <3> QED BY <1>1, <2>1, <2>3, <3>1, <3>2, <3>3, <3>4 DEF Placed
    <2> QED BY <2>11, <2>12, <2>13
  <1> QED BY <1>3, <1>4, <1>5, <1>6, <1>7 DEF Steady

\* The blocks of the parts stay open; the one that is closed behind the reader is
\* no part's.
LEMMA SteadyOpen ==
  ASSUME OrderInv, SlotInv', cfg' = cfg, hc # -1, Steady, SameParts
  PROVE  Opened'
  <1>1. Shape /\ Shape' /\ Placed /\ Filled /\ Opened
    BY DEF OrderInv, BlockInv, SlotInv
  <1>2. Ahead' = Ahead /\ \A j \in Ahead : BlockOf'[j] = BlockOf[j] /\ BlockOf[j] \in {0} \cup Buffers
    BY <1>1, AheadTypes DEF SameParts, Ahead
  <1>3. ASSUME \A b \in Buffers : buf[b].open => buf'[b].open, reader.st = "closing" => reader'.st = "closing"
        PROVE  Opened'
    BY <1>1, <1>2, <1>3 DEF Opened
  <1>4. CASE Quiet \/ Pops
    <2>1. buf' = buf /\ (reader.st # "closing" \/ reader' = reader)
      BY <1>4 DEF Quiet, Pops, Early, Single
    <2> QED BY <1>3, <2>1
  <1>5. CASE Announces \/ Enters \/ Leaves
    <2>1. reader.st # "closing" /\ \A b \in Buffers : buf'[b].open = buf[b].open
      BY <1>5 DEF Announces, Enters, Leaves, Touches
    <2> QED BY <1>3, <2>1
  <1>6. ASSUME NEW b \in Buffers, Closes(b) PROVE Opened'
    <2>1. CASE reader.st = "closePrev" /\ reader'.st = "pop" /\ b = reader.curBuf
      <3>1. \A c \in Buffers : c # b => buf'[c] = buf[c]
        BY <1>6 DEF Closes, Touches
      <3>2. \A j \in Ahead : BlockOf[j] = bufMap[j]
        BY <1>1, <2>1, AheadTypes DEF Holds, Between
      <3>3. \A j \in Ahead : BlockOf[j] # b
        BY <1>1, <2>1, <3>2 DEF Placed
      <3> QED BY <1>1, <1>2, <2>1, <3>1, <3>3 DEF Opened
    <2>2. CASE reader.st = "closing" /\ reader' = reader
      BY <2>2 DEF Opened
    <2> QED BY <1>6, <2>1, <2>2 DEF Closes
  <1>7. ASSUME NEW w \in Workers, WorkKind(w) PROVE Opened'
    <2>1. PICK r \in WorkerRec : \/ Quits(w, r) \/ Takes(w, r) \/ Keeps(w, r) \/ Rests(w, r)
                                 \/ GoesIn(w, r) \/ ComesOut(w, r) \/ Retries(w, r)
      BY <1>7 DEF WorkKind
    <2>2. reader' = reader
      BY <2>1 DEF Quits, Takes, Keeps, Rests, GoesIn, ComesOut, Retries, Labours
    <2>3. CASE ~ComesOut(w, r)
      <3>1. \A b \in Buffers : buf[b].open => buf'[b].open
        BY <2>1, <2>3 DEF Quits, Takes, Keeps, Rests, GoesIn, Retries, Touches
      <3> QED BY <1>3, <2>2, <3>1
    <2>4. CASE ComesOut(w, r)
      <3> DEFINE b == worker[w].ch.buf
                 s == worker[w].ch.start + worker[w].n
      <3>1. Touches(b) /\ buf'[b] = Written(buf[b], s, worker[w].k)
        BY <2>4 DEF ComesOut
      <3>2. b \in Buffers /\ buf[b] \in PipeBuffer /\ s \in Int /\ worker[w].k \in Int /\ PartSize \in Int
        BY <1>1, HolderTypes, RangeFacts DEF Shape, BufTypes
      <3> HIDE DEF b, s
      <3> DEFINE q == Written(buf[b], s, worker[w].k)
      <3>3. q.open = buf[b].open
        BY <3>2, WrittenFacts
      <3>4. buf'[b] = q
        BY <3>1
      <3> HIDE DEF q
      <3>5. \A c \in Buffers : buf[c].open => buf'[c].open
        BY <3>1, <3>3, <3>4 DEF Touches
      <3> QED BY <1>3, <2>2, <3>5
    <2> QED BY <2>3, <2>4
  <1> QED BY <1>4, <1>5, <1>6, <1>7 DEF Steady

-----------------------------------------------------------------------------
\* Task, behind a step.
TaskNext(ch, n) ==
    /\ ch.id \in Ahead' /\ ch.id < nextChunk'
    /\ ch.buf = BlockOf'[ch.id]
    /\ ch.start + ch.size = Starts'[ch.id + 1]
    /\ buf'[ch.buf].offW = ch.start + n - Starts'[ch.id]

BusyNext(w) == worker'[w].st \in HasPart /\ worker'[w].n < worker'[w].ch.size

\* Nothing is written; only the reader's offset may move.
SameText ==
    \A b \in Buffers :
        /\ buf'[b].limit = buf[b].limit /\ buf'[b].offW = buf[b].offW /\ buf'[b].block = buf[b].block
        /\ buf'[b].offR = buf[b].offR \/ (Holds /\ b = reader.curBuf)

LEMMA TextKept ==
  ASSUME OrderInv, cfg' = cfg, hc # -1, SameParts, SameText
  PROVE  Content' /\ \A ch \in Chunk : \A n \in Nat : Task(ch, n) => TaskNext(ch, n)
  <1>1. Shape /\ Placed /\ Filled /\ Content
    BY DEF OrderInv, BlockInv, SlotInv
  <1>2. /\ Starts' = Starts /\ Sizes' = Sizes /\ PartSize' = PartSize
    BY SameRange
  <1>3. /\ Ahead' = Ahead /\ nextChunk' = nextChunk /\ reader'.pos = reader.pos /\ (Holds => Holds')
        /\ \A j \in Ahead : BlockOf'[j] = BlockOf[j]
    BY DEF SameParts, Ahead
  <1>4. \A j \in Ahead : j < nextChunk => BlockOf[j] \in Buffers /\ j \in Ids
    BY <1>1, AheadTypes DEF Filled
  <1>5. ASSUME NEW j \in Ahead, j < nextChunk
        PROVE  LET b == BlockOf[j]
               IN  /\ buf'[b].limit = Sizes[j]
                   /\ \A i \in 0..(PartSize - 1) : i < buf'[b].offW => buf'[b].block[i] = Starts[j] + i
                   /\ ~(j = reader'.pos /\ Holds') => buf'[b].offR = 0
    <2> DEFINE b == BlockOf[j]
    <2>1. /\ b \in Buffers /\ buf[b].limit = Sizes[j]
          /\ \A i \in 0..(PartSize - 1) : i < buf[b].offW => buf[b].block[i] = Starts[j] + i
          /\ ~(j = reader.pos /\ Holds) => buf[b].offR = 0
      BY <1>1, <1>4, <1>5 DEF Content
    <2>2. /\ buf'[b].limit = buf[b].limit /\ buf'[b].offW = buf[b].offW /\ buf'[b].block = buf[b].block
          /\ buf'[b].offR = buf[b].offR \/ (Holds /\ b = reader.curBuf)
      BY <2>1 DEF SameText
    <2>3. ASSUME Holds, b = reader.curBuf PROVE j = reader.pos
      <3>1. reader.pos \in Ahead /\ reader.pos \in Ids
        BY <1>1, AheadTypes DEF Placed, Ahead
      <3>2. BlockOf[reader.pos] = reader.curBuf /\ reader.curBuf # 0
        BY <1>1, <2>3, <3>1, AheadTypes DEF Holds
      <3> QED BY <1>1, <2>3, <3>1, <3>2 DEF Filled
    <2> HIDE DEF b
    <2>4. ~(j = reader'.pos /\ Holds') => buf'[b].offR = 0
      BY <1>3, <2>1, <2>2, <2>3
    <2>5. \A i \in 0..(PartSize - 1) : i < buf'[b].offW => buf'[b].block[i] = Starts[j] + i
      BY <2>1, <2>2
    <2> QED BY <2>1, <2>2, <2>4, <2>5 DEF b
  <1>6. Content'
    BY <1>2, <1>3, <1>5 DEF Content
  <1>7. ASSUME NEW ch \in Chunk, NEW n \in Nat, Task(ch, n) PROVE TaskNext(ch, n)
    <2>1. ch.buf \in Buffers
      BY ChunkTypes
    <2>2. buf'[ch.buf].offW = buf[ch.buf].offW
      BY <2>1 DEF SameText
    <2> QED BY <1>2, <1>3, <1>7, <2>2 DEF Task, TaskNext
  <1> QED BY <1>6, <1>7

\* The tasks when one worker moves on, or none.
LEMMA TasksShrink ==
  ASSUME Shape, Tasks, chunkCh' = chunkCh, NEW w \in Workers,
         \A u \in Workers : u # w => worker'[u] = worker[u],
         \A i \in DOMAIN chunkCh : ~Empty(chunkCh[i]) => TaskNext(chunkCh[i], 0),
         \A u \in Workers : u # w /\ Busy(u) => TaskNext(worker[u].ch, worker[u].n),
         BusyNext(w) => /\ Busy(w) /\ worker'[w].ch.id = worker[w].ch.id
                        /\ TaskNext(worker'[w].ch, worker'[w].n)
  PROVE  Tasks'
  <1>1. \A u \in Workers : u # w => (BusyNext(u) <=> Busy(u))
    BY DEF Busy, BusyNext
  <1>2. \A u \in Workers : BusyNext(u) => /\ Busy(u) /\ worker'[u].ch.id = worker[u].ch.id
                                          /\ TaskNext(worker'[u].ch, worker'[u].n)
    BY <1>1
  <1>3. \A i \in DOMAIN chunkCh' : ~Empty(chunkCh'[i]) => TaskNext(chunkCh'[i], 0)
    OBVIOUS
  <1>4. \A u, v \in Workers : BusyNext(u) /\ BusyNext(v) /\ worker'[u].ch.id = worker'[v].ch.id => u = v
    BY <1>2 DEF Tasks
  <1>5. \A u \in Workers, i \in DOMAIN chunkCh' :
            BusyNext(u) /\ ~Empty(chunkCh'[i]) => worker'[u].ch.id # chunkCh'[i].id
    BY <1>2 DEF Tasks
  <1>6. \A i, j \in DOMAIN chunkCh' :
            ~Empty(chunkCh'[i]) /\ ~Empty(chunkCh'[j]) /\ chunkCh'[i].id = chunkCh'[j].id => i = j
    BY DEF Tasks
  <1>7. (\A i \in DOMAIN chunkCh : ~Empty(chunkCh[i]) => Task(chunkCh[i], 0))'
    BY <1>3 DEF Task, TaskNext, Empty
  <1>8. (\A u \in Workers : Busy(u) => Task(worker[u].ch, worker[u].n))'
    BY <1>2 DEF Task, TaskNext, Busy, BusyNext
  <1> QED BY <1>4, <1>5, <1>6, <1>7, <1>8 DEF Tasks, Busy, BusyNext, Empty

\* The tasks when no worker moves.
LEMMA TasksStay ==
  ASSUME Shape, Tasks, chunkCh' = chunkCh, worker' = worker,
         \A i \in DOMAIN chunkCh : ~Empty(chunkCh[i]) => TaskNext(chunkCh[i], 0),
         \A u \in Workers : Busy(u) => TaskNext(worker[u].ch, worker[u].n)
  PROVE  Tasks'
  <1>1. PICK w \in Workers : TRUE
    <2>1. 1..cfg.Concurrency \subseteq Workers /\ cfgConcurrency \in 1..cfg.Concurrency
      BY RangeFacts DEF Shape
    <2> QED BY <2>1
  <1>2. BusyNext(w) => /\ Busy(w) /\ worker'[w].ch.id = worker[w].ch.id
                       /\ TaskNext(worker'[w].ch, worker'[w].n)
    BY DEF Busy, BusyNext
  <1> QED BY <1>1, <1>2, TasksShrink

\* What is known of every task.
LEMMA TaskTypes ==
  ASSUME Shape
  PROVE  /\ \A i \in DOMAIN chunkCh : chunkCh[i] \in Chunk
         /\ \A w \in Workers : worker[w].ch \in Chunk /\ worker[w].n \in Nat
  <1>1. chunkCh \in Seq(Chunk)
    BY DEF Shape, ChTypes
  <1>2. \A w \in Workers : worker[w].ch \in Chunk /\ worker[w].n \in Nat
    BY HolderTypes
  <1> QED BY <1>1, <1>2

\* Steps of the reader and interrupt that keep the parts: what is in the blocks.
LEMMA CalmText ==
  ASSUME OrderInv, cfg' = cfg,
         Quiet \/ Announces \/ Enters \/ Leaves \/ Pops \/ \E b \in Buffers : Closes(b)
  PROVE  SameText /\ Offsets' /\ worker' = worker /\ chunkCh' = chunkCh
  <1>1. Shape /\ Offsets /\ Returned /\ BufTypes
    BY DEF OrderInv, BlockInv, SlotInv, Shape
  <1>2. worker' = worker /\ chunkCh' = chunkCh
    BY DEF Quiet, Announces, Enters, Leaves, Pops, Closes, Stays
  <1>3. PartSize' = PartSize
    BY SameRange
  <1>4. ASSUME \A b \in Buffers : SameData(b) PROVE SameText /\ Offsets'
    BY <1>1, <1>3, <1>4 DEF SameData, SameText, Offsets
  <1>5. CASE Quiet \/ Pops
    BY <1>2, <1>4, <1>5 DEF Quiet, Pops, SameData
  <1>6. CASE Announces \/ Enters
    <2>1. \A b \in Buffers : SameData(b)
      BY <1>6 DEF Announces, Enters, Touches, SameData
    <2> QED BY <1>2, <1>4, <2>1
  <1>7. ASSUME NEW b \in Buffers, Closes(b) PROVE SameText /\ Offsets'
    <2>1. \A c \in Buffers : SameData(c)
      BY <1>7 DEF Closes, Touches, SameData
    <2> QED BY <1>4, <2>1
  <1>8. CASE Leaves
    <2> DEFINE c == reader.curBuf
    <2>1. /\ c \in Buffers /\ buf'[c].limit = buf[c].limit
          /\ buf'[c].offR = buf[c].offR + reader.k
          /\ buf'[c].offW = buf[c].offW /\ buf'[c].block = buf[c].block
          /\ reader.st = "reading" /\ \A b \in Buffers : b # c => buf'[b] = buf[b]
      BY <1>8 DEF Leaves, Touches
    <2>2. Holds
      BY <1>1, <2>1, AheadTypes DEF Holds, Between
    <2>3. SameText
      BY <2>1, <2>2 DEF SameText
    <2>4. buf[c].offR + reader.k <= buf[c].offW /\ buf[c].offR \in Int /\ reader.k \in Nat /\ 0 <= buf[c].offR
      BY <1>1, <2>1, DataTypes DEF Returned, Offsets, cur, Shape, ReaderTypes, ReaderRec
    <2>5. Offsets'
      <3> SUFFICES ASSUME NEW b \in Buffers
                   PROVE  /\ 0 <= buf'[b].offR /\ buf'[b].offR <= buf'[b].offW
                          /\ buf'[b].offW <= buf'[b].limit /\ buf'[b].limit <= PartSize
        BY <1>3 DEF Offsets
      <3>1. CASE b = c
        BY <1>1, <2>1, <2>4, <3>1 DEF Offsets
      <3>2. CASE b # c
        BY <1>1, <2>1, <3>2 DEF Offsets
      <3> QED BY <3>1, <3>2
    <2> QED BY <1>2, <2>3, <2>5
  <1> QED BY <1>2, <1>5, <1>6, <1>7, <1>8

LEMMA CalmParts ==
  ASSUME OrderInv, SlotInv', cfg' = cfg, hc # -1,
         Quiet \/ Announces \/ Enters \/ Leaves \/ Pops \/ \E b \in Buffers : Closes(b)
  PROVE  Placed' /\ Filled' /\ Opened' /\ Content' /\ Tasks'
  <1>1. Shape /\ Tasks
    BY DEF OrderInv, BlockInv, SlotInv
  <1>2. Steady
    BY DEF Steady
  <1>3. SameParts /\ Placed' /\ Filled'
    BY <1>2, SteadyParts
  <1>4. Opened'
    BY <1>2, <1>3, SteadyOpen
  <1>5. SameText /\ worker' = worker /\ chunkCh' = chunkCh
    BY CalmText
  <1>6. Content' /\ \A ch \in Chunk : \A n \in Nat : Task(ch, n) => TaskNext(ch, n)
    BY <1>3, <1>5, TextKept
  <1>7. /\ \A i \in DOMAIN chunkCh : ~Empty(chunkCh[i]) => TaskNext(chunkCh[i], 0)
        /\ \A w \in Workers : Busy(w) => TaskNext(worker[w].ch, worker[w].n)
    BY <1>1, <1>6, TaskTypes DEF Tasks
  <1>8. Tasks'
    BY <1>1, <1>5, <1>7, TasksStay
  <1> QED BY <1>3, <1>4, <1>6, <1>8

-----------------------------------------------------------------------------
\* A worker takes a part from the channel.
LEMMA TakeTasks ==
  ASSUME Shape, Tasks, NEW w \in Workers, NEW r \in WorkerRec, Takes(w, r),
         \A ch \in Chunk : \A n \in Nat : Task(ch, n) => TaskNext(ch, n)
  PROVE  Tasks'
  <1>1. /\ worker[w].st = "take" /\ chunkCh # <<>> /\ chunkCh' = Tail(chunkCh)
        /\ r.ch = Head(chunkCh) /\ r.n = 0 /\ Labours(w, r)
    BY DEF Takes
  <1>2. worker'[w] = r /\ \A u \in Workers : u # w => worker'[u] = worker[u]
    BY <1>1, LabourFacts
  <1>3. chunkCh \in Seq(Chunk)
    BY DEF Shape, ChTypes
  <1>4. /\ Head(chunkCh) = chunkCh[1] /\ 1 \in DOMAIN chunkCh
        /\ \A i \in DOMAIN chunkCh' : /\ i + 1 \in DOMAIN chunkCh /\ chunkCh'[i] = chunkCh[i + 1]
                                      /\ i \in Nat /\ i + 1 # 1
    BY <1>1, <1>3
  <1>5. /\ \A i \in DOMAIN chunkCh : ~Empty(chunkCh[i]) => TaskNext(chunkCh[i], 0)
        /\ \A u \in Workers : Busy(u) => TaskNext(worker[u].ch, worker[u].n)
    BY TaskTypes DEF Tasks
  <1>6. BusyNext(w) => ~Empty(chunkCh[1]) /\ worker'[w].ch = chunkCh[1] /\ worker'[w].n = 0
    BY <1>1, <1>2, <1>4 DEF BusyNext, Empty
  <1>7. \A u \in Workers : u # w => (BusyNext(u) <=> Busy(u))
    BY <1>2 DEF Busy, BusyNext
  <1>8. \A i \in DOMAIN chunkCh' : ~Empty(chunkCh'[i]) => TaskNext(chunkCh'[i], 0)
    BY <1>4, <1>5
  <1>9. \A u \in Workers : BusyNext(u) => TaskNext(worker'[u].ch, worker'[u].n)
    <2>1. BusyNext(w) => TaskNext(worker'[w].ch, worker'[w].n)
      BY <1>4, <1>5, <1>6
    <2> QED BY <1>2, <1>5, <1>7, <2>1
  <1>10. \A i, j \in DOMAIN chunkCh' :
            ~Empty(chunkCh'[i]) /\ ~Empty(chunkCh'[j]) /\ chunkCh'[i].id = chunkCh'[j].id => i = j
    <2> SUFFICES ASSUME NEW i \in DOMAIN chunkCh', NEW j \in DOMAIN chunkCh',
                        ~Empty(chunkCh'[i]), ~Empty(chunkCh'[j]), chunkCh'[i].id = chunkCh'[j].id
                 PROVE  i = j
      OBVIOUS
    <2>1. i + 1 = j + 1
      BY <1>4 DEF Tasks
    <2> QED BY <1>4, <2>1
  <1>11. \A u, v \in Workers : BusyNext(u) /\ BusyNext(v) /\ worker'[u].ch.id = worker'[v].ch.id => u = v
    BY <1>2, <1>4, <1>6, <1>7 DEF Tasks
  <1>12. \A u \in Workers, i \in DOMAIN chunkCh' :
            BusyNext(u) /\ ~Empty(chunkCh'[i]) => worker'[u].ch.id # chunkCh'[i].id
    <2> SUFFICES ASSUME NEW u \in Workers, NEW i \in DOMAIN chunkCh', BusyNext(u), ~Empty(chunkCh'[i])
                 PROVE  worker'[u].ch.id # chunkCh'[i].id
      OBVIOUS
    <2>1. chunkCh'[i] = chunkCh[i + 1] /\ i + 1 \in DOMAIN chunkCh /\ i + 1 # 1
      BY <1>4
    <2>2. CASE u = w
      BY <1>4, <1>6, <2>1, <2>2 DEF Tasks
    <2>3. CASE u # w
      BY <1>2, <1>7, <2>1, <2>3 DEF Tasks
    <2> QED BY <2>2, <2>3
  <1> QED BY <1>8, <1>9, <1>10, <1>11, <1>12 DEF Tasks, Task, TaskNext, Busy, BusyNext, Empty

\* A worker gives its part back to the channel and ends.
LEMMA RequeueTasks ==
  ASSUME Shape, Tasks, Fresh, NEW w \in Workers, NEW r \in WorkerRec, Quits(w, r),
         worker[w].st = "requeue", chunkCh' = Append(chunkCh, worker[w].ch),
         \A ch \in Chunk : \A n \in Nat : Task(ch, n) => TaskNext(ch, n)
  PROVE  Tasks'
  <1>1. Labours(w, r) /\ r.st = "gone"
    BY DEF Quits
  <1>2. worker'[w] = r /\ \A u \in Workers : u # w => worker'[u] = worker[u]
    BY <1>1, LabourFacts
  <1>3. chunkCh \in Seq(Chunk) /\ worker[w].ch \in Chunk /\ worker[w].n = 0 /\ worker[w].ch.size \in Nat
    BY HolderTypes DEF Shape, ChTypes, Fresh
  <1>4. \A i \in DOMAIN chunkCh' :
            \/ i \in DOMAIN chunkCh /\ chunkCh'[i] = chunkCh[i]
            \/ i = Len(chunkCh) + 1 /\ chunkCh'[i] = worker[w].ch
    BY <1>3, AppendProperties
  <1>5. /\ \A i \in DOMAIN chunkCh : ~Empty(chunkCh[i]) => TaskNext(chunkCh[i], 0)
        /\ \A u \in Workers : Busy(u) => TaskNext(worker[u].ch, worker[u].n)
    BY TaskTypes DEF Tasks
  <1>6. ~Empty(worker[w].ch) => Busy(w) /\ TaskNext(worker[w].ch, 0)
    <2>1. ~Empty(worker[w].ch) => Busy(w)
      BY <1>3 DEF Busy, Empty, HasPart
    <2> QED BY <1>3, <1>5, <2>1
  <1>7. \A u \in Workers : BusyNext(u) => u # w /\ Busy(u) /\ worker'[u] = worker[u]
    BY <1>1, <1>2 DEF Busy, BusyNext, HasPart
  <1>8. \A i \in DOMAIN chunkCh' : ~Empty(chunkCh'[i]) => TaskNext(chunkCh'[i], 0)
    BY <1>4, <1>5, <1>6
  <1>9. \A u \in Workers : BusyNext(u) => TaskNext(worker'[u].ch, worker'[u].n)
    BY <1>5, <1>7
  <1>10. \A i, j \in DOMAIN chunkCh' :
            ~Empty(chunkCh'[i]) /\ ~Empty(chunkCh'[j]) /\ chunkCh'[i].id = chunkCh'[j].id => i = j
    BY <1>4, <1>6 DEF Tasks
  <1>11. \A u, v \in Workers : BusyNext(u) /\ BusyNext(v) /\ worker'[u].ch.id = worker'[v].ch.id => u = v
    BY <1>7 DEF Tasks
  <1>12. \A u \in Workers, i \in DOMAIN chunkCh' :
            BusyNext(u) /\ ~Empty(chunkCh'[i]) => worker'[u].ch.id # chunkCh'[i].id
    BY <1>4, <1>6, <1>7 DEF Tasks
  <1> QED BY <1>8, <1>9, <1>10, <1>11, <1>12 DEF Tasks, Task, TaskNext, Busy, BusyNext, Empty

\* A worker inside a block writes where the part it has goes on, and has room.
LEMMA WriterFacts ==
  ASSUME OrderInv, NEW w \in Workers, worker[w].st = "writing"
  PROVE  LET ch == worker[w].ch
         IN  /\ hc # -1 /\ Busy(w) /\ Task(ch, worker[w].n) /\ maxPart > 1
             /\ ch.buf \in Buffers /\ ch.id \in 0..(maxPart - 1) /\ worker[w].k \in Nat \ {0}
             /\ buf[ch.buf].limit = Sizes[ch.id] /\ Starts[ch.id] \in Nat
             /\ buf[ch.buf].offW + worker[w].k <= buf[ch.buf].limit
             /\ ch.start + worker[w].n = Starts[ch.id] + buf[ch.buf].offW
  <1> DEFINE ch == worker[w].ch
             n  == worker[w].n
             k  == worker[w].k
  <1>1. Shape /\ Fresh /\ BufTypes
    BY DEF OrderInv, BlockInv, SlotInv, Shape
  <1>2. /\ n \in Nat /\ k \in Nat /\ ch \in Chunk /\ ch.size \in Nat /\ ch.start \in Nat /\ ch.buf \in Buffers
        /\ n + k <= ch.size
    BY <1>1, HolderTypes
  <1>3. k # 0
    BY <1>1, <1>2 DEF Fresh
  <1>4. Busy(w)
    BY <1>2, <1>3 DEF Busy, HasPart
  <1>5. hc # -1
    <2>1. w \in Writers(ch.buf)
      BY DEF Writers
    <2>2. /\ IsFiniteSet(Writers(ch.buf)) /\ Cardinality(Writers(ch.buf)) \in Nat /\ buf[ch.buf].ioWg \in Int
          /\ buf[ch.buf].ioWg = Cardinality(Writers(ch.buf))
                                + (IF reader.st = "reading" /\ reader.curBuf = ch.buf THEN 1 ELSE 0)
      BY <1>1, <1>2, WritersFinite DEF OrderInv, BlockInv, IoCounted
    <2>3. Cardinality(Writers(ch.buf)) # 0
      BY <2>1, <2>2, FS_EmptySet
    <2>4. buf[ch.buf].ioWg # 0
      BY <2>2, <2>3
    <2> QED BY <1>2, <2>4 DEF OrderInv, BlockInv, Kept, InUse
  <1>6. Task(ch, n) /\ Content /\ Filled
    BY <1>4, <1>5 DEF OrderInv, Tasks
  <1>7. maxPart > 1
    BY <1>1, AtWork
  <1>8. /\ ch.id \in Ahead /\ ch.id < nextChunk /\ ch.buf = BlockOf[ch.id]
        /\ ch.start + ch.size = Starts[ch.id + 1] /\ buf[ch.buf].offW = ch.start + n - Starts[ch.id]
    BY <1>6 DEF Task
  <1>9. ch.id \in 0..(maxPart - 1)
    BY <1>1, <1>8, AheadTypes, PartsAdd
  <1>10. Starts[ch.id] \in Nat /\ Sizes[ch.id] \in Nat /\ Starts[ch.id + 1] = Starts[ch.id] + Sizes[ch.id]
    BY <1>1, <1>7, <1>9, PartsAdd
  <1>11. buf[ch.buf].limit = Sizes[ch.id]
    BY <1>6, <1>8 DEF Content
  <1>12. buf[ch.buf].offW \in Int
    BY <1>1, <1>2, DataTypes
  <1> HIDE DEF ch, n, k
  <1>13. buf[ch.buf].offW + k <= Sizes[ch.id] /\ ch.start + n = Starts[ch.id] + buf[ch.buf].offW
    BY <1>2, <1>8, <1>10, <1>12
  <1> QED BY <1>2, <1>3, <1>4, <1>5, <1>6, <1>7, <1>9, <1>10, <1>11, <1>13 DEF ch, n, k

\* A worker comes out of a block: the part has its next bytes.
LEMMA WriteParts ==
  ASSUME OrderInv, SlotInv', cfg' = cfg, NEW w \in Workers, NEW r \in WorkerRec, ComesOut(w, r), SameParts
  PROVE  Offsets' /\ Content' /\ Tasks'
  <1> DEFINE ch == worker[w].ch
             b  == ch.buf
             k  == worker[w].k
             s  == ch.start + worker[w].n
             o  == buf[b].offW
  <1>1. Shape /\ BufTypes /\ PartSize \in Nat /\ Offsets
    BY RangeFacts DEF OrderInv, BlockInv, SlotInv, Shape
  <1>2. /\ Touches(b) /\ buf'[b] = Written(buf[b], s, k) /\ Labours(w, r) /\ chunkCh' = chunkCh
        /\ worker[w].st = "writing" /\ r.ch = ch /\ r.n = worker[w].n + k
    BY DEF ComesOut
  <1>3. /\ hc # -1 /\ Busy(w) /\ Task(ch, worker[w].n) /\ maxPart > 1
        /\ b \in Buffers /\ ch.id \in 0..(maxPart - 1) /\ k \in Nat \ {0}
        /\ buf[b].limit = Sizes[ch.id] /\ Starts[ch.id] \in Nat
        /\ o + k <= buf[b].limit /\ s = Starts[ch.id] + o
    BY <1>2, WriterFacts
  <1>4. Filled /\ Content /\ Tasks /\ Placed
    BY <1>3 DEF OrderInv
  <1>5. \A c \in Buffers : c # b => buf'[c] = buf[c]
    BY <1>2 DEF Touches
  <1>6. /\ o \in Int /\ buf[b].limit \in Int /\ buf[b].offR \in Int /\ buf[b].block \in [0..(PartSize - 1) -> Int]
    BY <1>1, <1>3, DataTypes
  <1>7. s \in Int /\ k \in Int /\ buf[b] \in PipeBuffer
    BY <1>1, <1>3, <1>6 DEF BufTypes
  <1> HIDE DEF s, b, k
  <1>8. /\ buf'[b].limit = buf[b].limit /\ buf'[b].offR = buf[b].offR /\ buf'[b].offW = o + k
        /\ buf'[b].block = [i \in 0..(PartSize - 1) |->
                IF i \in o..(o + k - 1) THEN s + (i - o) ELSE buf[b].block[i]]
    <2> DEFINE q == Written(buf[b], s, k)
    <2>1. /\ q.limit = buf[b].limit /\ q.offR = buf[b].offR /\ q.offW = o + k
          /\ q.block = [i \in 0..(PartSize - 1) |->
                IF i \in o..(o + k - 1) THEN s + (i - o) ELSE buf[b].block[i]]
      BY <1>1, <1>7, WrittenFacts
    <2>2. buf'[b] = q
      BY <1>2
    <2> HIDE DEF q
    <2> QED BY <2>1, <2>2
  <1> HIDE DEF o
  <1>9. Starts' = Starts /\ Sizes' = Sizes /\ PartSize' = PartSize
    BY SameRange
  <1>10. /\ Ahead' = Ahead /\ nextChunk' = nextChunk /\ reader'.pos = reader.pos /\ (Holds => Holds')
         /\ \A j \in Ahead : BlockOf'[j] = BlockOf[j]
    BY DEF SameParts, Ahead
  <1>11. Offsets'
    <2> SUFFICES ASSUME NEW c \in Buffers
                 PROVE  /\ 0 <= buf'[c].offR /\ buf'[c].offR <= buf'[c].offW
                        /\ buf'[c].offW <= buf'[c].limit /\ buf'[c].limit <= PartSize
      BY <1>9 DEF Offsets
    <2>1. CASE c = b
      <3>1. 0 <= buf[b].offR /\ buf[b].offR <= o /\ buf[b].limit <= PartSize
        BY <1>1, <1>3 DEF Offsets, o
      <3>2. /\ buf'[b].limit = buf[b].limit /\ buf'[b].offR = buf[b].offR /\ buf'[b].offW = o + k
            /\ k \in Nat /\ o + k <= buf[b].limit
        BY <1>3, <1>8
      <3> QED BY <1>1, <1>6, <2>1, <3>1, <3>2
    <2>2. CASE c # b
      BY <1>1, <1>5, <2>2 DEF Offsets
    <2> QED BY <2>1, <2>2
  <1>12. /\ ch.id \in Ahead /\ ch.id < nextChunk /\ b = BlockOf[ch.id]
         /\ ch.start + ch.size = Starts[ch.id + 1]
    BY <1>3 DEF Task, b
  <1>13. \A j \in Ahead : j < nextChunk /\ j # ch.id => BlockOf[j] # b /\ BlockOf[j] \in Buffers
    BY <1>1, <1>4, <1>12, AheadTypes DEF Filled
  <1>14. Content'
    <2> SUFFICES ASSUME NEW j \in Ahead, j < nextChunk
                 PROVE  LET c == BlockOf[j]
                        IN  /\ buf'[c].limit = Sizes[j]
                            /\ \A i \in 0..(PartSize - 1) :
                                  i < buf'[c].offW => buf'[c].block[i] = Starts[j] + i
                            /\ ~(j = reader'.pos /\ Holds') => buf'[c].offR = 0
      BY <1>9, <1>10 DEF Content
    <2>1. /\ buf[BlockOf[j]].limit = Sizes[j]
          /\ \A i \in 0..(PartSize - 1) :
                i < buf[BlockOf[j]].offW => buf[BlockOf[j]].block[i] = Starts[j] + i
          /\ ~(j = reader.pos /\ Holds) => buf[BlockOf[j]].offR = 0
      BY <1>4 DEF Content
    <2>2. CASE j # ch.id
      BY <1>5, <1>10, <1>13, <2>1, <2>2
    <2>3. CASE j = ch.id
      <3>1. BlockOf[j] = b
        BY <1>12, <2>3
      <3>2. \A i \in 0..(PartSize - 1) : i < o => buf[b].block[i] = Starts[j] + i
        BY <2>1, <3>1 DEF o
      <3>3. s = Starts[j] + o /\ Starts[j] \in Nat
        BY <1>3, <2>3
      <3>4. ASSUME NEW i \in 0..(PartSize - 1), i < o + k PROVE buf'[b].block[i] = Starts[j] + i
        <4>1. CASE i < o
          BY <1>1, <1>3, <1>6, <1>8, <3>2, <3>4, <4>1 DEF o
        <4>2. CASE ~(i < o)
          <5>1. buf'[b].block[i] = s + (i - o)
            BY <1>1, <1>6, <1>7, <1>8, <3>4, <4>2 DEF o
          <5> QED BY <1>1, <1>6, <3>3, <5>1 DEF o
        <4> QED BY <4>1, <4>2
      <3> QED BY <1>8, <1>10, <2>1, <3>1, <3>4
    <2> QED BY <2>2, <2>3
  <1>15. worker'[w] = r /\ \A u \in Workers : u # w => worker'[u] = worker[u]
    BY <1>1, <1>2, LabourFacts
  <1>16. ASSUME NEW c \in Chunk, NEW n \in Nat, Task(c, n), c.id # ch.id PROVE TaskNext(c, n)
    <2>1. c.buf = BlockOf[c.id] /\ c.id \in Ahead /\ c.id < nextChunk
      BY <1>16 DEF Task
    <2>2. c.buf # b /\ c.buf \in Buffers
      BY <1>13, <1>16, <2>1
    <2>3. buf'[c.buf] = buf[c.buf]
      BY <1>5, <2>2
    <2> QED BY <1>9, <1>10, <1>16, <2>3 DEF Task, TaskNext
  <1>17. /\ \A i \in DOMAIN chunkCh : ~Empty(chunkCh[i]) => TaskNext(chunkCh[i], 0)
         /\ \A u \in Workers : u # w /\ Busy(u) => TaskNext(worker[u].ch, worker[u].n)
    <2>1. ASSUME NEW i \in DOMAIN chunkCh, ~Empty(chunkCh[i]) PROVE TaskNext(chunkCh[i], 0)
      <3>1. chunkCh[i] \in Chunk /\ Task(chunkCh[i], 0) /\ chunkCh[i].id # ch.id
        BY <1>1, <1>3, <1>4, <2>1, TaskTypes DEF Tasks
      <3> QED BY <1>16, <3>1
    <2>2. ASSUME NEW u \in Workers, u # w, Busy(u) PROVE TaskNext(worker[u].ch, worker[u].n)
      <3>1. /\ worker[u].ch \in Chunk /\ worker[u].n \in Nat /\ Task(worker[u].ch, worker[u].n)
            /\ worker[u].ch.id # ch.id
        BY <1>1, <1>3, <1>4, <2>2, TaskTypes DEF Tasks
      <3> QED BY <1>16, <3>1
    <2> QED BY <2>1, <2>2
  <1>18. TaskNext(worker'[w].ch, worker'[w].n) /\ worker'[w].ch.id = worker[w].ch.id
    <2>1. worker'[w].ch = ch /\ worker'[w].n = worker[w].n + k
      BY <1>2, <1>15
    <2>2. worker[w].n \in Nat /\ ch.start \in Nat /\ o = ch.start + worker[w].n - Starts[ch.id]
      BY <1>1, <1>3, HolderTypes DEF Task, o, b
    <2>3. buf'[b].offW = ch.start + (worker[w].n + k) - Starts[ch.id]
      <3>1. buf'[b].offW = o + k
        BY <1>8
      <3>2. Starts[ch.id] \in Nat /\ k \in Nat
        BY <1>3
      <3> QED BY <2>2, <3>1, <3>2
    <2> QED BY <1>9, <1>10, <1>12, <2>1, <2>3 DEF TaskNext, b
  <1>19. Tasks'
    BY <1>1, <1>2, <1>3, <1>4, <1>15, <1>17, <1>18, TasksShrink
  <1> QED BY <1>11, <1>14, <1>19

\* The step of a worker that sends nothing.
LEMMA WorkParts ==
  ASSUME OrderInv, SlotInv', cfg' = cfg, NEW w \in Workers, WorkKind(w)
  PROVE  Offsets' /\ (hc # -1 => Placed' /\ Filled' /\ Opened' /\ Content' /\ Tasks')
  <1>1. Shape /\ Fresh /\ Offsets
    BY DEF OrderInv, BlockInv, SlotInv
  <1>2. PICK r \in WorkerRec : \/ Quits(w, r) \/ Takes(w, r) \/ Keeps(w, r) \/ Rests(w, r)
                               \/ GoesIn(w, r) \/ ComesOut(w, r) \/ Retries(w, r)
    BY DEF WorkKind
  <1>3. Steady
    BY DEF Steady
  <1>4. ASSUME hc # -1 PROVE SameParts /\ Placed' /\ Filled' /\ Opened'
    BY <1>3, <1>4, SteadyParts, SteadyOpen
  <1>5. CASE ComesOut(w, r)
    <2>1. hc # -1
      BY <1>5, WriterFacts DEF ComesOut
    <2> QED BY <1>4, <1>5, <2>1, WriteParts
  <1>6. CASE ~ComesOut(w, r)
    <2>1. \A b \in Buffers : SameData(b)
      BY <1>2, <1>6 DEF Quits, Takes, Keeps, Rests, GoesIn, Retries, Touches, SameData
    <2>2. Offsets'
      <3>1. PartSize' = PartSize
        BY SameRange
      <3> QED BY <1>1, <2>1, <3>1 DEF SameData, Offsets
    <2>3. SameText
      BY <2>1 DEF SameText, SameData
    <2>4. ASSUME hc # -1 PROVE Content' /\ Tasks'
      <3>1. Content' /\ \A ch \in Chunk : \A n \in Nat : Task(ch, n) => TaskNext(ch, n)
        BY <1>4, <2>3, <2>4, TextKept
      <3>2. Tasks
        BY <2>4 DEF OrderInv
      <3>3. Labours(w, r)
        BY <1>2 DEF Quits, Takes, Keeps, Rests, GoesIn, ComesOut, Retries
      <3>4. worker'[w] = r /\ \A u \in Workers : u # w => worker'[u] = worker[u]
        BY <1>1, <3>3, LabourFacts
      <3>5. /\ \A i \in DOMAIN chunkCh : ~Empty(chunkCh[i]) => TaskNext(chunkCh[i], 0)
            /\ \A u \in Workers : Busy(u) => TaskNext(worker[u].ch, worker[u].n)
        BY <1>1, <3>1, <3>2, TaskTypes DEF Tasks
      <3>6. ASSUME chunkCh' = chunkCh,
                   BusyNext(w) => /\ Busy(w) /\ worker'[w].ch.id = worker[w].ch.id
                                  /\ TaskNext(worker'[w].ch, worker'[w].n)
            PROVE  Tasks'
        BY <1>1, <3>2, <3>4, <3>5, <3>6, TasksShrink
      <3>7. CASE Quits(w, r)
        <4>1. ~BusyNext(w)
          BY <3>4, <3>7 DEF Quits, BusyNext, HasPart
        <4>2. \/ chunkCh' = chunkCh
              \/ worker[w].st = "requeue" /\ chunkCh' = Append(chunkCh, worker[w].ch)
          BY <3>7 DEF Quits
        <4> QED BY <1>1, <3>1, <3>2, <3>6, <3>7, <4>1, <4>2, RequeueTasks
      <3>8. CASE Takes(w, r)
        BY <1>1, <3>1, <3>2, <3>8, TakeTasks
      <3>9. CASE Rests(w, r)
        <4>1. ~BusyNext(w) /\ chunkCh' = chunkCh
          BY <3>4, <3>9 DEF Rests, BusyNext, HasPart
        <4> QED BY <3>1, <3>6, <4>1
      <3>10. CASE Keeps(w, r) \/ GoesIn(w, r)
        <4>1. /\ r.ch = worker[w].ch /\ r.n = worker[w].n /\ worker[w].st \in HasPart /\ chunkCh' = chunkCh
          BY <3>10 DEF Keeps, GoesIn, HasPart
        <4>2. BusyNext(w) => Busy(w)
          BY <3>4, <4>1 DEF BusyNext, Busy
        <4> QED BY <3>1, <3>4, <3>5, <3>6, <4>1, <4>2
      <3>11. CASE Retries(w, r)
        <4> DEFINE ch == worker[w].ch
        <4>1. /\ r.n = 0 /\ worker[w].st \in HasPart /\ chunkCh' = chunkCh
              /\ r.ch.start = ch.start + worker[w].n /\ r.ch.size = ch.size - worker[w].n
              /\ r.ch.id = ch.id /\ r.ch.buf = ch.buf
          BY <3>11 DEF Retries, HasPart
        <4>2. worker[w].n \in Nat /\ ch.start \in Nat /\ ch.size \in Nat
          BY <1>1, HolderTypes
        <4>3. BusyNext(w) => Busy(w)
          BY <3>4, <4>1, <4>2 DEF BusyNext, Busy
        <4>4. ASSUME Busy(w) PROVE TaskNext(r.ch, 0)
          <5>1. TaskNext(ch, worker[w].n) /\ Task(ch, worker[w].n)
            BY <3>2, <3>5, <4>4 DEF Tasks
          <5>2. Starts[ch.id] \in Nat /\ Starts' = Starts
            <6>1. maxPart > 1 /\ ch.id \in 0..(maxPart - 1)
              BY <1>1, <4>1, <5>1, AtWork, AheadTypes, PartsAdd DEF Task, HasPart
            <6> QED BY <1>1, <6>1, PartsAdd, SameRange
          <5> HIDE DEF ch
          <5>3. r.ch.start + r.ch.size = ch.start + ch.size
            BY <4>1, <4>2
          <5>4. buf'[r.ch.buf].offW = r.ch.start + 0 - Starts'[r.ch.id]
            BY <4>1, <4>2, <5>1, <5>2 DEF TaskNext
          <5> QED BY <4>1, <5>1, <5>3, <5>4 DEF TaskNext
        <4> QED BY <3>1, <3>4, <3>6, <4>1, <4>3, <4>4
      <3> QED BY <1>2, <1>6, <3>1, <3>7, <3>8, <3>9, <3>10, <3>11
    <2> QED BY <1>4, <2>2, <2>4
  <1> QED BY <1>5, <1>6

-----------------------------------------------------------------------------
\* The reader is done with its part: so is every worker.
LEMMA PartIsDone ==
  ASSUME OrderInv, reader.st = "partEnd"
  PROVE  /\ hc # -1 /\ Holds /\ reader.pos \in Ahead /\ reader.pos < nextChunk /\ reader.pos \in 0..(maxPart - 1)
         /\ BlockOf[reader.pos] = reader.curBuf
         /\ Len(delivered) = Starts[reader.pos + 1]
         /\ \A ch \in Chunk : \A n \in Nat : Task(ch, n) /\ n < ch.size => ch.id # reader.pos
  <1> DEFINE p == reader.pos
             c == reader.curBuf
  <1>1. Shape /\ BufTypes /\ Returned /\ Offsets
    BY DEF OrderInv, BlockInv, SlotInv, Shape
  <1>2. hc # -1 /\ c # 0 /\ p < maxPart /\ maxPart > 1
    BY <1>1 DEF Shape, Stage, ReaderTypes, Reading, Ending, Single
  <1>3. Placed /\ Filled /\ Content
    BY <1>2 DEF OrderInv
  <1>4. Holds
    BY <1>2 DEF Holds, Between
  <1>5. p \in Ahead /\ p < nextChunk /\ p \in 0..(maxPart - 1) /\ p \in Ids
    BY <1>1, <1>2, <1>3, <1>4, AheadTypes, PartsAdd DEF Placed, Ahead
  <1>6. BlockOf[p] = c /\ c \in Buffers
    BY <1>1, <1>2, <1>4, <1>5, AheadTypes
  <1>7. /\ Starts[p + 1] = Starts[p] + Sizes[p] /\ Starts[p] \in Nat /\ Sizes[p] \in Nat
    BY <1>1, <1>2, <1>5, PartsAdd
  <1>8. /\ buf[c].limit = Sizes[p] /\ buf[c].offR >= buf[c].limit /\ Len(delivered) = Starts[p] + buf[c].offR
    BY <1>1, <1>3, <1>5, <1>6 DEF Content, Returned, cur, Reading
  <1>9. /\ buf[c].offR <= buf[c].offW /\ buf[c].offW <= buf[c].limit
        /\ buf[c].offR \in Int /\ buf[c].offW \in Int /\ buf[c].limit \in Int
    BY <1>1, <1>6, DataTypes DEF Offsets
  <1>10. buf[c].offW = Sizes[p] /\ Len(delivered) = Starts[p + 1]
    BY <1>7, <1>8, <1>9
  <1>11. ASSUME NEW ch \in Chunk, NEW n \in Nat, Task(ch, n), n < ch.size, ch.id = p PROVE FALSE
    <2>1. ch.start + ch.size = Starts[p + 1] /\ buf[c].offW = ch.start + n - Starts[p]
      BY <1>6, <1>11 DEF Task
    <2>2. ch.start \in Nat /\ ch.size \in Nat
      BY ChunkTypes
    <2> QED BY <1>7, <1>10, <1>11, <2>1, <2>2
  <1> QED BY <1>2, <1>4, <1>5, <1>6, <1>10, <1>11

LEMMA AdvanceParts ==
  ASSUME OrderInv, SlotInv', cfg' = cfg, Advances
  PROVE  Offsets' /\ Placed' /\ Filled' /\ Opened' /\ Content' /\ Tasks'
  <1> DEFINE p == reader.pos
             c == reader.curBuf
  <1>1. Shape /\ Shape' /\ Offsets
    BY DEF OrderInv, BlockInv, SlotInv
  <1>2. /\ UNCHANGED <<hc, nextChunk, buf, worker, chunkCh>> /\ reader.st = "partEnd"
        /\ reader'.pos = p + 1 /\ reader'.curBuf = c
    BY DEF Advances, Stays
  <1>3. /\ hc # -1 /\ Holds /\ p \in Ahead /\ p < nextChunk /\ p \in 0..(maxPart - 1) /\ BlockOf[p] = c
        /\ \A ch \in Chunk : \A n \in Nat : Task(ch, n) /\ n < ch.size => ch.id # p
    BY <1>2, PartIsDone
  <1>4. Placed /\ Filled /\ Opened /\ Content /\ Tasks /\ c # 0
    BY <1>3 DEF OrderInv, Holds
  <1>5. /\ Starts' = Starts /\ Sizes' = Sizes /\ PartSize' = PartSize /\ maxPart' = maxPart
    BY SameRange
  <1>6. /\ p \in Nat /\ nextChunk \in Nat /\ nextChunk <= maxPart /\ maxPart \in Nat
        /\ \A j \in Ahead : j \in Ids /\ j \in Nat /\ j <= maxPart /\ p <= j /\ j <= nextChunk
        /\ nextChunk \in Ids /\ nextChunk \in Ahead /\ DOMAIN bufMap = Ids
    BY <1>1, <1>3, AheadTypes, PartsAdd, BlockTypes DEF Ahead
  <1>7. /\ \A j \in Ids : BlockOf[j] = IF j = p THEN c ELSE bufMap[j]
        /\ \A j \in Ids : BlockOf'[j] = IF j = p + 1 /\ Holds' THEN c ELSE bufMap'[j]
    BY <1>1, <1>2, <1>3 DEF BlockOf
  <1>8. \A j \in Ahead : j # p => j \in Ahead'
    BY <1>2, <1>6 DEF Ahead
  <1>9. \A j \in Ahead' : j \in Ahead /\ j # p /\ j \in Ids /\ j \in Nat /\ p < j
    BY <1>2, <1>6 DEF Ahead
  <1>10. \/ p + 1 = maxPart /\ reader'.st = "eof" /\ bufMap' = bufMap
         \/ /\ p + 1 < maxPart /\ bufMap[nextChunk] = 0 /\ reader'.st = "sendTask"
            /\ bufMap' = [bufMap EXCEPT ![nextChunk] = c]
         \/ /\ p + 1 < maxPart /\ bufMap[nextChunk] # 0 /\ reader'.st = "closePrev" /\ bufMap' = bufMap
    BY DEF Advances
  <1>11. bufMap[nextChunk] # 0 => nextChunk = maxPart
    BY <1>2, <1>4, <1>6 DEF Placed
  \* The blocks behind the step are those before it, the part's own one last.
  <1>12. /\ \A j \in Ahead' : j < nextChunk => BlockOf'[j] = BlockOf[j]
         /\ BlockOf'[nextChunk] \in {c, BlockOf[nextChunk]}
    <2>1. CASE p + 1 = maxPart /\ reader'.st = "eof" /\ bufMap' = bufMap
      <3>1. nextChunk = p + 1
        BY <1>3, <1>6, <2>1
      <3> QED BY <1>6, <1>7, <1>9, <2>1, <3>1
    <2>2. CASE reader'.st = "sendTask" /\ bufMap' = [bufMap EXCEPT ![nextChunk] = c]
      <3>1. ~Holds'
        BY <2>2 DEF Holds, Between
      <3> QED BY <1>6, <1>7, <1>9, <2>2, <3>1
    <2>3. CASE reader'.st = "closePrev" /\ bufMap' = bufMap
      <3>1. ~Holds'
        BY <2>3 DEF Holds, Between
      <3> QED BY <1>3, <1>6, <1>7, <1>9, <2>3, <3>1
    <2> QED BY <1>10, <2>1, <2>2, <2>3
  <1>13. Filled'
    <2>1. \A j \in Ahead' : j < nextChunk => BlockOf'[j] # 0
      BY <1>4, <1>9, <1>12 DEF Filled
    <2>2. \A i, j \in Ahead : i # j /\ BlockOf[i] = BlockOf[j] => BlockOf[i] = 0
      BY <1>4 DEF Filled
    <2>3. \A i \in Ahead' : i # nextChunk => i < nextChunk
      BY <1>6, <1>9
    <2>4. ASSUME NEW i \in Ahead', i < nextChunk, BlockOf'[i] = BlockOf'[nextChunk] PROVE BlockOf'[i] = 0
      <3>1. BlockOf'[i] = BlockOf[i] /\ i \in Ahead /\ i # p /\ i # nextChunk
        BY <1>6, <1>9, <1>12, <2>4
      <3> QED BY <1>3, <1>6, <1>12, <2>2, <2>4, <3>1
    <2>5. \A i, j \in Ahead' : i # j /\ BlockOf'[i] = BlockOf'[j] => BlockOf'[i] = 0
      BY <1>9, <1>12, <2>2, <2>3, <2>4
    <2> QED BY <1>2, <2>1, <2>5 DEF Filled
  <1>14. Opened'
    <2>1. \A j \in Ahead : BlockOf[j] # 0 => buf[BlockOf[j]].open
      BY <1>2, <1>4 DEF Opened
    <2>2. buf[c].open
      BY <1>3, <1>4, <2>1
    <2>3. \A j \in Ahead' : j < nextChunk \/ j = nextChunk
      BY <1>6, <1>9
    <2>4. \A j \in Ahead' : BlockOf'[j] # 0 => buf[BlockOf'[j]].open
      BY <1>6, <1>9, <1>12, <2>1, <2>2, <2>3
    <2> QED BY <1>2, <2>4 DEF Opened
  <1>15. Content'
    <2>1. \A j \in Ahead' : ~(j = p /\ Holds)
      BY <1>9
    <2> QED BY <1>2, <1>4, <1>5, <1>9, <1>12, <2>1 DEF Content
  <1>16. ASSUME NEW ch \in Chunk, NEW n \in Nat, Task(ch, n), n < ch.size PROVE TaskNext(ch, n)
    <2>1. ch.id # p /\ ch.id \in Ahead /\ ch.id < nextChunk
      BY <1>3, <1>16 DEF Task
    <2>2. ch.id \in Ahead' /\ BlockOf'[ch.id] = BlockOf[ch.id]
      BY <1>6, <1>8, <1>12, <2>1
    <2> QED BY <1>2, <1>5, <1>16, <2>1, <2>2 DEF Task, TaskNext
  <1>17. Tasks'
    <2>1. /\ \A i \in DOMAIN chunkCh : ~Empty(chunkCh[i]) => TaskNext(chunkCh[i], 0)
          /\ \A w \in Workers : Busy(w) => TaskNext(worker[w].ch, worker[w].n)
      <3>1. ASSUME NEW i \in DOMAIN chunkCh, ~Empty(chunkCh[i]) PROVE TaskNext(chunkCh[i], 0)
        <4>1. chunkCh[i] \in Chunk /\ Task(chunkCh[i], 0)
          BY <1>1, <1>4, <3>1, TaskTypes DEF Tasks
        <4>2. 0 < chunkCh[i].size
          BY <3>1, <4>1, ChunkTypes DEF Empty
        <4> QED BY <1>16, <4>1, <4>2
      <3>2. ASSUME NEW w \in Workers, Busy(w) PROVE TaskNext(worker[w].ch, worker[w].n)
        BY <1>1, <1>4, <1>16, <3>2, TaskTypes DEF Tasks, Busy
      <3> QED BY <3>1, <3>2
    <2> QED BY <1>1, <1>2, <1>4, <2>1, TasksStay
  <1>18. Placed'
    <2>1. p + 1 <= nextChunk /\ reader'.st \in {"eof", "sendTask", "closePrev"}
      BY <1>3, <1>6, <1>10
    <2>2. Holds' => p + 1 = maxPart
      BY <1>10 DEF Holds, Between
    <2>3. reader'.st = "closePrev" => p + 1 < nextChunk
      BY <1>10, <1>11
    <2>4. reader'.st = "sendTask" => bufMap'[nextChunk] = reader'.curBuf
      BY <1>2, <1>6, <1>10
    <2>5. \A j \in Ids : j > nextChunk => bufMap'[j] = 0
      <3>1. \A j \in Ids : j > nextChunk => bufMap[j] = 0 /\ j # nextChunk
        BY <1>4, <1>6, RangeFacts DEF Placed
      <3> QED BY <1>6, <1>10, <3>1
    <2>6. bufMap'[nextChunk] # 0 /\ nextChunk < maxPart => reader'.st = "sendTask"
      BY <1>6, <1>10, <1>11
    <2>7. reader'.st = "closePrev" => \A j \in Ahead' : bufMap'[j] # c
      <3>1. \A j \in Ahead : j # p => BlockOf[j] # c
        BY <1>3, <1>4 DEF Filled
      <3> QED BY <1>7, <1>9, <1>10, <3>1
    <2> QED BY <1>2, <1>5, <1>6, <2>1, <2>2, <2>3, <2>4, <2>5, <2>6, <2>7 DEF Placed
  <1>19. Offsets'
    BY <1>1, <1>2, <1>5 DEF Offsets
  <1> QED BY <1>13, <1>14, <1>15, <1>17, <1>18, <1>19

-----------------------------------------------------------------------------
\* The tasks behind a send.
LEMMA SendTasks ==
  ASSUME Shape, Tasks, Similar,
         \A ch \in Chunk : \A n \in Nat : Task(ch, n) => TaskNext(ch, n),
         \/ chunkCh' = chunkCh
         \/ \E ch \in Chunk : chunkCh' = Append(chunkCh, ch) /\ TaskNext(ch, 0) /\ ch.id = nextChunk
  PROVE  Tasks'
  <1>1. chunkCh \in Seq(Chunk) /\ nextChunk \in Nat
    BY AheadTypes DEF Shape, ChTypes
  <1>2. /\ \A i \in DOMAIN chunkCh : ~Empty(chunkCh[i]) => TaskNext(chunkCh[i], 0) /\ chunkCh[i].id < nextChunk
        /\ \A u \in Workers : Busy(u) => /\ TaskNext(worker[u].ch, worker[u].n)
                                         /\ worker[u].ch.id < nextChunk
    BY TaskTypes DEF Tasks, Task
  <1>3. \A u \in Workers : BusyNext(u) => /\ Busy(u) /\ worker'[u].ch = worker[u].ch
                                          /\ worker'[u].n = worker[u].n
    BY DEF Similar, Busy, BusyNext, HasPart
  <1>4. \A i \in DOMAIN chunkCh' :
            \/ i \in DOMAIN chunkCh /\ chunkCh'[i] = chunkCh[i]
            \/ i = Len(chunkCh) + 1 /\ TaskNext(chunkCh'[i], 0) /\ chunkCh'[i].id = nextChunk
    <2>1. ASSUME NEW ch \in Chunk, chunkCh' = Append(chunkCh, ch), TaskNext(ch, 0), ch.id = nextChunk
          PROVE  \A i \in DOMAIN chunkCh' :
                    \/ i \in DOMAIN chunkCh /\ chunkCh'[i] = chunkCh[i]
                    \/ i = Len(chunkCh) + 1 /\ TaskNext(chunkCh'[i], 0) /\ chunkCh'[i].id = nextChunk
      <3>1. \A i \in DOMAIN chunkCh' :
               \/ i \in DOMAIN chunkCh /\ chunkCh'[i] = chunkCh[i]
               \/ i = Len(chunkCh) + 1 /\ chunkCh'[i] = ch
        BY <1>1, <2>1, AppendProperties
      <3> QED BY <2>1, <3>1
    <2> QED BY <2>1
  <1>5. \A i \in DOMAIN chunkCh' : ~Empty(chunkCh'[i]) => TaskNext(chunkCh'[i], 0)
    BY <1>2, <1>4
  <1>6. \A u \in Workers : BusyNext(u) => TaskNext(worker'[u].ch, worker'[u].n)
    BY <1>2, <1>3
  <1>7. \A i, j \in DOMAIN chunkCh' :
            ~Empty(chunkCh'[i]) /\ ~Empty(chunkCh'[j]) /\ chunkCh'[i].id = chunkCh'[j].id => i = j
    <2>1. \A i \in DOMAIN chunkCh : ~Empty(chunkCh[i]) => chunkCh[i].id # nextChunk
      BY <1>1, <1>2
    <2> QED BY <1>4, <2>1 DEF Tasks
  <1>8. \A u, v \in Workers : BusyNext(u) /\ BusyNext(v) /\ worker'[u].ch.id = worker'[v].ch.id => u = v
    BY <1>3 DEF Tasks
  <1>9. \A u \in Workers, i \in DOMAIN chunkCh' :
            BusyNext(u) /\ ~Empty(chunkCh'[i]) => worker'[u].ch.id # chunkCh'[i].id
    <2>1. \A u \in Workers : BusyNext(u) => worker'[u].ch.id # nextChunk
      BY <1>1, <1>2, <1>3
    <2> QED BY <1>3, <1>4, <2>1 DEF Tasks
  <1> QED BY <1>5, <1>6, <1>7, <1>8, <1>9 DEF Tasks, Task, TaskNext, Busy, BusyNext, Empty

\* Where the reader is when somebody sends.
LEMMA SendPlace ==
  ASSUME SlotInv, SendKind
  PROVE  /\ reader'.pos = reader.pos /\ reader'.curBuf = reader.curBuf /\ (Holds' <=> Holds)
         /\ reader'.st \in {"sendTask", "sending", "closePrev", "ready", "closing"} => reader'.st = reader.st
  <1>1. Shape /\ SameReader
    BY DEF SlotInv, SendKind
  <1>2. reader.st = "first" => reader.curBuf = 0
    BY <1>1 DEF Shape, Stage, Early
  <1>3. /\ reader.st # "first" => (reader'.st \in Between <=> reader.st \in Between)
        /\ reader'.st \in {"sendTask", "sending", "closePrev", "ready", "closing"} => reader'.st = reader.st
    BY DEF SendKind, Between
  <1> QED BY <1>1, <1>2, <1>3 DEF Holds, SameReader

\* The next part has its block.
LEMMA PreparedParts ==
  ASSUME OrderInv, SlotInv', cfg' = cfg, SendKind, NEW b \in Buffers, Prepare(b), pos < maxPos,
         \/ chunkCh' = chunkCh
         \/ \E nc \in BOOLEAN : chunkCh' = Append(chunkCh, NextChunk(nc, b))
  PROVE  /\ Offsets' /\ Placed' /\ Filled' /\ Opened' /\ Content' /\ Tasks'
         /\ reader.st \in Reading => buf'[reader.curBuf] = buf[reader.curBuf]
  <1> DEFINE m == nextChunk
  <1>1. Shape /\ SlotInv /\ Offsets /\ maxPart > 1 /\ maxPart \in Nat /\ PartSize \in Nat
    BY SendFrame, PartsAdd DEF OrderInv, BlockInv, SlotInv
  <1>2. /\ hc >= 0 /\ hc \in Int /\ m \in 0..(maxPart - 1) /\ m \in Ids /\ nextChunk' = m + 1
        /\ bufMap' = [bufMap EXCEPT ![m] = b]
        /\ \/ bufMap[m] = b
           \/ bufMap[m] = 0 /\ b = hc + 1
        /\ Touches(b) /\ buf'[b].open
        /\ buf'[b].limit = ChunkSize(m) /\ buf'[b].offR = 0 /\ buf'[b].offW = 0
        /\ \A nc \in BOOLEAN : NextChunk(nc, b) \in Chunk
    BY <1>1, PrepareFacts DEF Shape, Counts
  <1>3. hc # -1
    BY <1>2
  <1>4. Placed /\ Filled /\ Opened /\ Content /\ Tasks
    BY <1>3 DEF OrderInv
  <1>5. /\ reader'.pos = reader.pos /\ reader'.curBuf = reader.curBuf /\ (Holds' <=> Holds)
        /\ reader'.st \in {"sendTask", "sending", "closePrev", "ready", "closing"} => reader'.st = reader.st
    BY <1>1, SendPlace
  <1>6. /\ Starts' = Starts /\ Sizes' = Sizes /\ PartSize' = PartSize /\ maxPart' = maxPart
    BY SameRange
  <1>7. /\ Sizes[m] \in 1..PartSize /\ Sizes[m] = ChunkSize(m) /\ Starts[m] \in Nat /\ pos = Starts[m]
        /\ Starts[m + 1] = Starts[m] + Sizes[m]
    BY <1>1, <1>2, PartsAdd
  <1>8. /\ reader.pos \in Nat /\ reader.pos <= m /\ m + 1 \in Ids /\ m + 1 # reader.pos /\ m + 1 # m
        /\ DOMAIN bufMap = Ids /\ \A c \in Buffers : c \in Nat \ {0}
    <2>1. -1..maxPart \subseteq Ids
      BY <1>1, RangeFacts DEF Shape
    <2> QED BY <1>1, <1>2, <1>4, <2>1, AheadTypes, BlockTypes DEF Placed
  <1>9. /\ \A j \in Ahead : j \in Ids /\ j \in Nat /\ (j < m \/ j = m) /\ reader.pos <= j
        /\ \A j \in Ahead' : j \in Ahead \/ j = m + 1
        /\ \A j \in Ahead : j \in Ahead'
        /\ m \in Ahead /\ m + 1 \in Ahead'
    BY <1>1, <1>2, <1>5, <1>8, AheadTypes DEF Ahead
  <1>10. ~(m = reader.pos /\ Holds)
    BY <1>1, <1>2, <1>4 DEF Placed
  <1>11. /\ \A j \in Ids : BlockOf[j] = IF j = reader.pos /\ Holds THEN reader.curBuf ELSE bufMap[j]
         /\ \A j \in Ids : BlockOf'[j] = IF j = reader.pos /\ Holds THEN reader.curBuf ELSE bufMap'[j]
    BY <1>5 DEF BlockOf
  <1>12. \A j \in Ids : bufMap'[j] = IF j = m THEN b ELSE bufMap[j]
    BY <1>2, <1>8
  <1>13. /\ \A j \in Ahead : j < m => BlockOf'[j] = BlockOf[j] /\ j # m
         /\ BlockOf[m] = bufMap[m] /\ BlockOf'[m] = b /\ BlockOf'[m + 1] = 0
    <2>1. \A j \in Ahead : j < m => j # m
      BY <1>2, <1>9
    <2>2. bufMap[m + 1] = 0
      BY <1>2, <1>4, <1>8 DEF Placed
    <2> QED BY <1>2, <1>8, <1>9, <1>10, <1>11, <1>12, <2>1, <2>2
  <1>14. \A j \in Ahead : j < m => BlockOf[j] # b /\ BlockOf[j] # 0 /\ BlockOf[j] \in Buffers
    <2>1. \A j \in Ahead : j < m => BlockOf[j] # 0 /\ BlockOf[j] \in Buffers
      BY <1>1, <1>4, <1>9, AheadTypes DEF Filled
    <2>2. CASE bufMap[m] = b
      BY <1>4, <1>9, <1>13, <2>1, <2>2 DEF Filled
    <2>3. CASE b = hc + 1
      <3>1. reader.curBuf <= hc /\ \A j \in Ids : bufMap[j] <= hc
        BY <1>3 DEF OrderInv, BlockInv, KnownBlocks
      <3>2. ~(b <= hc)
        BY <1>2, <2>3
      <3> QED BY <1>9, <1>11, <2>1, <3>1, <3>2
    <2> QED BY <1>2, <2>1, <2>2, <2>3
  <1>15. \A c \in Buffers : c # b => buf'[c] = buf[c]
    BY <1>2 DEF Touches
  <1>16. Offsets'
    <2>1. buf'[b].offR = 0 /\ buf'[b].offW = 0 /\ buf'[b].limit = Sizes[m]
      BY <1>2, <1>7
    <2> QED BY <1>1, <1>6, <1>7, <1>15, <2>1 DEF Offsets
  <1>17. Filled'
    <2>1. ASSUME NEW j \in Ahead', j < m + 1 PROVE BlockOf'[j] # 0 /\ j \in Ahead
      <3>1. j \in Ahead
        BY <1>2, <1>9, <2>1
      <3> QED BY <1>8, <1>9, <1>13, <1>14, <3>1
    <2>2. ASSUME NEW i \in Ahead', NEW j \in Ahead', i # j, BlockOf'[i] = BlockOf'[j] PROVE BlockOf'[i] = 0
      <3>1. CASE i = m + 1 \/ j = m + 1
        BY <1>13, <2>2, <3>1
      <3>2. CASE i \in Ahead /\ j \in Ahead
        <4>1. CASE i = m \/ j = m
          BY <1>9, <1>13, <1>14, <2>2, <3>2, <4>1
        <4>2. CASE i # m /\ j # m
          BY <1>4, <1>9, <1>13, <2>2, <3>2, <4>2 DEF Filled
        <4> QED BY <4>1, <4>2
      <3> QED BY <1>9, <3>1, <3>2
    <2> QED BY <1>2, <2>1, <2>2 DEF Filled
  <1>18. Opened'
    <2> SUFFICES ASSUME reader'.st # "closing", NEW j \in Ahead', BlockOf'[j] # 0 PROVE buf'[BlockOf'[j]].open
      BY DEF Opened
    <2>1. reader.st # "closing"
      BY DEF SendKind, Early, Single
    <2>2. j \in Ahead
      BY <1>9, <1>13
    <2>3. CASE j = m
      BY <1>2, <1>13, <2>3
    <2>4. CASE j < m
      BY <1>4, <1>13, <1>14, <1>15, <2>1, <2>2, <2>4 DEF Opened
    <2> QED BY <1>9, <2>2, <2>3, <2>4
  <1>19. Content'
    <2> SUFFICES ASSUME NEW j \in Ahead', j < m + 1
                 PROVE  LET c == BlockOf'[j]
                        IN  /\ buf'[c].limit = Sizes[j]
                            /\ \A i \in 0..(PartSize - 1) :
                                  i < buf'[c].offW => buf'[c].block[i] = Starts[j] + i
                            /\ ~(j = reader.pos /\ Holds) => buf'[c].offR = 0
      BY <1>2, <1>5, <1>6 DEF Content
    <2>1. j \in Ahead
      BY <1>2, <1>9
    <2>2. CASE j = m
      <3>1. \A i \in 0..(PartSize - 1) : ~(i < 0)
        BY <1>1
      <3> QED BY <1>2, <1>7, <1>13, <2>2, <3>1
    <2>3. CASE j < m
      BY <1>4, <1>13, <1>14, <1>15, <2>1, <2>3 DEF Content
    <2> QED BY <1>9, <2>1, <2>2, <2>3
  <1>20. ASSUME NEW ch \in Chunk, NEW n \in Nat, Task(ch, n) PROVE TaskNext(ch, n)
    <2>1. ch.id \in Ahead /\ ch.id < m /\ ch.buf = BlockOf[ch.id]
      BY <1>20 DEF Task
    <2>2. buf'[ch.buf] = buf[ch.buf] /\ ch.buf = BlockOf'[ch.id] /\ ch.id \in Ahead'
      BY <1>9, <1>13, <1>14, <1>15, <2>1
    <2>3. ch.id < nextChunk'
      BY <1>2, <1>9, <2>1
    <2> QED BY <1>6, <1>20, <2>2, <2>3 DEF Task, TaskNext
  <1>21. ASSUME NEW nc \in BOOLEAN PROVE TaskNext(NextChunk(nc, b), 0) /\ NextChunk(nc, b).id = nextChunk
    <2> DEFINE ch == NextChunk(nc, b)
    <2>1. ch.start = pos /\ ch.size = ChunkSize(m) /\ ch.id = m /\ ch.buf = b
      BY DEF NextChunk
    <2> HIDE DEF ch
    <2>2. ch.id \in Ahead' /\ ch.id < nextChunk' /\ ch.buf = BlockOf'[ch.id]
      BY <1>2, <1>9, <1>13, <2>1
    <2>3. ch.start + ch.size = Starts'[ch.id + 1]
      BY <1>6, <1>7, <2>1
    <2>4. buf'[ch.buf].offW = ch.start + 0 - Starts'[ch.id]
      BY <1>2, <1>6, <1>7, <2>1
    <2>5. TaskNext(ch, 0) /\ ch.id = nextChunk
      BY <2>1, <2>2, <2>3, <2>4 DEF TaskNext
    <2> QED BY <2>5 DEF ch
  <1>22. Tasks'
    <2>1. \/ chunkCh' = chunkCh
          \/ \E ch \in Chunk : chunkCh' = Append(chunkCh, ch) /\ TaskNext(ch, 0) /\ ch.id = nextChunk
      BY <1>2, <1>21
    <2>2. Similar
      BY DEF SendKind
    <2> QED BY <1>1, <1>4, <1>20, <2>1, <2>2, SendTasks
  <1>23. Placed'
    <2>1. reader'.pos <= m + 1 /\ reader'.pos < m + 1
      BY <1>2, <1>5, <1>8
    <2>2. \A j \in Ids : j > m + 1 => bufMap'[j] = 0
      <3>1. \A j \in Ids : j > m + 1 => j > m /\ j # m
        BY <1>1, <1>2, RangeFacts DEF Shape
      <3> QED BY <1>4, <1>12, <3>1 DEF Placed
    <2>3. bufMap'[m + 1] = 0
      BY <1>2, <1>4, <1>8, <1>12 DEF Placed
    <2>4. ASSUME reader'.st = "closePrev", NEW j \in Ahead' PROVE bufMap'[j] # reader'.curBuf
      <3>1. reader.st = "closePrev" /\ reader.curBuf # 0
        BY <1>1, <1>5, <2>4 DEF Shape, Stage, Between
      <3>2. CASE j = m + 1
        BY <1>5, <2>3, <3>1, <3>2
      <3>3. CASE j \in Ahead /\ j # m
        BY <1>4, <1>5, <1>9, <1>12, <3>1, <3>3 DEF Placed
      <3>4. CASE j = m
        <4>1. bufMap[m] = 0
          BY <1>1, <1>2, <1>4, <3>1 DEF Placed
        <4>2. b = hc + 1 /\ reader.curBuf <= hc /\ reader.curBuf \in Nat
          BY <1>1, <1>2, <1>3, <1>8, <4>1, BlockTypes DEF OrderInv, BlockInv, KnownBlocks
        <4>3. b # reader.curBuf
          BY <1>2, <4>2
        <4> QED BY <1>2, <1>5, <1>12, <3>4, <4>3
      <3> QED BY <1>9, <3>2, <3>3, <3>4
    <2>5. reader'.st = "ready" => reader'.curBuf # 0
      BY <1>4, <1>5 DEF Placed
    <2> QED BY <1>2, <2>1, <2>2, <2>3, <2>4, <2>5 DEF Placed
  <1>24. ASSUME reader.st \in Reading PROVE buf'[reader.curBuf] = buf[reader.curBuf]
    <2>1. reader.curBuf # 0 /\ reader.pos < maxPart
      BY <1>1, <1>4, <1>24 DEF Shape, Stage, ReaderTypes, Placed, Reading
    <2>2. Holds
      BY <1>24, <2>1 DEF Holds, Reading, Between
    <2>3. reader.pos < m /\ reader.pos \in Ahead /\ reader.pos \in Ids
      BY <1>1, <1>4, <2>1, <2>2, AheadTypes DEF Placed, Ahead
    <2>4. BlockOf[reader.pos] = reader.curBuf
      BY <1>11, <2>2, <2>3
    <2> QED BY <1>14, <1>15, <2>3, <2>4
  <1> QED BY <1>16, <1>17, <1>18, <1>19, <1>22, <1>23, <1>24

\* Nothing was sent.  The reader goes on all the same: there is no part left, or the
\* part it turns to has been sent before.
LEMMA UnsentParts ==
  ASSUME OrderInv, SlotInv', SendKind, NotSent, hc # -1,
         reader.st \in {"sendTask", "sending"} /\ reader'.st = "pop" => NoTask(FALSE) \/ SendFails(FALSE)
  PROVE  Offsets' /\ Placed' /\ Filled' /\ Opened' /\ Content' /\ Tasks'
  <1>1. Shape /\ SlotInv /\ Offsets /\ maxPart > 1 /\ maxPart \in Nat /\ PartSize \in Nat /\ cfg' = cfg
    BY SendFrame, PartsAdd DEF OrderInv, BlockInv, SlotInv
  <1>2. Placed /\ Filled /\ Opened /\ Content /\ Tasks
    BY DEF OrderInv
  <1>3. UNCHANGED <<pos, nextChunk, hc, bufMap, buf, chunkCh>>
    BY DEF NotSent
  <1>4. /\ reader'.pos = reader.pos /\ reader'.curBuf = reader.curBuf /\ (Holds' <=> Holds)
        /\ reader'.st \in {"sendTask", "sending", "closePrev", "ready", "closing"} => reader'.st = reader.st
    BY <1>1, SendPlace
  <1>5. /\ Starts' = Starts /\ Sizes' = Sizes /\ PartSize' = PartSize /\ maxPart' = maxPart
    BY <1>1, SameRange
  <1>6. BlockOf' = BlockOf /\ Ahead' = Ahead
    BY <1>3, <1>4 DEF BlockOf, Ahead
  <1>7. Filled' /\ Offsets'
    BY <1>1, <1>2, <1>3, <1>5, <1>6 DEF Filled, Offsets
  <1>8. Opened'
    <2>1. reader'.st # "closing" => reader.st # "closing"
      BY DEF SendKind, Early, Single
    <2> QED BY <1>2, <1>3, <1>6, <2>1 DEF Opened
  <1>9. Content'
    BY <1>2, <1>3, <1>4, <1>5, <1>6 DEF Content
  <1>10. Tasks'
    <2>1. \A ch \in Chunk : \A n \in Nat : Task(ch, n) => TaskNext(ch, n)
      BY <1>3, <1>5, <1>6 DEF Task, TaskNext
    <2>2. Similar
      BY DEF SendKind
    <2> QED BY <1>1, <1>2, <1>3, <2>1, <2>2, SendTasks
  <1>11. ASSUME reader.st \in {"sendTask", "sending"}, reader'.st = "pop"
         PROVE  reader.pos < nextChunk /\ (nextChunk < maxPart => bufMap[nextChunk] = 0)
    <2>1. /\ maxPos = cfg.Length /\ reader.pos < maxPart /\ reader.curBuf # 0 /\ ~Holds
      BY <1>1, <1>11 DEF Shape, Stage, ReaderTypes, Between, Holds
    <2>2. /\ nextChunk \in 0..maxPart /\ pos = Starts[nextChunk] /\ Starts[maxPart] = cfg.Length
          /\ \A i \in 0..(maxPart - 1) : /\ Sizes[i] \in 1..PartSize /\ Sizes[i] = ChunkSize(i)
                                         /\ Starts[i] \in Nat /\ Starts[i] < cfg.Length
          /\ cfg.Length \in Nat
      BY <1>1, PartsAdd
    <2>3. CASE NoTask(FALSE)
      <3>1. pos >= maxPos
        BY <2>3 DEF NoTask
      <3>2. nextChunk = maxPart
        BY <1>1, <2>1, <2>2, <3>1
      <3> QED BY <1>1, <2>1, <3>2
    <2>4. CASE SendFails(FALSE)
      <3>1. ~(pos >= maxPos) /\ (\/ bufMap[nextChunk] = 0
                                 \/ \E b \in Buffers : bufMap[nextChunk] = b /\ ~buf[b].open
                                 \/ ChunkSize(nextChunk) > PartSize)
        BY <2>4 DEF SendFails, NoTask, NeedsSlot
      <3>2. nextChunk # maxPart
        BY <2>1, <2>2, <3>1
      <3>3. nextChunk \in 0..(maxPart - 1)
        BY <1>1, <2>2, <3>2
      <3>4. ~(ChunkSize(nextChunk) > PartSize)
        BY <1>1, <2>2, <3>3
      <3>5. nextChunk \in Ahead /\ nextChunk \in Ids /\ 0 \notin Buffers
        BY <1>1, <1>2, AheadTypes DEF Placed, Ahead
      <3>6. BlockOf[nextChunk] = bufMap[nextChunk]
        BY <1>1, <2>1, <3>5, AheadTypes
      <3>7. bufMap[nextChunk] = 0
        <4> SUFFICES ASSUME NEW b \in Buffers, bufMap[nextChunk] = b, ~buf[b].open PROVE FALSE
          BY <3>1, <3>4
        <4> QED BY <1>2, <1>11, <3>5, <3>6 DEF Opened
      <3>8. reader.pos < nextChunk
        BY <1>2, <1>11, <2>1, <3>7 DEF Placed
      <3> QED BY <3>7, <3>8
    <2> QED BY <1>11, <2>3, <2>4
  <1>12. Placed'
    <2>1. \/ reader'.st = "open" /\ Sent(TRUE)
          \/ reader'.st = "interrupt" /\ reader.st = "first"
          \/ reader'.st = "pop" /\ reader.st \in {"sendTask", "sending"}
          \/ reader' = reader
      BY DEF SendKind
    <2>2. CASE reader' = reader
      BY <1>2, <1>3, <1>4, <1>5, <1>6, <2>2 DEF Placed
    <2>3. CASE reader'.st = "interrupt" /\ reader.st = "first"
      BY <1>2, <1>3, <1>4, <1>5, <1>6, <2>3 DEF Placed
    <2>4. CASE reader'.st = "pop" /\ reader.st \in {"sendTask", "sending"}
      BY <1>2, <1>3, <1>4, <1>5, <1>6, <1>11, <2>4 DEF Placed
    <2>5. ~(reader'.st = "open" /\ Sent(TRUE))
      <3> SUFFICES ASSUME Sent(TRUE) PROVE FALSE
        OBVIOUS
      <3>1. PICK b \in Buffers : Prepare(b)
        BY DEF Sent
      <3>2. nextChunk' = nextChunk + 1 /\ nextChunk \in Nat
        BY <1>1, <3>1, AheadTypes DEF Prepare
      <3> QED BY <1>3, <3>2
    <2> QED BY <2>1, <2>2, <2>3, <2>4, <2>5
  <1> QED BY <1>7, <1>8, <1>9, <1>10, <1>12

LEMMA SentParts ==
  ASSUME OrderInv, SlotInv', SendKind
  PROVE  Offsets' /\ (hc' # -1 => Placed' /\ Filled' /\ Opened' /\ Content' /\ Tasks')
  <1>1. cfg' = cfg
    BY DEF SendKind
  <1>2. CASE Sent(TRUE) \/ Sent(FALSE) \/ Dropped
    BY <1>1, <1>2, PreparedParts DEF Sent, Dropped
  <1>3. CASE /\ NotSent
             /\ reader.st \in {"sendTask", "sending"} /\ reader'.st = "pop" => NoTask(FALSE) \/ SendFails(FALSE)
    <2>1. hc' = hc /\ Offsets'
      <3>1. PartSize' = PartSize
        BY <1>1, SameRange
      <3> QED BY <1>3, <3>1 DEF OrderInv, NotSent, Offsets
    <2> QED BY <1>3, <2>1, UnsentParts
  <1> QED BY <1>2, <1>3 DEF SendKind

-----------------------------------------------------------------------------
LEMMA FreshKept ==
  ASSUME OrderInv, Kinds
  PROVE  Fresh'
  <1>1. Shape /\ Fresh
    BY DEF OrderInv, BlockInv, SlotInv
  <1>2. ASSUME NEW w \in Workers, WorkKind(w) PROVE Fresh'
    <2>1. PICK r \in WorkerRec : \/ Quits(w, r) \/ Takes(w, r) \/ Keeps(w, r) \/ Rests(w, r)
                                 \/ GoesIn(w, r) \/ ComesOut(w, r) \/ Retries(w, r)
      BY <1>2 DEF WorkKind
    <2>2. Labours(w, r)
      BY <2>1 DEF Quits, Takes, Keeps, Rests, GoesIn, ComesOut, Retries
    <2>3. worker'[w] = r /\ \A u \in Workers : u # w => worker'[u] = worker[u]
      BY <1>1, <2>2, LabourFacts
    <2>4. /\ r.st \in {"request", "requeue"} => r.n = 0
          /\ r.st = "writing" => r.k > 0
      BY <1>1, <2>1 DEF Quits, Takes, Keeps, Rests, GoesIn, ComesOut, Retries, Fresh
    <2> QED BY <1>1, <2>3, <2>4 DEF Fresh
  <1>3. CASE SendKind
    BY <1>1, <1>3 DEF SendKind, Similar, Fresh
  <1>4. CASE worker' = worker
    BY <1>1, <1>4 DEF Fresh
  <1>5. CASE Quiet \/ Announces \/ Enters \/ Leaves \/ Advances \/ Pops \/ Ends \/ \E b \in Buffers : Closes(b)
    BY <1>4, <1>5 DEF Quiet, Announces, Enters, Leaves, Advances, Pops, Ends, Closes, Stays
  <1> QED BY <1>2, <1>3, <1>5 DEF Kinds

-----------------------------------------------------------------------------
\* Read returns the next bytes of the range.
LEMMA LeaveReturns ==
  ASSUME OrderInv, cfg' = cfg, Leaves
  PROVE  Returned'
  <1> DEFINE p == reader.pos
             c == reader.curBuf
             k == reader.k
             o == buf[c].offR
             L == Len(delivered)
             got == [i \in 1..k |-> buf[c].block[o + i - 1]]
  <1>1. Shape /\ BufTypes /\ Returned /\ Offsets /\ Placed /\ Content
    BY DEF OrderInv, BlockInv, SlotInv, Shape, Leaves, Stage, Ending
  <1>2. /\ SameReader /\ c \in Buffers /\ buf'[c].limit = buf[c].limit
        /\ buf'[c].offR = o + k /\ buf'[c].offW = buf[c].offW
        /\ reader.st = "reading" /\ reader'.st \in {"ready", "partEnd"}
        /\ reader'.st = "partEnd" => o + k >= buf[c].limit
        /\ delivered' = delivered \o got
    BY DEF Leaves
  <1>3. p < maxPart /\ maxPart > 1 /\ k \in Nat /\ c # 0
    BY <1>1, <1>2, AheadTypes DEF Shape, ReaderTypes, ReaderRec, Reading, Single
  <1>4. Holds
    BY <1>2, <1>3 DEF Holds, Between
  <1>5. p \in Ahead /\ p < nextChunk /\ p \in 0..(maxPart - 1) /\ p \in Ids
    BY <1>1, <1>3, <1>4, AheadTypes, PartsAdd DEF Placed, Ahead
  <1>6. BlockOf[p] = c
    BY <1>1, <1>4, <1>5, AheadTypes
  <1>7. \A i \in 0..(PartSize - 1) : i < buf[c].offW => buf[c].block[i] = Starts[p] + i
    BY <1>1, <1>5, <1>6 DEF Content
  <1>8. /\ o \in Int /\ buf[c].offW \in Int /\ buf[c].limit \in Int /\ PartSize \in Nat /\ Starts[p] \in Nat
        /\ 0 <= o /\ buf[c].offW <= buf[c].limit /\ buf[c].limit <= PartSize
    BY <1>1, <1>2, <1>3, <1>5, DataTypes, PartsAdd DEF Offsets
  <1>9. o + k <= buf[c].offW /\ L = Starts[p] + o
    BY <1>1, <1>2 DEF Returned, cur, Reading
  <1>10. delivered \in Seq(Int) /\ L \in Nat /\ \A i \in 1..L : delivered[i] = i - 1
    BY <1>1 DEF Returned
  <1> HIDE DEF c, k, o, L, p
  <1>11. \A i \in 1..k : got[i] = L + i - 1
    <2> SUFFICES ASSUME NEW i \in 1..k PROVE got[i] = L + i - 1
      OBVIOUS
    <2>1. o + i - 1 \in 0..(PartSize - 1) /\ o + i - 1 < buf[c].offW
      BY <1>3, <1>8, <1>9
    <2>2. got[i] = buf[c].block[o + i - 1]
      OBVIOUS
    <2>3. got[i] = Starts[p] + (o + i - 1)
      BY <1>7, <2>1, <2>2
    <2> QED BY <1>3, <1>8, <1>9, <2>3
  <1>12. got \in Seq(Int) /\ Len(got) = k
    <2>1. \A i \in 1..k : got[i] \in Int
      BY <1>3, <1>10, <1>11
    <2>2. got \in [1..k -> Int]
      BY <2>1
    <2> QED BY <1>3, <2>2
  <1> HIDE DEF got
  <1>13. delivered' \in Seq(Int) /\ Len(delivered') = L + k
    BY <1>2, <1>10, <1>12 DEF L
  <1>14. \A i \in DOMAIN delivered' : delivered'[i] = i - 1
    <2> SUFFICES ASSUME NEW i \in 1..(L + k) PROVE delivered'[i] = i - 1
      BY <1>13
    <2>1. CASE i <= L
      <3>1. delivered'[i] = delivered[i]
        BY <1>2, <1>3, <1>10, <1>12, <2>1 DEF L
      <3> QED BY <1>10, <2>1, <3>1
    <2>2. CASE i > L
      <3>1. i - L \in 1..k
        BY <1>3, <1>10, <2>2
      <3>2. delivered'[i] = got[i - L]
        BY <1>2, <1>3, <1>10, <1>12, <2>2 DEF L
      <3>3. got[i - L] = L + (i - L) - 1
        BY <1>11, <3>1
      <3> QED BY <1>3, <1>10, <3>2, <3>3
    <2> QED BY <1>10, <2>1, <2>2
  <1>15. Len(delivered') = Starts[p] + (o + k)
    BY <1>3, <1>8, <1>9, <1>13
  <1>16. reader'.pos = p /\ reader'.curBuf = c
    BY <1>2 DEF SameReader, p, c
  <1>17. Starts' = Starts /\ maxPart' = maxPart
    BY SameRange
  <1>18. cur' = buf'[c]
    BY <1>16 DEF cur
  <1> QED BY <1>2, <1>13, <1>14, <1>15, <1>16, <1>17, <1>18 DEF Returned, Between, Early, Single

\* What was returned stays, and so does what is left to say of it.
LEMMA ReturnedStays ==
  ASSUME OrderInv, cfg' = cfg, delivered' = delivered,
         reader'.pos = reader.pos,
         reader'.st \in Reading => /\ reader'.curBuf = reader.curBuf /\ reader.st \in Reading
                                   /\ cur'.offR = cur.offR,
         reader'.st \in Between \cup {"open", "eof"} => Len(delivered) = Starts[reader.pos],
         reader'.st = "eof" => reader.pos = maxPart,
         reader'.st \in Early => reader.st \in Early,
         reader'.st = "reading" => cur'.offR + reader'.k <= cur'.offW,
         reader'.st = "partEnd" => cur'.offR >= cur'.limit
  PROVE  Returned'
  <1>1. Returned
    BY DEF OrderInv
  <1>2. Starts' = Starts /\ maxPart' = maxPart
    BY SameRange
  <1> QED BY <1>1, <1>2 DEF Returned

\* What was written moves the end of the block alone.
LEMMA WrittenOffsets ==
  ASSUME NEW br \in PipeBuffer, NEW start \in Int, NEW n \in Int, PartSize \in Int
  PROVE  LET r == Written(br, start, n)
         IN  r.offR = br.offR /\ r.limit = br.limit /\ r.offW = br.offW + n
  BY WrittenFacts

LEMMA ReturnedKept ==
  ASSUME OrderInv, SlotInv', cfg' = cfg, Kinds
  PROVE  Returned'
  <1>1. Shape /\ BufTypes /\ Returned /\ SlotInv
    BY DEF OrderInv, BlockInv, SlotInv, Shape
  <1>2. /\ reader.st \in Reading => Len(delivered) = Starts[reader.pos] + cur.offR
        /\ reader.st \in Between \cup {"open", "eof"} => Len(delivered) = Starts[reader.pos]
        /\ reader.st = "eof" => reader.pos = maxPart
        /\ reader.st \in Early => Len(delivered) = 0
        /\ reader.st = "reading" => cur.offR + reader.k <= cur.offW
        /\ reader.st = "partEnd" => cur.offR >= cur.limit
    BY <1>1 DEF Returned
  <1>3. Starts' = Starts /\ maxPart' = maxPart
    BY SameRange
  <1> USE DEF Reading, Between, Early, Single
  <1>4. CASE Quiet
    <2>1. delivered' = delivered /\ SameReader /\ buf' = buf
      BY <1>4 DEF Quiet
    <2>2. cur' = cur
      BY <2>1 DEF cur, SameReader
    <2>3. ~(reader.st = "ready" /\ reader.curBuf = 0)
      BY <1>1 DEF OrderInv, Placed, Shape, Stage, Ending
    <2>4. \/ reader' = reader
          \/ reader.st \in Single /\ reader'.st \in Early
          \/ reader'.st \in {"failed", "interrupt", "closing"}
          \/ reader.st = "ready" /\ cur.offR >= cur.limit /\ reader'.st = "partEnd"
          \/ reader.st = "sendTask" /\ reader'.st = "sending"
      BY <1>4, <2>3 DEF Quiet
    <2>5. CASE reader' = reader
      BY <1>2, <2>1, <2>2, <2>5, ReturnedStays
    <2>6. CASE reader' # reader
      BY <1>2, <2>1, <2>2, <2>4, <2>6, ReturnedStays DEF SameReader
    <2> QED BY <2>5, <2>6
  <1>5. CASE Announces \/ Enters
    <2>1. /\ delivered' = delivered /\ SameReader /\ SameData(reader.curBuf)
          /\ reader.st \in {"ready", "waiting"} /\ reader'.st \in {"waiting", "reading"}
          /\ reader'.st = "reading" => buf[reader.curBuf].offR + reader'.k <= buf[reader.curBuf].offW
      BY <1>5 DEF Announces, Enters
    <2>2. cur'.offR = cur.offR /\ cur'.offW = cur.offW /\ cur.offR = buf[reader.curBuf].offR
          /\ cur.offW = buf[reader.curBuf].offW
      BY <2>1 DEF cur, SameReader, SameData
    <2> QED BY <2>1, <2>2, ReturnedStays DEF SameReader
  <1>6. CASE Leaves
    BY <1>6, LeaveReturns
  <1>7. CASE Advances
    <2>1. /\ delivered' = delivered /\ reader.st = "partEnd" /\ reader'.pos = reader.pos + 1
          /\ reader'.st \in {"eof", "sendTask", "closePrev"}
          /\ reader'.st = "eof" => reader.pos + 1 = maxPart
      BY <1>7 DEF Advances
    <2>2. Len(delivered) = Starts[reader.pos + 1]
      BY <2>1, PartIsDone
    <2> QED BY <1>1, <1>3, <2>1, <2>2 DEF Returned
  <1>8. CASE Pops
    <2> DEFINE p == reader.pos
    <2>1. /\ delivered' = delivered /\ buf' = buf /\ reader.st \in {"open", "pop"} /\ reader'.st = "ready"
          /\ reader'.pos = p /\ reader'.curBuf = bufMap[p]
      BY <1>8 DEF Pops
    <2>2. ~Holds /\ hc # -1 /\ maxPart > 1 /\ p < maxPart
      BY <1>1, <2>1 DEF Holds, Shape, Stage, Ending, ReaderTypes
    <2>3. Placed /\ Content
      BY <2>2 DEF OrderInv
    <2>4. p \in Ahead /\ p < nextChunk /\ p \in Ids /\ p \in 0..(maxPart - 1)
      BY <1>1, <2>1, <2>2, <2>3, AheadTypes, PartsAdd DEF Placed, Ahead
    <2>5. BlockOf[p] = bufMap[p]
      BY <1>1, <2>2, <2>4, AheadTypes
    <2>6. buf[bufMap[p]].offR = 0
      BY <2>2, <2>3, <2>4, <2>5 DEF Content
    <2>7. cur'.offR = 0
      BY <2>1, <2>6 DEF cur
    <2>8. Starts[p] \in Nat
      BY <1>1, <2>2, <2>4, PartsAdd
    <2>9. Len(delivered') = Starts[p] + cur'.offR
      BY <1>2, <2>1, <2>7, <2>8
    <2> QED BY <1>1, <1>3, <2>1, <2>9 DEF Returned
  <1>9. CASE Ends
    <2>1. delivered' = delivered /\ SameReader /\ reader'.st = "closed"
      BY <1>9 DEF Ends
    <2> QED BY <2>1, ReturnedStays DEF SameReader
  <1>10. ASSUME NEW b \in Buffers, Closes(b) PROVE Returned'
    <2>1. /\ delivered' = delivered /\ SameReader
          /\ \/ reader.st = "closePrev" /\ reader'.st = "pop"
             \/ reader.st = "closing" /\ reader' = reader
      BY <1>10 DEF Closes
    <2> QED BY <1>2, <2>1, ReturnedStays DEF SameReader
  <1>11. CASE SendKind
    <2>1. delivered' = delivered /\ SameReader
      BY <1>11 DEF SendKind
    <2>2. \/ reader.st = "first" /\ reader'.st \in {"open", "interrupt"}
          \/ reader.st \in {"sendTask", "sending"} /\ reader'.st = "pop"
          \/ reader' = reader
      BY <1>11 DEF SendKind
    <2>3. CASE reader.st = "first" /\ reader'.st \in {"open", "interrupt"}
      <3>1. reader.pos = 0 /\ maxPart > 1
        BY <1>1, <2>3 DEF Shape, Stage, ReaderTypes
      <3>2. Starts[reader.pos] = 0
        BY <1>1, <3>1, PartsAdd
      <3> QED BY <1>2, <2>1, <2>3, <3>2, ReturnedStays DEF SameReader
    <2>4. CASE reader.st \in {"sendTask", "sending"} /\ reader'.st = "pop"
      BY <1>2, <2>1, <2>4, ReturnedStays DEF SameReader
    <2>5. CASE reader' = reader
      <3>1. reader.st \in Reading => buf'[reader.curBuf] = buf[reader.curBuf]
        <4>1. CASE NotSent
          BY <4>1 DEF NotSent
        <4>2. CASE Sent(TRUE) \/ Sent(FALSE) \/ Dropped
          BY <1>11, <4>2, PreparedParts DEF Sent, Dropped
        <4> QED BY <1>11, <4>1, <4>2 DEF SendKind
      <3>2. reader.st \in Reading => cur' = cur
        BY <2>5, <3>1 DEF cur
      <3> QED BY <1>2, <2>1, <2>5, <3>2, ReturnedStays
    <2> QED BY <2>2, <2>3, <2>4, <2>5
  <1>12. ASSUME NEW w \in Workers, WorkKind(w) PROVE Returned'
    <2>1. PICK r \in WorkerRec : \/ Quits(w, r) \/ Takes(w, r) \/ Keeps(w, r) \/ Rests(w, r)
                                 \/ GoesIn(w, r) \/ ComesOut(w, r) \/ Retries(w, r)
      BY <1>12 DEF WorkKind
    <2>2. reader' = reader /\ delivered' = delivered
      BY <2>1 DEF Quits, Takes, Keeps, Rests, GoesIn, ComesOut, Retries, Labours
    <2>3. CASE ~ComesOut(w, r)
      <3>1. \A b \in Buffers : SameData(b)
        BY <2>1, <2>3 DEF Quits, Takes, Keeps, Rests, GoesIn, Retries, Touches, SameData
      <3>2. reader.st \in Reading => reader.curBuf \in Buffers
        BY <1>1, AheadTypes DEF OrderInv, Placed, Shape, Stage, Ending
      <3>3. reader.st \in Reading => /\ cur'.offR = cur.offR /\ cur'.offW = cur.offW
                                     /\ cur'.limit = cur.limit
        BY <2>2, <3>1, <3>2 DEF SameData, cur
      <3> QED BY <1>2, <2>2, <3>3, ReturnedStays
    <2>4. CASE ComesOut(w, r)
      <3> DEFINE b == worker[w].ch.buf
                 s == worker[w].ch.start + worker[w].n
                 c == reader.curBuf
      <3>1. Touches(b) /\ buf'[b] = Written(buf[b], s, worker[w].k)
        BY <2>4 DEF ComesOut
      <3>2. b \in Buffers /\ buf[b] \in PipeBuffer /\ s \in Int /\ worker[w].k \in Nat /\ PartSize \in Int
        BY <1>1, HolderTypes, RangeFacts DEF Shape, BufTypes
      <3>3. reader.st \in Reading => c \in Buffers
        BY <1>1, AheadTypes DEF OrderInv, Placed, Shape, Stage, Ending
      <3> HIDE DEF b, s, c
      <3> DEFINE q == Written(buf[b], s, worker[w].k)
      <3>4. q.offR = buf[b].offR /\ q.limit = buf[b].limit /\ q.offW = buf[b].offW + worker[w].k
        <4> DEFINE br == buf[b]
                   n  == worker[w].k
        <4>1. br \in PipeBuffer /\ s \in Int /\ n \in Int /\ PartSize \in Int
          BY <3>2
        <4> HIDE DEF br, n
        <4>2. LET p == Written(br, s, n)
              IN  p.offR = br.offR /\ p.limit = br.limit /\ p.offW = br.offW + n
          BY <4>1, WrittenOffsets
        <4> QED BY <4>2 DEF br, n
      <3>5. buf'[b] = q
        BY <3>1
      <3> HIDE DEF q
      <3>6. buf[b].offW <= buf'[b].offW /\ buf[b].offW \in Int /\ buf'[b].offW \in Int
        BY <1>1, <3>2, <3>4, <3>5, DataTypes
      <3>7. \A d \in Buffers : /\ buf'[d].offR = buf[d].offR /\ buf'[d].limit = buf[d].limit
                               /\ buf'[d].offW = buf[d].offW \/ d = b
        BY <3>1, <3>4, <3>5 DEF Touches
      <3>8. reader.st \in Reading => /\ cur'.offR = cur.offR /\ cur'.limit = cur.limit
        BY <2>2, <3>3, <3>7 DEF cur, c
      <3>9. reader.st = "reading" => cur'.offR + reader'.k <= cur'.offW
        <4> SUFFICES ASSUME reader.st = "reading" PROVE cur'.offR + reader'.k <= cur'.offW
          OBVIOUS
        <4>1. c \in Buffers /\ cur = buf[c] /\ cur' = buf'[c]
          BY <2>2, <3>3 DEF cur, c
        <4>2. buf[c].offR + reader.k <= buf[c].offW
          BY <1>2, <4>1
        <4>3. buf[c].offR \in Int /\ reader.k \in Nat /\ buf[c].offW \in Int
          BY <1>1, <4>1, DataTypes DEF Shape, ReaderTypes, ReaderRec
        <4>4. buf'[c].offW = buf[c].offW \/ c = b
          BY <3>7, <4>1
        <4>5. CASE buf'[c].offW = buf[c].offW
          BY <2>2, <3>8, <4>1, <4>2, <4>5
        <4>6. CASE c = b
          <5>1. buf[c].offW <= buf'[c].offW /\ buf'[c].offW \in Int
            BY <3>6, <4>6
          <5> QED BY <2>2, <3>8, <4>1, <4>2, <4>3, <5>1
        <4> QED BY <4>4, <4>5, <4>6
      <3> QED BY <1>2, <2>2, <3>8, <3>9, ReturnedStays
    <2> QED BY <2>3, <2>4
  <1> QED BY <1>4, <1>5, <1>6, <1>7, <1>8, <1>9, <1>10, <1>11, <1>12 DEF Kinds

-----------------------------------------------------------------------------
LEMMA InitOrder ==
  ASSUME Init
  PROVE  OrderInv
  <1>1. BlockInv
    BY InitBlocks
  <1>2. Shape /\ maxPart \in Nat /\ PartSize \in Nat
    BY <1>1, RangeFacts DEF BlockInv, SlotInv, Shape
  <1>3. /\ reader.st = "new" /\ reader.pos = 0 /\ reader.curBuf = 0 /\ nextChunk = 0
        /\ chunkCh = <<>> /\ delivered = <<>> /\ bufMap = NoBufs
    BY DEF Init
  <1>4. ~Holds /\ \A j \in Ahead : j = 0
    BY <1>3 DEF Holds, Ahead
  <1>5. \A j \in Ids : bufMap[j] = 0 /\ BlockOf[j] = 0
    BY <1>3, <1>4 DEF NoBufs, BlockOf
  <1>6. 0 \in Ids
    BY <1>2, <1>3, AheadTypes
  <1>7. Placed
    BY <1>3, <1>4, <1>5, <1>6 DEF Placed
  <1>8. Filled /\ Opened /\ Content
    BY <1>3, <1>4, <1>5, <1>6 DEF Filled, Opened, Content
  <1>9. \A w \in Workers : worker[w].st = "idle"
    BY DEF Init, Idle
  <1>10. Tasks /\ Fresh
    BY <1>3, <1>9 DEF Tasks, Fresh, Busy, HasPart
  <1>11. Offsets
    <2>1. \A b \in Buffers : buf[b].offR = 0 /\ buf[b].offW = 0 /\ buf[b].limit = PartSize
      BY DEF Init, Unused, NewPipeBuffer
    <2> QED BY <1>2, <2>1 DEF Offsets
  <1>12. Returned
    BY <1>3 DEF Returned, Reading, Between
  <1> QED BY <1>1, <1>7, <1>8, <1>10, <1>11, <1>12 DEF OrderInv

LEMMA NextOrder ==
  ASSUME OrderInv, [Next]_vars
  PROVE  OrderInv'
  <1>1. SlotInv /\ BlockInv /\ BlockInv' /\ SlotInv'
    BY NextBlocks DEF OrderInv, BlockInv
  <1>2. Kinds /\ cfg' = cfg
    BY <1>1, StepKinds
  <1>3. Fresh' /\ Returned'
    BY <1>1, <1>2, FreshKept, ReturnedKept
  <1>4. Offsets' /\ (hc' # -1 => Placed' /\ Filled' /\ Opened' /\ Content' /\ Tasks')
    <2>1. CASE Quiet \/ Announces \/ Enters \/ Leaves \/ Pops \/ \E b \in Buffers : Closes(b)
      <3>1. hc' = hc
        BY <2>1 DEF Quiet, Announces, Enters, Leaves, Pops, Closes
      <3> QED BY <1>1, <1>2, <2>1, <3>1, CalmText, CalmParts
    <2>2. CASE Advances
      BY <1>1, <1>2, <2>2, AdvanceParts
    <2>3. CASE SendKind
      BY <1>1, <2>3, SentParts
    <2>4. ASSUME NEW w \in Workers, WorkKind(w)
          PROVE  Offsets' /\ (hc' # -1 => Placed' /\ Filled' /\ Opened' /\ Content' /\ Tasks')
      <3>1. hc' = hc
        BY <2>4 DEF WorkKind, Quits, Takes, Keeps, Rests, GoesIn, ComesOut, Retries, Labours
      <3> QED BY <1>1, <1>2, <2>4, <3>1, WorkParts
    <2>5. CASE Ends
      <3>1. hc' = -1 /\ buf' = buf
        BY <2>5 DEF Ends
      <3>2. PartSize' = PartSize
        BY <1>2, SameRange
      <3> QED BY <3>1, <3>2 DEF OrderInv, Offsets
    <2> QED BY <1>2, <2>1, <2>2, <2>3, <2>4, <2>5 DEF Kinds
  <1> QED BY <1>1, <1>3, <1>4 DEF OrderInv

\* Read returns the bytes of the range in their order, each once, and the end only
\* behind the last one, whatever the parts' order of arrival, the retries and the
\* reuse of their blocks (request.go 218-293, 328-421, 624-641, pipe.go 35-152).
THEOREM BytesInOrder == Spec => []DeliveredInOrder
  <1>1. Init => OrderInv
    BY InitOrder
  <1>2. OrderInv /\ [Next]_vars => OrderInv'
    BY NextOrder
  <1>3. OrderInv => DeliveredInOrder
    <2> SUFFICES ASSUME OrderInv PROVE DeliveredInOrder
      OBVIOUS
    <2>1. Shape /\ Returned
      BY DEF OrderInv, BlockInv, SlotInv
    <2>2. reader.st = "eof" => Len(delivered) = cfg.Length
      <3> SUFFICES ASSUME reader.st = "eof" PROVE Len(delivered) = cfg.Length
        OBVIOUS
      <3>1. maxPart > 1
        BY <2>1 DEF Shape, ReaderTypes, Single
      <3> QED BY <2>1, <3>1, PartsAdd DEF Returned
    <2> QED BY <2>1, <2>2 DEF Returned, DeliveredInOrder
  <1> QED BY <1>1, <1>2, <1>3, PTL DEF Spec

-----------------------------------------------------------------------------
(***************************************************************************)
(* The types, for every configuration.                                     *)
(***************************************************************************)
Flags == ctxDone \in BOOLEAN /\ mu \in BOOLEAN /\ panicked \in BOOLEAN /\ chClosed \in BOOLEAN

LEMMA NextFlags ==
  ASSUME Flags, [Next]_vars
  PROVE  Flags'
  <1> USE DEF Flags
  <1>1. CASE UNCHANGED vars
    BY <1>1 DEF vars, shared, counters
  <1>2. CASE Acquire \/ DownloadSingle \/ CloseSingle \/ DownloadReturns
    BY <1>2 DEF Acquire, DownloadSingle, CloseSingle, DownloadReturns, shared, counters
  <1>3. CASE DownloadFirst
    <2>1. UNCHANGED <<mu, panicked, chClosed>>
      BY <1>3 DEF DownloadFirst, SendQueues, SendCancelled, shared, counters
    <2>2. ctxDone' = ctxDone \/ ctxDone' = TRUE
      BY <1>3 DEF DownloadFirst
    <2> QED BY <2>1, <2>2
  <1>4. CASE ReadFails \/ ReadEof \/ ReadWaits \/ ReadWakes \/ ReadStart \/ ReadEnd \/ FinishCloses
    BY <1>4 DEF ReadFails, ReadEof, ReadWaits, ReadWakes, ReadStart, ReadEnd, FinishCloses,
                readerOnly, shared, counters
  <1>5. CASE NextPart \/ FinishPops
    BY <1>5 DEF NextPart, FinishPops, counters
  <1>6. CASE FinishSends
    BY <1>6 DEF FinishSends, sendChunkTask, SendQueues, SendCancelled, shared, counters
  <1>7. CASE FinishWaits \/ InterruptLocks \/ Close
    BY <1>7 DEF FinishWaits, InterruptLocks, Close, shared, counters
  <1>8. CASE FinishResumes
    BY <1>8 DEF FinishResumes, SendQueues, SendCancelled
  <1>9. ASSUME NEW b \in Buffers, InterruptCloses(b) PROVE Flags'
    BY <1>9 DEF InterruptCloses, readerOnly, shared, counters
  <1>10. CASE InterruptEnds
    <2>1. UNCHANGED ctxDone /\ mu' = FALSE
      BY <1>10 DEF InterruptEnds
    <2>2. chClosed' \in BOOLEAN /\ panicked' \in BOOLEAN
      <3>1. chClosed' = (chClosed \/ maxPos # 0) /\ panicked' = (chClosed /\ maxPos # 0)
        BY <1>10 DEF InterruptEnds
      <3> QED BY <3>1, Zenon
    <2> QED BY <2>1, <2>2
  <1>11. CASE Others
    BY <1>11 DEF Others, ParentCancels, OthersAcquire, OthersRelease, shared, counters
  <1>12. ASSUME NEW w \in Workers, Work(w) PROVE Flags'
    <2>1. CASE RequestSucceeds(w)
      BY <2>1 DEF RequestSucceeds, sendChunkTask, SendQueues, SendCancelled, shared, counters
    <2>2. CASE RequestRefused(w)
      BY <2>2 DEF RequestRefused
    <2>3. CASE Requeue(w)
      BY <2>3 DEF Requeue
    <2>4. CASE Judge(w)
      BY <2>4 DEF Judge, workerOnly
    <2>5. CASE WorkerTakes(w) \/ RequestFails(w) \/ WriteEnters(w) \/ WriteStart(w) \/ WriteEnd(w)
                \/ BodyEnds(w) \/ BodyBreaks(w)
      BY <2>5 DEF WorkerTakes, RequestFails, WriteEnters, WriteStart, WriteEnd, BodyEnds, BodyBreaks,
                  workerOnly
    <2> QED BY <1>12, <2>1, <2>2, <2>3, <2>4, <2>5 DEF Work
  <1> QED BY <1>1, <1>2, <1>3, <1>4, <1>5, <1>6, <1>7, <1>8, <1>9, <1>10, <1>11, <1>12
      DEF Next, Start, Read, Interrupt

\* A part has one writer: two workers have two parts, and two parts two blocks.
LEMMA OneWriter ==
  ASSUME OrderInv, hc # -1, NEW b \in Buffers
  PROVE  Cardinality(Writers(b)) \in 0..1
  <1>1. ASSUME NEW w \in Writers(b), NEW v \in Writers(b) PROVE w = v
    <2>1. /\ Busy(w) /\ Task(worker[w].ch, worker[w].n) /\ worker[w].ch.buf = b
          /\ Busy(v) /\ Task(worker[v].ch, worker[v].n) /\ worker[v].ch.buf = b
          /\ w \in Workers /\ v \in Workers
      BY WriterFacts DEF Writers
    <2>2. /\ BlockOf[worker[w].ch.id] = b /\ worker[w].ch.id \in Ahead
          /\ BlockOf[worker[v].ch.id] = b /\ worker[v].ch.id \in Ahead
      BY <2>1 DEF Task
    <2>3. b # 0
      BY AheadTypes DEF OrderInv, BlockInv, SlotInv
    <2>4. worker[w].ch.id = worker[v].ch.id
      BY <2>2, <2>3 DEF OrderInv, Filled
    <2> QED BY <2>1, <2>4 DEF OrderInv, Tasks
  <1>2. CASE Writers(b) = {}
    BY <1>2, FS_EmptySet
  <1>3. CASE Writers(b) # {}
    <2>1. PICK w \in Writers(b) : Writers(b) = {w}
      BY <1>1, <1>3
    <2> QED BY <2>1, FS_Singleton
  <1> QED BY <1>2, <1>3

LEMMA OrderTypes ==
  ASSUME OrderInv, Flags
  PROVE  TypeOK
  <1>1. Shape /\ IoCounted /\ KnownBlocks /\ Kept /\ Offsets /\ SlotInv
    BY DEF OrderInv, BlockInv, SlotInv
  <1>2. /\ cfg \in Configs /\ maxPos \in {0, cfg.Length} /\ nextChunk \in 0..maxPart
        /\ concurrency \in Int /\ limit \in Nat /\ others \in Nat /\ overloads \in 0..cfg.MaxOverload
    BY <1>1 DEF Shape, Counts, Positions
  <1>3. pos \in 0..cfg.Length
    <2>1. maxPart \in Nat \ {0} /\ cfg.Length \in Nat \ {0}
      BY <1>1, PartsAdd
    <2>2. CASE maxPart = 1
      BY <1>1, <2>1, <2>2 DEF Shape, Positions
    <2>3. CASE maxPart > 1
      <3>1. pos = Starts[nextChunk] /\ Starts[maxPart] = cfg.Length
        BY <1>1, <2>3, PartsAdd
      <3>2. nextChunk # maxPart => Starts[nextChunk] \in Nat /\ Starts[nextChunk] < cfg.Length
        BY <1>1, <1>2, <2>1, <2>3, PartsAdd
      <3> QED BY <2>1, <3>1, <3>2
    <2> QED BY <2>1, <2>2, <2>3
  <1>4. bufMap \in [Ids -> 0..hc \cup {0}]
    <2>1. CASE hc = -1
      BY <1>1, <2>1 DEF Kept, NoBufs
    <2>2. CASE hc # -1
      <3>1. \A id \in Ids : bufMap[id] <= hc /\ bufMap[id] \in Nat
        BY <1>1, <2>2, BlockTypes DEF KnownBlocks
      <3>2. hc \in Int /\ bufMap = [id \in Ids |-> bufMap[id]]
        BY <1>1 DEF Shape, Counts, MapTypes
      <3> QED BY <3>1, <3>2
    <2> QED BY <2>1, <2>2
  <1>5. \A i \in DOMAIN chunkCh : chunkCh[i] \in Chunk
    BY <1>1 DEF Shape, ChTypes
  <1>6. \A b \in Buffers : buf[b].ioWg \in 0..2
    <2> SUFFICES ASSUME NEW b \in Buffers PROVE buf[b].ioWg \in 0..2
      OBVIOUS
    <2>1. CASE hc = -1
      BY <1>1, <2>1 DEF Kept, InUse
    <2>2. CASE hc # -1
      BY <1>1, <2>2, OneWriter DEF IoCounted
    <2> QED BY <2>1, <2>2
  <1>7. \A w \in Workers : worker[w].ch \in Chunk
    BY <1>1 DEF Shape, WorkerTypes, WorkerRec
  <1>8. reader.curBuf \in {0} \cup Buffers /\ reader.pos \in 0..maxPart
    <2>1. reader.pos <= maxPart /\ reader.pos \in Nat /\ maxPart \in Nat
      BY <1>1, AheadTypes, PartsAdd DEF Shape, ReaderTypes
    <2> QED BY <1>1, <2>1, AheadTypes
  <1> QED BY <1>1, <1>2, <1>3, <1>4, <1>5, <1>6, <1>7, <1>8 DEF TypeOK, Flags, Offsets

\* Every variable has its type, no block is read or filled beyond its part, and no
\* more than one worker and the reader are inside a block (pipe.go 35-152).
THEOREM DownloadTypes == Spec => []TypeOK
  <1>1. Init => OrderInv /\ Flags
    BY InitOrder DEF Init, Flags
  <1>2. OrderInv /\ Flags /\ [Next]_vars => OrderInv' /\ Flags'
    BY NextOrder, NextFlags
  <1>3. OrderInv /\ Flags => TypeOK
    BY OrderTypes
  <1> QED BY <1>1, <1>2, <1>3, PTL DEF Spec

-----------------------------------------------------------------------------
(***************************************************************************)
(* How many blocks are taken, and the room in the channel.                 *)
(***************************************************************************)
\* A block is owed to the reader that is about to send: its own went to a new worker.
Owed ==
    IF reader.st \in {"sendTask", "sending"} /\ nextChunk < maxPart /\ bufMap[nextChunk] = 0 THEN 1 ELSE 0

Bounded == ~ctxDone => hc + Owed <= Cardinality(Started)

\* Only a part that was sent back can be empty, and then no worker is started any more.
Whole ==
    concurrency > 0 => /\ \A i \in DOMAIN chunkCh : ~Empty(chunkCh[i])
                       /\ \A w \in Workers : worker[w].st # "requeue"

RoomInv == OrderInv /\ Bounded /\ Whole

\* The step of a worker changes none of the numbers.
LEMMA WorkStarted ==
  ASSUME SlotInv, NEW w \in Workers, NEW r \in WorkerRec,
         \/ Quits(w, r) \/ Takes(w, r) \/ Keeps(w, r) \/ Rests(w, r)
         \/ GoesIn(w, r) \/ ComesOut(w, r) \/ Retries(w, r)
  PROVE  Started' = Started
  <1>1. worker' = [worker EXCEPT ![w] = r]
    BY DEF Quits, Takes, Keeps, Rests, GoesIn, ComesOut, Retries, Labours
  <1>2. worker[w].st # "idle" /\ r.st # "idle"
    BY DEF Quits, Takes, Keeps, Rests, GoesIn, ComesOut, Retries
  <1>3. worker \in [Workers -> WorkerRec]
    BY DEF SlotInv, Shape, WorkerTypes
  <1> QED BY <1>1, <1>2, <1>3 DEF Started

LEMMA StartedTypes ==
  ASSUME Shape
  PROVE  Cardinality(Started) \in Nat /\ hc \in Int /\ nextChunk \in Int /\ maxPart \in Int
         /\ Owed \in 0..1
  <1>1. Cardinality(Started) \in Nat
    BY WorkersFinite DEF Started
  <1> QED BY <1>1, PartsAdd DEF Shape, Counts, Owed

\* The steps that send nothing.
LEMMA BoundedStays ==
  ASSUME RoomInv, Shape', cfg' = cfg,
         \/ Quiet \/ Announces \/ Enters \/ Leaves \/ Advances \/ Pops \/ Ends
         \/ \E b \in Buffers : Closes(b)
  PROVE  Bounded'
  <1> SUFFICES ASSUME ~ctxDone' PROVE (hc + Owed <= Cardinality(Started))'
    BY DEF Bounded
  <1>1. Stays
    BY DEF Quiet, Announces, Enters, Leaves, Advances, Pops, Ends, Closes
  <1>2. ~ctxDone /\ hc + Owed <= Cardinality(Started)
    BY <1>1 DEF Stays, RoomInv, Bounded
  <1>3. Shape
    BY DEF RoomInv, OrderInv, BlockInv, SlotInv
  <1>4. Started' = Started
    BY <1>1 DEF Stays, Started
  <1>5. maxPart' = maxPart /\ nextChunk' = nextChunk
    BY <1>1, SameRange DEF Stays
  <1>6. hc' = hc
    <2>1. CASE Ends
      BY <1>2, <1>3, <2>1 DEF Ends, Shape, Stage, Ending
    <2>2. CASE ~Ends
      BY <2>2 DEF Quiet, Announces, Enters, Leaves, Advances, Pops, Closes
    <2> QED BY <2>1, <2>2
  <1>7. Owed' <= Owed
    <2>1. CASE Quiet
      <3>1. bufMap' = bufMap
        BY <2>1 DEF Quiet
      <3>2. reader'.st \in {"sendTask", "sending"} => reader.st \in {"sendTask", "sending"}
        BY <2>1 DEF Quiet, Early, Single
      <3> QED BY <1>5, <3>1, <3>2 DEF Owed
    <2>2. CASE Advances
      <3>1. reader'.st \in {"sendTask", "sending"} => bufMap'[nextChunk] = reader.curBuf /\ reader.curBuf # 0
        BY <1>3, <2>2, AheadTypes DEF Advances, Shape, Stage, Reading, MapTypes
      <3>2. Owed' = 0
        BY <1>5, <3>1 DEF Owed
      <3> QED BY <1>3, <3>2, StartedTypes
    <2>3. CASE Announces \/ Enters \/ Leaves \/ Pops \/ Ends \/ \E b \in Buffers : Closes(b)
      <3>1. reader'.st \notin {"sendTask", "sending"}
        BY <2>3 DEF Announces, Enters, Leaves, Pops, Ends, Closes
      <3>2. Owed' = 0
        BY <3>1 DEF Owed
      <3> QED BY <1>3, <3>2, StartedTypes
    <2> QED BY <2>1, <2>2, <2>3
  <1>8. Owed \in Int /\ Owed' \in Int /\ hc \in Int /\ Cardinality(Started) \in Int
    <2>1. Owed \in 0..1 /\ hc \in Int /\ Cardinality(Started) \in Nat
      BY <1>3, StartedTypes
    <2>2. Owed' \in {0, 1}
      BY DEF Owed
    <2> QED BY <2>1, <2>2
  <1> QED BY <1>2, <1>4, <1>6, <1>7, <1>8

\* A send takes a block only where one was owed or a worker is started.
LEMMA BoundedSends ==
  ASSUME RoomInv, cfg' = cfg, SendKind
  PROVE  Bounded'
  <1> SUFFICES ASSUME ~ctxDone' PROVE (hc + Owed <= Cardinality(Started))'
    BY DEF Bounded
  <1>1. ~ctxDone /\ hc + Owed <= Cardinality(Started)
    BY DEF SendKind, RoomInv, Bounded
  <1>2. Shape
    BY DEF RoomInv, OrderInv, BlockInv, SlotInv
  <1>3. maxPart' = maxPart
    BY SameRange
  <1>4. Owed \in 0..1 /\ hc \in Int /\ Cardinality(Started) \in Nat
    BY <1>2, StartedTypes
  <1>5. Owed' \in {0, 1} /\ (reader'.st \notin {"sendTask", "sending"} => Owed' = 0)
    BY DEF Owed
  <1>6. reader'.st \in {"sendTask", "sending"} => reader' = reader
    BY DEF SendKind
  <1>7. CASE NotSent /\ Remains
    <2>1. UNCHANGED <<nextChunk, hc, bufMap>> /\ Started' = Started
      BY <1>7 DEF NotSent, Remains
    <2>2. Owed' <= Owed
      BY <1>3, <1>4, <1>6, <2>1 DEF Owed
    <2> QED BY <1>1, <1>4, <1>5, <2>1, <2>2
  <1>8. ASSUME NEW nc \in BOOLEAN, Sent(nc)
        PROVE  \/ hc' = hc /\ Owed = 0
               \/ hc' = hc + 1 /\ (reader.st \in {"sendTask", "sending"} => Owed = 1)
    <2>1. PICK b \in Buffers : Prepare(b)
      BY <1>8 DEF Sent
    <2>2. b # 0
      BY <1>2, AheadTypes
    <2>3. nextChunk < maxPart
      <3>1. pos < maxPos /\ maxPos \in {0, cfg.Length} /\ nextChunk \in 0..maxPart /\ maxPart \in Nat \ {0}
            /\ cfg.Length \in Nat \ {0} /\ pos \in Nat
        BY <1>2, <1>8, PartsAdd DEF Sent, Shape, Counts, Positions
      <3>2. maxPart > 1 /\ nextChunk = maxPart => pos = cfg.Length
        BY <1>2, PartsAdd
      <3>3. maxPart = 1 => nextChunk = 0
        BY <1>2 DEF Shape, Positions
      <3> QED BY <3>1, <3>2, <3>3
    <2>4. \/ bufMap[nextChunk] = b /\ hc' = hc
          \/ bufMap[nextChunk] = 0 /\ hc' = hc + 1
      BY <2>1 DEF Prepare
    <2>5. bufMap[nextChunk] = b => Owed = 0
      BY <2>2 DEF Owed
    <2>6. bufMap[nextChunk] = 0 /\ reader.st \in {"sendTask", "sending"} => Owed = 1
      BY <2>3 DEF Owed
    <2> QED BY <2>4, <2>5, <2>6
  <1>9. CASE Sent(TRUE) /\ Spawns
    <2>1. Cardinality(Started') = Cardinality(Started) + 1
      BY <1>9 DEF Spawns
    <2>2. \/ hc' = hc /\ Owed = 0
          \/ hc' = hc + 1 /\ (reader.st \in {"sendTask", "sending"} => Owed = 1)
      BY <1>8, <1>9
    <2>3. reader'.st \in {"sendTask", "sending"} => reader.st \in {"sendTask", "sending"}
      BY <1>6
    <2> QED BY <1>1, <1>4, <1>5, <2>1, <2>2, <2>3
  <1>10. CASE Sent(FALSE) /\ Remains /\ reader.st \in {"sendTask", "sending"} /\ reader'.st = "pop"
    <2>1. Started' = Started
      BY <1>10 DEF Remains
    <2>2. \/ hc' = hc /\ Owed = 0
          \/ hc' = hc + 1 /\ Owed = 1
      BY <1>8, <1>10
    <2> QED BY <1>1, <1>4, <1>5, <1>10, <2>1, <2>2
  <1> QED BY <1>1, <1>7, <1>9, <1>10 DEF SendKind, Dropped

LEMMA NextWhole ==
  ASSUME RoomInv, Shape', cfg' = cfg, Kinds
  PROVE  Whole'
  <1> SUFFICES ASSUME concurrency' > 0
               PROVE  /\ \A i \in DOMAIN chunkCh' : ~Empty(chunkCh'[i])
                      /\ \A w \in Workers : worker'[w].st # "requeue"
    BY DEF Whole, Empty
  <1>1. Shape /\ SlotInv /\ chunkCh \in Seq(Chunk) /\ WorkerTypes
    BY DEF RoomInv, OrderInv, BlockInv, SlotInv, Shape, ChTypes
  <1>2. concurrency > 0 => /\ \A i \in DOMAIN chunkCh : ~Empty(chunkCh[i])
                           /\ \A w \in Workers : worker[w].st # "requeue"
    BY DEF RoomInv, Whole
  <1>3. CASE Stays
    <2>1. chunkCh' = chunkCh /\ worker' = worker /\ (concurrency' = concurrency \/ nextChunk = 0)
      BY <1>3 DEF Stays
    <2>2. CASE nextChunk = 0
      <3>1. chunkCh = <<>> /\ \A w \in Workers : worker[w].st = "idle"
        BY <1>1, <2>2 DEF Shape, Unstarted
      <3> QED BY <2>1, <3>1
    <2>3. CASE concurrency' = concurrency
      BY <1>2, <2>1, <2>3
    <2> QED BY <2>1, <2>2, <2>3
  <1>4. CASE SendKind
    <2>1. concurrency > 0
      <3>1. concurrency' = concurrency \/ concurrency > 0
        BY <1>4 DEF SendKind, Spawns, Remains
      <3> QED BY <3>1
    <2>2. \A w \in Workers : worker'[w].st # "requeue"
      BY <1>2, <1>4, <2>1 DEF SendKind, Similar
    <2>3. CASE chunkCh' = chunkCh
      BY <1>2, <2>1, <2>2, <2>3
    <2>4. CASE Sent(TRUE) \/ Sent(FALSE)
      <3>1. PICK nc \in BOOLEAN, b \in Buffers : chunkCh' = Append(chunkCh, NextChunk(nc, b)) /\ pos < maxPos
        BY <2>4 DEF Sent
      <3> DEFINE ch == NextChunk(nc, b)
      <3>2. ch.size \in Int /\ ch.size > 0
        <4>1. ch.size = ChunkSize(nextChunk)
          BY DEF NextChunk
        <4>2. maxPart > 1
          BY <1>1, <1>4 DEF SendKind, Shape, ReaderTypes, Single, Early
        <4>3. nextChunk \in 0..(maxPart - 1)
          <5>1. nextChunk \in 0..maxPart /\ maxPart \in Nat /\ cfg.Length \in Nat
                /\ (nextChunk = maxPart => pos = cfg.Length)
            BY <1>1, <4>2, PartsAdd
          <5>2. maxPos \in {0, cfg.Length} /\ pos \in Nat
            BY <1>1 DEF Shape, Counts, Positions
          <5> QED BY <3>1, <5>1, <5>2
        <4> QED BY <1>1, <4>1, <4>2, <4>3, PartsAdd
      <3> HIDE DEF ch
      <3>3. \A i \in DOMAIN chunkCh' : chunkCh'[i] = ch \/ (i \in DOMAIN chunkCh /\ chunkCh'[i] = chunkCh[i])
        BY <1>1, <3>1 DEF ch
      <3>4. ~Empty(ch)
        BY <3>2 DEF Empty
      <3> QED BY <1>2, <2>1, <2>2, <3>3, <3>4
    <2> QED BY <1>4, <2>3, <2>4 DEF SendKind, Dropped, NotSent
  <1>5. ASSUME NEW w \in Workers, WorkKind(w)
        PROVE  /\ \A i \in DOMAIN chunkCh' : ~Empty(chunkCh'[i])
               /\ \A u \in Workers : worker'[u].st # "requeue"
    <2>1. PICK r \in WorkerRec : \/ Quits(w, r) \/ Takes(w, r) \/ Keeps(w, r) \/ Rests(w, r)
                                 \/ GoesIn(w, r) \/ ComesOut(w, r) \/ Retries(w, r)
      BY <1>5 DEF WorkKind
    <2>2. Labours(w, r)
      BY <2>1 DEF Quits, Takes, Keeps, Rests, GoesIn, ComesOut, Retries
    <2>3. /\ \A i \in DOMAIN chunkCh : ~Empty(chunkCh[i])
          /\ \A u \in Workers : worker[u].st # "requeue"
      BY <1>2, <2>2 DEF Labours
    <2>4. chunkCh' = chunkCh \/ (chunkCh # <<>> /\ chunkCh' = Tail(chunkCh))
      BY <2>1, <2>3 DEF Quits, Takes, Keeps, Rests, GoesIn, ComesOut, Retries
    <2>5. \A i \in DOMAIN chunkCh' : ~Empty(chunkCh'[i])
      <3>1. CASE chunkCh' = chunkCh
        BY <2>3, <3>1
      <3>2. CASE chunkCh # <<>> /\ chunkCh' = Tail(chunkCh)
        <4>1. \A i \in DOMAIN chunkCh' : i + 1 \in DOMAIN chunkCh /\ chunkCh'[i] = chunkCh[i + 1]
          BY <1>1, <3>2
        <4> QED BY <2>3, <4>1
      <3> QED BY <2>4, <3>1, <3>2
    <2>6. r.st # "requeue"
      <3>1. concurrency' \in Int
        BY DEF Shape, Counts
      <3>2. CASE Keeps(w, r)
        BY <2>3, <3>1, <3>2 DEF Keeps
      <3>3. CASE ~Keeps(w, r)
        BY <2>1, <3>3 DEF Quits, Takes, Rests, GoesIn, ComesOut, Retries
      <3> QED BY <3>2, <3>3
    <2>7. \A u \in Workers : worker'[u] = IF u = w THEN r ELSE worker[u]
      BY <1>1, <2>2 DEF Labours, WorkerTypes
    <2> QED BY <2>3, <2>5, <2>6, <2>7
  <1>6. CASE \/ Quiet \/ Announces \/ Enters \/ Leaves \/ Advances \/ Pops \/ Ends
             \/ \E b \in Buffers : Closes(b)
    BY <1>3, <1>6 DEF Quiet, Announces, Enters, Leaves, Advances, Pops, Ends, Closes
  <1> QED BY <1>4, <1>5, <1>6 DEF Kinds

LEMMA NextRoom ==
  ASSUME RoomInv, [Next]_vars
  PROVE  RoomInv'
  <1>1. OrderInv /\ OrderInv' /\ SlotInv /\ Shape'
    BY NextOrder DEF RoomInv, OrderInv, BlockInv, SlotInv
  <1>2. Kinds /\ cfg' = cfg
    BY <1>1, StepKinds
  <1>3. Whole'
    BY <1>1, <1>2, NextWhole
  <1>4. Bounded'
    <2>1. ASSUME NEW w \in Workers, WorkKind(w) PROVE Bounded'
      <3>1. PICK r \in WorkerRec : \/ Quits(w, r) \/ Takes(w, r) \/ Keeps(w, r) \/ Rests(w, r)
                                   \/ GoesIn(w, r) \/ ComesOut(w, r) \/ Retries(w, r)
        BY <2>1 DEF WorkKind
      <3>2. Started' = Started
        BY <1>1, <3>1, WorkStarted
      <3>3. UNCHANGED <<hc, nextChunk, bufMap, reader>> /\ (ctxDone => ctxDone')
        BY <3>1 DEF Quits, Takes, Keeps, Rests, GoesIn, ComesOut, Retries, Labours
      <3>4. Owed' = Owed
        BY <1>2, <3>3, SameRange DEF Owed
      <3> QED BY <3>2, <3>3, <3>4 DEF RoomInv, Bounded
    <2> QED BY <1>1, <1>2, <2>1, BoundedStays, BoundedSends DEF Kinds
  <1> QED BY <1>1, <1>3, <1>4 DEF RoomInv

LEMMA InitRoom ==
  ASSUME Init
  PROVE  RoomInv
  <1>1. OrderInv
    BY InitOrder
  <1>2. Whole
    BY DEF Init, Whole
  <1>3. Bounded
    <2>1. Started = {}
      BY DEF Init, Started, Idle
    <2>2. Cardinality(Started) = 0
      BY <2>1, FS_EmptySet
    <2>3. hc = 0 /\ Owed = 0
      BY DEF Init, Owed
    <2> QED BY <2>2, <2>3 DEF Bounded
  <1> QED BY <1>1, <1>2, <1>3 DEF RoomInv

\* A channel without empty parts holds no more of them than there are blocks, and one
\* less if none of them has block b.
LEMMA ChannelFits ==
  ASSUME OrderInv, ~ctxDone, \A i \in DOMAIN chunkCh : ~Empty(chunkCh[i]),
         NEW b \in {0} \cup Buffers, b <= hc, \A i \in DOMAIN chunkCh : chunkCh[i].buf # b
  PROVE  Len(chunkCh) + (IF b = 0 THEN 0 ELSE 1) <= hc
  <1> DEFINE S == 1..Len(chunkCh)
             T == (1..hc) \ {b}
             f == [i \in S |-> chunkCh[i].buf]
  <1>1. Shape /\ chunkCh \in Seq(Chunk) /\ KnownBlocks
    BY DEF OrderInv, BlockInv, SlotInv, Shape, ChTypes
  <1>2. hc # -1 /\ hc \in Nat
    BY <1>1 DEF Shape, Stage, Ending, Counts
  <1>3. Len(chunkCh) \in Nat /\ DOMAIN chunkCh = S
    BY <1>1
  <1>4. \A i \in S : /\ chunkCh[i].buf \in Buffers /\ chunkCh[i].id \in Ahead
                     /\ chunkCh[i].buf = BlockOf[chunkCh[i].id] /\ chunkCh[i].buf <= hc
    <2>1. \A i \in S : chunkCh[i] \in Chunk /\ chunkCh[i].buf <= hc
      BY <1>1, <1>2, <1>3 DEF KnownBlocks
    <2>2. \A i \in S : chunkCh[i].id \in Ahead /\ chunkCh[i].buf = BlockOf[chunkCh[i].id]
      BY <1>2, <1>3 DEF OrderInv, Tasks, Task
    <2> QED BY <2>1, <2>2, ChunkTypes
  <1>5. \A c \in Buffers : c \in Nat \ {0}
    BY <1>1, BlockTypes
  <1>6. f \in [S -> T]
    BY <1>2, <1>3, <1>4, <1>5
  <1>7. ASSUME NEW i \in S, NEW j \in S, f[i] = f[j] PROVE i = j
    <2>1. chunkCh[i].buf = chunkCh[j].buf /\ chunkCh[i].buf # 0
      BY <1>4, <1>5, <1>7
    <2>2. chunkCh[i].id = chunkCh[j].id
      BY <1>2, <1>4, <2>1 DEF OrderInv, Filled
    <2> QED BY <1>2, <1>3, <2>2 DEF OrderInv, Tasks
  <1>8. f \in Injection(S, T)
    BY <1>6, <1>7 DEF Injection, IsInjective
  <1>9. IsFiniteSet(1..hc) /\ Cardinality(1..hc) = hc /\ Cardinality(S) = Len(chunkCh)
    <2>1. ASSUME NEW n \in Nat PROVE IsFiniteSet(1..n) /\ Cardinality(1..n) = n
      <3>1. 1 \in Int /\ n \in Int
        OBVIOUS
      <3>2. IsFiniteSet(1..n) /\ Cardinality(1..n) = IF 1 > n THEN 0 ELSE n - 1 + 1
        BY <3>1, FS_Interval
      <3> QED BY <3>2
    <2> QED BY <1>2, <1>3, <2>1
  <1>10. IsFiniteSet(T) /\ Cardinality(T) = IF b = 0 THEN hc ELSE hc - 1
    <2>1. b \in 1..hc <=> b # 0
      BY <1>2, <1>5
    <2> QED BY <1>9, <2>1, FS_RemoveElement
  <1> HIDE DEF S, T, f
  <1>11. Cardinality(S) <= Cardinality(T)
    BY <1>8, <1>10, FS_Injection
  <1> QED BY <1>2, <1>3, <1>9, <1>10, <1>11

\* The blocks taken leave room in the channel.
LEMMA RoomEnough ==
  ASSUME RoomInv
  PROVE  WithinConcurrency
  <1> SUFFICES ASSUME ~ctxDone PROVE WithinConcurrency
    BY DEF WithinConcurrency
  <1>1. OrderInv /\ Shape /\ Spawned /\ KnownBlocks /\ Fresh /\ Whole
    BY DEF RoomInv, OrderInv, BlockInv, SlotInv
  <1>2. hc # -1 /\ hc \in Nat
    BY <1>1 DEF Shape, Stage, Ending, Counts
  <1>3. hc + Owed <= Cardinality(Started) /\ Owed \in 0..1 /\ Cardinality(Started) \in Nat
    BY <1>1, StartedTypes DEF RoomInv, Bounded
  <1>4. Capacity = cfgConcurrency /\ cfgConcurrency \in Nat \ {0} /\ concurrency \in Int
    BY <1>1, RangeFacts DEF Capacity, Shape, Counts
  <1>5. /\ Cardinality(Started) <= cfgConcurrency
        /\ concurrency > 0 => Cardinality(Started) < cfgConcurrency
    BY <1>1, <1>3, <1>4 DEF Spawned
  <1>6. hc <= cfgConcurrency /\ hc + Owed <= cfgConcurrency
    BY <1>2, <1>3, <1>4, <1>5
  <1>7. Placed /\ Filled /\ Tasks
    BY <1>1, <1>2 DEF OrderInv
  <1>8. Len(chunkCh) \in Nat
    BY <1>1 DEF Shape, ChTypes
  <1> DEFINE full == Len(chunkCh) >= Capacity
             withEmpty == \E i \in DOMAIN chunkCh : Empty(chunkCh[i])
  <1>9. full => reader.st # "first"
    <2> SUFFICES ASSUME reader.st = "first" PROVE ~full
      OBVIOUS
    <2>1. chunkCh = <<>>
      BY <1>1 DEF Shape, Stage, Unstarted, Early
    <2> QED BY <1>4, <2>1
  <1>10. ASSUME reader.st = "sendTask", ~NoTask(FALSE), ~withEmpty PROVE ~full
    <2> DEFINE b == bufMap[nextChunk]
    <2>1. nextChunk < maxPart
      <3>1. pos < maxPos /\ maxPos \in {0, cfg.Length} /\ pos \in Nat /\ maxPart > 1
        BY <1>1, <1>10 DEF NoTask, Shape, Counts, Positions, ReaderTypes, Single
      <3>2. nextChunk \in 0..maxPart /\ maxPart \in Nat /\ cfg.Length \in Nat
            /\ (nextChunk = maxPart => pos = cfg.Length)
        BY <1>1, <3>1, PartsAdd
      <3> QED BY <3>1, <3>2
    <2>2. nextChunk \in Ahead /\ nextChunk \in Ids /\ b \in {0} \cup Buffers /\ b <= hc
      BY <1>1, <1>2, <1>7, AheadTypes DEF Ahead, Placed, KnownBlocks, Shape, MapTypes
    <2>3. BlockOf[nextChunk] = b
      BY <1>1, <1>10, <2>2, AheadTypes DEF Holds, Between
    <2>4. \A i \in DOMAIN chunkCh : chunkCh[i].buf # b
      <3> SUFFICES ASSUME NEW i \in DOMAIN chunkCh, chunkCh[i].buf = b PROVE FALSE
        OBVIOUS
      <3>1. chunkCh[i].id \in Ahead /\ chunkCh[i].id < nextChunk /\ BlockOf[chunkCh[i].id] = b
        BY <1>7, <1>10 DEF Tasks, Task
      <3>2. chunkCh[i].id # nextChunk
        BY <1>1, <3>1, AheadTypes
      <3> QED BY <1>7, <2>2, <2>3, <3>1, <3>2 DEF Filled
    <2>5. Len(chunkCh) + (IF b = 0 THEN 0 ELSE 1) <= hc
      BY <1>1, <1>10, <2>2, <2>4, ChannelFits
    <2>6. Owed = IF b = 0 THEN 1 ELSE 0
      BY <1>10, <2>1 DEF Owed
    <2> HIDE DEF b
    <2> QED BY <1>2, <1>3, <1>4, <1>6, <1>8, <2>5, <2>6
  <1>11. ASSUME ~NoTask(TRUE) PROVE ~full
    <2>1. concurrency > 0
      BY <1>4, <1>11 DEF NoTask
    <2>2. ~withEmpty
      BY <1>1, <2>1 DEF Whole
    <2>3. \A i \in DOMAIN chunkCh : chunkCh[i].buf # 0
      BY <1>1, ChunkTypes, AheadTypes DEF Shape, ChTypes
    <2>4. Len(chunkCh) <= hc
      BY <1>1, <1>2, <1>8, <2>2, <2>3, ChannelFits
    <2> QED BY <1>2, <1>3, <1>4, <1>5, <1>8, <2>1, <2>4
  <1>12. ASSUME NEW w \in Workers, At(w, "requeue"), ~withEmpty, ~Empty(worker[w].ch) PROVE ~full
    <2> DEFINE ch == worker[w].ch
    <2>1. worker[w].st = "requeue" /\ worker[w].n = 0 /\ ch \in Chunk
      BY <1>1, <1>12 DEF At, Fresh, Shape, WorkerTypes, WorkerRec
    <2>2. Busy(w)
      BY <1>12, <2>1, ChunkTypes DEF Busy, HasPart, Empty
    <2>3. ch.buf \in Buffers /\ ch.buf <= hc /\ ch.id \in Ahead /\ ch.buf = BlockOf[ch.id] /\ ch.buf # 0
      BY <1>1, <1>2, <1>7, <2>1, <2>2, ChunkTypes, AheadTypes DEF KnownBlocks, HasPart, Tasks, Task
    <2>4. \A i \in DOMAIN chunkCh : chunkCh[i].buf # ch.buf
      <3> SUFFICES ASSUME NEW i \in DOMAIN chunkCh, chunkCh[i].buf = ch.buf PROVE FALSE
        OBVIOUS
      <3>1. chunkCh[i].id \in Ahead /\ BlockOf[chunkCh[i].id] = ch.buf /\ chunkCh[i].id # ch.id
        BY <1>7, <1>12, <2>2 DEF Tasks, Task
      <3> QED BY <1>7, <2>3, <3>1 DEF Filled
    <2>5. Len(chunkCh) + 1 <= hc
      BY <1>1, <1>12, <2>3, <2>4, ChannelFits
    <2> QED BY <1>2, <1>4, <1>6, <1>8, <2>5
  <1> QED BY <1>6, <1>9, <1>10, <1>11, <1>12 DEF WithinConcurrency

\* Until the download is cancelled no more blocks are taken than the concurrency
\* allows, and a part that is sent finds room in the channel unless an empty one takes
\* it (request.go 71-74, 194, 218-293, 466-482).
THEOREM RoomForParts == Spec => []WithinConcurrency
  <1>1. Init => RoomInv
    BY InitRoom
  <1>2. RoomInv /\ [Next]_vars => RoomInv'
    BY NextRoom
  <1>3. RoomInv => WithinConcurrency
    BY RoomEnough
  <1> QED BY <1>1, <1>2, <1>3, PTL DEF Spec
=============================================================================
