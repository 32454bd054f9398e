----------------------------- MODULE Downloader -----------------------------
(***************************************************************************)
(* The multi-part downloader (internal/net/request.go) over the pipe       *)
(* buffers it recycles (pkg/buffer/pipe.go).  A reader, which also closes  *)
(* what it reads, and worker goroutines that fetch one part at a time      *)
(* share the fields below; every critical section under d.mu is one        *)
(* action, and mu is a variable only for those that wait while they hold   *)
(* the lock: interrupt for I/O, the reader for room in the channel.  The   *)
(* remote side, the block store and the other downloads that share the     *)
(* ConcurrencyLimit are the environment.                                   *)
(*                                                                         *)
(* A byte stands for its position in the requested range.  The remote side *)
(* answers the range it was asked for, fails, or breaks off in between.    *)
(***************************************************************************)
EXTENDS Integers, Sequences, FiniteSets

CONSTANTS
    Configs,            \* a range's Length, the PartSize, Concurrency and
                        \* PartBodyMaxRetries of the Downloader that gets it, and
                        \* bounds on what it meets: MaxOverload status errors,
                        \* MaxClose calls of Close, MaxCancel cancellations by
                        \* the caller, MaxOthers slots in use elsewhere
    Limit               \* what the shared ConcurrencyLimit starts with

Positive == Nat \ {0}

ASSUME DownloaderParams ==
    /\ Configs # {} /\ IsFiniteSet(Configs)
    /\ \A c \in Configs :
            /\ DOMAIN c = {"Length", "PartSize", "Concurrency", "PartBodyMaxRetries",
                            "MaxOverload", "MaxClose", "MaxCancel", "MaxOthers"}
            /\ c.Length \in Positive /\ c.PartSize \in Positive /\ c.Concurrency \in Positive
            /\ c.PartBodyMaxRetries \in Nat
            /\ c.MaxOverload \in Nat /\ c.MaxClose \in Nat
            /\ c.MaxCancel \in 0..1 /\ c.MaxOthers \in Nat
    /\ Limit \in Nat

VARIABLES
    cfg,                               \* d.cfg and params.Range.Length
    ctxDone,                           \* d.ctx is cancelled, by the parent or by d.cancel
    mu,                                \* somebody waits with d.mu held
    pos, maxPos, nextChunk, concurrency, bufMap, chunkCh, chClosed,
    hc,                                \* blocks taken from the store; -1: it is closed
    buf,                               \* the pipe buffers, by the number of their block
    worker, reader,
    limit, others,                     \* the shared limit, and slots of other downloads
    delivered,                         \* history: the bytes Read has returned
    overloads,                         \* what cfg.MaxOverload bounds
    panicked                           \* a goroutine has sent on a closed channel

counters == <<pos, maxPos, nextChunk, concurrency, chunkCh, chClosed, hc>>
shared   == <<counters, bufMap>>
world    == <<cfg, overloads, others>>
vars     == <<world, ctxDone, mu, shared, buf, worker, reader, limit, delivered, panicked>>

-----------------------------------------------------------------------------
\* The parts a range is split into.

PartSize == cfg.PartSize

PartsOf(c) ==
    IF c.Length > c.PartSize THEN (c.Length + c.PartSize - 1) \div c.PartSize ELSE 1

maxPart == PartsOf(cfg)

\* cfg.Concurrency once it is cut to the number of parts.
cfgConcurrency == IF maxPart < cfg.Concurrency THEN maxPart ELSE cfg.Concurrency

\* Mutant: the channel is one short.
CapacityShort == cfgConcurrency - 1

Capacity == cfgConcurrency  \* of chunkCh

\* Mutant: the second part does not make up for the first one.
ChunkSizeUnadjusted(id) ==
    LET firstSize == cfg.Length % PartSize
        minSize   == PartSize \div 2
    IN  IF id = 0 /\ firstSize > 0 THEN IF firstSize > minSize THEN firstSize ELSE minSize
                                   ELSE PartSize

\* The smallest part comes first; a first part below half a PartSize is raised
\* to half of it at the cost of the second one.
ChunkSize(id) ==
    LET firstSize == cfg.Length % PartSize
        minSize   == PartSize \div 2
    IN  CASE id = 0 /\ firstSize > 0 -> IF firstSize > minSize THEN firstSize ELSE minSize
          [] id = 1 /\ 0 < firstSize /\ firstSize < minSize -> PartSize + firstSize - minSize
          [] OTHER -> PartSize

Ids     == UNION {-1..PartsOf(c) : c \in Configs}
Workers == UNION {1..c.Concurrency : c \in Configs}
Buffers == UNION {1..PartsOf(c) : c \in Configs}  \* a part takes one block at most

None == -1  \* a byte of a block that was never written

Chunk == [start : Nat, size : Nat, id : Ids, buf : Buffers, newConcurrency : BOOLEAN]

\* Each key of bufMap without a buffer is 0; interrupt empties the map.
NoBufs == [id \in Ids |-> 0]

BufsOf(m) == {m[id] : id \in Ids} \ {0}

-----------------------------------------------------------------------------
\* The pipe buffer: block # nil is open, ioWg counts the reads and writes that
\* are inside the block.

NewPipeBuffer ==
    [open |-> TRUE, limit |-> PartSize, offR |-> 0, offW |-> 0, ioWg |-> 0,
     readPending |-> FALSE, readSignal |-> FALSE, block |-> [i \in 0..(PartSize - 1) |-> None]]

Unused == [NewPipeBuffer EXCEPT !.open = FALSE]

\* What a block holds is left in place.
Reset(br, size) == [br EXCEPT !.limit = size, !.offR = 0, !.offW = 0]

\* Mutant: every piece of a body is written to the front of the block.
WrittenInFront(br, start, n) ==
    [br EXCEPT !.block = [i \in DOMAIN @ |-> IF i < n THEN start + i ELSE @[i]],
               !.offW = @ + n,
               !.ioWg = @ - 1,
               !.readPending = FALSE,
               !.readSignal = @ \/ br.readPending]

\* Mutant: a pending reader is not signalled.
WrittenSilently(br, start, n) ==
    [br EXCEPT !.block = [i \in DOMAIN @ |->
                            IF i \in br.offW..(br.offW + n - 1) THEN start + (i - br.offW) ELSE @[i]],
               !.offW = @ + n,
               !.ioWg = @ - 1]

\* The n bytes from start on are in the block; a pending reader is signalled.
Written(br, start, n) ==
    [br EXCEPT !.block = [i \in DOMAIN @ |->
                            IF i \in br.offW..(br.offW + n - 1) THEN start + (i - br.offW) ELSE @[i]],
               !.offW = @ + n,
               !.ioWg = @ - 1,
               !.readPending = FALSE,
               !.readSignal = @ \/ br.readPending]

Closed(br) == [br EXCEPT !.open = FALSE, !.readPending = FALSE]

-----------------------------------------------------------------------------
\* The two kinds of goroutines.  A worker's n counts the bytes of the part it
\* has copied in this attempt, k the bytes it is writing.

Idle == [st |-> "idle", ch |-> [start |-> 0, size |-> 0, id |-> 0, buf |-> 1, newConcurrency |-> FALSE],
         retry |-> 0, n |-> 0, k |-> 0, err |-> "none"]

Init ==
    /\ cfg \in Configs
    /\ ctxDone = FALSE /\ mu = FALSE /\ panicked = FALSE
    /\ pos = 0 /\ maxPos = 0 /\ nextChunk = 0 /\ concurrency = 0
    /\ bufMap = NoBufs /\ chunkCh = <<>> /\ chClosed = FALSE /\ hc = 0
    /\ buf = [b \in Buffers |-> Unused]
    /\ worker = [w \in Workers |-> Idle]
    /\ reader = [st |-> "new", pos |-> 0, curBuf |-> 0, k |-> 0, closes |-> 0]
    /\ limit = Limit /\ others = 0
    /\ delivered = <<>> /\ overloads = 0

ReaderAt(st, next) == reader.st = st /\ reader' = [reader EXCEPT !.st = next]

At(w, st) == worker[w].st = st

Step(w, st) == [worker EXCEPT ![w].st = st]

\* downloadPart returns: the slot goes back.
Exit(w) ==
    /\ worker' = [worker EXCEPT ![w] = [Idle EXCEPT !.st = "gone"]]
    /\ limit' = limit + 1

-----------------------------------------------------------------------------
(***************************************************************************)
(* sendChunkTask, with workers ws after the caller's own step.  It holds   *)
(* d.mu throughout; the wait of Reset for the I/O in the buffer is a guard.*)
(***************************************************************************)
NoTask(newConcurrency) == pos >= maxPos \/ (newConcurrency /\ concurrency <= 0)

\* Mutant: the slot of the first worker is taken twice.
NeedsSlotTwice(newConcurrency) == newConcurrency

NeedsSlot(newConcurrency) == newConcurrency /\ nextChunk > 0

\* The limit is exhausted, the store has no further block, or Reset refuses.
SendFails(newConcurrency) ==
    /\ ~NoTask(newConcurrency)
    /\ \/ NeedsSlot(newConcurrency) /\ limit = 0
       \/ bufMap[nextChunk] = 0
       \/ \E b \in Buffers : bufMap[nextChunk] = b /\ ~buf[b].open
       \/ ChunkSize(nextChunk) > PartSize

NextChunk(newConcurrency, b) ==
    [start |-> pos, size |-> ChunkSize(nextChunk), id |-> nextChunk, buf |-> b,
     newConcurrency |-> newConcurrency]

\* The buffer of the next part is ready: its own, or one over a new block.
Prepare(b) ==
    /\ \/ bufMap[nextChunk] = b /\ buf[b].open /\ buf[b].ioWg = 0
          /\ buf' = [buf EXCEPT ![b] = Reset(@, ChunkSize(nextChunk))]
          /\ UNCHANGED hc
       \/ bufMap[nextChunk] = 0 /\ b = hc + 1 /\ hc' = b
          /\ buf' = [buf EXCEPT ![b] = Reset(NewPipeBuffer, ChunkSize(nextChunk))]
    /\ ChunkSize(nextChunk) <= PartSize
    /\ bufMap' = [bufMap EXCEPT ![nextChunk] = b]
    /\ pos' = pos + ChunkSize(nextChunk)
    /\ nextChunk' = nextChunk + 1

Spawn(ws) == [ws EXCEPT ![CHOOSE w \in Workers : ws[w].st = "idle"].st = "take"]

\* The task is in the channel, and a new worker runs if one was asked for.
SendQueues(newConcurrency, ws) ==
    /\ ~NoTask(newConcurrency)
    /\ NeedsSlot(newConcurrency) => limit > 0
    /\ \E b \in Buffers : Prepare(b) /\ chunkCh' = Append(chunkCh, NextChunk(newConcurrency, b))
    /\ Len(chunkCh) < Capacity
    /\ worker' = IF newConcurrency THEN Spawn(ws) ELSE ws
    /\ concurrency' = IF newConcurrency THEN concurrency - 1 ELSE concurrency
    /\ limit' = IF NeedsSlot(newConcurrency) THEN limit - 1 ELSE limit
    /\ UNCHANGED <<maxPos, chClosed>>

\* The select at the end takes the cancelled context: the slot goes back.
SendCancelled(newConcurrency) ==
    /\ ~NoTask(newConcurrency)
    /\ NeedsSlot(newConcurrency) => limit > 0
    /\ ctxDone
    /\ \E b \in Buffers : Prepare(b)
    /\ UNCHANGED <<maxPos, concurrency, chunkCh, chClosed>>

sendChunkTask(newConcurrency, ws) ==
    /\ ~mu
    /\ \/ SendQueues(newConcurrency, ws)
       \/ SendCancelled(newConcurrency) /\ worker' = ws /\ UNCHANGED limit
       \/ /\ NoTask(newConcurrency) \/ SendFails(newConcurrency)
          /\ worker' = ws
          /\ UNCHANGED <<shared, buf, limit>>

\* Mutant: the buffer that is read is not kept for interrupt.
popBufForgets(id) == [bufMap EXCEPT ![id] = 0]

popBuf(id) ==
    IF bufMap[id] = 0 THEN bufMap ELSE [bufMap EXCEPT ![id] = 0, ![-1] = bufMap[id]]

-----------------------------------------------------------------------------
\* Download: the reader before it has anything to read.

\* A slot is taken, and the fields are set up if there is more than one part.
Acquire ==
    /\ \/ /\ limit > 0 /\ limit' = limit - 1
          /\ ReaderAt("new", IF maxPart = 1 THEN "one" ELSE "first")
          /\ maxPos' = cfg.Length /\ concurrency' = cfgConcurrency
       \/ limit = 0 /\ ReaderAt("new", "refused") /\ UNCHANGED <<limit, maxPos, concurrency>>
    /\ UNCHANGED <<world, ctxDone, mu, pos, nextChunk, bufMap, chunkCh, chClosed, hc,
                   buf, worker, delivered, panicked>>

\* A range of one part is one request, which holds the slot until it is closed.
DownloadSingle ==
    /\ \/ ReaderAt("one", "single") /\ UNCHANGED limit
       \/ ReaderAt("one", "refused") /\ limit' = limit + 1
    /\ UNCHANGED <<world, ctxDone, mu, shared, buf, worker, delivered, panicked>>

CloseSingle ==
    /\ \/ ReaderAt("single", "singleClosed") /\ limit' = limit + 1
       \/ ReaderAt("singleClosed", "singleClosed") /\ UNCHANGED limit
    /\ UNCHANGED <<world, ctxDone, mu, shared, buf, worker, delivered, panicked>>

\* The first part is queued, or Download gives its slot back and interrupts.
DownloadFirst ==
    /\ ~mu
    /\ \/ SendQueues(TRUE, worker) /\ ReaderAt("first", "open") /\ UNCHANGED ctxDone
       \/ /\ SendCancelled(TRUE) \/ (SendFails(TRUE) /\ UNCHANGED <<shared, buf>>)
          /\ ReaderAt("first", "interrupt")
          /\ ctxDone' = TRUE /\ limit' = limit + 1 /\ UNCHANGED worker
    /\ UNCHANGED <<world, mu, delivered, panicked>>

DownloadReturns ==
    /\ ~mu /\ reader.st = "open"
    /\ bufMap' = popBuf(0)
    /\ reader' = [reader EXCEPT !.st = "ready", !.curBuf = bufMap[0]]
    /\ UNCHANGED <<world, ctxDone, mu, counters, buf, worker, limit, delivered, panicked>>

-----------------------------------------------------------------------------
(***************************************************************************)
(* multiReadCloser.Read over PipeBuffer.Read.  A reader that is "waiting"  *)
(* has set readPending; one that is "reading" is inside the block.         *)
(***************************************************************************)
cur == buf[reader.curBuf]

readerOnly == <<world, ctxDone, mu, shared, worker, limit, panicked>>

\* The context is looked at first, then what the part has left.
ReadFails ==
    /\ ctxDone
    /\ (reader.curBuf # 0 /\ ReaderAt("ready", "failed")) \/ ReaderAt("waiting", "failed")
    /\ UNCHANGED <<readerOnly, buf, delivered>>

\* curBuf is nil, or the part was read to its end before.
ReadEof ==
    /\ \/ reader.curBuf = 0 /\ ReaderAt("ready", "eof")
       \/ reader.curBuf # 0 /\ ~ctxDone /\ cur.offR >= cur.limit /\ ReaderAt("ready", "partEnd")
    /\ UNCHANGED <<readerOnly, buf, delivered>>

ReadWaits ==
    /\ ReaderAt("ready", "waiting") /\ reader.curBuf # 0 /\ ~ctxDone
    /\ cur.open /\ cur.offR < cur.limit /\ cur.offW = cur.offR
    /\ buf' = [buf EXCEPT ![reader.curBuf].readPending = TRUE]
    /\ UNCHANGED <<readerOnly, delivered>>

\* A signal may be old: the loop looks again, without a look at the context.
ReadWakes ==
    /\ reader.st = "waiting" /\ cur.readSignal
    /\ IF cur.offW = cur.offR
       THEN /\ buf' = [buf EXCEPT ![reader.curBuf].readSignal = FALSE,
                                  ![reader.curBuf].readPending = TRUE]
            /\ UNCHANGED reader
       ELSE \E k \in 1..(cur.offW - cur.offR) :
            /\ buf' = [buf EXCEPT ![reader.curBuf].readSignal = FALSE,
                                  ![reader.curBuf].ioWg = @ + 1]
            /\ reader' = [reader EXCEPT !.st = "reading", !.k = k]
    /\ UNCHANGED <<readerOnly, delivered>>

ReadStart ==
    /\ reader.st = "ready" /\ reader.curBuf # 0 /\ ~ctxDone
    /\ cur.open /\ cur.offR < cur.limit
    /\ \E k \in 1..(cur.offW - cur.offR) : reader' = [reader EXCEPT !.st = "reading", !.k = k]
    /\ buf' = [buf EXCEPT ![reader.curBuf].ioWg = @ + 1]
    /\ UNCHANGED <<readerOnly, delivered>>

\* A read that fills less than it was given tells the end of the part at once.
ReadEnd ==
    /\ reader.st = "reading"
    /\ delivered' = delivered \o [i \in 1..reader.k |-> cur.block[cur.offR + i - 1]]
    /\ buf' = [buf EXCEPT ![reader.curBuf].offR = @ + reader.k, ![reader.curBuf].ioWg = @ - 1]
    /\ \E st \in {"ready"} \cup (IF cur.offR + reader.k >= cur.limit THEN {"partEnd"} ELSE {}) :
            reader' = [reader EXCEPT !.st = st, !.k = 0]
    /\ UNCHANGED readerOnly

\* The next part, or the end.  finishBuf starts: the buffer that was read is
\* offered to the next task, or closed when that one has a buffer.
NextPart ==
    /\ reader.st = "partEnd"
    /\ IF reader.pos + 1 >= maxPart
       THEN reader' = [reader EXCEPT !.pos = @ + 1, !.st = "eof"] /\ UNCHANGED bufMap
       ELSE /\ ~mu
            /\ IF bufMap[nextChunk] = 0
               THEN /\ bufMap' = [bufMap EXCEPT ![nextChunk] = reader.curBuf]
                    /\ reader' = [reader EXCEPT !.pos = @ + 1, !.st = "sendTask"]
               ELSE /\ UNCHANGED bufMap
                    /\ reader' = [reader EXCEPT !.pos = @ + 1, !.st = "closePrev"]
    /\ UNCHANGED <<world, ctxDone, mu, counters, buf, worker, limit, delivered, panicked>>

FinishSends ==
    /\ ReaderAt("sendTask", "pop")
    /\ sendChunkTask(FALSE, worker)
    /\ UNCHANGED <<world, ctxDone, mu, delivered, panicked>>

\* The channel is full: the reader waits in the select with d.mu held.  What the task
\* is made of cannot change meanwhile.
FinishWaits ==
    /\ ReaderAt("sendTask", "sending")
    /\ ~mu /\ mu' = TRUE
    /\ ~NoTask(FALSE) /\ ~ctxDone
    /\ Len(chunkCh) >= Capacity
    /\ UNCHANGED <<world, ctxDone, shared, buf, worker, limit, delivered, panicked>>

FinishResumes ==
    /\ ReaderAt("sending", "pop") /\ mu' = FALSE
    /\ SendQueues(FALSE, worker) \/ (SendCancelled(FALSE) /\ UNCHANGED <<worker, limit>>)
    /\ UNCHANGED <<world, ctxDone, delivered, panicked>>

FinishCloses ==
    /\ ReaderAt("closePrev", "pop") /\ cur.ioWg = 0
    /\ buf' = [buf EXCEPT ![reader.curBuf] = Closed(@)]
    /\ UNCHANGED <<readerOnly, delivered>>

FinishPops ==
    /\ ~mu /\ reader.st = "pop"
    /\ bufMap' = popBuf(reader.pos)
    /\ reader' = [reader EXCEPT !.st = "ready", !.curBuf = bufMap[reader.pos]]
    /\ UNCHANGED <<world, ctxDone, mu, counters, buf, worker, limit, delivered, panicked>>

-----------------------------------------------------------------------------
(***************************************************************************)
(* interrupt, by Download or by Close, which may be called twice.  It      *)
(* cancels, then takes d.mu, closes the buffers of bufMap one after the    *)
(* other, each after the I/O inside it, gives the blocks back and closes   *)
(* the channel.                                                            *)
(***************************************************************************)
Close ==
    /\ reader.st \in {"ready", "eof", "failed"} \/ (reader.st = "closed" /\ reader.closes > 0)
    /\ reader.closes < cfg.MaxClose
    /\ reader' = [reader EXCEPT !.st = "interrupt", !.closes = @ + 1]
    /\ ctxDone' = TRUE
    /\ UNCHANGED <<world, mu, shared, buf, worker, limit, delivered, panicked>>

InterruptLocks ==
    /\ ~mu /\ mu' = TRUE
    /\ ReaderAt("interrupt", "closing")
    /\ UNCHANGED <<world, ctxDone, shared, buf, worker, limit, delivered, panicked>>

InterruptCloses(b) ==
    /\ reader.st = "closing" /\ b \in BufsOf(bufMap) /\ buf[b].open
    /\ \A c \in BufsOf(bufMap) : ~buf[c].open => buf[c].ioWg = 0
    /\ buf' = [buf EXCEPT ![b] = Closed(@)]
    /\ UNCHANGED <<readerOnly, reader, delivered>>

InterruptEnds ==
    /\ ReaderAt("closing", "closed")
    /\ \A b \in BufsOf(bufMap) : ~buf[b].open /\ buf[b].ioWg = 0
    /\ bufMap' = NoBufs /\ hc' = -1 /\ mu' = FALSE
    /\ maxPos' = 0
    /\ chClosed' = (chClosed \/ maxPos # 0)
    /\ panicked' = (chClosed /\ maxPos # 0)
    /\ concurrency' = IF maxPos # 0 /\ concurrency > 0 THEN -concurrency ELSE concurrency
    /\ UNCHANGED <<world, ctxDone, pos, nextChunk, chunkCh, buf, worker, limit, delivered>>

-----------------------------------------------------------------------------
\* A worker: downloadPart, downloadChunk and tryDownloadChunk.

workerOnly == <<world, mu, pos, maxPos, nextChunk, bufMap, chClosed, hc, reader, delivered, panicked>>

WorkerTakes(w) ==
    /\ At(w, "take")
    /\ \/ (ctxDone \/ (chClosed /\ chunkCh = <<>>)) /\ Exit(w) /\ UNCHANGED chunkCh
       \/ /\ chunkCh # <<>> /\ chunkCh' = Tail(chunkCh)
          /\ worker' = [worker EXCEPT ![w] = [Idle EXCEPT !.st = "request", !.ch = Head(chunkCh)]]
          /\ UNCHANGED limit
    /\ UNCHANGED <<workerOnly, ctxDone, concurrency, buf>>

\* No answer, a range that cannot be satisfied, a size that is not the file's.
RequestFails(w) ==
    /\ At(w, "request") /\ worker' = [worker EXCEPT ![w].st = "judge", ![w].err = "fatal"]
    /\ UNCHANGED <<workerOnly, ctxDone, concurrency, chunkCh, buf, limit>>

\* A status error.  The first part tries again.  For a later one the remaining
\* workers are not started any more; this one ends, with its part back in the
\* channel, if it was new for the part or a start was called off.
RequestRefused(w) ==
    LET ch == worker[w].ch
        isCancelConcurrency == ch.newConcurrency \/ concurrency > 0
    IN  /\ At(w, "request") /\ overloads < cfg.MaxOverload /\ overloads' = overloads + 1
        /\ \/ /\ ch.id = 0
              /\ worker' = [worker EXCEPT ![w].st = "judge", ![w].err = "retry"]
              /\ UNCHANGED concurrency
           \/ /\ ch.id # 0 /\ ~mu
              /\ concurrency' = (IF concurrency > 0 THEN -concurrency ELSE concurrency)
                                    - (IF isCancelConcurrency THEN 1 ELSE 0)
              /\ worker' = IF isCancelConcurrency THEN Step(w, "requeue")
                           ELSE [worker EXCEPT ![w].st = "judge", ![w].err = "infinite"]
        /\ UNCHANGED <<cfg, others, mu, ctxDone, pos, maxPos, nextChunk, bufMap, chunkCh, chClosed,
                       hc, buf, reader, limit, delivered, panicked>>

\* The select after d.mu is released: every case that is ready may be taken, the
\* send to a channel that was closed in the meantime too.
Requeue(w) ==
    /\ At(w, "requeue")
    /\ \/ ctxDone /\ Exit(w) /\ UNCHANGED <<chunkCh, panicked>>
       \/ /\ ~chClosed /\ Len(chunkCh) < Capacity
          /\ chunkCh' = Append(chunkCh, worker[w].ch) /\ Exit(w) /\ UNCHANGED panicked
       \/ chClosed /\ panicked' = TRUE /\ UNCHANGED <<chunkCh, worker, limit>>
    /\ UNCHANGED <<world, mu, ctxDone, pos, maxPos, nextChunk, concurrency, bufMap, chClosed, hc,
                   buf, reader, delivered>>

\* An answer lets one more worker start, then the body is copied.
RequestSucceeds(w) ==
    /\ At(w, "request")
    /\ sendChunkTask(TRUE, Step(w, "body"))
    /\ UNCHANGED <<world, ctxDone, mu, reader, delivered, panicked>>

Left(w) == worker[w].ch.size - worker[w].n

\* PipeBuffer.Write looks at the context, then takes the lock of the buffer.
WriteEnters(w) ==
    /\ At(w, "body") /\ Left(w) > 0
    /\ worker' = IF ctxDone THEN [worker EXCEPT ![w].st = "judge", ![w].err = "retry"]
                            ELSE Step(w, "write")
    /\ UNCHANGED <<workerOnly, ctxDone, concurrency, chunkCh, buf, limit>>

\* Mutant: a write waits for room in a buffer that was closed.
WriteStartWaits(w) ==
    LET b == worker[w].ch.buf
    IN  /\ At(w, "write") /\ buf[b].open
        /\ \E k \in 1..Left(w) : k <= buf[b].limit - buf[b].offW
              /\ worker' = [worker EXCEPT ![w].st = "writing", ![w].k = k]
        /\ buf' = [buf EXCEPT ![b].ioWg = @ + 1]
        /\ UNCHANGED <<workerOnly, ctxDone, concurrency, chunkCh, limit>>

WriteStart(w) ==
    LET b        == worker[w].ch.buf
        canWrite == buf[b].limit - buf[b].offW
    IN  /\ At(w, "write")
        /\ \/ /\ buf[b].open
              /\ \E k \in 1..Left(w) : k <= canWrite
                    /\ worker' = [worker EXCEPT ![w].st = "writing", ![w].k = k]
              /\ buf' = [buf EXCEPT ![b].ioWg = @ + 1]
           \/ /\ ~buf[b].open \/ canWrite <= 0
              /\ worker' = [worker EXCEPT ![w].st = "judge", ![w].err = "retry"]
              /\ UNCHANGED buf
        /\ UNCHANGED <<workerOnly, ctxDone, concurrency, chunkCh, limit>>

WriteEnd(w) ==
    LET wk == worker[w]
    IN  /\ At(w, "writing")
        /\ buf' = [buf EXCEPT ![wk.ch.buf] = Written(@, wk.ch.start + wk.n, wk.k)]
        /\ worker' = [worker EXCEPT ![w].st = "body", ![w].n = @ + wk.k, ![w].k = 0]
        /\ UNCHANGED <<workerOnly, ctxDone, concurrency, chunkCh, limit>>

BodyEnds(w) ==
    /\ At(w, "body") /\ Left(w) = 0
    /\ worker' = [worker EXCEPT ![w] = [Idle EXCEPT !.st = "take"]]
    /\ UNCHANGED <<workerOnly, ctxDone, concurrency, chunkCh, buf, limit>>

\* The body ends early, or with an error.
BodyBreaks(w) ==
    /\ At(w, "body") /\ worker' = [worker EXCEPT ![w].st = "judge", ![w].err = "retry"]
    /\ UNCHANGED <<workerOnly, ctxDone, concurrency, chunkCh, buf, limit>>

\* downloadChunk decides what an error means; it goes on behind what was copied.
Judge(w) ==
    LET wk    == worker[w]
        retry == wk.retry + (IF wk.err = "retry" THEN 1 ELSE 0)
        ends  == wk.err = "fatal" \/ retry > cfg.PartBodyMaxRetries
    IN  /\ At(w, "judge")
        /\ \/ ctxDone /\ Exit(w) /\ UNCHANGED ctxDone
           \/ ~ctxDone /\ ends /\ Exit(w) /\ ctxDone' = TRUE
           \/ /\ ~ctxDone /\ ~ends
              /\ worker' = [worker EXCEPT ![w] = [Idle EXCEPT
                               !.st = "request", !.retry = retry,
                               !.ch = [wk.ch EXCEPT !.start = @ + wk.n, !.size = @ - wk.n]]]
              /\ UNCHANGED <<ctxDone, limit>>
        /\ UNCHANGED <<workerOnly, concurrency, chunkCh, buf>>

-----------------------------------------------------------------------------
\* The environment: the caller's context, and other downloads.

ParentCancels ==
    /\ ~ctxDone /\ ctxDone' = TRUE /\ cfg.MaxCancel > 0
    /\ UNCHANGED <<world, mu, shared, buf, worker, reader, limit, delivered, panicked>>

OthersAcquire ==
    /\ others < cfg.MaxOthers
    /\ limit > 0 /\ limit' = limit - 1 /\ others' = others + 1
    /\ UNCHANGED <<cfg, overloads, ctxDone, mu, shared, buf, worker, reader, delivered, panicked>>

OthersRelease ==
    /\ others > 0 /\ limit' = limit + 1 /\ others' = others - 1
    /\ UNCHANGED <<cfg, overloads, ctxDone, mu, shared, buf, worker, reader, delivered, panicked>>

Start == Acquire \/ DownloadSingle \/ DownloadFirst \/ DownloadReturns

Read ==
    \/ ReadFails \/ ReadEof \/ ReadWaits \/ ReadWakes \/ ReadStart \/ ReadEnd
    \/ NextPart \/ FinishSends \/ FinishWaits \/ FinishResumes \/ FinishCloses \/ FinishPops

Interrupt == InterruptLocks \/ (\E b \in Buffers : InterruptCloses(b)) \/ InterruptEnds

Work(w) ==
    \/ WorkerTakes(w) \/ RequestSucceeds(w) \/ RequestFails(w) \/ RequestRefused(w)
    \/ Requeue(w)
    \/ WriteEnters(w) \/ WriteStart(w) \/ WriteEnd(w) \/ BodyEnds(w) \/ BodyBreaks(w) \/ Judge(w)

Others == ParentCancels \/ OthersAcquire \/ OthersRelease

\* A panic ends the process.
Next ==
    /\ ~panicked
    /\ \/ Start \/ Read \/ Close \/ CloseSingle \/ Interrupt \/ Others
       \/ \E w \in Workers : Work(w)

Spec == Init /\ [][Next]_vars

\* Goroutines run and the remote side answers; nobody has to close or cancel.
Fairness ==
    /\ WF_vars(~panicked /\ (Start \/ Read))
    /\ WF_vars(~panicked /\ Interrupt)
    /\ \A w \in Workers : WF_vars(~panicked /\ Work(w))

FairSpec == Spec /\ Fairness

-----------------------------------------------------------------------------
\* Every variable has its type, and offR <= offW <= limit in every buffer.
TypeOK ==
    /\ cfg \in Configs /\ ctxDone \in BOOLEAN /\ mu \in BOOLEAN /\ panicked \in BOOLEAN
    /\ pos \in 0..cfg.Length /\ maxPos \in {0, cfg.Length} /\ nextChunk \in 0..maxPart
    /\ concurrency \in Int /\ bufMap \in [Ids -> 0..hc \cup {0}] /\ chClosed \in BOOLEAN
    /\ \A i \in DOMAIN chunkCh : chunkCh[i] \in Chunk
    /\ \A b \in Buffers : LET br == buf[b] IN
            /\ 0 <= br.offR /\ br.offR <= br.offW /\ br.offW <= br.limit /\ br.limit <= PartSize
            /\ br.ioWg \in 0..2
    /\ \A w \in Workers : worker[w].ch \in Chunk
    /\ reader.curBuf \in {0} \cup Buffers /\ reader.pos \in 0..maxPart
    /\ limit \in Nat /\ others \in Nat /\ overloads \in 0..cfg.MaxOverload

\* Read returns the bytes of the range in their order, each once, whatever order
\* the parts arrive in and however often one is asked for again; the end is told
\* only behind the last byte.
DeliveredInOrder ==
    /\ \A i \in DOMAIN delivered : delivered[i] = i - 1
    /\ reader.st = "eof" => Len(delivered) = cfg.Length

Running == {w \in Workers : worker[w].st \notin {"idle", "gone"}}

\* Every slot is with the limit, another download, a worker that runs, or the
\* download before its first worker.
SlotsBalanced ==
    limit + others
      + Cardinality(Running)
      + (IF reader.st \in {"one", "first", "single"} THEN 1 ELSE 0) = Limit

\* A part that was copied to its end when its body broke is asked for again, with
\* nothing left.
Empty(ch) == ch.size = 0

\* Until the download is cancelled, no more blocks are in use than the concurrency
\* allows (request.go 71-74), and the channel has room for whoever puts a part into
\* it, who may hold d.mu (194, 282-292, 476-481), unless an empty part takes it: the
\* sender of a new worker's part never waits.
WithinConcurrency ==
    LET sends(newConcurrency) ==
            ~NoTask(newConcurrency) /\ (NeedsSlot(newConcurrency) => limit > 0)
        full == Len(chunkCh) >= Capacity
        withEmpty == \E i \in DOMAIN chunkCh : Empty(chunkCh[i])
    IN  ~ctxDone =>
          /\ hc <= cfgConcurrency
          /\ full =>
               /\ reader.st # "first"
               /\ reader.st = "sendTask" /\ sends(FALSE) => withEmpty
               /\ \A w \in Workers :
                    /\ At(w, "request") => ~sends(TRUE)
                    /\ At(w, "requeue") => withEmpty \/ Empty(worker[w].ch)

\* Blocks are given back only when nobody reads or writes inside one.
BlocksOutliveIO == hc = -1 => \A b \in Buffers : buf[b].ioWg = 0

\* After Close, every worker ends and gives its slot back.
SlotsReturned ==
    reader.st = "closed" ~> panicked \/ Running = {}

\* A reader that waits is served or told of a failure while a worker is left.
ServedByWorkers == reader.st = "waiting" ~> panicked \/ reader.st # "waiting" \/ Running = {}

\* A reader that waits is served or told of a failure.
ReaderServed == reader.st = "waiting" ~> panicked \/ reader.st # "waiting"
=============================================================================
