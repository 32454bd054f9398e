-------------------------- MODULE DownloaderProofs --------------------------
(***************************************************************************)
(* The downloader for every range, part size, number of workers, retries   *)
(* and slots.                                                              *)
(***************************************************************************)
EXTENDS Downloader, FiniteSetTheorems, SequenceTheorems, TLAPS

-----------------------------------------------------------------------------
(***************************************************************************)
(* The parts: where each one starts, and that their sizes add up.          *)
(***************************************************************************)
\* Where part i starts; all parts behind the second are whole.
StartOf(i) ==
    CASE i = 0 -> 0
      [] i = 1 -> ChunkSize(0)
      [] OTHER -> cfg.Length - (maxPart - i) * PartSize

\* The quotient and the rest of a division.
LEMMA DivFacts ==
  ASSUME NEW a \in Nat, NEW n \in Nat \ {0}
  PROVE  /\ a \div n \in Nat /\ a % n \in 0..(n - 1)
         /\ a = n * (a \div n) + (a % n)
  <1>1. a \div n \in Nat
    OBVIOUS
  <1>2. a % n \in 0..(n - 1)
    OBVIOUS
  <1>3. a = n * (a \div n) + (a % n)
    OBVIOUS
  <1> QED BY <1>1, <1>2, <1>3

\* More parts are never fewer bytes.
LEMMA MulMono ==
  ASSUME NEW a \in Nat, NEW b \in Nat, NEW n \in Nat, a <= b
  PROVE  a * n <= b * n
  OBVIOUS

\* A quotient is the only number of whole parts that fit.
LEMMA DivUnique ==
  ASSUME NEW a \in Nat, NEW n \in Nat \ {0}, NEW q \in Nat, q * n <= a, a < (q + 1) * n
  PROVE  a \div n = q
  <1>1. a \div n \in Nat /\ n * (a \div n) <= a /\ a < n * (a \div n) + n
    BY DivFacts
  <1>2. ~ (q < a \div n)
    <2> SUFFICES ASSUME q + 1 <= a \div n PROVE FALSE
      BY <1>1
    <2>1. (q + 1) * n <= (a \div n) * n
      BY <1>1, MulMono
    <2> QED BY <2>1, <1>1
  <1>3. ~ (a \div n < q)
    <2> SUFFICES ASSUME (a \div n) + 1 <= q PROVE FALSE
      BY <1>1
    <2>1. ((a \div n) + 1) * n <= q * n
      BY <1>1, MulMono
    <2> QED BY <2>1, <1>1
  <1> QED BY <1>1, <1>2, <1>3

\* What a configuration has.
LEMMA ConfigFacts ==
  ASSUME NEW c \in Configs
  PROVE  /\ c.Length \in Positive /\ c.PartSize \in Positive /\ c.Concurrency \in Positive
         /\ c.PartBodyMaxRetries \in Nat /\ c.MaxOverload \in Nat /\ c.MaxClose \in Nat
  BY DownloaderParams

\* A range has at least one part, and more than one only if it is longer than a part:
\* then the bytes behind the first part are those of whole parts.
LEMMA PartsOfFacts ==
  ASSUME NEW c \in Configs
  PROVE  /\ PartsOf(c) \in Positive
         /\ PartsOf(c) > 1 =>
              c.Length = (PartsOf(c) - 1) * c.PartSize
                          + (IF c.Length % c.PartSize = 0 THEN c.PartSize ELSE c.Length % c.PartSize)
  <1> DEFINE L == c.Length
             P == c.PartSize
             q == L \div P
             r == L % P
  <1>1. L \in Nat \ {0} /\ P \in Nat \ {0}
    BY ConfigFacts DEF Positive
  <1>2. q \in Nat /\ r \in 0..(P - 1) /\ L = P * q + r
    BY <1>1, DivFacts
  <1>3. CASE L <= P
    <2>1. PartsOf(c) = 1
      BY <1>1, <1>3 DEF PartsOf
    <2> QED BY <2>1 DEF Positive
  <1>4. CASE L > P
    <2> DEFINE m == IF r = 0 THEN q ELSE q + 1
               a == L + P - 1
    <2>1. m \in Nat /\ a \in Nat
      <3> HIDE DEF L, P, q, r
      <3> QED BY <1>1, <1>2
    <2>2. m * P <= a /\ a < (m + 1) * P
      <3> HIDE DEF L, P, q, r
      <3>1. P * q = q * P /\ (q + 1) * P = q * P + P /\ (q + 2) * P = q * P + P + P
        BY <1>1, <1>2
      <3>2. q * P \in Nat
        BY <1>1, <1>2
      <3>3. CASE r = 0
        BY <1>1, <1>2, <3>1, <3>2, <3>3
      <3>4. CASE r # 0
        BY <1>1, <1>2, <3>1, <3>2, <3>4
      <3> QED BY <3>3, <3>4
    <2>3. a \div P = m
      <3> HIDE DEF a, m, P
      <3> QED BY <1>1, <2>1, <2>2, DivUnique
    <2>4. PartsOf(c) = m
      BY <1>1, <1>4, <2>3 DEF PartsOf
    <2>5. m \in Nat \ {0} /\ L = (m - 1) * P + (IF r = 0 THEN P ELSE r)
      <3> HIDE DEF L, P, q, r
      <3>1. q # 0
        BY <1>1, <1>2, <1>4
      <3>2. (q - 1) * P = P * q - P /\ q * P = P * q
        BY <1>1, <1>2
      <3> QED BY <1>1, <1>2, <3>1, <3>2
    <2> QED BY <2>4, <2>5 DEF Positive
  <1> QED BY <1>1, <1>3, <1>4

\* The sizes that ChunkSize hands out, and the bounds of the sets of names.
LEMMA RangeFacts ==
  ASSUME cfg \in Configs
  PROVE  /\ cfg.Length \in Nat \ {0} /\ PartSize \in Nat \ {0}
         /\ maxPart \in Nat \ {0}
         /\ cfgConcurrency \in 1..cfg.Concurrency /\ cfgConcurrency <= maxPart
         /\ -1..maxPart \subseteq Ids /\ Ids \subseteq Int
         /\ 1..maxPart \subseteq Buffers /\ Buffers \subseteq Nat \ {0}
         /\ 1..cfg.Concurrency \subseteq Workers
  <1>1. \A c \in Configs : PartsOf(c) \in Positive /\ c.Concurrency \in Positive
    BY PartsOfFacts, ConfigFacts
  <1>2. cfg.Length \in Nat \ {0} /\ PartSize \in Nat \ {0} /\ cfg.Concurrency \in Nat \ {0}
    BY ConfigFacts DEF Positive, PartSize
  <1>3. maxPart \in Nat \ {0}
    BY <1>1 DEF maxPart, Positive
  <1>4. cfgConcurrency \in 1..cfg.Concurrency /\ cfgConcurrency <= maxPart
    BY <1>2, <1>3 DEF cfgConcurrency
  <1>5. -1..maxPart \subseteq Ids /\ 1..maxPart \subseteq Buffers /\ 1..cfg.Concurrency \subseteq Workers
    BY DEF Ids, Buffers, Workers, maxPart
  <1>6. Ids \subseteq Int /\ Buffers \subseteq Nat \ {0}
    BY <1>1 DEF Ids, Buffers, Positive
  <1> QED BY <1>2, <1>3, <1>4, <1>5, <1>6

\* Every part has between one byte and PartSize bytes, starts where the one before
\* it ends, and the last one ends with the range.
LEMMA PartFacts ==
  ASSUME cfg \in Configs, maxPart > 1
  PROVE  /\ StartOf(0) = 0 /\ StartOf(maxPart) = cfg.Length
         /\ \A i \in 0..(maxPart - 1) :
              /\ ChunkSize(i) \in 1..PartSize
              /\ StartOf(i) \in Nat /\ StartOf(i) < cfg.Length
              /\ StartOf(i + 1) = StartOf(i) + ChunkSize(i)
  <1> DEFINE L == cfg.Length
             P == PartSize
             m == maxPart
             r == L % P
             h == P \div 2
             z == IF r = 0 THEN P ELSE r
  <1>1. L \in Nat \ {0} /\ P \in Nat \ {0} /\ m \in Nat \ {0} /\ m > 1
    BY RangeFacts
  <1>2. r \in 0..(P - 1)
    BY <1>1, DivFacts
  <1>3. h \in Nat /\ h <= P
    BY <1>1
  <1>4. L = (m - 1) * P + z
    BY PartsOfFacts DEF maxPart, PartSize
  <1>5. /\ ChunkSize(0) = IF r > 0 THEN IF r > h THEN r ELSE h ELSE P
        /\ ChunkSize(1) = IF 0 < r /\ r < h THEN P + r - h ELSE P
        /\ \A i \in Nat : i > 1 => ChunkSize(i) = P
    BY DEF ChunkSize
  <1>6. /\ StartOf(0) = 0 /\ StartOf(1) = ChunkSize(0)
        /\ \A i \in Nat : i > 1 => StartOf(i) = L - (m - i) * P
    BY DEF StartOf
  <1>7. z \in 1..P
    BY <1>1, <1>2
  <1> HIDE DEF L, P, m, r, h, z
  <1>8. ChunkSize(0) \in 1..P /\ ChunkSize(1) \in 1..P
    BY <1>1, <1>2, <1>3, <1>5
  <1>9. ChunkSize(0) + ChunkSize(1) = P + z
    BY <1>1, <1>2, <1>3, <1>5 DEF z
  <1>10. (m - 1) * P \in Nat /\ (m - 1) * P = (m - 2) * P + P /\ (m - 2) * P \in Nat /\ (m - m) * P = 0
    BY <1>1
  <1>11. StartOf(m) = L
    BY <1>1, <1>6, <1>10
  <1>12. ASSUME NEW i \in 0..(m - 1)
         PROVE  /\ ChunkSize(i) \in 1..P /\ StartOf(i) \in Nat /\ StartOf(i) < L
                /\ StartOf(i + 1) = StartOf(i) + ChunkSize(i)
    <2>1. CASE i = 0
      BY <1>1, <1>4, <1>6, <1>7, <1>8, <1>10, <2>1
    <2>2. CASE i = 1
      <3>1. StartOf(2) = L - (m - 2) * P
        BY <1>1, <1>6
      <3>2. StartOf(2) = P + z
        BY <1>1, <1>4, <1>7, <1>10, <3>1
      <3>3. StartOf(1) < L
        <4>1. L >= P + z
          BY <1>1, <1>4, <1>7, <1>10
        <4> QED BY <1>1, <1>6, <1>7, <1>8, <1>9, <4>1
      <3> QED BY <1>6, <1>8, <1>9, <2>2, <3>2, <3>3
    <2>3. CASE i > 1
      <3>1. i \in Nat /\ i + 1 \in Nat /\ m - i \in Nat /\ m - (i + 1) \in Nat /\ m - i <= m - 1
        BY <1>1, <2>3
      <3>2. (m - i) * P = (m - (i + 1)) * P + P
        BY <1>1, <3>1
      <3>3. (m - i) * P <= (m - 1) * P
        BY <1>1, <3>1, MulMono
      <3>4. (m - i) * P \in Nat /\ (m - (i + 1)) * P \in Nat
        BY <1>1, <3>1
      <3>5. StartOf(i) = L - (m - i) * P /\ StartOf(i + 1) = L - (m - (i + 1)) * P /\ ChunkSize(i) = P
        BY <1>5, <1>6, <2>3, <3>1
      <3>6. (m - i) * P >= P
        BY <1>1, <3>2, <3>4
      <3> HIDE DEF StartOf, ChunkSize
      <3> QED BY <1>1, <1>4, <1>7, <1>10, <3>2, <3>3, <3>4, <3>5, <3>6
    <2> QED BY <1>1, <2>1, <2>2, <2>3
  <1> QED BY <1>6, <1>11, <1>12 DEF L, P, m

-----------------------------------------------------------------------------
(***************************************************************************)
(* The shape of the data, where the reader is in it, and the slots.        *)
(***************************************************************************)
WorkerStates == {"idle", "take", "request", "requeue", "body", "write", "writing", "judge", "gone"}

Single  == {"new", "refused", "one", "single", "singleClosed"}  \* no more than one part
Early   == Single \cup {"first"}                \* nothing has been sent
Reading == {"ready", "waiting", "reading", "partEnd"}
Between == {"sendTask", "sending", "closePrev", "pop"}  \* curBuf is the part before
Ending  == {"interrupt", "closing", "closed"}

ReaderStates == Early \cup {"open", "eof", "failed"} \cup Reading \cup Between \cup Ending

PipeBuffer ==
    [open : BOOLEAN, limit : Int, offR : Int, offW : Int, ioWg : Int,
     readPending : BOOLEAN, readSignal : BOOLEAN, block : [0..(PartSize - 1) -> Int]]

WorkerRec == [st : WorkerStates, ch : Chunk, retry : Nat, n : Nat, k : Nat,
              err : {"none", "fatal", "retry", "infinite"}]

ReaderRec == [st : ReaderStates, pos : Nat, curBuf : {0} \cup Buffers, k : Nat, closes : Nat]

Counts ==
    /\ maxPos \in {0, cfg.Length} /\ concurrency \in Int /\ hc \in Int
    /\ limit \in Nat /\ others \in Nat /\ overloads \in 0..cfg.MaxOverload

\* pos is where the next part starts.
Positions ==
    /\ pos \in Nat /\ nextChunk \in 0..maxPart
    /\ maxPart > 1 => pos = StartOf(nextChunk)
    /\ maxPart = 1 => pos = 0 /\ nextChunk = 0

MapTypes    == bufMap \in [Ids -> {0} \cup Buffers]
ChTypes     == chunkCh \in Seq(Chunk)
BufTypes    == buf \in [Buffers -> PipeBuffer]
WorkerTypes == worker \in [Workers -> WorkerRec]

\* A worker has not copied more than its part.
CopiesWithin == \A w \in Workers : worker[w].n + worker[w].k <= worker[w].ch.size

ReaderTypes ==
    /\ reader \in ReaderRec /\ reader.pos <= maxPart
    /\ reader.st \in {"open"} \cup Reading \cup Between => reader.pos < maxPart
    /\ reader.st \notin Single => maxPart > 1

\* What the stage of the reader says of the download.
Stage ==
    /\ reader.st \in Early => nextChunk = 0 /\ hc = 0 /\ reader.pos = 0 /\ reader.curBuf = 0
    /\ reader.st \in (Reading \ {"ready"}) \cup Between => reader.curBuf # 0
    /\ reader.st = "open" => reader.pos = 0 /\ reader.curBuf = 0
    /\ reader.st \in Ending => ctxDone
    /\ hc = -1 => maxPos = 0 /\ reader.st \in Ending
    /\ hc >= -1
    /\ reader.st \notin {"new", "refused"} /\ hc # -1 => maxPos = cfg.Length

\* Nobody works, and nothing is in the channel, before the first part is sent.
Unstarted == nextChunk = 0 => (\A w \in Workers : worker[w].st = "idle") /\ chunkCh = <<>>

Shape ==
    /\ cfg \in Configs /\ Counts /\ Positions /\ MapTypes /\ ChTypes /\ BufTypes
    /\ WorkerTypes /\ CopiesWithin /\ ReaderTypes /\ Stage /\ Unstarted

Started == {w \in Workers : worker[w].st # "idle"}

\* The workers that were started and those still to be started.
Spawned == Cardinality(Started) + (IF concurrency > 0 THEN concurrency ELSE 0) <= cfgConcurrency

SlotInv == Shape /\ Spawned /\ SlotsBalanced

-----------------------------------------------------------------------------
\* A worker that is under way shows that the first part was sent.
LEMMA AtWork ==
  ASSUME Shape, NEW w \in Workers, worker[w].st # "idle"
  PROVE  nextChunk > 0 /\ reader.st \notin Early /\ maxPart > 1
  <1>1. nextChunk # 0 /\ nextChunk \in 0..maxPart /\ maxPart \in Nat \ {0}
    BY RangeFacts DEF Shape, Unstarted, Positions
  <1>2. reader.st \notin Early
    BY <1>1 DEF Shape, Stage
  <1>3. maxPart > 1
    BY <1>2 DEF Shape, ReaderTypes, Early
  <1> QED BY <1>1, <1>2, <1>3

\* A chunk that is filled in is one.
LEMMA IdleType ==
  ASSUME cfg \in Configs
  PROVE  Idle \in WorkerRec /\ Idle.st = "idle" /\ Idle.n = 0 /\ Idle.k = 0
  <1>1. 0 \in Ids /\ 1 \in Buffers
    BY RangeFacts
  <1> QED BY <1>1 DEF Idle, WorkerRec, WorkerStates, Chunk

LEMMA NewBufferTypes ==
  ASSUME cfg \in Configs
  PROVE  NewPipeBuffer \in PipeBuffer /\ Unused \in PipeBuffer
  <1>1. PartSize \in Int
    BY RangeFacts
  <1>2. [i \in 0..(PartSize - 1) |-> None] \in [0..(PartSize - 1) -> Int]
    BY DEF None
  <1>3. NewPipeBuffer \in PipeBuffer
    BY <1>1, <1>2 DEF NewPipeBuffer, PipeBuffer
  <1>4. Unused \in PipeBuffer
    BY <1>3 DEF Unused, PipeBuffer
  <1> QED BY <1>3, <1>4

-----------------------------------------------------------------------------
(***************************************************************************)
(* What the steps do to a pipe buffer.                                     *)
(***************************************************************************)
\* Only buffer c changes.
Touches(c) == BufTypes' /\ \A b \in Buffers : b # c => buf'[b] = buf[b]

\* The data of buffer b stays.
SameData(b) ==
    /\ buf'[b].limit = buf[b].limit /\ buf'[b].offR = buf[b].offR
    /\ buf'[b].offW = buf[b].offW /\ buf'[b].block = buf[b].block

\* A buffer that is replaced by r.
LEMMA Replaced ==
  ASSUME BufTypes, cfg' = cfg, NEW c \in Buffers, NEW r \in PipeBuffer, buf' = [buf EXCEPT ![c] = r]
  PROVE  Touches(c) /\ buf'[c] = r
  <1>1. PipeBuffer' = PipeBuffer /\ PartSize' = PartSize
    BY DEF PipeBuffer, PartSize
  <1>2. Buffers' = Buffers
    BY DEF Buffers, PartsOf
  <1>3. buf' \in [Buffers -> PipeBuffer]
    BY DEF BufTypes
  <1> QED BY <1>1, <1>2, <1>3 DEF Touches, BufTypes

LEMMA ResetFacts ==
  ASSUME NEW br \in PipeBuffer, NEW size \in Int
  PROVE  /\ Reset(br, size) \in PipeBuffer
         /\ Reset(br, size).open = br.open /\ Reset(br, size).ioWg = br.ioWg
         /\ Reset(br, size).limit = size /\ Reset(br, size).offR = 0 /\ Reset(br, size).offW = 0
  <1> DEFINE z == 0
  <1>0. z \in Int /\ Reset(br, size) = [br EXCEPT !.limit = size, !.offR = z, !.offW = z]
    BY DEF Reset
  <1> HIDE DEF z
  <1>1. Reset(br, size) \in PipeBuffer
    BY <1>0 DEF PipeBuffer
  <1>2. Reset(br, size).open = br.open
    BY DEF Reset, PipeBuffer
  <1>3. /\ Reset(br, size).ioWg = br.ioWg
        /\ Reset(br, size).limit = size /\ Reset(br, size).offR = 0 /\ Reset(br, size).offW = 0
    BY DEF Reset, PipeBuffer
  <1> QED BY <1>1, <1>2, <1>3

LEMMA ClosedFacts ==
  ASSUME NEW br \in PipeBuffer
  PROVE  /\ Closed(br) \in PipeBuffer /\ ~Closed(br).open
         /\ Closed(br).ioWg = br.ioWg
         /\ Closed(br).limit = br.limit /\ Closed(br).offR = br.offR /\ Closed(br).offW = br.offW
         /\ Closed(br).block = br.block
  <1>1. Closed(br) \in PipeBuffer
    BY DEF Closed, PipeBuffer
  <1>2. ~Closed(br).open
    BY DEF Closed, PipeBuffer
  <1>3. /\ Closed(br).ioWg = br.ioWg /\ Closed(br).limit = br.limit /\ Closed(br).offR = br.offR
        /\ Closed(br).offW = br.offW /\ Closed(br).block = br.block
    BY DEF Closed, PipeBuffer
  <1> QED BY <1>1, <1>2, <1>3

LEMMA WrittenFacts ==
  ASSUME NEW br \in PipeBuffer, NEW start \in Int, NEW n \in Int, PartSize \in Int
  PROVE  LET r == Written(br, start, n)
         IN  /\ r \in PipeBuffer
             /\ r.open = br.open /\ r.ioWg = br.ioWg - 1
             /\ r.limit = br.limit /\ r.offR = br.offR /\ r.offW = br.offW + n
             /\ r.block = [i \in 0..(PartSize - 1) |->
                    IF i \in br.offW..(br.offW + n - 1) THEN start + (i - br.offW) ELSE br.block[i]]
  <1> DEFINE blk == [i \in 0..(PartSize - 1) |->
                    IF i \in br.offW..(br.offW + n - 1) THEN start + (i - br.offW) ELSE br.block[i]]
             o   == br.offW + n
             m   == br.ioWg - 1
             sig == br.readSignal \/ br.readPending
  <1>1. br.block \in [0..(PartSize - 1) -> Int] /\ br.offW \in Int /\ br.ioWg \in Int
    BY DEF PipeBuffer
  <1>2. blk \in [0..(PartSize - 1) -> Int] /\ o \in Int /\ m \in Int
    BY <1>1
  <1>3. sig \in BOOLEAN
    OBVIOUS
  <1>4. [i \in DOMAIN br.block |->
           IF i \in br.offW..(br.offW + n - 1) THEN start + (i - br.offW) ELSE br.block[i]] = blk
    BY <1>1
  <1> HIDE DEF blk
  <1>5. Written(br, start, n) =
          [br EXCEPT !.block = blk, !.offW = o, !.ioWg = m, !.readPending = FALSE, !.readSignal = sig]
    BY <1>4 DEF Written
  <1> HIDE DEF o, m, sig
  <1>6. Written(br, start, n) \in PipeBuffer
    BY <1>2, <1>3, <1>5 DEF PipeBuffer
  <1>7. /\ Written(br, start, n).ioWg = m
        /\ Written(br, start, n).limit = br.limit /\ Written(br, start, n).offR = br.offR
        /\ Written(br, start, n).offW = o /\ Written(br, start, n).block = blk
    BY <1>5 DEF PipeBuffer
  <1>8. Written(br, start, n).open = br.open
    BY <1>5 DEF PipeBuffer
  <1> QED BY <1>6, <1>7, <1>8 DEF blk, o, m

\* The reader announces itself in buffer c.
LEMMA AnnounceFacts ==
  ASSUME BufTypes, cfg' = cfg, NEW c \in Buffers,
         \/ buf' = [buf EXCEPT ![c].readPending = TRUE]
         \/ buf' = [buf EXCEPT ![c].readSignal = FALSE, ![c].readPending = TRUE]
  PROVE  Touches(c) /\ SameData(c) /\ buf'[c].open = buf[c].open /\ buf'[c].ioWg = buf[c].ioWg
  <1>1. buf[c] \in PipeBuffer
    BY DEF BufTypes
  <1> DEFINE r1 == [buf[c] EXCEPT !.readPending = TRUE]
             r2 == [buf[c] EXCEPT !.readSignal = FALSE, !.readPending = TRUE]
  <1>2. r1 \in PipeBuffer /\ r2 \in PipeBuffer
    BY <1>1 DEF PipeBuffer
  <1>3. buf' = [buf EXCEPT ![c] = r1] \/ buf' = [buf EXCEPT ![c] = r2]
    BY <1>1 DEF BufTypes, PipeBuffer
  <1>4. \A r \in {r1, r2} :
          /\ r.limit = buf[c].limit /\ r.offR = buf[c].offR /\ r.offW = buf[c].offW
          /\ r.block = buf[c].block /\ r.ioWg = buf[c].ioWg
    BY <1>1 DEF PipeBuffer
  <1>5. r1.open = buf[c].open /\ r2.open = buf[c].open
    BY <1>1 DEF PipeBuffer
  <1> HIDE DEF r1, r2
  <1> QED BY <1>2, <1>3, <1>4, <1>5, Replaced DEF SameData

\* A reader or a writer goes into buffer c.
LEMMA EnterFacts ==
  ASSUME BufTypes, cfg' = cfg, NEW c \in Buffers,
         \/ buf' = [buf EXCEPT ![c].readSignal = FALSE, ![c].ioWg = @ + 1]
         \/ buf' = [buf EXCEPT ![c].ioWg = @ + 1]
  PROVE  Touches(c) /\ SameData(c) /\ buf'[c].open = buf[c].open /\ buf'[c].ioWg = buf[c].ioWg + 1
  <1>1. buf[c] \in PipeBuffer
    BY DEF BufTypes
  <1> DEFINE m  == buf[c].ioWg + 1
             r1 == [buf[c] EXCEPT !.readSignal = FALSE, !.ioWg = m]
             r2 == [buf[c] EXCEPT !.ioWg = m]
  <1>2. m \in Int
    BY <1>1 DEF PipeBuffer
  <1>3. buf' = [buf EXCEPT ![c] = r1] \/ buf' = [buf EXCEPT ![c] = r2]
    BY <1>1 DEF BufTypes, PipeBuffer
  <1> HIDE DEF m
  <1>4. r1 \in PipeBuffer /\ r2 \in PipeBuffer
    BY <1>1, <1>2 DEF PipeBuffer
  <1>5. \A r \in {r1, r2} :
          /\ r.limit = buf[c].limit /\ r.offR = buf[c].offR /\ r.offW = buf[c].offW
          /\ r.block = buf[c].block /\ r.ioWg = m
    BY <1>1 DEF PipeBuffer
  <1>6. r1.open = buf[c].open /\ r2.open = buf[c].open
    BY <1>1 DEF PipeBuffer
  <1> HIDE DEF r1, r2
  <1> QED BY <1>3, <1>4, <1>5, <1>6, Replaced DEF SameData, m

\* The reader has read k bytes of buffer c.
LEMMA LeaveFacts ==
  ASSUME BufTypes, cfg' = cfg, NEW c \in Buffers, NEW k \in Int,
         buf' = [buf EXCEPT ![c].offR = @ + k, ![c].ioWg = @ - 1]
  PROVE  /\ Touches(c) /\ buf'[c].open = buf[c].open /\ buf'[c].ioWg = buf[c].ioWg - 1
         /\ buf'[c].limit = buf[c].limit /\ buf'[c].offR = buf[c].offR + k
         /\ buf'[c].offW = buf[c].offW /\ buf'[c].block = buf[c].block
  <1>1. buf[c] \in PipeBuffer
    BY DEF BufTypes
  <1> DEFINE m == buf[c].ioWg - 1
             o == buf[c].offR + k
             r == [buf[c] EXCEPT !.offR = o, !.ioWg = m]
  <1>2. m \in Int /\ o \in Int
    BY <1>1 DEF PipeBuffer
  <1>3. buf' = [buf EXCEPT ![c] = r]
    BY <1>1 DEF BufTypes, PipeBuffer
  <1> HIDE DEF m, o
  <1>4. r \in PipeBuffer
    BY <1>1, <1>2 DEF PipeBuffer
  <1>5. /\ r.limit = buf[c].limit /\ r.offR = o /\ r.offW = buf[c].offW
        /\ r.block = buf[c].block /\ r.ioWg = m
    BY <1>1 DEF PipeBuffer
  <1>6. r.open = buf[c].open
    BY <1>1 DEF PipeBuffer
  <1> HIDE DEF r
  <1> QED BY <1>3, <1>4, <1>5, <1>6, Replaced DEF m, o

-----------------------------------------------------------------------------
(***************************************************************************)
(* What sendChunkTask does.                                                *)
(***************************************************************************)
\* Names that depend on the constants and cfg only.
LEMMA Fixed ==
  ASSUME cfg' = cfg
  PROVE  /\ maxPart' = maxPart /\ PartSize' = PartSize /\ cfgConcurrency' = cfgConcurrency
         /\ PipeBuffer' = PipeBuffer
         /\ \A i : StartOf(i)' = StartOf(i) /\ ChunkSize(i)' = ChunkSize(i)
  BY DEF maxPart, PartSize, cfgConcurrency, PipeBuffer, StartOf, ChunkSize

\* A part is prepared: it is the next one, its buffer is empty and nobody is inside.
LEMMA PrepareFacts ==
  ASSUME Shape, cfg' = cfg, maxPart > 1, pos < maxPos, NEW b \in Buffers, Prepare(b)
  PROVE  /\ hc >= 0 /\ hc' >= 0 /\ hc' \in Int /\ maxPos = cfg.Length
         /\ nextChunk \in 0..(maxPart - 1) /\ nextChunk \in Ids
         /\ nextChunk' = nextChunk + 1 /\ Positions' /\ MapTypes'
         /\ pos = StartOf(nextChunk) /\ ChunkSize(nextChunk) \in 1..PartSize
         /\ bufMap' = [bufMap EXCEPT ![nextChunk] = b]
         /\ \/ bufMap[nextChunk] = b /\ buf[b].open /\ buf[b].ioWg = 0 /\ hc' = hc
            \/ bufMap[nextChunk] = 0 /\ b = hc + 1 /\ hc' = b
         /\ Touches(b) /\ buf'[b].open /\ buf'[b].ioWg = 0
         /\ buf'[b].limit = ChunkSize(nextChunk) /\ buf'[b].offR = 0 /\ buf'[b].offW = 0
         /\ \A nc \in BOOLEAN : NextChunk(nc, b) \in Chunk
  <1>1. maxPos = cfg.Length /\ hc \in Int /\ hc >= 0
    BY RangeFacts DEF Shape, Counts, Positions, Stage
  <1>2. nextChunk \in 0..maxPart /\ maxPart \in Nat /\ pos = StartOf(nextChunk) /\ pos \in Nat
    BY RangeFacts DEF Shape, Positions
  <1>3. nextChunk # maxPart
    BY <1>1, <1>2, PartFacts DEF Shape
  <1>4. nextChunk \in 0..(maxPart - 1) /\ nextChunk \in Ids
    BY <1>2, <1>3, RangeFacts DEF Shape
  <1>5. /\ ChunkSize(nextChunk) \in 1..PartSize /\ PartSize \in Nat
        /\ StartOf(nextChunk + 1) = StartOf(nextChunk) + ChunkSize(nextChunk)
    BY <1>4, PartFacts, RangeFacts DEF Shape
  <1>6. nextChunk' = nextChunk + 1 /\ pos' = pos + ChunkSize(nextChunk)
    BY DEF Prepare
  <1>7. Positions'
    <2>1. pos' \in Nat /\ nextChunk' \in 0..maxPart
      BY <1>2, <1>4, <1>5, <1>6
    <2>2. pos' = StartOf(nextChunk')
      BY <1>2, <1>5, <1>6
    <2> QED BY <2>1, <2>2, Fixed DEF Positions
  <1>8. bufMap' = [bufMap EXCEPT ![nextChunk] = b] /\ MapTypes'
    BY DEF Shape, MapTypes, Prepare
  <1>9. \/ bufMap[nextChunk] = b /\ buf[b].open /\ buf[b].ioWg = 0 /\ hc' = hc
           /\ buf' = [buf EXCEPT ![b] = Reset(buf[b], ChunkSize(nextChunk))]
        \/ bufMap[nextChunk] = 0 /\ b = hc + 1 /\ hc' = b
           /\ buf' = [buf EXCEPT ![b] = Reset(NewPipeBuffer, ChunkSize(nextChunk))]
    BY DEF Prepare, Shape, BufTypes
  <1>10. hc' \in Int /\ hc' >= 0
    BY <1>1, <1>9
  <1>11. \E r \in PipeBuffer : buf' = [buf EXCEPT ![b] = r] /\ r.open /\ r.ioWg = 0
             /\ r.limit = ChunkSize(nextChunk) /\ r.offR = 0 /\ r.offW = 0
    <2>1. ChunkSize(nextChunk) \in Int
      BY <1>5
    <2>2. NewPipeBuffer \in PipeBuffer /\ NewPipeBuffer.open /\ NewPipeBuffer.ioWg = 0
      BY NewBufferTypes DEF Shape, NewPipeBuffer
    <2>3. buf[b] \in PipeBuffer
      BY DEF Shape, BufTypes
    <2>4. CASE buf[b].open /\ buf[b].ioWg = 0
               /\ buf' = [buf EXCEPT ![b] = Reset(buf[b], ChunkSize(nextChunk))]
      BY <2>1, <2>3, <2>4, ResetFacts
    <2>5. CASE buf' = [buf EXCEPT ![b] = Reset(NewPipeBuffer, ChunkSize(nextChunk))]
      BY <2>1, <2>2, <2>5, ResetFacts
    <2> QED BY <1>9, <2>4, <2>5
  <1>12. /\ Touches(b) /\ buf'[b].open /\ buf'[b].ioWg = 0
         /\ buf'[b].limit = ChunkSize(nextChunk) /\ buf'[b].offR = 0 /\ buf'[b].offW = 0
    BY <1>11, Replaced DEF Shape
  <1>13. \A nc \in BOOLEAN : NextChunk(nc, b) \in Chunk
    BY <1>2, <1>4, <1>5 DEF NextChunk, Chunk
  <1> QED BY <1>1, <1>2, <1>4, <1>5, <1>6, <1>7, <1>8, <1>9, <1>10, <1>12, <1>13

\* There are finitely many workers, as many as any configuration starts.
LEMMA WorkersFinite ==
  /\ IsFiniteSet(Workers)
  /\ \A S \in SUBSET Workers : IsFiniteSet(S) /\ Cardinality(S) \in Nat
  /\ cfg \in Configs => Cardinality(Workers) >= cfgConcurrency
  <1> DEFINE T == {1..c.Concurrency : c \in Configs}
             f == [c \in Configs |-> 1..c.Concurrency]
  <1>1. f \in Surjection(Configs, T)
    BY DEF Surjection
  <1>2. IsFiniteSet(T)
    BY <1>1, FS_Surjection, DownloaderParams
  <1>3. \A t \in T : IsFiniteSet(t)
    <2>1. ASSUME NEW c \in Configs PROVE IsFiniteSet(1..c.Concurrency)
      <3>1. 1 \in Int /\ c.Concurrency \in Int
        BY ConfigFacts DEF Positive
      <3> QED BY <3>1, FS_Interval
    <2> QED BY <2>1
  <1>4. IsFiniteSet(Workers)
    <2>1. Workers = UNION T
      BY DEF Workers
    <2> HIDE DEF T
    <2> QED BY <1>2, <1>3, <2>1, FS_UNION
  <1>5. \A S \in SUBSET Workers : IsFiniteSet(S) /\ Cardinality(S) \in Nat
    BY <1>4, FS_Subset, FS_CardinalityType
  <1>6. ASSUME cfg \in Configs PROVE Cardinality(Workers) >= cfgConcurrency
    <2>1. cfg.Concurrency \in Nat \ {0} /\ 1..cfg.Concurrency \subseteq Workers
           /\ cfgConcurrency \in 1..cfg.Concurrency
      BY <1>6, RangeFacts, ConfigFacts DEF Positive
    <2>2. Cardinality(1..cfg.Concurrency) = cfg.Concurrency
      BY <2>1, FS_Interval
    <2>3. Cardinality(1..cfg.Concurrency) <= Cardinality(Workers)
      BY <1>4, <2>1, FS_Subset
    <2>4. Cardinality(Workers) \in Nat
      BY <1>4, FS_CardinalityType
    <2> QED BY <2>1, <2>2, <2>3, <2>4
  <1> QED BY <1>4, <1>5, <1>6

\* While a worker is still to be started there is a name for it.
LEMMA SpawnFacts ==
  ASSUME Shape, Spawned, concurrency > 0, NEW ws \in [Workers -> WorkerRec],
         \A w \in Workers : ws[w].st = "idle" <=> worker[w].st = "idle"
  PROVE  \E v \in Workers : ws[v].st = "idle" /\ worker[v].st = "idle"
                             /\ Spawn(ws) = [ws EXCEPT ![v].st = "take"]
  <1>1. \E v \in Workers : ws[v].st = "idle"
    <2> SUFFICES ASSUME \A v \in Workers : ws[v].st # "idle" PROVE FALSE
      OBVIOUS
    <2>1. Started = Workers
      BY DEF Started
    <2>2. Cardinality(Workers) >= cfgConcurrency /\ Cardinality(Workers) \in Nat
      BY WorkersFinite DEF Shape
    <2>3. cfgConcurrency \in Int /\ concurrency \in Int
      BY RangeFacts DEF Shape, Counts
    <2>4. Cardinality(Workers) + concurrency <= cfgConcurrency
      BY <2>1 DEF Spawned
    <2> QED BY <2>2, <2>3, <2>4
  <1> DEFINE v == CHOOSE w \in Workers : ws[w].st = "idle"
  <1>2. v \in Workers /\ ws[v].st = "idle"
    BY <1>1
  <1> QED BY <1>2 DEF Spawn

-----------------------------------------------------------------------------
(***************************************************************************)
(* The reader's steps keep the shape and the slots.                        *)
(***************************************************************************)
\* A step of the reader, the caller or interrupt that sends nothing.
Calm ==
    /\ cfg' = cfg /\ others' = others /\ overloads' = overloads /\ limit' = limit
    /\ UNCHANGED <<pos, maxPos, nextChunk, concurrency, chunkCh, hc, worker>>
    /\ ctxDone => ctxDone'

\* The reader leaves a stage behind the first part for another one.
Moves ==
    /\ reader' \in ReaderRec /\ reader.st \notin Early /\ reader'.st \notin Early \cup {"open"}
    /\ reader'.pos <= maxPart
    /\ reader'.st \in Reading \cup Between => reader'.pos < maxPart
    /\ reader'.st \in (Reading \ {"ready"}) \cup Between => reader'.curBuf # 0
    /\ reader'.st \in Ending => ctxDone'
    /\ reader.st \in Ending => reader'.st \in Ending

LEMMA CalmShape ==
  ASSUME SlotInv, Calm, Moves \/ reader' = reader, MapTypes', BufTypes'
  PROVE  SlotInv'
  <1>1. cfg' \in Configs /\ Counts' /\ ChTypes' /\ WorkerTypes' /\ CopiesWithin' /\ Unstarted'
    BY DEF SlotInv, Shape, Calm, Counts, ChTypes, WorkerTypes, CopiesWithin, Unstarted
  <1>2. Positions' /\ Spawned'
    <2>1. Positions'
      BY Fixed DEF SlotInv, Shape, Calm, Positions
    <2>2. Started' = Started
      BY DEF Started, Calm
    <2>3. Spawned'
      BY Fixed, <2>2 DEF SlotInv, Spawned, Calm
    <2> QED BY <2>1, <2>3
  <1>3. ReaderTypes' /\ Stage'
    <2>1. CASE reader' = reader
      BY <2>1, Fixed DEF SlotInv, Shape, Calm, ReaderTypes, Stage
    <2>2. CASE Moves
      <3>1. ReaderTypes'
        BY <2>2, Fixed DEF SlotInv, Shape, Calm, Moves, ReaderTypes, ReaderRec, Early
      <3>2. Stage'
        BY <2>2, Fixed DEF SlotInv, Shape, Calm, Moves, Stage, Early, Single
      <3> QED BY <3>1, <3>2
    <2> QED BY <2>1, <2>2
  <1>4. SlotsBalanced'
    <2>1. Running' = Running
      BY DEF Running, Calm
    <2>2. reader.st \in {"one", "first", "single"} <=> reader'.st \in {"one", "first", "single"}
      BY DEF Moves, Early, Single
    <2> QED BY <2>1, <2>2 DEF SlotInv, SlotsBalanced, Calm
  <1> QED BY <1>1, <1>2, <1>3, <1>4 DEF SlotInv, Shape

\* The reader's step from one stage to another.
LEMMA ReaderGoes ==
  ASSUME Shape, NEW st, NEW next \in ReaderStates, ReaderAt(st, next)
  PROVE  /\ reader.st = st /\ reader' \in ReaderRec /\ reader'.st = next
         /\ reader'.pos = reader.pos /\ reader'.curBuf = reader.curBuf /\ reader'.k = reader.k
         /\ reader.pos <= maxPart
  BY DEF ReaderAt, Shape, ReaderTypes, ReaderRec

LEMMA PopTypes ==
  ASSUME Shape, NEW id \in Ids, bufMap' = popBuf(id)
  PROVE  MapTypes' /\ bufMap[id] \in {0} \cup Buffers
  <1>1. bufMap[id] \in {0} \cup Buffers /\ bufMap \in [Ids -> {0} \cup Buffers] /\ -1 \in Ids
    BY RangeFacts DEF Shape, MapTypes
  <1> QED BY <1>1 DEF MapTypes, popBuf

LEMMA StartSlots ==
  ASSUME SlotInv, Acquire \/ DownloadSingle \/ CloseSingle
  PROVE  SlotInv'
  <1>1. /\ cfg' = cfg /\ others' = others /\ overloads' = overloads
        /\ UNCHANGED <<pos, nextChunk, bufMap, chunkCh, hc, buf, worker, ctxDone>>
    BY DEF Acquire, DownloadSingle, CloseSingle, world, shared, counters
  <1>2. /\ cfg' \in Configs /\ Positions' /\ MapTypes' /\ ChTypes' /\ BufTypes'
        /\ WorkerTypes' /\ CopiesWithin' /\ Unstarted'
    BY <1>1, Fixed DEF SlotInv, Shape, Positions, MapTypes, ChTypes, BufTypes, WorkerTypes,
         CopiesWithin, Unstarted
  <1>3. reader.st \in Single /\ reader'.st \in Early /\ reader' = [reader EXCEPT !.st = reader'.st]
    BY DEF Acquire, DownloadSingle, CloseSingle, ReaderAt, Early, Single, SlotInv, Shape,
         ReaderTypes, ReaderRec
  <1>4. /\ limit' \in Nat /\ concurrency' \in {concurrency, cfgConcurrency}
        /\ maxPos' \in {0, cfg.Length}
        /\ reader'.st \notin {"new", "refused"} => maxPos' = cfg.Length
        /\ reader'.st = "first" => maxPart > 1
    <2>1. limit \in Nat /\ maxPos \in {0, cfg.Length} /\ maxPart \in Nat \ {0} /\ hc = 0
      BY <1>3, RangeFacts DEF SlotInv, Shape, Counts, Stage, Early
    <2>2. reader.st \notin {"new", "refused"} => maxPos = cfg.Length
      BY <2>1 DEF SlotInv, Shape, Stage
    <2>3. CASE Acquire
      BY <2>1, <2>3, <1>3 DEF Acquire, ReaderAt, SlotInv, Shape, ReaderTypes, ReaderRec
    <2>4. CASE DownloadSingle \/ CloseSingle
      BY <2>1, <2>2, <2>4, <1>3 DEF DownloadSingle, CloseSingle, ReaderAt, SlotInv, Shape, ReaderTypes, ReaderRec,
         shared, counters
    <2> QED BY <2>3, <2>4
  <1>5. Counts'
    BY <1>1, <1>4, RangeFacts DEF SlotInv, Shape, Counts
  <1>6. ReaderTypes'
    BY <1>1, <1>3, <1>4, Fixed DEF SlotInv, Shape, ReaderTypes, ReaderRec, ReaderStates, Early, Single,
         Reading, Between
  <1>7. Stage'
    BY <1>1, <1>3, <1>4 DEF SlotInv, Shape, ReaderTypes, ReaderRec, Stage, Early, Single,
         Reading, Between, Ending
  <1>8. Started = {} /\ Running = {} /\ Started' = {} /\ Running' = {}
    <2>1. \A w \in Workers : worker[w].st = "idle"
      BY <1>3 DEF SlotInv, Shape, Stage, Unstarted, Early
    <2> QED BY <1>1, <2>1 DEF Started, Running
  <1>9. Spawned'
    <2>1. Cardinality({}) = 0
      BY FS_EmptySet
    <2> QED BY <1>1, <1>4, <1>8, <2>1, Fixed, RangeFacts DEF SlotInv, Shape, Counts, Spawned
  <1>10. SlotsBalanced'
    <2>1. Cardinality({}) = 0
      BY FS_EmptySet
    <2>2. limit \in Nat /\ others \in Nat
      BY DEF SlotInv, Shape, Counts
    <2>3. \/ /\ limit' = limit - 1 /\ reader.st = "new" /\ reader'.st \in {"one", "first"}
          \/ /\ limit' = limit /\ reader.st = "new" /\ reader'.st = "refused"
          \/ /\ limit' = limit /\ reader.st = "one" /\ reader'.st = "single"
          \/ /\ limit' = limit + 1 /\ reader.st = "one" /\ reader'.st = "refused"
          \/ /\ limit' = limit + 1 /\ reader.st = "single" /\ reader'.st = "singleClosed"
          \/ /\ limit' = limit /\ reader.st = "singleClosed" /\ reader'.st = "singleClosed"
      BY <1>3 DEF Acquire, DownloadSingle, CloseSingle, ReaderAt, SlotInv, Shape, ReaderTypes, ReaderRec
    <2> QED BY <1>1, <1>8, <2>1, <2>2, <2>3 DEF SlotInv, SlotsBalanced
  <1> QED BY <1>2, <1>5, <1>6, <1>7, <1>9, <1>10 DEF SlotInv, Shape

\* The buffer that is read has its type.
LEMMA CurTypes ==
  ASSUME Shape, reader.curBuf # 0
  PROVE  /\ reader.curBuf \in Buffers /\ cur = buf[reader.curBuf] /\ cur \in PipeBuffer
         /\ cur.offR \in Int /\ cur.offW \in Int /\ cur.limit \in Int /\ cur.ioWg \in Int
  <1>1. reader.curBuf \in Buffers
    BY DEF Shape, ReaderTypes, ReaderRec
  <1>2. cur = buf[reader.curBuf] /\ cur \in PipeBuffer
    BY <1>1 DEF cur, Shape, BufTypes
  <1> QED BY <1>1, <1>2 DEF PipeBuffer

\* A stage behind the first part follows another one.
LEMMA GoesOn ==
  ASSUME Shape, NEW st \in ReaderStates \ Early, NEW next \in ReaderStates \ (Early \cup {"open"}),
         ReaderAt(st, next),
         next \in (Reading \ {"ready"}) \cup Between => reader.curBuf # 0,
         next \in Reading \cup Between => st \in Reading \cup Between,
         next \in Ending => ctxDone', st \in Ending => next \in Ending
  PROVE  Moves
  <1>1. /\ reader.st = st /\ reader' \in ReaderRec /\ reader'.st = next
        /\ reader'.pos = reader.pos /\ reader'.curBuf = reader.curBuf /\ reader.pos <= maxPart
    BY ReaderGoes
  <1>2. next \in Reading \cup Between => reader.pos < maxPart
    BY <1>1 DEF Shape, ReaderTypes
  <1> QED BY <1>1, <1>2 DEF Moves

\* multiReadCloser.Read, finishBuf without its send, Close and interrupt up to its end.
LEMMA ReadMoves ==
  ASSUME Shape, ReadFails \/ ReadEof \/ ReadWaits \/ ReadWakes \/ ReadStart \/ ReadEnd
                  \/ NextPart \/ FinishWaits \/ FinishCloses \/ FinishPops \/ DownloadReturns
                  \/ Close \/ InterruptLocks
  PROVE  Calm /\ (Moves \/ reader' = reader)
  <1>1. /\ cfg' = cfg /\ others' = others /\ overloads' = overloads /\ limit' = limit
        /\ UNCHANGED <<pos, maxPos, nextChunk, concurrency, chunkCh, hc, worker>>
    BY DEF ReadFails, ReadEof, ReadWaits, ReadWakes, ReadStart, ReadEnd, NextPart, FinishWaits,
         FinishCloses, FinishPops, DownloadReturns, Close, InterruptLocks,
         readerOnly, world, shared, counters
  <1>2. ctxDone => ctxDone'
    BY DEF ReadFails, ReadEof, ReadWaits, ReadWakes, ReadStart, ReadEnd, NextPart, FinishWaits,
         FinishCloses, FinishPops, DownloadReturns, Close, InterruptLocks, readerOnly
  <1>3. Calm
    BY <1>1, <1>2 DEF Calm
  <1>4. reader \in ReaderRec /\ reader.pos \in Nat /\ reader.pos <= maxPart /\ maxPart \in Nat
    BY RangeFacts DEF Shape, ReaderTypes, ReaderRec
  <1>5. /\ reader.st \in {"waiting", "reading", "partEnd", "sendTask", "closePrev"} => reader.curBuf # 0
        /\ reader.st = "interrupt" => ctxDone
    BY DEF Shape, Stage, Reading, Between, Ending
  <1> USE DEF ReaderStates, Early, Single, Reading, Between, Ending
  <1>6. CASE ReadFails
    BY <1>3, <1>6, GoesOn DEF ReadFails
  <1>7. CASE ReadEof
    BY <1>3, <1>7, GoesOn DEF ReadEof
  <1>8. CASE ReadWaits
    BY <1>3, <1>8, GoesOn DEF ReadWaits
  <1>9. CASE InterruptLocks
    <2>1. ReaderAt("interrupt", "closing") /\ ctxDone'
      BY <1>2, <1>5, <1>9 DEF InterruptLocks, ReaderAt
    <2> QED BY <1>3, <2>1, GoesOn
  <1>10. CASE FinishWaits
    <2>1. ReaderAt("sendTask", "sending") /\ reader.curBuf # 0
      BY <1>5, <1>10 DEF FinishWaits, ReaderAt
    <2> QED BY <1>3, <2>1, GoesOn
  <1>11. CASE FinishCloses
    <2>1. ReaderAt("closePrev", "pop") /\ reader.curBuf # 0
      BY <1>5, <1>11 DEF FinishCloses, ReaderAt
    <2> QED BY <1>3, <2>1, GoesOn
  <1>12. CASE ReadWakes \/ ReadStart \/ ReadEnd
    <2>1. reader.st \in {"ready", "waiting", "reading"} /\ reader.curBuf # 0
      BY <1>5, <1>12 DEF ReadWakes, ReadStart, ReadEnd
    <2>2. reader.pos < maxPart
      BY <2>1 DEF Shape, ReaderTypes
    <2>3. \/ reader' = reader
          \/ \E k \in Nat, st \in {"reading", "ready", "partEnd"} :
                reader' = [reader EXCEPT !.st = st, !.k = k]
      <3>0. cur.offR \in Int /\ cur.offW \in Int
        BY <2>1, CurTypes
      <3>1. CASE ReadWakes
        <4>1. \/ reader' = reader
              \/ \E k \in 1..(cur.offW - cur.offR) : reader' = [reader EXCEPT !.st = "reading", !.k = k]
          BY <3>1 DEF ReadWakes
        <4>2. \A k \in 1..(cur.offW - cur.offR) : k \in Nat
          BY <3>0
        <4> QED BY <4>1, <4>2
      <3>2. CASE ReadStart
        <4>1. \E k \in 1..(cur.offW - cur.offR) : reader' = [reader EXCEPT !.st = "reading", !.k = k]
          BY <3>2 DEF ReadStart
        <4>2. \A k \in 1..(cur.offW - cur.offR) : k \in Nat
          BY <3>0
        <4> QED BY <4>1, <4>2
      <3>3. CASE ReadEnd
        BY <3>3 DEF ReadEnd
      <3> QED BY <1>12, <3>1, <3>2, <3>3
    <2>4. ASSUME NEW k \in Nat, NEW st \in {"reading", "ready", "partEnd"},
                 reader' = [reader EXCEPT !.st = st, !.k = k]
          PROVE  Moves
      <3>1. /\ reader' \in ReaderRec /\ reader'.st = st /\ reader'.pos = reader.pos
            /\ reader'.curBuf = reader.curBuf
        BY <1>4, <2>4 DEF ReaderRec
      <3> QED BY <1>4, <2>1, <2>2, <3>1 DEF Moves
    <2> QED BY <1>3, <2>3, <2>4
  <1>13. CASE NextPart
    <2>1. reader.st = "partEnd" /\ reader.curBuf # 0
      BY <1>5, <1>13 DEF NextPart
    <2>2. reader.pos < maxPart
      BY <2>1 DEF Shape, ReaderTypes
    <2>3. \E st \in {"eof", "sendTask", "closePrev"} :
            /\ reader' = [reader EXCEPT !.pos = @ + 1, !.st = st]
            /\ st # "eof" => reader.pos + 1 < maxPart
      BY <1>4, <1>13 DEF NextPart
    <2>4. PICK st \in {"eof", "sendTask", "closePrev"} :
            /\ reader' = [reader EXCEPT !.pos = @ + 1, !.st = st]
            /\ st # "eof" => reader.pos + 1 < maxPart
      BY <2>3
    <2>5. /\ reader' \in ReaderRec /\ reader'.st = st /\ reader'.pos = reader.pos + 1
          /\ reader'.curBuf = reader.curBuf
      <3> DEFINE p == reader.pos + 1
      <3>1. p \in Nat /\ reader' = [reader EXCEPT !.pos = p, !.st = st]
        BY <1>4, <2>4
      <3> HIDE DEF p
      <3>2. /\ reader' \in ReaderRec /\ reader'.st = st /\ reader'.pos = p
            /\ reader'.curBuf = reader.curBuf
        BY <1>4, <3>1 DEF ReaderRec
      <3> QED BY <3>2 DEF p
    <2> QED BY <1>3, <1>4, <2>1, <2>2, <2>4, <2>5 DEF Moves
  <1>14. CASE FinishPops \/ DownloadReturns
    <2>1. PICK id \in {0, reader.pos} : reader' = [reader EXCEPT !.st = "ready", !.curBuf = bufMap[id]]
      BY <1>14 DEF FinishPops, DownloadReturns
    <2>2. reader.st \in {"open", "pop"}
      BY <1>14 DEF FinishPops, DownloadReturns
    <2>3. reader.pos < maxPart
      BY <2>2 DEF Shape, ReaderTypes
    <2>4. bufMap[id] \in {0} \cup Buffers
      <3>1. id \in Ids
        BY <1>4, RangeFacts DEF Shape
      <3> QED BY <3>1 DEF Shape, MapTypes
    <2>5. reader' \in ReaderRec /\ reader'.st = "ready" /\ reader'.pos = reader.pos
      BY <1>4, <2>1, <2>4 DEF ReaderRec
    <2> QED BY <1>3, <1>4, <2>2, <2>3, <2>5 DEF Moves
  <1>15. CASE Close
    <2>1. reader.st \in {"ready", "eof", "failed", "closed"}
      BY <1>15 DEF Close
    <2>2. ctxDone' /\ reader' = [reader EXCEPT !.st = "interrupt", !.closes = @ + 1]
      BY <1>15 DEF Close
    <2>3. reader' \in ReaderRec /\ reader'.st = "interrupt" /\ reader'.pos = reader.pos
      <3> DEFINE n == reader.closes + 1
      <3>1. n \in Nat /\ reader' = [reader EXCEPT !.st = "interrupt", !.closes = n]
        BY <1>4, <2>2 DEF ReaderRec
      <3> HIDE DEF n
      <3> QED BY <1>4, <3>1 DEF ReaderRec
    <2> QED BY <1>3, <1>4, <2>1, <2>2, <2>3 DEF Moves
  <1> QED BY <1>6, <1>7, <1>8, <1>9, <1>10, <1>11, <1>12, <1>13, <1>14, <1>15

\* The buffers keep their types in those steps.
LEMMA ReadBufTypes ==
  ASSUME Shape, ReadFails \/ ReadEof \/ ReadWaits \/ ReadWakes \/ ReadStart \/ ReadEnd
                  \/ NextPart \/ FinishWaits \/ FinishCloses \/ FinishPops \/ DownloadReturns
                  \/ Close \/ InterruptLocks
  PROVE  MapTypes' /\ BufTypes'
  <1>1. cfg' = cfg /\ MapTypes /\ BufTypes /\ reader \in ReaderRec
    BY ReadMoves DEF Calm, Shape, ReaderTypes
  <1>2. CASE ReadFails \/ ReadEof \/ FinishWaits \/ Close \/ InterruptLocks
    BY <1>1, <1>2, Fixed DEF ReadFails, ReadEof, FinishWaits, Close, InterruptLocks, readerOnly, shared,
         MapTypes, BufTypes
  <1>3. CASE ReadWaits \/ ReadWakes \/ ReadStart \/ ReadEnd \/ FinishCloses
    <2>1. MapTypes'
      BY <1>1, <1>3 DEF ReadWaits, ReadWakes, ReadStart, ReadEnd, FinishCloses, readerOnly, shared, MapTypes
    <2>2. reader.curBuf \in Buffers
      BY <1>1, <1>3 DEF ReadWaits, ReadWakes, ReadStart, ReadEnd, FinishCloses, ReaderAt,
         Shape, Stage, ReaderRec, Reading, Between
    <2> DEFINE c == reader.curBuf
    <2>3. CASE ReadWaits \/ ReadWakes \/ ReadStart
      <3>1. \/ buf' = [buf EXCEPT ![c].readPending = TRUE]
            \/ buf' = [buf EXCEPT ![c].readSignal = FALSE, ![c].readPending = TRUE]
            \/ buf' = [buf EXCEPT ![c].readSignal = FALSE, ![c].ioWg = @ + 1]
            \/ buf' = [buf EXCEPT ![c].ioWg = @ + 1]
        BY <2>3 DEF ReadWaits, ReadWakes, ReadStart
      <3> HIDE DEF c
      <3>2. c \in Buffers
        BY <2>2 DEF c
      <3> QED BY <1>1, <2>1, <3>1, <3>2, AnnounceFacts, EnterFacts DEF Touches
    <2>4. CASE ReadEnd
      <3>1. reader.k \in Int
        BY <1>1 DEF ReaderRec
      <3>2. buf' = [buf EXCEPT ![c].offR = @ + reader.k, ![c].ioWg = @ - 1]
        BY <2>4 DEF ReadEnd
      <3>3. c \in Buffers
        BY <2>2
      <3> HIDE DEF c
      <3> QED BY <1>1, <2>1, <3>1, <3>2, <3>3, LeaveFacts DEF Touches
    <2>5. CASE FinishCloses
      <3>1. buf' = [buf EXCEPT ![c] = Closed(buf[c])] /\ buf[c] \in PipeBuffer /\ c \in Buffers
        BY <1>1, <2>2, <2>5 DEF FinishCloses, BufTypes
      <3> HIDE DEF c
      <3> QED BY <1>1, <2>1, <3>1, ClosedFacts, Replaced DEF Touches
    <2> QED BY <1>3, <2>3, <2>4, <2>5
  <1>4. CASE NextPart
    <2>1. nextChunk \in Ids
      BY RangeFacts DEF Shape, Positions
    <2>2. buf' = buf /\ (bufMap' = bufMap \/ bufMap' = [bufMap EXCEPT ![nextChunk] = reader.curBuf])
      BY <1>4 DEF NextPart
    <2> QED BY <1>1, <2>1, <2>2, Fixed DEF MapTypes, BufTypes, ReaderRec
  <1>5. CASE FinishPops \/ DownloadReturns
    <2>1. buf' = buf /\ \E id \in {0, reader.pos} : bufMap' = popBuf(id)
      BY <1>5 DEF FinishPops, DownloadReturns
    <2>2. {0, reader.pos} \subseteq Ids
      BY <1>1, RangeFacts DEF Shape, ReaderTypes, ReaderRec
    <2> QED BY <1>1, <2>1, <2>2, PopTypes, Fixed DEF BufTypes
  <1> QED BY <1>2, <1>3, <1>4, <1>5

LEMMA ReadSlots ==
  ASSUME SlotInv, ReadFails \/ ReadEof \/ ReadWaits \/ ReadWakes \/ ReadStart \/ ReadEnd
                    \/ NextPart \/ FinishWaits \/ FinishCloses \/ FinishPops \/ DownloadReturns
                    \/ Close \/ InterruptLocks
  PROVE  SlotInv'
  BY ReadMoves, ReadBufTypes, CalmShape DEF SlotInv

\* interrupt: the buffers are closed, then everything else.
LEMMA InterruptSlots ==
  ASSUME SlotInv, InterruptEnds \/ \E b \in Buffers : InterruptCloses(b)
  PROVE  SlotInv'
  <1>1. Shape /\ MapTypes /\ BufTypes
    BY DEF SlotInv, Shape
  <1>2. ASSUME NEW b \in Buffers, InterruptCloses(b) PROVE SlotInv'
    <2>1. Calm /\ reader' = reader /\ MapTypes' /\ cfg' = cfg
      BY <1>1, <1>2 DEF InterruptCloses, readerOnly, world, shared, counters, Calm, MapTypes
    <2>2. BufTypes'
      BY <1>1, <1>2, <2>1, ClosedFacts, Replaced DEF InterruptCloses, Touches, BufTypes
    <2> QED BY <2>1, <2>2, CalmShape
  <1>3. CASE InterruptEnds
    <2>1. /\ cfg' = cfg /\ others' = others /\ overloads' = overloads /\ limit' = limit
          /\ UNCHANGED <<pos, nextChunk, chunkCh, buf, worker, ctxDone>>
          /\ hc' = -1 /\ maxPos' = 0 /\ bufMap' = NoBufs
          /\ concurrency' \in {concurrency, -concurrency}
          /\ concurrency' > 0 => concurrency' = concurrency
      BY <1>3 DEF InterruptEnds, world, SlotInv, Shape, Counts
    <2>2. ReaderAt("closing", "closed")
      BY <1>3 DEF InterruptEnds
    <2>3. /\ reader.st = "closing" /\ reader' \in ReaderRec /\ reader'.st = "closed"
          /\ reader'.pos = reader.pos /\ reader'.curBuf = reader.curBuf /\ reader.pos <= maxPart
      BY <1>1, <2>2, ReaderGoes DEF ReaderStates, Ending
    <2>4. Counts' /\ Positions' /\ MapTypes' /\ ChTypes' /\ BufTypes' /\ WorkerTypes' /\ CopiesWithin'
           /\ Unstarted'
      <3>1. Counts'
        BY <2>1 DEF SlotInv, Shape, Counts
      <3>2. Positions' /\ BufTypes'
        BY <2>1, Fixed DEF SlotInv, Shape, Positions, BufTypes
      <3>3. MapTypes' /\ ChTypes' /\ WorkerTypes' /\ CopiesWithin' /\ Unstarted'
        BY <2>1 DEF SlotInv, Shape, MapTypes, NoBufs, ChTypes, WorkerTypes, CopiesWithin, Unstarted
      <3> QED BY <3>1, <3>2, <3>3
    <2>5. ReaderTypes' /\ Stage'
      BY <2>1, <2>3, Fixed DEF SlotInv, Shape, ReaderTypes, Stage, Early, Single, Reading, Between, Ending
    <2>6. Spawned' /\ SlotsBalanced'
      <3>1. Started' = Started /\ Running' = Running
        BY <2>1 DEF Started, Running
      <3>2. Cardinality(Started) \in Nat /\ concurrency \in Int /\ cfgConcurrency \in Int
        BY WorkersFinite, RangeFacts DEF Started, SlotInv, Shape, Counts
      <3>3. Spawned'
        BY <2>1, <3>1, <3>2, Fixed DEF SlotInv, Spawned
      <3>4. SlotsBalanced'
        BY <2>1, <2>3, <3>1 DEF SlotInv, SlotsBalanced
      <3> QED BY <3>3, <3>4
    <2> QED BY <2>1, <2>4, <2>5, <2>6 DEF SlotInv, Shape
  <1> QED BY <1>2, <1>3

-----------------------------------------------------------------------------
(***************************************************************************)
(* The workers' steps.                                                     *)
(***************************************************************************)
\* One worker changes from r0 to r, and nothing is sent.
Works(w, r) ==
    /\ worker' = [worker EXCEPT ![w] = r] /\ r \in WorkerRec /\ r.n + r.k <= r.ch.size
    /\ worker[w].st \notin {"idle", "gone"} /\ r.st # "idle"
    /\ UNCHANGED <<cfg, others, pos, maxPos, nextChunk, bufMap, hc, reader>>
    /\ overloads' \in 0..cfg.MaxOverload
    /\ concurrency' \in Int /\ (concurrency' > 0 => concurrency' = concurrency)
    /\ ctxDone => ctxDone'

\* How the sets of workers change when one of them changes.
LEMMA OneWorker ==
  ASSUME WorkerTypes, NEW w \in Workers, NEW r \in WorkerRec, worker' = [worker EXCEPT ![w] = r],
         worker[w].st \notin {"idle", "gone"}, r.st # "idle"
  PROVE  /\ Started' = Started
         /\ Running' = IF r.st = "gone" THEN Running \ {w} ELSE Running
         /\ w \in Running
  BY DEF WorkerTypes, Started, Running

LEMMA WorkSlots ==
  ASSUME SlotInv, NEW w \in Workers, NEW r, Works(w, r), ChTypes', BufTypes',
         limit' = IF r.st = "gone" THEN limit + 1 ELSE limit
  PROVE  SlotInv'
  <1>1. Shape /\ WorkerTypes
    BY DEF SlotInv, Shape
  <1>2. nextChunk > 0 /\ reader.st \notin Early
    BY <1>1, AtWork DEF Works
  <1>3. cfg' \in Configs /\ Counts' /\ MapTypes' /\ Positions'
    BY Fixed DEF SlotInv, Shape, Works, Counts, MapTypes, Positions
  <1>4. WorkerTypes' /\ CopiesWithin'
    BY DEF SlotInv, Shape, Works, WorkerTypes, CopiesWithin
  <1>5. ReaderTypes' /\ Stage'
    BY Fixed DEF SlotInv, Shape, Works, ReaderTypes, Stage
  <1>6. Unstarted'
    BY <1>2 DEF Works, Unstarted, Shape, Positions
  <1>7. /\ Started' = Started
        /\ Running' = IF r.st = "gone" THEN Running \ {w} ELSE Running
        /\ w \in Running
    BY <1>1, OneWorker DEF Works
  <1>8. Spawned'
    <2>1. Cardinality(Started) \in Nat /\ concurrency \in Int /\ cfgConcurrency \in Int
      BY WorkersFinite, RangeFacts DEF Started, SlotInv, Shape, Counts
    <2>2. concurrency' \in Int /\ (concurrency' > 0 => concurrency' = concurrency) /\ cfg' = cfg
      BY DEF Works
    <2> QED BY <1>7, <2>1, <2>2, Fixed DEF SlotInv, Spawned
  <1>9. SlotsBalanced'
    <2>1. IsFiniteSet(Running) /\ Cardinality(Running) \in Nat
      BY WorkersFinite DEF Running
    <2>2. Cardinality(Running') = IF r.st = "gone" THEN Cardinality(Running) - 1 ELSE Cardinality(Running)
      BY <1>7, <2>1, FS_RemoveElement
    <2>3. limit \in Nat /\ others \in Nat /\ reader' = reader /\ others' = others
      BY DEF SlotInv, Shape, Counts, Works
    <2> HIDE DEF Running
    <2>4. SlotsBalanced
      BY DEF SlotInv
    <2> QED BY <2>1, <2>2, <2>3, <2>4 DEF SlotsBalanced
  <1> QED BY <1>3, <1>4, <1>5, <1>6, <1>8, <1>9 DEF SlotInv, Shape

\* downloadPart returns.
LEMMA ExitFacts ==
  ASSUME Shape, NEW w \in Workers, Exit(w)
  PROVE  LET r == [Idle EXCEPT !.st = "gone"]
         IN  /\ worker' = [worker EXCEPT ![w] = r] /\ r \in WorkerRec /\ r.st = "gone"
             /\ r.n + r.k <= r.ch.size /\ limit' = limit + 1
  <1>1. Idle \in WorkerRec /\ Idle.n = 0 /\ Idle.k = 0 /\ Idle.ch.size = 0
    BY IdleType DEF Shape, Idle
  <1> DEFINE r == [Idle EXCEPT !.st = "gone"]
  <1>2. r \in WorkerRec /\ r.st = "gone" /\ r.n = 0 /\ r.k = 0 /\ r.ch.size = 0
    BY <1>1 DEF WorkerRec, WorkerStates
  <1>3. worker' = [worker EXCEPT ![w] = r] /\ limit' = limit + 1
    BY DEF Exit
  <1> HIDE DEF r
  <1>4. /\ worker' = [worker EXCEPT ![w] = r] /\ r \in WorkerRec /\ r.st = "gone"
        /\ r.n + r.k <= r.ch.size /\ limit' = limit + 1
    BY <1>2, <1>3
  <1> QED BY <1>4 DEF r

\* A worker with a part, or about to take one.
LEMMA HolderTypes ==
  ASSUME Shape, NEW w \in Workers
  PROVE  /\ worker[w] \in WorkerRec /\ worker[w].n \in Nat /\ worker[w].k \in Nat /\ worker[w].retry \in Nat
         /\ worker[w].ch \in Chunk /\ worker[w].ch.size \in Nat /\ worker[w].ch.start \in Nat
         /\ worker[w].ch.buf \in Buffers /\ worker[w].n + worker[w].k <= worker[w].ch.size
         /\ Left(w) \in Nat
  <1>1. worker[w] \in WorkerRec /\ worker[w].n + worker[w].k <= worker[w].ch.size
    BY DEF Shape, WorkerTypes, CopiesWithin
  <1>2. /\ worker[w].n \in Nat /\ worker[w].k \in Nat /\ worker[w].ch \in Chunk /\ worker[w].retry \in Nat
    BY <1>1 DEF WorkerRec
  <1>3. worker[w].ch.size \in Nat /\ worker[w].ch.start \in Nat /\ worker[w].ch.buf \in Buffers
    BY <1>2 DEF Chunk
  <1> QED BY <1>1, <1>2, <1>3 DEF Left

\* The worker of a step that does not send, with the fields it gets.
Becomes(w, st, ch, n, k) ==
    \E r \in WorkerRec : /\ worker' = [worker EXCEPT ![w] = r]
                         /\ r.st = st /\ r.ch = ch /\ r.n = n /\ r.k = k

\* A worker takes a part from the channel, or ends.
LEMMA WorkerTakesFacts ==
  ASSUME Shape, NEW w \in Workers, WorkerTakes(w)
  PROVE  /\ UNCHANGED <<cfg, others, overloads, pos, maxPos, nextChunk, bufMap, hc, reader, concurrency, buf>>
         /\ (ctxDone => ctxDone') /\ worker[w].st = "take" /\ ChTypes'
         /\ \/ Exit(w) /\ chunkCh' = chunkCh
            \/ /\ chunkCh # <<>> /\ chunkCh' = Tail(chunkCh) /\ limit' = limit
               /\ Head(chunkCh) \in Chunk /\ Becomes(w, "request", Head(chunkCh), 0, 0)
  <1>1. /\ UNCHANGED <<cfg, others, overloads, pos, maxPos, nextChunk, bufMap, hc, reader, concurrency, buf>>
        /\ (ctxDone => ctxDone') /\ worker[w].st = "take"
    BY DEF WorkerTakes, workerOnly, world, At
  <1>2. ChTypes
    BY DEF Shape
  <1>3. CASE Exit(w) /\ UNCHANGED chunkCh
    BY <1>1, <1>2, <1>3 DEF ChTypes
  <1>4. CASE /\ chunkCh # <<>> /\ chunkCh' = Tail(chunkCh)
             /\ worker' = [worker EXCEPT ![w] = [Idle EXCEPT !.st = "request", !.ch = Head(chunkCh)]]
             /\ UNCHANGED limit
    <2>1. Head(chunkCh) \in Chunk /\ ChTypes'
      BY <1>2, <1>4, HeadTailProperties DEF ChTypes
    <2> DEFINE h == Head(chunkCh)
               r == [Idle EXCEPT !.st = "request", !.ch = h]
    <2>2. h \in Chunk /\ worker' = [worker EXCEPT ![w] = r]
      BY <1>4, <2>1
    <2> HIDE DEF h
    <2>3. r \in WorkerRec /\ r.st = "request" /\ r.n = 0 /\ r.k = 0 /\ r.ch = h
      BY <2>2, IdleType DEF Shape, WorkerRec, WorkerStates
    <2> HIDE DEF r
    <2>4. Becomes(w, "request", h, 0, 0)
      BY <2>2, <2>3 DEF Becomes
    <2> QED BY <1>1, <1>4, <2>1, <2>4 DEF h
  <1> QED BY <1>3, <1>4 DEF WorkerTakes

\* The end of a request that was not answered, and the passes of the copy.
LEMMA RequestFacts ==
  ASSUME Shape, NEW w \in Workers,
         RequestFails(w) \/ RequestRefused(w) \/ WriteEnters(w) \/ BodyBreaks(w) \/ BodyEnds(w)
  PROVE  /\ UNCHANGED <<cfg, others, pos, maxPos, nextChunk, bufMap, hc, reader, buf, limit, chunkCh>>
         /\ ctxDone => ctxDone'
         /\ worker[w].st \in {"request", "body"}
         /\ overloads' \in 0..cfg.MaxOverload /\ concurrency' \in Int
         /\ concurrency' > 0 => concurrency' = concurrency
         /\ \/ worker[w].st = "body" /\ Left(w) = 0 /\ Becomes(w, "take", Idle.ch, 0, 0)
            \/ \E st \in {"judge", "requeue", "write"} :
                  /\ Becomes(w, st, worker[w].ch, worker[w].n, worker[w].k)
                  /\ st = "requeue" => worker[w].st = "request" /\ concurrency' <= 0
                  /\ st = "write" => worker[w].st = "body"
  <1>1. /\ UNCHANGED <<cfg, others, pos, maxPos, nextChunk, bufMap, hc, reader, buf, limit, chunkCh>>
        /\ worker[w].st \in {"request", "body"}
    BY DEF RequestFails, RequestRefused, WriteEnters, BodyBreaks, BodyEnds, workerOnly, world, At
  <1>2. ctxDone => ctxDone'
    BY DEF RequestFails, RequestRefused, WriteEnters, BodyBreaks, BodyEnds
  <1>3. /\ concurrency \in Int /\ overloads \in 0..cfg.MaxOverload /\ cfg.MaxOverload \in Nat
    BY ConfigFacts DEF Shape, Counts
  <1>4. /\ overloads' \in 0..cfg.MaxOverload /\ concurrency' \in Int
        /\ concurrency' > 0 => concurrency' = concurrency
    BY <1>3 DEF RequestFails, RequestRefused, WriteEnters, BodyBreaks, BodyEnds, workerOnly, world
  <1>5. worker[w] \in WorkerRec
    BY HolderTypes
  <1>6. ASSUME NEW st \in {"judge", "requeue", "write"},
               worker' = Step(w, st)
                 \/ \E err \in {"fatal", "retry", "infinite"} : worker' = [worker EXCEPT ![w].st = st, ![w].err = err]
        PROVE  Becomes(w, st, worker[w].ch, worker[w].n, worker[w].k)
    <2>1. CASE worker' = Step(w, st)
      <3> DEFINE r == [worker[w] EXCEPT !.st = st]
      <3>1. worker' = [worker EXCEPT ![w] = r]
        BY <2>1 DEF Step, Shape, WorkerTypes
      <3>2. r \in WorkerRec /\ r.st = st /\ r.ch = worker[w].ch /\ r.n = worker[w].n /\ r.k = worker[w].k
        BY <1>5 DEF WorkerRec, WorkerStates
      <3> HIDE DEF r
      <3> QED BY <3>1, <3>2 DEF Becomes
    <2>2. ASSUME NEW err \in {"fatal", "retry", "infinite"}, worker' = [worker EXCEPT ![w].st = st, ![w].err = err]
          PROVE  Becomes(w, st, worker[w].ch, worker[w].n, worker[w].k)
      <3> DEFINE r == [worker[w] EXCEPT !.st = st, !.err = err]
      <3>1. worker' = [worker EXCEPT ![w] = r]
        BY <2>2 DEF Shape, WorkerTypes
      <3>2. r \in WorkerRec /\ r.st = st /\ r.ch = worker[w].ch /\ r.n = worker[w].n /\ r.k = worker[w].k
        BY <1>5 DEF WorkerRec, WorkerStates
      <3> HIDE DEF r
      <3> QED BY <3>1, <3>2 DEF Becomes
    <2> QED BY <1>6, <2>1, <2>2
  <1>7. CASE RequestFails(w) \/ BodyBreaks(w)
    BY <1>1, <1>2, <1>4, <1>6, <1>7 DEF RequestFails, BodyBreaks
  <1>8. CASE RequestRefused(w)
    <2>1. \/ \E err \in {"retry", "infinite"} : worker' = [worker EXCEPT ![w].st = "judge", ![w].err = err]
          \/ worker' = Step(w, "requeue") /\ worker[w].st = "request" /\ concurrency' <= 0
      BY <1>3, <1>8 DEF RequestRefused, At
    <2>2. CASE \E err \in {"retry", "infinite"} : worker' = [worker EXCEPT ![w].st = "judge", ![w].err = err]
      BY <1>1, <1>2, <1>4, <1>6, <2>2
    <2>3. CASE worker' = Step(w, "requeue") /\ worker[w].st = "request" /\ concurrency' <= 0
      BY <1>1, <1>2, <1>4, <1>6, <2>3
    <2> QED BY <2>1, <2>2, <2>3
  <1>9. CASE WriteEnters(w)
    <2>1. \/ worker' = [worker EXCEPT ![w].st = "judge", ![w].err = "retry"]
          \/ worker' = Step(w, "write") /\ worker[w].st = "body"
      BY <1>9 DEF WriteEnters, At
    <2> QED BY <1>1, <1>2, <1>4, <1>6, <2>1
  <1>10. CASE BodyEnds(w)
    <2> DEFINE r == [Idle EXCEPT !.st = "take"]
    <2>1. r \in WorkerRec /\ r.st = "take" /\ r.n = 0 /\ r.k = 0 /\ r.ch = Idle.ch
      BY IdleType DEF Shape, WorkerRec, WorkerStates
    <2>2. worker' = [worker EXCEPT ![w] = r] /\ worker[w].st = "body" /\ Left(w) = 0
      BY <1>10 DEF BodyEnds, At
    <2> HIDE DEF r
    <2>3. Becomes(w, "take", Idle.ch, 0, 0)
      BY <2>1, <2>2 DEF Becomes
    <2> QED BY <1>1, <1>2, <1>4, <2>2, <2>3
  <1> QED BY <1>7, <1>8, <1>9, <1>10

\* Requeue, the body and its judgement leave these alone.
LEMMA BodyFrame ==
  ASSUME Shape, NEW w \in Workers, Requeue(w) \/ WriteStart(w) \/ WriteEnd(w) \/ Judge(w)
  PROVE  /\ UNCHANGED <<cfg, others, overloads, pos, maxPos, nextChunk, bufMap, hc, reader, concurrency>>
         /\ ctxDone => ctxDone'
         /\ worker[w].st \in {"requeue", "write", "writing", "judge"}
  <1>1. UNCHANGED <<cfg, others, overloads, pos, maxPos, nextChunk, bufMap, hc, reader, concurrency>>
    BY DEF Requeue, WriteStart, WriteEnd, Judge, workerOnly, world
  <1>2. ctxDone => ctxDone'
    <2>1. CASE Judge(w)
      BY <2>1 DEF Judge
    <2>2. CASE Requeue(w) \/ WriteStart(w) \/ WriteEnd(w)
      BY <2>2 DEF Requeue, WriteStart, WriteEnd
    <2> QED BY <2>1, <2>2
  <1>3. worker[w].st \in {"requeue", "write", "writing", "judge"}
    BY DEF Requeue, WriteStart, WriteEnd, Judge, At
  <1> QED BY <1>1, <1>2, <1>3

LEMMA RequeueFacts ==
  ASSUME Shape, NEW w \in Workers, Requeue(w)
  PROVE  /\ ChTypes' /\ buf' = buf /\ worker[w].st = "requeue"
         /\ \/ Exit(w) /\ chunkCh' = chunkCh
            \/ Exit(w) /\ Len(chunkCh) < Capacity /\ chunkCh' = Append(chunkCh, worker[w].ch)
            \/ UNCHANGED <<chunkCh, worker, limit>>
  <1>1. worker[w].ch \in Chunk /\ ChTypes
    BY HolderTypes DEF Shape
  <1>2. /\ buf' = buf /\ worker[w].st = "requeue"
        /\ \/ Exit(w) /\ chunkCh' = chunkCh
           \/ Exit(w) /\ Len(chunkCh) < Capacity /\ chunkCh' = Append(chunkCh, worker[w].ch)
           \/ UNCHANGED <<chunkCh, worker, limit>>
    BY DEF Requeue, At
  <1>3. ChTypes'
    BY <1>1, <1>2, AppendProperties DEF ChTypes
  <1> QED BY <1>2, <1>3

LEMMA WriteStartFacts ==
  ASSUME Shape, NEW w \in Workers, WriteStart(w)
  PROVE  LET b == worker[w].ch.buf
         IN  /\ worker[w].st = "write" /\ chunkCh' = chunkCh /\ limit' = limit /\ BufTypes'
             /\ \/ /\ buf[b].open /\ Touches(b) /\ SameData(b) /\ buf'[b].open = buf[b].open
                   /\ buf'[b].ioWg = buf[b].ioWg + 1
                   /\ \E k \in Nat \ {0} : /\ k <= Left(w) /\ buf[b].offW + k <= buf[b].limit
                                           /\ Becomes(w, "writing", worker[w].ch, worker[w].n, k)
                \/ buf' = buf /\ Becomes(w, "judge", worker[w].ch, worker[w].n, worker[w].k)
  <1> DEFINE b == worker[w].ch.buf
  <1>1. b \in Buffers /\ worker[w] \in WorkerRec /\ Left(w) \in Nat
    BY HolderTypes
  <1>2. buf[b] \in PipeBuffer /\ BufTypes
    BY <1>1 DEF Shape, BufTypes
  <1>3. buf[b].limit \in Int /\ buf[b].offW \in Int
    BY <1>2 DEF PipeBuffer
  <1>4. cfg' = cfg
    BY BodyFrame
  <1>5. worker[w].st = "write" /\ chunkCh' = chunkCh /\ limit' = limit
    BY DEF WriteStart, At
  <1>6. \/ /\ buf[b].open /\ buf' = [buf EXCEPT ![b].ioWg = @ + 1]
           /\ \E k \in 1..Left(w) : k <= buf[b].limit - buf[b].offW
                 /\ worker' = [worker EXCEPT ![w].st = "writing", ![w].k = k]
        \/ buf' = buf /\ worker' = [worker EXCEPT ![w].st = "judge", ![w].err = "retry"]
    BY DEF WriteStart
  <1> HIDE DEF b
  <1>7. CASE /\ buf[b].open /\ buf' = [buf EXCEPT ![b].ioWg = @ + 1]
             /\ \E k \in 1..Left(w) : k <= buf[b].limit - buf[b].offW
                 /\ worker' = [worker EXCEPT ![w].st = "writing", ![w].k = k]
    <2>1. /\ Touches(b) /\ SameData(b) /\ buf'[b].open = buf[b].open /\ buf'[b].ioWg = buf[b].ioWg + 1
      BY <1>1, <1>2, <1>4, <1>7, EnterFacts
    <2>2. PICK k \in 1..Left(w) : k <= buf[b].limit - buf[b].offW
                 /\ worker' = [worker EXCEPT ![w].st = "writing", ![w].k = k]
      BY <1>7
    <2>3. k \in Nat \ {0} /\ k <= Left(w) /\ buf[b].offW + k <= buf[b].limit
      BY <1>1, <1>3, <2>2
    <2> DEFINE r == [worker[w] EXCEPT !.st = "writing", !.k = k]
    <2>4. worker' = [worker EXCEPT ![w] = r]
      BY <2>2 DEF Shape, WorkerTypes
    <2>5. r \in WorkerRec /\ r.st = "writing" /\ r.ch = worker[w].ch /\ r.n = worker[w].n /\ r.k = k
      BY <1>1, <2>3 DEF WorkerRec, WorkerStates
    <2> HIDE DEF r
    <2>6. Becomes(w, "writing", worker[w].ch, worker[w].n, k)
      BY <2>4, <2>5 DEF Becomes
    <2> QED BY <1>5, <1>7, <2>1, <2>3, <2>6 DEF Touches, b
  <1>8. CASE buf' = buf /\ worker' = [worker EXCEPT ![w].st = "judge", ![w].err = "retry"]
    <2> DEFINE r == [worker[w] EXCEPT !.st = "judge", !.err = "retry"]
    <2>1. worker' = [worker EXCEPT ![w] = r]
      BY <1>8 DEF Shape, WorkerTypes
    <2>2. r \in WorkerRec /\ r.st = "judge" /\ r.ch = worker[w].ch /\ r.n = worker[w].n /\ r.k = worker[w].k
      BY <1>1 DEF WorkerRec, WorkerStates
    <2> HIDE DEF r
    <2>3. Becomes(w, "judge", worker[w].ch, worker[w].n, worker[w].k)
      BY <2>1, <2>2 DEF Becomes
    <2>4. BufTypes'
      BY <1>2, <1>4, <1>8, Fixed DEF BufTypes
    <2> QED BY <1>5, <1>8, <2>3, <2>4
  <1> QED BY <1>6, <1>7, <1>8

LEMMA WriteEndFacts ==
  ASSUME Shape, NEW w \in Workers, WriteEnd(w)
  PROVE  LET b  == worker[w].ch.buf
             wk == worker[w]
         IN  /\ wk.st = "writing" /\ chunkCh' = chunkCh /\ limit' = limit
             /\ Touches(b) /\ buf'[b] = Written(buf[b], wk.ch.start + wk.n, wk.k)
             /\ Becomes(w, "body", wk.ch, wk.n + wk.k, 0)
  <1> DEFINE b  == worker[w].ch.buf
             wk == worker[w]
             n  == wk.n + wk.k
             z  == 0
             s  == wk.ch.start + wk.n
  <1>1. b \in Buffers /\ wk \in WorkerRec /\ n \in Nat /\ wk.k \in Nat /\ z \in Nat /\ s \in Nat
    BY HolderTypes
  <1>2. buf[b] \in PipeBuffer /\ BufTypes /\ cfg' = cfg /\ PartSize \in Int
    BY <1>1, BodyFrame, RangeFacts DEF Shape, BufTypes
  <1>3. /\ wk.st = "writing" /\ chunkCh' = chunkCh /\ limit' = limit
        /\ buf' = [buf EXCEPT ![b] = Written(buf[b], s, wk.k)]
    BY <1>1, <1>2 DEF WriteEnd, At, BufTypes
  <1>4. worker' = [worker EXCEPT ![w] = [wk EXCEPT !.st = "body", !.n = n, !.k = z]]
    BY DEF WriteEnd, Shape, WorkerTypes
  <1> HIDE DEF b, n, z, s
  <1>5. Touches(b) /\ buf'[b] = Written(buf[b], s, wk.k)
    <2>1. wk.k \in Int /\ s \in Int
      BY <1>1
    <2>2. Written(buf[b], s, wk.k) \in PipeBuffer
      BY <1>2, <2>1, WrittenFacts
    <2> QED BY <1>1, <1>2, <1>3, <2>2, Replaced
  <1> DEFINE r == [wk EXCEPT !.st = "body", !.n = n, !.k = z]
  <1>6. r \in WorkerRec /\ r.st = "body" /\ r.ch = wk.ch /\ r.n = n /\ r.k = z
    BY <1>1 DEF WorkerRec, WorkerStates
  <1>7. worker' = [worker EXCEPT ![w] = r]
    BY <1>4
  <1> HIDE DEF r
  <1>8. Becomes(w, "body", wk.ch, n, z)
    BY <1>6, <1>7 DEF Becomes
  <1> QED BY <1>3, <1>5, <1>8 DEF b, n, z, s

LEMMA JudgeFacts ==
  ASSUME Shape, NEW w \in Workers, Judge(w)
  PROVE  LET wk == worker[w]
         IN  /\ wk.st = "judge" /\ UNCHANGED <<chunkCh, buf>>
             /\ \/ Exit(w)
                \/ /\ limit' = limit
                   /\ \E ch \in Chunk : /\ ch.start = wk.ch.start + wk.n /\ ch.size = wk.ch.size - wk.n
                                        /\ ch.id = wk.ch.id /\ ch.buf = wk.ch.buf
                                        /\ Becomes(w, "request", ch, 0, 0)
  <1> DEFINE wk    == worker[w]
             retry == wk.retry + (IF wk.err = "retry" THEN 1 ELSE 0)
             start == wk.ch.start + wk.n
             size  == wk.ch.size - wk.n
             ch    == [wk.ch EXCEPT !.start = start, !.size = size]
  <1>1. wk \in WorkerRec /\ wk.ch \in Chunk /\ start \in Nat /\ size \in Nat /\ retry \in Nat
    BY HolderTypes
  <1>2. /\ wk.st = "judge" /\ UNCHANGED <<chunkCh, buf>>
        /\ \/ Exit(w)
           \/ /\ limit' = limit
              /\ worker' = [worker EXCEPT ![w] = [Idle EXCEPT !.st = "request", !.retry = retry, !.ch = ch]]
    BY DEF Judge, At
  <1> HIDE DEF start, size, retry
  <1>3. ch \in Chunk /\ ch.start = start /\ ch.size = size /\ ch.id = wk.ch.id /\ ch.buf = wk.ch.buf
    BY <1>1 DEF Chunk
  <1> HIDE DEF ch
  <1> DEFINE r == [Idle EXCEPT !.st = "request", !.retry = retry, !.ch = ch]
  <1>4. r \in WorkerRec /\ r.st = "request" /\ r.ch = ch /\ r.n = 0 /\ r.k = 0
    BY <1>1, <1>3, IdleType DEF Shape, WorkerRec, WorkerStates
  <1>5. CASE Exit(w)
    BY <1>2, <1>5
  <1>6. CASE limit' = limit /\ worker' = [worker EXCEPT ![w] = r]
    <2> HIDE DEF r
    <2>1. Becomes(w, "request", ch, 0, 0)
      BY <1>4, <1>6 DEF Becomes
    <2> QED BY <1>2, <1>3, <1>6, <2>1 DEF start, size
  <1> QED BY <1>2, <1>5, <1>6

\* Every step of a worker that does not send keeps the slots.
LEMMA WorkerSlots ==
  ASSUME SlotInv, NEW w \in Workers,
         \/ WorkerTakes(w) \/ RequestFails(w) \/ RequestRefused(w) \/ Requeue(w)
         \/ WriteEnters(w) \/ WriteStart(w) \/ WriteEnd(w) \/ BodyEnds(w) \/ BodyBreaks(w) \/ Judge(w)
  PROVE  SlotInv'
  <1> DEFINE frame == /\ UNCHANGED <<cfg, others, pos, maxPos, nextChunk, bufMap, hc, reader>>
                      /\ ctxDone => ctxDone'
                      /\ overloads' \in 0..cfg.MaxOverload /\ concurrency' \in Int
                      /\ concurrency' > 0 => concurrency' = concurrency
                      /\ worker[w].st \notin {"idle", "gone"}
                      /\ ChTypes' /\ BufTypes'
  <1>1. Shape /\ BufTypes /\ ChTypes /\ overloads \in 0..cfg.MaxOverload /\ concurrency \in Int
    BY DEF SlotInv, Shape, Counts
  <1>2. ASSUME frame, Exit(w) PROVE SlotInv'
    <2> DEFINE r == [Idle EXCEPT !.st = "gone"]
    <2>1. /\ worker' = [worker EXCEPT ![w] = r] /\ r \in WorkerRec /\ r.st = "gone"
          /\ r.n + r.k <= r.ch.size /\ limit' = limit + 1
      BY <1>1, <1>2, ExitFacts
    <2> HIDE DEF r
    <2>2. Works(w, r) /\ limit' = IF r.st = "gone" THEN limit + 1 ELSE limit
      BY <1>2, <2>1 DEF Works
    <2> QED BY <1>2, <2>2, WorkSlots
  <1>3. ASSUME frame, limit' = limit, NEW st \in WorkerStates \ {"idle", "gone"}, NEW ch \in Chunk,
               NEW n \in Nat, NEW k \in Nat, n + k <= ch.size, Becomes(w, st, ch, n, k)
        PROVE  SlotInv'
    <2>1. PICK r \in WorkerRec : /\ worker' = [worker EXCEPT ![w] = r]
                                 /\ r.st = st /\ r.ch = ch /\ r.n = n /\ r.k = k
      BY <1>3 DEF Becomes
    <2>2. Works(w, r) /\ limit' = IF r.st = "gone" THEN limit + 1 ELSE limit
      BY <1>3, <2>1 DEF Works
    <2> QED BY <1>3, <2>2, WorkSlots
  <1>4. /\ worker[w] \in WorkerRec /\ worker[w].n \in Nat /\ worker[w].k \in Nat
        /\ worker[w].ch \in Chunk /\ worker[w].ch.size \in Nat
        /\ worker[w].n + worker[w].k <= worker[w].ch.size /\ Left(w) = worker[w].ch.size - worker[w].n
    BY <1>1, HolderTypes DEF Left
  <1>5. Idle.ch \in Chunk /\ Idle.ch.size = 0
    BY IdleType DEF SlotInv, Shape, WorkerRec, Idle
  <1>6. \A ch \in Chunk : ch.size \in Nat
    BY DEF Chunk
  <1> USE DEF WorkerStates
  <1>7. CASE WorkerTakes(w)
    <2>1. frame
      BY <1>1, <1>7, WorkerTakesFacts, Fixed DEF BufTypes
    <2>2. \/ Exit(w)
          \/ limit' = limit /\ Head(chunkCh) \in Chunk /\ Becomes(w, "request", Head(chunkCh), 0, 0)
      BY <1>1, <1>7, WorkerTakesFacts
    <2> HIDE DEF frame
    <2> QED BY <1>2, <1>3, <1>6, <2>1, <2>2
  <1>8. CASE RequestFails(w) \/ RequestRefused(w) \/ WriteEnters(w) \/ BodyBreaks(w) \/ BodyEnds(w)
    <2>1. frame
      <3>1. UNCHANGED <<cfg, buf, chunkCh>>
        BY <1>1, <1>8, RequestFacts
      <3>2. ChTypes' /\ BufTypes'
        BY <1>1, <3>1, Fixed DEF BufTypes, ChTypes
      <3> QED BY <1>1, <1>8, <3>2, RequestFacts
    <2>2. /\ limit' = limit
          /\ \/ Becomes(w, "take", Idle.ch, 0, 0)
             \/ \E st \in {"judge", "requeue", "write"} : Becomes(w, st, worker[w].ch, worker[w].n, worker[w].k)
      BY <1>1, <1>8, RequestFacts
    <2> HIDE DEF frame
    <2> QED BY <1>3, <1>4, <1>5, <2>1, <2>2
  <1>9. CASE Requeue(w)
    <2>1. frame
      BY <1>1, <1>9, BodyFrame, RequeueFacts, Fixed DEF BufTypes
    <2>2. Exit(w) \/ UNCHANGED <<worker, limit>>
      BY <1>1, <1>9, RequeueFacts
    <2>3. CASE UNCHANGED <<worker, limit>>
      <3>1. Becomes(w, worker[w].st, worker[w].ch, worker[w].n, worker[w].k)
        BY <1>1, <1>4, <2>3 DEF Becomes, Shape, WorkerTypes
      <3>2. worker[w].st \in WorkerStates \ {"idle", "gone"} /\ limit' = limit
        BY <2>1, <2>3, <1>4 DEF WorkerRec
      <3> HIDE DEF frame
      <3> QED BY <1>3, <1>4, <2>1, <3>1, <3>2
    <2> HIDE DEF frame
    <2> QED BY <1>2, <2>1, <2>2, <2>3
  <1>10. CASE WriteStart(w)
    <2>1. frame
      BY <1>1, <1>10, BodyFrame, WriteStartFacts DEF ChTypes
    <2>2. /\ limit' = limit
          /\ \/ \E k \in Nat \ {0} : k <= Left(w) /\ Becomes(w, "writing", worker[w].ch, worker[w].n, k)
             \/ Becomes(w, "judge", worker[w].ch, worker[w].n, worker[w].k)
      BY <1>1, <1>10, WriteStartFacts
    <2> HIDE DEF frame
    <2>3. CASE Becomes(w, "judge", worker[w].ch, worker[w].n, worker[w].k)
      BY <1>3, <1>4, <2>1, <2>2, <2>3
    <2>4. ASSUME NEW k \in Nat, k <= Left(w), Becomes(w, "writing", worker[w].ch, worker[w].n, k)
          PROVE  SlotInv'
      <3>1. worker[w].n + k <= worker[w].ch.size
        BY <1>4, <2>4
      <3> QED BY <1>3, <1>4, <2>1, <2>2, <2>4, <3>1
    <2> QED BY <2>2, <2>3, <2>4
  <1>11. CASE WriteEnd(w)
    <2>1. frame
      BY <1>1, <1>11, BodyFrame, WriteEndFacts DEF ChTypes, Touches
    <2>2. limit' = limit /\ Becomes(w, "body", worker[w].ch, worker[w].n + worker[w].k, 0)
      BY <1>1, <1>11, WriteEndFacts
    <2>3. worker[w].n + worker[w].k \in Nat
      BY <1>4
    <2> HIDE DEF frame
    <2> QED BY <1>3, <1>4, <2>1, <2>2, <2>3
  <1>12. CASE Judge(w)
    <2>1. frame
      BY <1>1, <1>12, BodyFrame, JudgeFacts, Fixed DEF BufTypes, ChTypes
    <2>2. \/ Exit(w)
          \/ limit' = limit /\ \E ch \in Chunk : Becomes(w, "request", ch, 0, 0)
      BY <1>1, <1>12, JudgeFacts
    <2> HIDE DEF frame
    <2> QED BY <1>2, <1>3, <1>6, <2>1, <2>2
  <1> QED BY <1>7, <1>8, <1>9, <1>10, <1>11, <1>12

-----------------------------------------------------------------------------
(***************************************************************************)
(* The steps that send a part.                                             *)
(***************************************************************************)
\* The workers after the sender's own step: the same ones run, with the same parts.
Alike(ws) ==
    /\ ws \in [Workers -> WorkerRec]
    /\ \A w \in Workers :
         /\ ws[w].n = worker[w].n /\ ws[w].k = worker[w].k /\ ws[w].ch = worker[w].ch
         /\ ws[w].st = "idle" <=> worker[w].st = "idle"
         /\ ws[w].st = "gone" <=> worker[w].st = "gone"

\* What a send leaves of the fields, and how many workers there are after it.
Sends(nc, ws) ==
    /\ maxPos' = maxPos
    /\ \/ pos < maxPos /\ \E b \in Buffers : Prepare(b)
       \/ UNCHANGED <<pos, nextChunk, hc, bufMap, buf>>
    /\ ChTypes'
    /\ \/ /\ nc /\ concurrency > 0 /\ concurrency' = concurrency - 1
          /\ \E v \in Workers : worker[v].st = "idle" /\ worker' = [ws EXCEPT ![v].st = "take"]
          /\ nextChunk > 0 => limit > 0
          /\ limit' = IF nextChunk > 0 THEN limit - 1 ELSE limit
          /\ nextChunk' > 0
       \/ worker' = ws /\ concurrency' = concurrency
    /\ chunkCh' = chunkCh \/ nextChunk' > 0

LEMMA QueuesSends ==
  ASSUME Shape, Spawned, cfg' = cfg, maxPart > 1, NEW nc \in BOOLEAN, NEW ws, Alike(ws),
         SendQueues(nc, ws)
  PROVE  /\ Sends(nc, ws)
         /\ ~nc => limit' = limit /\ worker' = ws
         /\ nc => worker' # ws /\ nextChunk' > 0
         /\ pos < maxPos
         /\ \E b \in Buffers : /\ Prepare(b) /\ NextChunk(nc, b) \in Chunk
                               /\ chunkCh' = Append(chunkCh, NextChunk(nc, b))
  <1>1. PICK b \in Buffers : Prepare(b) /\ chunkCh' = Append(chunkCh, NextChunk(nc, b))
    BY DEF SendQueues
  <1>2. ~NoTask(nc) /\ maxPos' = maxPos
    BY DEF SendQueues
  <1>3. pos \in Nat /\ maxPos \in Nat /\ concurrency \in Int /\ limit \in Nat /\ nextChunk \in Nat
    BY RangeFacts DEF Shape, Counts, Positions
  <1>4. pos < maxPos /\ (nc => concurrency > 0)
    BY <1>2, <1>3 DEF NoTask
  <1>5. NextChunk(nc, b) \in Chunk /\ nextChunk' = nextChunk + 1
    BY <1>1, <1>4, PrepareFacts
  <1>6. ChTypes'
    BY <1>1, <1>5, AppendProperties DEF Shape, ChTypes
  <1>7. nextChunk' > 0
    BY <1>3, <1>5
  <1>8. CASE nc
    <2>1. \E v \in Workers : /\ ws[v].st = "idle" /\ worker[v].st = "idle"
                             /\ Spawn(ws) = [ws EXCEPT ![v].st = "take"]
      BY <1>4, <1>8, SpawnFacts DEF Alike
    <2>2. PICK v \in Workers : /\ ws[v].st = "idle" /\ worker[v].st = "idle"
                               /\ Spawn(ws) = [ws EXCEPT ![v].st = "take"]
      BY <2>1
    <2>3. worker' = [ws EXCEPT ![v].st = "take"]
      BY <1>8, <2>2 DEF SendQueues
    <2>4. worker' # ws
      <3>1. ws[v] \in WorkerRec /\ ws \in [Workers -> WorkerRec]
        BY DEF Alike
      <3>2. worker'[v].st = "take"
        BY <2>3, <3>1 DEF WorkerRec
      <3> QED BY <2>2, <3>2
    <2>5. concurrency' = concurrency - 1 /\ (nextChunk > 0 => limit > 0)
           /\ limit' = IF nextChunk > 0 THEN limit - 1 ELSE limit
      BY <1>8 DEF SendQueues, NeedsSlot
    <2> QED BY <1>1, <1>2, <1>4, <1>5, <1>6, <1>7, <1>8, <2>2, <2>3, <2>4, <2>5 DEF Sends
  <1>9. CASE ~nc
    <2>1. worker' = ws /\ concurrency' = concurrency /\ limit' = limit
      BY <1>9 DEF SendQueues, NeedsSlot
    <2> QED BY <1>1, <1>2, <1>4, <1>5, <1>6, <1>7, <1>9, <2>1 DEF Sends
  <1> QED BY <1>8, <1>9

LEMMA CancelledSends ==
  ASSUME Shape, cfg' = cfg, NEW nc \in BOOLEAN, NEW ws, SendCancelled(nc), worker' = ws
  PROVE  Sends(nc, ws) /\ ctxDone /\ chunkCh' = chunkCh /\ concurrency' = concurrency
          /\ pos < maxPos /\ \E b \in Buffers : Prepare(b)
  <1>1. /\ ~NoTask(nc) /\ ctxDone /\ \E b \in Buffers : Prepare(b)
        /\ UNCHANGED <<maxPos, concurrency, chunkCh>>
    BY DEF SendCancelled
  <1>2. pos < maxPos
    <2>1. pos \in Nat /\ maxPos \in Nat
      BY RangeFacts DEF Shape, Counts, Positions
    <2> QED BY <1>1, <2>1 DEF NoTask
  <1>3. ChTypes'
    BY <1>1 DEF Shape, ChTypes
  <1> QED BY <1>1, <1>2, <1>3 DEF Sends

LEMMA NothingSends ==
  ASSUME Shape, NEW nc \in BOOLEAN, NEW ws, worker' = ws, UNCHANGED <<shared, buf>>
  PROVE  Sends(nc, ws) /\ chunkCh' = chunkCh /\ concurrency' = concurrency
          /\ UNCHANGED <<pos, nextChunk, hc, bufMap, buf, maxPos>>
  BY DEF Sends, shared, counters, Shape, ChTypes

\* The types after a send.
LEMMA SendShape ==
  ASSUME Shape, cfg' = cfg, maxPart > 1, NEW nc \in BOOLEAN, NEW ws, Alike(ws), Sends(nc, ws)
  PROVE  /\ Positions' /\ MapTypes' /\ BufTypes' /\ ChTypes' /\ WorkerTypes' /\ CopiesWithin'
         /\ hc' \in Int /\ hc' >= -1 /\ (hc' = -1 <=> hc = -1) /\ nextChunk' >= nextChunk
         /\ concurrency' \in Int /\ nextChunk' \in Nat
  <1>1. hc \in Int /\ hc >= -1 /\ nextChunk \in Nat /\ concurrency \in Int
    BY RangeFacts DEF Shape, Counts, Stage, Positions
  <1>2. /\ Positions' /\ MapTypes' /\ BufTypes' /\ hc' \in Int /\ hc' >= -1 /\ (hc' = -1 <=> hc = -1)
        /\ nextChunk' >= nextChunk /\ nextChunk' \in Nat
    <2>1. CASE pos < maxPos /\ \E b \in Buffers : Prepare(b)
      <3>1. PICK b \in Buffers : Prepare(b)
        BY <2>1
      <3>2. /\ hc >= 0 /\ hc' >= 0 /\ hc' \in Int /\ nextChunk' = nextChunk + 1 /\ Positions'
            /\ MapTypes' /\ Touches(b)
        BY <2>1, <3>1, PrepareFacts
      <3> QED BY <1>1, <3>2 DEF Touches
    <2>2. CASE UNCHANGED <<pos, nextChunk, hc, bufMap, buf>>
      <3>1. Positions' /\ BufTypes'
        BY <2>2, Fixed DEF Shape, Positions, BufTypes
      <3>2. MapTypes'
        BY <2>2 DEF Shape, MapTypes
      <3> QED BY <1>1, <2>2, <3>1, <3>2
    <2> QED BY <2>1, <2>2 DEF Sends
  <1>3. ChTypes' /\ concurrency' \in Int
    BY <1>1 DEF Sends
  <1>4. WorkerTypes' /\ CopiesWithin'
    <2>1. WorkerTypes /\ CopiesWithin /\ ws \in [Workers -> WorkerRec]
      BY DEF Shape, Alike
    <2>2. CASE worker' = ws
      BY <2>1, <2>2 DEF Alike, WorkerTypes, CopiesWithin
    <2>3. ASSUME NEW v \in Workers, worker' = [ws EXCEPT ![v].st = "take"]
          PROVE  WorkerTypes' /\ CopiesWithin'
      <3> DEFINE r == [ws[v] EXCEPT !.st = "take"]
      <3>1. worker' = [ws EXCEPT ![v] = r] /\ ws[v] \in WorkerRec
        BY <2>1, <2>3
      <3>2. r \in WorkerRec /\ r.n = ws[v].n /\ r.k = ws[v].k /\ r.ch = ws[v].ch
        BY <3>1 DEF WorkerRec, WorkerStates
      <3> HIDE DEF r
      <3> QED BY <2>1, <3>1, <3>2 DEF Alike, WorkerTypes, CopiesWithin
    <2> QED BY <2>2, <2>3 DEF Sends
  <1> QED BY <1>2, <1>3, <1>4

\* Who runs after a send.
LEMMA SendCounts ==
  ASSUME WorkerTypes, NEW ws, Alike(ws)
  PROVE  /\ worker' = ws => Started' = Started /\ Running' = Running
         /\ \A v \in Workers : worker[v].st = "idle" /\ worker' = [ws EXCEPT ![v].st = "take"] =>
              /\ Cardinality(Started') = Cardinality(Started) + 1
              /\ Cardinality(Running') = Cardinality(Running) + 1
              /\ Started' = Started \cup {v}
         /\ Cardinality(Started) \in Nat /\ Cardinality(Running) \in Nat
  <1>1. /\ IsFiniteSet(Started) /\ IsFiniteSet(Running)
        /\ Cardinality(Started) \in Nat /\ Cardinality(Running) \in Nat
    BY WorkersFinite DEF Started, Running
  <1>2. worker' = ws => Started' = Started /\ Running' = Running
    BY DEF Alike, Started, Running
  <1>3. ASSUME NEW v \in Workers, worker[v].st = "idle", worker' = [ws EXCEPT ![v].st = "take"]
        PROVE  /\ Cardinality(Started') = Cardinality(Started) + 1
               /\ Cardinality(Running') = Cardinality(Running) + 1
               /\ Started' = Started \cup {v}
    <2>1. ws[v] \in WorkerRec /\ ws \in [Workers -> WorkerRec]
      BY DEF Alike
    <2>2. worker'[v].st = "take" /\ \A u \in Workers : u # v => worker'[u] = ws[u]
      BY <1>3, <2>1 DEF WorkerRec
    <2>3. Started' = Started \cup {v} /\ v \notin Started
      BY <1>3, <2>2 DEF Alike, Started
    <2>4. Running' = Running \cup {v} /\ v \notin Running
      BY <1>3, <2>2 DEF Alike, Running
    <2> QED BY <1>1, <2>3, <2>4, FS_AddElement
  <1> QED BY <1>1, <1>2, <1>3

\* A step that sends keeps the slots: sender says what the reader and limit do.
LEMMA SendSlots ==
  ASSUME SlotInv, cfg' = cfg, others' = others, overloads' = overloads, maxPart > 1,
         ctxDone => ctxDone', NEW nc \in BOOLEAN, NEW ws, Alike(ws), Sends(nc, ws),
         reader' \in ReaderRec, reader'.st \notin Single, reader'.pos = reader.pos,
         reader'.curBuf = reader.curBuf,
         reader'.st = "first" => nextChunk' = 0 /\ hc' = 0 /\ reader' = reader,
         reader'.st \in {"open"} \cup Reading \cup Between => reader.pos < maxPart,
         reader'.st \in (Reading \ {"ready"}) \cup Between => reader.curBuf # 0,
         reader'.st = "open" => reader.pos = 0 /\ reader.curBuf = 0,
         reader'.st \in Ending => ctxDone', reader.st \in Ending => reader'.st \in Ending,
         reader.st \notin {"new", "refused"}, limit' \in Nat, SlotsBalanced'
  PROVE  SlotInv'
  <1>1. Shape /\ WorkerTypes /\ Counts /\ Stage /\ Spawned
    BY DEF SlotInv, Shape
  <1>2. /\ Positions' /\ MapTypes' /\ BufTypes' /\ ChTypes' /\ WorkerTypes' /\ CopiesWithin'
        /\ hc' \in Int /\ hc' >= -1 /\ (hc' = -1 <=> hc = -1) /\ nextChunk' >= nextChunk
        /\ concurrency' \in Int /\ nextChunk' \in Nat
    BY <1>1, SendShape
  <1>3. maxPos' = maxPos
    BY DEF Sends
  <1>4. Counts' /\ cfg' \in Configs
    BY <1>1, <1>2, <1>3 DEF Counts, Shape
  <1>5. ReaderTypes'
    <2>1. reader.pos <= maxPart
      BY DEF SlotInv, Shape, ReaderTypes
    <2> QED BY <2>1, Fixed DEF ReaderTypes
  <1>6. Stage'
    BY <1>1, <1>2, <1>3 DEF Stage, Early
  <1>7. Unstarted'
    <2> SUFFICES ASSUME nextChunk' = 0 PROVE (\A w \in Workers : worker'[w].st = "idle") /\ chunkCh' = <<>>
      BY DEF Unstarted
    <2>1. nextChunk = 0
      BY <1>2, RangeFacts DEF SlotInv, Shape, Positions
    <2>2. (\A w \in Workers : worker[w].st = "idle") /\ chunkCh = <<>>
      BY <2>1 DEF SlotInv, Shape, Unstarted
    <2>3. worker' = ws /\ chunkCh' = chunkCh
      BY DEF Sends
    <2> QED BY <2>2, <2>3 DEF Alike
  <1>8. Spawned'
    <2>1. concurrency \in Int /\ cfgConcurrency \in Int /\ cfgConcurrency' = cfgConcurrency
      BY <1>1, RangeFacts, Fixed DEF Counts, Shape
    <2>2. CASE worker' = ws /\ concurrency' = concurrency
      BY <1>1, <2>1, <2>2, SendCounts DEF Spawned
    <2>3. CASE /\ nc /\ concurrency > 0 /\ concurrency' = concurrency - 1
               /\ \E v \in Workers : worker[v].st = "idle" /\ worker' = [ws EXCEPT ![v].st = "take"]
      <3>1. Cardinality(Started') = Cardinality(Started) + 1 /\ Cardinality(Started) \in Nat
        BY <1>1, <2>3, SendCounts
      <3> QED BY <1>1, <2>1, <2>3, <3>1 DEF Spawned
    <2> QED BY <2>2, <2>3 DEF Sends
  <1> QED BY <1>2, <1>4, <1>5, <1>6, <1>7, <1>8 DEF SlotInv, Shape

LEMMA AlikeFacts ==
  ASSUME Shape
  PROVE  /\ Alike(worker)
         /\ \A w \in Workers : worker[w].st = "request" => Alike(Step(w, "body"))
  <1>1. WorkerTypes
    BY DEF Shape
  <1>2. Alike(worker)
    BY <1>1 DEF Alike, WorkerTypes
  <1>3. ASSUME NEW w \in Workers, worker[w].st = "request" PROVE Alike(Step(w, "body"))
    <2> DEFINE r == [worker[w] EXCEPT !.st = "body"]
    <2>1. Step(w, "body") = [worker EXCEPT ![w] = r] /\ worker[w] \in WorkerRec
      BY <1>1 DEF Step, WorkerTypes
    <2>2. r \in WorkerRec /\ r.st = "body" /\ r.n = worker[w].n /\ r.k = worker[w].k /\ r.ch = worker[w].ch
      BY <2>1 DEF WorkerRec, WorkerStates
    <2> HIDE DEF r
    <2> QED BY <1>1, <1>3, <2>1, <2>2 DEF Alike, WorkerTypes
  <1> QED BY <1>2, <1>3

\* The send that ends in the select or before it, with its slot accounted for.
LEMMA SendBalance ==
  ASSUME SlotInv, others' = others, reader'.st \notin {"one", "single", "first"},
         NEW nc \in BOOLEAN, NEW ws, Alike(ws), limit' \in Nat,
         \/ /\ worker' = ws
            /\ limit' = IF reader.st \in {"one", "first", "single"} THEN limit + 1 ELSE limit
         \/ /\ \E v \in Workers : worker[v].st = "idle" /\ worker' = [ws EXCEPT ![v].st = "take"]
            /\ limit' = IF reader.st \in {"one", "first", "single"} THEN limit ELSE limit - 1
  PROVE  SlotsBalanced'
  <1>1. WorkerTypes /\ limit \in Nat /\ others \in Nat
    BY DEF SlotInv, Shape, Counts
  <1>2. /\ Cardinality(Running) \in Nat
        /\ worker' = ws => Cardinality(Running') = Cardinality(Running)
        /\ (\E v \in Workers : worker[v].st = "idle" /\ worker' = [ws EXCEPT ![v].st = "take"]) =>
              Cardinality(Running') = Cardinality(Running) + 1
    BY <1>1, SendCounts
  <1>3. SlotsBalanced
    BY DEF SlotInv
  <1> HIDE DEF Running
  <1> QED BY <1>1, <1>2, <1>3 DEF SlotsBalanced

\* Download's first send.
LEMMA FirstSlots ==
  ASSUME SlotInv, DownloadFirst
  PROVE  SlotInv'
  <1>1. Shape /\ Spawned /\ limit \in Nat /\ cfg' = cfg /\ others' = others /\ overloads' = overloads
    BY DEF SlotInv, Shape, Counts, DownloadFirst, world
  <1>2. reader.st = "first" /\ (ReaderAt("first", "open") \/ ReaderAt("first", "interrupt"))
    BY DEF DownloadFirst, ReaderAt
  <1>3. maxPart > 1 /\ nextChunk = 0 /\ reader.pos = 0 /\ reader.curBuf = 0 /\ reader.pos < maxPart
    <2>1. maxPart > 1 /\ nextChunk = 0 /\ reader.pos = 0 /\ reader.curBuf = 0 /\ maxPart \in Nat
      BY <1>1, <1>2, RangeFacts DEF Shape, ReaderTypes, Stage, Early, Single
    <2> QED BY <2>1
  <1>4. Alike(worker)
    BY <1>1, AlikeFacts
  <1>5. CASE ReaderAt("first", "open") /\ SendQueues(TRUE, worker) /\ UNCHANGED ctxDone
    <2>1. /\ reader' \in ReaderRec /\ reader'.st = "open" /\ reader'.pos = reader.pos
          /\ reader'.curBuf = reader.curBuf
      BY <1>1, <1>5, ReaderGoes DEF ReaderStates
    <2>2. Sends(TRUE, worker) /\ worker' # worker
      BY <1>1, <1>3, <1>4, <1>5, QueuesSends
    <2>3. /\ \E v \in Workers : worker[v].st = "idle" /\ worker' = [worker EXCEPT ![v].st = "take"]
          /\ limit' = limit
      BY <1>3, <2>2 DEF Sends
    <2>4. SlotsBalanced'
      BY <1>1, <1>2, <1>4, <2>1, <2>3, SendBalance
    <2> QED BY <1>1, <1>2, <1>3, <1>4, <1>5, <2>1, <2>2, <2>3, <2>4, SendSlots
          DEF Single, Reading, Between, Ending
  <1>6. CASE /\ ReaderAt("first", "interrupt") /\ ctxDone' = TRUE /\ limit' = limit + 1 /\ worker' = worker
             /\ SendCancelled(TRUE) \/ UNCHANGED <<shared, buf>>
    <2>1. /\ reader' \in ReaderRec /\ reader'.st = "interrupt" /\ reader'.pos = reader.pos
          /\ reader'.curBuf = reader.curBuf
      BY <1>1, <1>6, ReaderGoes DEF ReaderStates, Ending
    <2>2. Sends(TRUE, worker)
      BY <1>1, <1>6, CancelledSends, NothingSends
    <2>3. limit' = limit + 1 /\ limit' \in Nat /\ worker' = worker
      BY <1>1, <1>6
    <2>4. SlotsBalanced'
      BY <1>1, <1>2, <1>4, <2>1, <2>3, SendBalance
    <2> QED BY <1>1, <1>2, <1>3, <1>4, <1>6, <2>1, <2>2, <2>3, <2>4, SendSlots
          DEF Single, Reading, Between, Ending
  <1>7. \/ ReaderAt("first", "open") /\ SendQueues(TRUE, worker) /\ UNCHANGED ctxDone
        \/ /\ ReaderAt("first", "interrupt") /\ ctxDone' = TRUE /\ limit' = limit + 1 /\ worker' = worker
           /\ SendCancelled(TRUE) \/ UNCHANGED <<shared, buf>>
    BY DEF DownloadFirst
  <1> QED BY <1>5, <1>6, <1>7

\* finishBuf's send.
LEMMA FinishFacts ==
  ASSUME Shape, Spawned, FinishSends \/ FinishResumes
  PROVE  /\ cfg' = cfg /\ others' = others /\ overloads' = overloads /\ ctxDone' = ctxDone
         /\ reader.st \in {"sendTask", "sending"} /\ reader' \in ReaderRec /\ reader'.st = "pop"
         /\ reader'.pos = reader.pos /\ reader'.curBuf = reader.curBuf /\ reader'.k = reader.k
         /\ reader.pos < maxPart /\ reader.curBuf # 0 /\ maxPart > 1
         /\ Sends(FALSE, worker) /\ worker' = worker /\ limit' = limit
         /\ delivered' = delivered /\ panicked' = panicked
  <1>1. /\ cfg' = cfg /\ others' = others /\ overloads' = overloads /\ ctxDone' = ctxDone
        /\ delivered' = delivered /\ panicked' = panicked
    BY DEF FinishSends, FinishResumes, world
  <1>2. ReaderAt("sendTask", "pop") \/ ReaderAt("sending", "pop")
    BY DEF FinishSends, FinishResumes
  <1>3. /\ reader.st \in {"sendTask", "sending"} /\ reader' \in ReaderRec /\ reader'.st = "pop"
        /\ reader'.pos = reader.pos /\ reader'.curBuf = reader.curBuf /\ reader'.k = reader.k
    BY <1>2, ReaderGoes DEF ReaderStates, Between
  <1>4. reader.pos < maxPart /\ reader.curBuf # 0 /\ maxPart > 1
    BY <1>3 DEF Shape, ReaderTypes, Stage, Between, Single, Reading
  <1>5. Alike(worker)
    BY AlikeFacts
  <1>6. \/ SendQueues(FALSE, worker)
        \/ SendCancelled(FALSE) /\ worker' = worker /\ limit' = limit
        \/ worker' = worker /\ UNCHANGED <<shared, buf, limit>>
    BY DEF FinishSends, FinishResumes, sendChunkTask
  <1>7. Sends(FALSE, worker) /\ worker' = worker /\ limit' = limit
    <2>1. CASE SendQueues(FALSE, worker)
      BY <1>1, <1>4, <1>5, <2>1, QueuesSends
    <2>2. CASE SendCancelled(FALSE) /\ worker' = worker /\ limit' = limit
      BY <1>1, <2>2, CancelledSends
    <2>3. CASE worker' = worker /\ UNCHANGED <<shared, buf, limit>>
      BY <2>3, NothingSends
    <2> QED BY <1>6, <2>1, <2>2, <2>3
  <1> QED BY <1>1, <1>3, <1>4, <1>7

LEMMA FinishSlots ==
  ASSUME SlotInv, FinishSends \/ FinishResumes
  PROVE  SlotInv'
  <1>1. Shape /\ Spawned /\ limit \in Nat
    BY DEF SlotInv, Shape, Counts
  <1>2. /\ cfg' = cfg /\ others' = others /\ overloads' = overloads /\ ctxDone' = ctxDone
        /\ reader.st \in {"sendTask", "sending"} /\ reader' \in ReaderRec /\ reader'.st = "pop"
        /\ reader'.pos = reader.pos /\ reader'.curBuf = reader.curBuf
        /\ reader.pos < maxPart /\ reader.curBuf # 0 /\ maxPart > 1
        /\ Sends(FALSE, worker) /\ worker' = worker /\ limit' = limit
    BY <1>1, FinishFacts
  <1>3. Alike(worker)
    BY <1>1, AlikeFacts
  <1>4. SlotsBalanced'
    BY <1>1, <1>2, <1>3, SendBalance
  <1> QED BY <1>1, <1>2, <1>3, <1>4, SendSlots DEF Single, Reading, Between, Ending

\* The send behind an answer.
LEMMA SucceedsFacts ==
  ASSUME Shape, Spawned, NEW w \in Workers, RequestSucceeds(w)
  PROVE  /\ cfg' = cfg /\ others' = others /\ overloads' = overloads /\ ctxDone' = ctxDone
         /\ reader' = reader /\ delivered' = delivered /\ panicked' = panicked
         /\ worker[w].st = "request" /\ nextChunk > 0 /\ maxPart > 1 /\ reader.st \notin Early
         /\ Alike(Step(w, "body")) /\ Sends(TRUE, Step(w, "body"))
         /\ \/ worker' = Step(w, "body") /\ limit' = limit
            \/ /\ \E v \in Workers : /\ worker[v].st = "idle"
                                     /\ worker' = [Step(w, "body") EXCEPT ![v].st = "take"]
               /\ limit > 0 /\ limit' = limit - 1
  <1>1. /\ cfg' = cfg /\ others' = others /\ overloads' = overloads /\ ctxDone' = ctxDone
        /\ reader' = reader /\ delivered' = delivered /\ panicked' = panicked
        /\ worker[w].st = "request" /\ sendChunkTask(TRUE, Step(w, "body"))
    BY DEF RequestSucceeds, At, world
  <1>2. nextChunk > 0 /\ maxPart > 1 /\ reader.st \notin Early
    BY <1>1, AtWork
  <1>3. Alike(Step(w, "body"))
    BY <1>1, AlikeFacts
  <1>4. CASE SendQueues(TRUE, Step(w, "body"))
    <2>1. Sends(TRUE, Step(w, "body")) /\ worker' # Step(w, "body")
      BY <1>1, <1>2, <1>3, <1>4, QueuesSends
    <2>2. /\ \E v \in Workers : /\ worker[v].st = "idle"
                                /\ worker' = [Step(w, "body") EXCEPT ![v].st = "take"]
          /\ limit > 0 /\ limit' = limit - 1
      BY <1>2, <2>1 DEF Sends
    <2> QED BY <1>1, <1>2, <1>3, <2>1, <2>2
  <1>5. CASE SendCancelled(TRUE) /\ worker' = Step(w, "body") /\ limit' = limit
    BY <1>1, <1>2, <1>3, <1>5, CancelledSends
  <1>6. CASE worker' = Step(w, "body") /\ UNCHANGED <<shared, buf, limit>>
    BY <1>1, <1>2, <1>3, <1>6, NothingSends
  <1> QED BY <1>1, <1>4, <1>5, <1>6 DEF sendChunkTask

LEMMA SucceedsSlots ==
  ASSUME SlotInv, NEW w \in Workers, RequestSucceeds(w)
  PROVE  SlotInv'
  <1>1. Shape /\ Spawned /\ limit \in Nat /\ ReaderTypes /\ Stage /\ nextChunk \in Nat
    BY RangeFacts DEF SlotInv, Shape, Counts, Positions
  <1> DEFINE ws == Step(w, "body")
  <1>2. /\ cfg' = cfg /\ others' = others /\ overloads' = overloads /\ ctxDone' = ctxDone
        /\ reader' = reader /\ maxPart > 1 /\ reader.st \notin Early
        /\ Alike(ws) /\ Sends(TRUE, ws)
        /\ \/ worker' = ws /\ limit' = limit
           \/ /\ \E v \in Workers : worker[v].st = "idle" /\ worker' = [ws EXCEPT ![v].st = "take"]
              /\ limit > 0 /\ limit' = limit - 1
    BY <1>1, SucceedsFacts
  <1> HIDE DEF ws
  <1>3. limit' \in Nat
    BY <1>1, <1>2
  <1>4. reader.st \notin {"one", "first", "single", "new", "refused"} /\ reader.st \notin Single
    BY <1>2 DEF Early, Single
  <1>5. SlotsBalanced'
    BY <1>2, <1>3, <1>4, SendBalance
  <1>6. /\ reader \in ReaderRec
        /\ reader.st \in {"open"} \cup Reading \cup Between => reader.pos < maxPart
        /\ reader.st \in (Reading \ {"ready"}) \cup Between => reader.curBuf # 0
        /\ reader.st = "open" => reader.pos = 0 /\ reader.curBuf = 0
        /\ reader.st \in Ending => ctxDone
    BY <1>1 DEF ReaderTypes, Stage
  <1> QED BY <1>2, <1>3, <1>4, <1>5, <1>6, SendSlots

\* The environment.
LEMMA OthersSlots ==
  ASSUME SlotInv, Others
  PROVE  SlotInv'
  <1>1. Shape /\ MapTypes /\ BufTypes /\ limit \in Nat /\ others \in Nat
    BY DEF SlotInv, Shape, Counts
  <1>2. CASE ParentCancels
    <2>1. Calm /\ reader' = reader /\ UNCHANGED <<cfg, bufMap, buf>>
      BY <1>2 DEF ParentCancels, Calm, world, shared, counters
    <2>2. MapTypes' /\ BufTypes'
      BY <1>1, <2>1, Fixed DEF MapTypes, BufTypes
    <2> QED BY <2>1, <2>2, CalmShape
  <1>3. CASE OthersAcquire \/ OthersRelease
    <2>1. /\ UNCHANGED <<cfg, overloads, ctxDone, pos, maxPos, nextChunk, concurrency, bufMap, chunkCh, hc,
                         buf, worker, reader>>
          /\ limit' \in Nat /\ others' \in Nat /\ limit' + others' = limit + others
      BY <1>1, <1>3 DEF OthersAcquire, OthersRelease, shared, counters
    <2>2. cfg' \in Configs /\ Counts' /\ MapTypes' /\ ChTypes' /\ WorkerTypes' /\ CopiesWithin' /\ Unstarted'
      BY <2>1 DEF SlotInv, Shape, Counts, MapTypes, ChTypes, WorkerTypes, CopiesWithin, Unstarted
    <2>3. Positions' /\ BufTypes' /\ ReaderTypes' /\ Stage'
      BY <2>1, Fixed DEF SlotInv, Shape, Positions, BufTypes, ReaderTypes, Stage
    <2>4. Started' = Started /\ Running' = Running
      BY <2>1 DEF Started, Running
    <2>5. Spawned' /\ SlotsBalanced'
      <3>1. Spawned'
        BY <2>1, <2>4, Fixed DEF SlotInv, Spawned
      <3>2. Cardinality(Running) \in Nat
        BY WorkersFinite DEF Running
      <3>3. SlotsBalanced'
        BY <1>1, <2>1, <2>4, <3>2 DEF SlotInv, SlotsBalanced
      <3> QED BY <3>1, <3>3
    <2> QED BY <2>2, <2>3, <2>5 DEF SlotInv, Shape
  <1> QED BY <1>2, <1>3 DEF Others

LEMMA InitSlots ==
  ASSUME Init
  PROVE  SlotInv
  <1>1. cfg \in Configs /\ Limit \in Nat
    BY DownloaderParams DEF Init
  <1>2. /\ 0 \in Ids /\ 1 \in Buffers /\ maxPart \in Nat \ {0} /\ cfg.Length \in Nat
        /\ cfgConcurrency \in Nat /\ PartSize \in Int
    BY <1>1, RangeFacts
  <1>3. cfg.MaxOverload \in Nat
    BY <1>1, ConfigFacts
  <1>4. Counts
    BY <1>1, <1>2, <1>3 DEF Init, Counts
  <1>5. Positions
    BY <1>2 DEF Init, Positions, StartOf
  <1>6. MapTypes /\ ChTypes
    <2>1. MapTypes
      BY DEF Init, MapTypes, NoBufs
    <2>2. ChTypes
      BY DEF Init, ChTypes
    <2> QED BY <2>1, <2>2
  <1>7. BufTypes
    BY <1>1, NewBufferTypes DEF Init, BufTypes
  <1>8. WorkerTypes /\ CopiesWithin /\ Unstarted
    <2>1. Idle \in WorkerRec /\ Idle.st = "idle" /\ Idle.n = 0 /\ Idle.k = 0 /\ Idle.ch.size = 0
      BY <1>1, IdleType DEF Idle
    <2>2. worker = [w \in Workers |-> Idle] /\ chunkCh = <<>>
      BY DEF Init
    <2> QED BY <2>1, <2>2 DEF WorkerTypes, CopiesWithin, Unstarted
  <1>9. ReaderTypes /\ Stage
    <2>1. reader = [st |-> "new", pos |-> 0, curBuf |-> 0, k |-> 0, closes |-> 0] /\ hc = 0 /\ nextChunk = 0
      BY DEF Init
    <2>2. ReaderTypes
      BY <1>2, <2>1 DEF ReaderTypes, ReaderRec, ReaderStates, Early, Single, Reading, Between
    <2>3. Stage
      BY <2>1 DEF Stage, Early, Single, Reading, Between, Ending
    <2> QED BY <2>2, <2>3
  <1>10. Started = {} /\ Running = {}
    <2>1. \A w \in Workers : worker[w].st = "idle"
      BY DEF Init, Idle
    <2> QED BY <2>1 DEF Started, Running
  <1>11. Spawned /\ SlotsBalanced
    <2>1. Cardinality({}) = 0
      BY FS_EmptySet
    <2> QED BY <1>1, <1>2, <1>10, <2>1 DEF Init, Spawned, SlotsBalanced
  <1> QED BY <1>1, <1>4, <1>5, <1>6, <1>7, <1>8, <1>9, <1>11 DEF SlotInv, Shape

LEMMA NextSlots ==
  ASSUME SlotInv, [Next]_vars
  PROVE  SlotInv'
  <1>1. CASE UNCHANGED vars
    <2>1. /\ UNCHANGED <<cfg, overloads, others, limit, ctxDone, bufMap, buf, reader, worker>>
          /\ UNCHANGED <<pos, maxPos, nextChunk, concurrency, chunkCh, hc>>
      BY <1>1 DEF vars, world, shared, counters
    <2>2. Calm /\ reader' = reader
      BY <2>1 DEF Calm
    <2>3. MapTypes' /\ BufTypes'
      BY <2>1, Fixed DEF SlotInv, Shape, MapTypes, BufTypes
    <2> QED BY <2>2, <2>3, CalmShape
  <1>2. CASE Start \/ CloseSingle
    BY <1>2, StartSlots, FirstSlots, ReadSlots DEF Start
  <1>3. CASE Read
    BY <1>3, ReadSlots, FinishSlots DEF Read
  <1>4. CASE Close \/ Interrupt \/ Others
    BY <1>4, ReadSlots, InterruptSlots, OthersSlots DEF Interrupt
  <1>5. ASSUME NEW w \in Workers, Work(w) PROVE SlotInv'
    BY <1>5, WorkerSlots, SucceedsSlots DEF Work
  <1> QED BY <1>1, <1>2, <1>3, <1>4, <1>5 DEF Next

\* Every slot of the shared ConcurrencyLimit is accounted for in every reachable
\* state: with the limit, with another download, with a worker that runs, or with a
\* download that has not started its first worker (request.go 135-293, 360-376,
\* 466-482).
THEOREM SlotsAddUp == Spec => []SlotsBalanced
  <1>1. Init => SlotInv
    BY InitSlots
  <1>2. SlotInv /\ [Next]_vars => SlotInv'
    BY NextSlots
  <1>3. SlotInv => SlotsBalanced
    BY DEF SlotInv
  <1> QED BY <1>1, <1>2, <1>3, PTL DEF Spec
=============================================================================
