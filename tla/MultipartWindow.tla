--------------------------- MODULE MultipartWindow ---------------------------
(***************************************************************************)
(* The receiving window of a multipart upload (internal/multipart/         *)
(* window.go): chunks sent by concurrent HTTP requests land in a ring file *)
(* of Slots slots and one reader, the storage driver, consumes them in     *)
(* order.  Every critical section of Window.mu is one action; the copy of  *)
(* a request body and the reader's ReadAt run outside the mutex and are    *)
(* actions of their own.  Threads parked in cond.Wait are "parked" and run *)
(* the head of their loop again after a Broadcast.                         *)
(***************************************************************************)
EXTENDS Integers, Sequences, FiniteSets, FiniteSetsExt

CONSTANTS
    ChunkSize, TotalSize, Slots,  \* parameters of NewWindow
    Writers,                      \* HTTP requests, each inside WriteChunk
    Closers,                      \* op.Put's closers, finishAttempt, the kill path
    Bodies,                       \* chunk payloads a request may carry
    CRC32,                        \* the checksum of each payload
    NoErr, Nil                    \* nil error / no payload

\* NewWindow refuses anything else (lines 83-85).
ASSUME WindowParams ==
    /\ ChunkSize \in Nat \ {0}
    /\ TotalSize \in Nat \ {0}
    /\ Slots \in Nat \ {0}

\* A checksum is a number; two payloads may share one.
ASSUME ChecksumAssumption == CRC32 \in [Bodies -> Nat]

ASSUME MarkerAssumption ==
    /\ Nil \notin Bodies
    /\ NoErr \notin {"closed", "aborted", "inflight", "outofwindow", "range", "body"}

VARIABLES
    slotState, slotChunk,  \* per slot: free / filling / ready, and whose chunk
    readPos,               \* bytes consumed
    crcs,                  \* per chunk: checksum, -1 while crcSet is false
    err,                   \* sticky error
    handle,                \* w.f # nil
    fdOpen, ringFile,      \* the descriptor is open, the file is on disk
    ring,                  \* what the bytes of a slot are: <<chunk, body>> or torn
    wpc, widx, wbody, wcopied, wres,  \* the requests inside WriteChunk
    late, timer,           \* requests past their deadline / with an armed timer
    rpc, rcur, rlen, rgot, \* the reader inside Read
    cpc,                   \* callers of CloseWithError
    stored, out            \* history: payload accepted per chunk, bytes delivered

window  == <<slotState, slotChunk, readPos, crcs, err, handle>>
disk    == <<fdOpen, ringFile, ring>>
request == <<widx, wbody, wcopied, wres>>
timing  == <<late, timer>>
reader  == <<rcur, rlen, rgot>>
history == <<stored, out>>
vars    == <<window, disk, wpc, request, timing, rpc, reader, cpc, history>>

-----------------------------------------------------------------------------
Total == (TotalSize + ChunkSize - 1) \div ChunkSize

Chunks == 0..(Total - 1)

SlotIds == 0..(Slots - 1)

SlotOf(idx) == idx % Slots

\* Mutant: the short last chunk is forgotten.
ChunkLenFull(idx) == ChunkSize

ChunkLen(idx) ==
    IF idx = Total - 1 THEN TotalSize - idx * ChunkSize ELSE ChunkSize

\* Mutant: a chunk counts as consumed as soon as it has been started.
FrontierAtCeil(pos) == (pos + ChunkSize - 1) \div ChunkSize

FrontierAt(pos) == IF pos >= TotalSize THEN Total ELSE pos \div ChunkSize

Frontier == FrontierAt(readPos)

\* A slot whose bytes are a mix, or the remains of an older chunk.
Torn == <<>>

\* Results of WriteChunk: the checksum of the stored chunk, or an error.
Pending == [idx |-> -1, crc |-> -1, err |-> NoErr]

OK(idx, crc) == [idx |-> idx, crc |-> crc, err |-> NoErr]

Failed(e) == [idx |-> -1, crc |-> -1, err |-> e]

\* Mutant: Signal in place of Broadcast.
WokenWritersSignal ==
    [w \in Writers |->
        IF wpc[w] = "parked" /\ w = CHOOSE v \in Writers : wpc[v] = "parked"
        THEN "loop" ELSE wpc[w]]

\* cond.Broadcast: every parked thread runs its loop again.
WokenWriters == [w \in Writers |-> IF wpc[w] = "parked" THEN "loop" ELSE wpc[w]]

WokenReader == IF rpc = "parked" THEN "loop" ELSE rpc

NewWindow ==
    /\ slotState = [s \in SlotIds |-> "free"]
    /\ slotChunk = [s \in SlotIds |-> -1]
    /\ readPos = 0
    /\ crcs = [c \in Chunks |-> -1]
    /\ err = NoErr
    /\ handle = TRUE
    /\ fdOpen = TRUE /\ ringFile = TRUE
    /\ ring = [s \in SlotIds |-> Torn]

Init ==
    /\ NewWindow
    /\ wpc = [w \in Writers |-> "idle"]
    /\ widx = [w \in Writers |-> 0]
    /\ wbody = [w \in Writers |-> Nil]
    /\ wcopied = [w \in Writers |-> FALSE]
    /\ wres = [w \in Writers |-> Pending]
    /\ late = {} /\ timer = {}
    /\ rpc = "idle" /\ rcur = 0 /\ rlen = 0 /\ rgot = 0
    /\ cpc = [c \in Closers |-> "idle"]
    /\ stored = [c \in Chunks |-> Nil]
    /\ out = <<>>

-----------------------------------------------------------------------------
(***************************************************************************)
(* WriteChunk.  A request arrives with a chunk index, which may be out of  *)
(* range, and a body.                                                      *)
(***************************************************************************)
Request(w, idx, body) ==
    /\ wpc[w] = "idle"
    /\ wpc' = [wpc EXCEPT ![w] = "loop"]
    /\ widx' = [widx EXCEPT ![w] = idx]
    /\ wbody' = [wbody EXCEPT ![w] = body]
    /\ wres' = [wres EXCEPT ![w] = Pending]
    /\ UNCHANGED <<window, disk, wcopied, timing, rpc, reader, cpc, history>>

\* Every return of WriteChunk: the result, and stopTimer.
Return(w, res) ==
    /\ wpc' = [wpc EXCEPT ![w] = "idle"]
    /\ wres' = [wres EXCEPT ![w] = res]
    /\ widx' = [widx EXCEPT ![w] = 0]
    /\ wbody' = [wbody EXCEPT ![w] = Nil]
    /\ late' = late \ {w}
    /\ timer' = timer \ {w}
    /\ UNCHANGED wcopied

\* The body of the chunk was consumed entirely by the reader.
Consumed(idx) == idx * ChunkSize + ChunkLen(idx) <= readPos

Holds(s, st, idx) == slotState[s] = st /\ slotChunk[s] = idx

Admissible(idx) == slotState[SlotOf(idx)] = "free" /\ idx < Frontier + Slots

\* A pass of the admission loop that ends in a return.
ReturnEarly(w) ==
    LET idx == widx[w] IN
    /\ wpc[w] = "loop"
    /\ \/ /\ err # NoErr
          /\ Return(w, Failed(err))
       \/ /\ err = NoErr
          /\ idx \notin Chunks
          /\ Return(w, Failed("range"))
       \/ /\ err = NoErr
          /\ idx \in Chunks
          /\ Consumed(idx) \/ Holds(SlotOf(idx), "ready", idx)
          /\ Return(w, OK(idx, crcs[idx]))
       \/ /\ err = NoErr
          /\ idx \in Chunks
          /\ ~ Consumed(idx)
          /\ Holds(SlotOf(idx), "filling", idx)
          /\ Return(w, Failed("inflight"))
    /\ UNCHANGED <<window, disk, rpc, reader, cpc, history>>

\* The loop goes on to the admission test.
Undecided(w) ==
    LET idx == widx[w] IN
    /\ wpc[w] = "loop"
    /\ err = NoErr
    /\ idx \in Chunks
    /\ ~ Consumed(idx)
    /\ slotChunk[SlotOf(idx)] # idx

\* Lines 203-207: the request takes the slot; from here on the bytes of the
\* slot are being overwritten.
Admit(w) ==
    LET s == SlotOf(widx[w]) IN
    /\ Undecided(w)
    /\ Admissible(widx[w])
    /\ slotState' = [slotState EXCEPT ![s] = "filling"]
    /\ slotChunk' = [slotChunk EXCEPT ![s] = widx[w]]
    /\ ring' = [ring EXCEPT ![s] = Torn]
    /\ wpc' = [wpc EXCEPT ![w] = "copy"]
    /\ late' = late \ {w}
    /\ timer' = timer \ {w}
    /\ UNCHANGED <<readPos, crcs, err, handle, fdOpen, ringFile, request,
                   rpc, reader, cpc, history>>

\* Mutant: no timer to end the wait.
ParkNoTimer(w) ==
    /\ Undecided(w)
    /\ ~ Admissible(widx[w])
    /\ w \notin late
    /\ wpc' = [wpc EXCEPT ![w] = "parked"]
    /\ UNCHANGED <<window, disk, request, late, timer, rpc, reader, cpc, history>>

Park(w) ==
    /\ Undecided(w)
    /\ ~ Admissible(widx[w])
    /\ w \notin late
    /\ wpc' = [wpc EXCEPT ![w] = "parked"]
    /\ timer' = timer \cup {w}
    /\ UNCHANGED <<window, disk, request, late, rpc, reader, cpc, history>>

GiveUp(w) ==
    /\ Undecided(w)
    /\ ~ Admissible(widx[w])
    /\ w \in late
    /\ Return(w, Failed("outofwindow"))
    /\ UNCHANGED <<window, disk, rpc, reader, cpc, history>>

\* WindowWaitTimeout elapses for this request.
Deadline(w) ==
    /\ wpc[w] \in {"loop", "parked"}
    /\ w \notin late
    /\ late' = late \cup {w}
    /\ UNCHANGED <<window, disk, wpc, request, timer, rpc, reader, cpc, history>>

\* The AfterFunc set when the request parked.
TimerFires(w) ==
    /\ w \in timer \cap late
    /\ timer' = timer \ {w}
    /\ wpc' = WokenWriters
    /\ rpc' = WokenReader
    /\ UNCHANGED <<window, disk, request, late, reader, cpc, history>>

\* The body is copied into the ring outside the mutex: it may be short or too
\* long, and it fails once the descriptor is closed.
CopyBody(w) ==
    /\ wpc[w] = "copy"
    /\ wpc' = [wpc EXCEPT ![w] = "copied"]
    /\ \E ok \in {b \in BOOLEAN : b => fdOpen} :
        /\ wcopied' = [wcopied EXCEPT ![w] = ok]
        /\ ring' = [ring EXCEPT ![SlotOf(widx[w])] =
                      IF ok THEN <<widx[w], wbody[w]>> ELSE @]
    /\ UNCHANGED <<window, fdOpen, ringFile, widx, wbody, wres, timing,
                   rpc, reader, cpc, history>>

\* Mutant: a short body counts as a chunk.
CopyErrorIgnored(w) == err # NoErr

CopyError(w) == ~ wcopied[w] \/ err # NoErr

\* Lines 221-243.
FinishChunk(w) ==
    LET idx == widx[w]
        s   == SlotOf(idx)
        crc == CRC32[wbody[w]]
    IN
    /\ wpc[w] = "copied"
    /\ late' = late /\ timer' = timer
    /\ widx' = [widx EXCEPT ![w] = 0]
    /\ wbody' = [wbody EXCEPT ![w] = Nil]
    /\ wcopied' = [wcopied EXCEPT ![w] = FALSE]
    /\ \/ /\ ~ Holds(s, "filling", idx)     \* Close reset the slot meanwhile
          /\ wres' = [wres EXCEPT ![w] = Failed(IF err # NoErr THEN err ELSE "closed")]
          /\ wpc' = [wpc EXCEPT ![w] = "idle"]
          /\ UNCHANGED <<window, rpc, stored>>
       \/ /\ Holds(s, "filling", idx)
          /\ CopyError(w)
          /\ slotState' = [slotState EXCEPT ![s] = "free"]
          /\ slotChunk' = [slotChunk EXCEPT ![s] = -1]
          /\ wres' = [wres EXCEPT ![w] = Failed(IF wcopied[w] THEN err ELSE "body")]
          /\ wpc' = [wpc EXCEPT ![w] = "idle"]
          /\ UNCHANGED <<readPos, crcs, err, handle, rpc, stored>>
       \/ /\ Holds(s, "filling", idx)
          /\ ~ CopyError(w)
          /\ slotState' = [slotState EXCEPT ![s] = "ready"]
          /\ crcs' = [crcs EXCEPT ![idx] = crc]
          /\ stored' = [stored EXCEPT ![idx] = wbody[w]]
          /\ wres' = [wres EXCEPT ![w] = OK(idx, crc)]
          /\ wpc' = [WokenWriters EXCEPT ![w] = "idle"]
          /\ rpc' = WokenReader
          /\ UNCHANGED <<slotChunk, readPos, err, handle>>
    /\ UNCHANGED <<disk, reader, cpc, out>>

-----------------------------------------------------------------------------
(***************************************************************************)
(* Read, called by a single goroutine.                                     *)
(***************************************************************************)
Read(n) ==
    /\ rpc = "idle"
    /\ rpc' = "loop"
    /\ rlen' = n
    /\ UNCHANGED <<window, disk, wpc, request, timing, rcur, rgot, cpc, history>>

\* The sticky error, or io.EOF.
ReadFails ==
    /\ rpc = "loop"
    /\ err # NoErr \/ readPos >= TotalSize
    /\ rpc' = "idle"
    /\ rlen' = 0
    /\ UNCHANGED <<window, disk, wpc, request, timing, rcur, rgot, cpc, history>>

Cur == readPos \div ChunkSize

Readable == Holds(SlotOf(Cur), "ready", Cur)

\* Mutant: the slot is released before its bytes are read.
ReadStartsReleasing ==
    /\ rpc = "loop"
    /\ err = NoErr /\ readPos < TotalSize
    /\ Readable
    /\ rpc' = "reading"
    /\ rcur' = Cur
    /\ rlen' = 1
    /\ slotState' = [slotState EXCEPT ![SlotOf(Cur)] = "free"]
    /\ slotChunk' = [slotChunk EXCEPT ![SlotOf(Cur)] = -1]
    /\ UNCHANGED <<readPos, crcs, err, handle, disk, wpc, request, timing, rgot, cpc, history>>

ReadStarts ==
    LET avail == Cur * ChunkSize + ChunkLen(Cur) - readPos IN
    /\ rpc = "loop"
    /\ err = NoErr /\ readPos < TotalSize
    /\ Readable
    /\ rpc' = "reading"
    /\ rcur' = Cur
    /\ rlen' = IF rlen > avail THEN avail ELSE rlen
    /\ UNCHANGED <<window, disk, wpc, request, timing, rgot, cpc, history>>

ReadParks ==
    /\ rpc = "loop"
    /\ err = NoErr /\ readPos < TotalSize
    /\ ~ Readable
    /\ rpc' = "parked"
    /\ UNCHANGED <<window, disk, wpc, request, timing, reader, cpc, history>>

\* f.ReadAt outside the mutex: short or empty on an I/O error, empty once the
\* descriptor is closed.
ReadAt ==
    /\ rpc = "reading"
    /\ rpc' = "read"
    /\ rgot' \in IF fdOpen THEN 0..rlen ELSE {0}
    /\ out' = out \o [i \in 1..rgot' |->
                        <<ring[SlotOf(rcur)], readPos - rcur * ChunkSize + i - 1>>]
    /\ UNCHANGED <<window, disk, wpc, request, timing, rcur, rlen, cpc, stored>>

\* Mutant: off by one, the slot is freed with a byte left in it.
CrossesEndEarly == rgot > 0 /\ readPos + rgot + 1 >= rcur * ChunkSize + ChunkLen(rcur)

CrossesEnd == rgot > 0 /\ readPos + rgot >= rcur * ChunkSize + ChunkLen(rcur)

\* Lines 276-296: the position advances even when the window was closed
\* meanwhile; crossing the end of the chunk frees its slot.
ReadFinishes ==
    LET s == SlotOf(rcur) IN
    /\ rpc = "read"
    /\ rpc' = "idle"
    /\ readPos' = readPos + rgot
    /\ slotState' = IF CrossesEnd THEN [slotState EXCEPT ![s] = "free"] ELSE slotState
    /\ slotChunk' = IF CrossesEnd THEN [slotChunk EXCEPT ![s] = -1] ELSE slotChunk
    /\ wpc' = IF CrossesEnd THEN WokenWriters ELSE wpc
    /\ rcur' = 0 /\ rlen' = 0 /\ rgot' = 0
    /\ UNCHANGED <<crcs, err, handle, disk, request, timing, cpc, history>>

-----------------------------------------------------------------------------
(***************************************************************************)
(* CloseWithError: the critical section, then the removal of the file by   *)
(* the one caller that found the descriptor.                               *)
(***************************************************************************)
Sticky(e) == IF err = NoErr THEN e ELSE err

\* Mutant: the nil check is dropped.
TakesFileAlways == TRUE

TakesFile == handle

CloseWithError(c, e) ==
    /\ cpc[c] = "idle"
    /\ err' = Sticky(e)
    /\ handle' = FALSE
    /\ slotState' = [s \in SlotIds |-> "free"]
    /\ slotChunk' = [s \in SlotIds |-> -1]
    /\ wpc' = WokenWriters
    /\ rpc' = WokenReader
    /\ cpc' = [cpc EXCEPT ![c] = IF TakesFile THEN "removing" ELSE "idle"]
    /\ UNCHANGED <<readPos, crcs, disk, request, timing, reader, history>>

RemoveRing(c) ==
    /\ cpc[c] = "removing"
    /\ cpc' = [cpc EXCEPT ![c] = "idle"]
    /\ fdOpen' = FALSE
    /\ ringFile' = FALSE
    /\ UNCHANGED <<window, ring, wpc, request, timing, rpc, reader, history>>

-----------------------------------------------------------------------------
WriterPass(w) == ReturnEarly(w) \/ Admit(w) \/ Park(w) \/ GiveUp(w)

WriterStep(w) == WriterPass(w) \/ CopyBody(w) \/ FinishChunk(w)

ReaderStep == ReadFails \/ ReadStarts \/ ReadParks \/ ReadAt \/ ReadFinishes

Next ==
    \/ \E w \in Writers, idx \in -1..Total, body \in Bodies : Request(w, idx, body)
    \/ \E w \in Writers : WriterStep(w) \/ Deadline(w) \/ TimerFires(w)
    \/ \E n \in 1..ChunkSize : Read(n)
    \/ ReaderStep
    \/ \E c \in Closers, e \in {"closed", "aborted"} : CloseWithError(c, e)
    \/ \E c \in Closers : RemoveRing(c)

Spec == Init /\ [][Next]_vars

\* The scheduler runs every goroutine that can run, a request body ends (the
\* client sends it or the connection fails), and time passes.  Nobody is forced
\* to send a request, to read, or to close the window.
Fairness ==
    /\ \A w \in Writers : WF_vars(WriterStep(w)) /\ WF_vars(Deadline(w))
                          /\ WF_vars(TimerFires(w))
    /\ WF_vars(ReaderStep)
    /\ \A c \in Closers : WF_vars(RemoveRing(c))

FairSpec == Spec /\ Fairness
-----------------------------------------------------------------------------
(***************************************************************************)
(* Snapshot (lines 337-364): the chunks reported as received, and their    *)
(* bytes.                                                                  *)
(***************************************************************************)
Buffered ==
    {c \in Chunks : Frontier <= c /\ c < Frontier + Slots /\ Holds(SlotOf(c), "ready", c)}

SnapshotReceived == 0..(Frontier - 1) \cup Buffered

SnapshotBytes ==
    readPos + MapThenSumSet(LAMBDA c : ChunkLen(c) -
                  (IF readPos > c * ChunkSize THEN readPos - c * ChunkSize ELSE 0),
                Buffered)

-----------------------------------------------------------------------------
Errors == {"closed", "aborted"}

TypeOK ==
    /\ slotState \in [SlotIds -> {"free", "filling", "ready"}]
    /\ slotChunk \in [SlotIds -> Chunks \cup {-1}]
    /\ readPos \in 0..TotalSize
    /\ crcs \in [Chunks -> Nat \cup {-1}]
    /\ err \in {NoErr} \cup Errors
    /\ handle \in BOOLEAN /\ fdOpen \in BOOLEAN /\ ringFile \in BOOLEAN
    /\ ring \in [SlotIds -> {Torn} \cup Chunks \X Bodies]
    /\ wpc \in [Writers -> {"idle", "loop", "parked", "copy", "copied"}]
    /\ widx \in [Writers -> -1..Total]
    /\ wbody \in [Writers -> Bodies \cup {Nil}]
    /\ wcopied \in [Writers -> BOOLEAN]
    /\ wres \in [Writers -> [idx : Chunks \cup {-1}, crc : Nat \cup {-1},
                              err : {NoErr} \cup Errors \cup
                                    {"inflight", "outofwindow", "range", "body"}]]
    /\ late \subseteq Writers /\ timer \subseteq Writers
    /\ rpc \in {"idle", "loop", "parked", "reading", "read"}
    /\ rcur \in Nat /\ rlen \in Nat /\ rgot \in Nat
    /\ cpc \in [Closers -> {"idle", "removing"}]
    /\ stored \in [Chunks -> Bodies \cup {Nil}]

Copying(w) == wpc[w] \in {"copy", "copied"}

\* While the window is open a slot in use belongs to a chunk that maps to it
\* and lies inside the receiving window, and a slot being filled belongs to a
\* request (lines 173-207): the ring never holds two chunks that share a slot.
SlotDiscipline ==
    \A s \in SlotIds :
        /\ slotState[s] = "free" <=> slotChunk[s] = -1
        /\ slotState[s] # "free" =>
             /\ SlotOf(slotChunk[s]) = s
             /\ Frontier <= slotChunk[s] /\ slotChunk[s] < Frontier + Slots
        /\ slotState[s] = "filling" =>
             \E w \in Writers : Copying(w) /\ widx[w] = slotChunk[s]

\* Body copies and ReadAt run outside the mutex (lines 209-219, 274): as long
\* as the window is open no two of them touch the same slot.
NoRace ==
    err = NoErr =>
        /\ \A w \in Writers : Copying(w) =>
              /\ Holds(SlotOf(widx[w]), "filling", widx[w])
              /\ \A v \in Writers \ {w} : Copying(v) => SlotOf(widx[v]) # SlotOf(widx[w])
              /\ rpc \in {"reading", "read"} => SlotOf(rcur) # SlotOf(widx[w])
        /\ rpc \in {"reading", "read"} => Holds(SlotOf(rcur), "ready", rcur)

\* The stream handed to the driver is the file: every byte comes from its own
\* chunk, at its own offset, of the payload whose request was answered with
\* success, whatever order the chunks arrived in, across a close too.
DeliveredInOrder ==
    /\ Len(out) = readPos + (IF rpc = "read" THEN rgot ELSE 0)
    /\ \A p \in 0..(Len(out) - 1) :
         LET c == p \div ChunkSize IN
         /\ stored[c] # Nil
         /\ out[p + 1] = <<<<c, stored[c]>>, p % ChunkSize>>

\* Snapshot reports exactly the chunks whose requests succeeded (lines 337-364).
SnapshotExact == err = NoErr => SnapshotReceived = {c \in Chunks : stored[c] # Nil}

\* A request answered with success carries the checksum of the payload that is
\* really stored, not of its own body (lines 166-179, 242).
AnswersExact ==
    \A w \in Writers :
        LET idx == wres[w].idx IN
        idx # -1 => stored[idx] # Nil /\ wres[w].crc = CRC32[stored[idx]]

\* What the window tells its clients is true: the chunks, the checksums, and the
\* bytes of the chunks it reports.  A client that resends the other chunks misses
\* nothing, and Complete's comparison of ReceivedBytes with the file size means
\* "everything arrived".
ReportsExact ==
    /\ SnapshotExact
    /\ AnswersExact
    /\ err = NoErr => SnapshotBytes = MapThenSumSet(ChunkLen, SnapshotReceived)

\* No wakeup is lost: whoever sleeps in cond.Wait has nothing to do, and a
\* sleeper past its deadline still has its timer.  A failed body frees its slot
\* without a Broadcast (lines 233-237); nobody who sleeps could have used it.
NoLostWakeup ==
    /\ \A w \in Writers : wpc[w] = "parked" =>
         /\ err = NoErr
         /\ ~ Consumed(widx[w])
         /\ slotChunk[SlotOf(widx[w])] # widx[w]
         /\ ~ Admissible(widx[w])
         /\ w \in timer
    /\ rpc = "parked" => err = NoErr /\ readPos < TotalSize /\ ~ Readable

\* The ring file outlives the descriptor only until the one caller that took
\* it is done, however many callers close the window (lines 313-334).
RingReleasedOnce ==
    /\ handle <=> err = NoErr
    /\ handle => fdOpen
    /\ ringFile = fdOpen
    /\ ringFile /\ ~ handle <=> \E c \in Closers : cpc[c] = "removing"
    /\ \A c, d \in Closers : cpc[c] = "removing" /\ cpc[d] = "removing" => c = d

-----------------------------------------------------------------------------
(***************************************************************************)
(* What the local variables of the goroutines satisfy; with it the slot    *)
(* invariants above are inductive.                                         *)
(***************************************************************************)
ChunkEnd(idx) == idx * ChunkSize + ChunkLen(idx)

RequestLocals ==
    \A w \in Writers :
        /\ wpc[w] # "idle" => wbody[w] \in Bodies
        /\ wpc[w] = "parked" \/ Copying(w) => widx[w] \in Chunks

ReaderLocals ==
    /\ rpc # "read" => rgot = 0
    /\ rpc \in {"reading", "read"} =>
         /\ readPos < TotalSize
         /\ rcur = Cur
         /\ rgot \in 0..rlen
         /\ readPos + rlen <= ChunkEnd(rcur)

ClosedIsEmpty ==
    err # NoErr => \A s \in SlotIds : slotState[s] = "free" /\ slotChunk[s] = -1

WindowInv ==
    TypeOK /\ RequestLocals /\ ReaderLocals /\ ClosedIsEmpty /\ SlotDiscipline /\ NoRace

-----------------------------------------------------------------------------
\* Every call returns.  A request inside WriteChunk is admitted, answered from the
\* table, or leaves at its deadline, however the others behave; a driver inside
\* Read never sleeps over a buffered chunk or a closed window; and a window that
\* was closed loses its ring file.
CallsReturn ==
    /\ \A w \in Writers : wpc[w] # "idle" ~> wpc[w] = "idle"
    /\ (rpc # "idle" /\ (Readable \/ err # NoErr)) ~> rpc = "idle"
    /\ err # NoErr ~> ~ ringFile
-----------------------------------------------------------------------------
Stream == INSTANCE UploadStream WITH
    Size <- TotalSize, Piece <- ChunkSize, Window <- Slots,
    Payloads <- Bodies, NoPayload <- Nil,
    accepted <- stored, delivered <- out, open <- (err = NoErr)

\* The window is an ordered stream of chunks accepted once each: ring, slots,
\* parking and unlocked I/O are invisible to the driver and to the clients.
ImplementsStream == Stream!Spec
=============================================================================
