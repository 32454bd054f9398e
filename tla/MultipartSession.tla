-------------------------- MODULE MultipartSession --------------------------
(***************************************************************************)
(* Multipart upload sessions (internal/multipart/session.go): concurrent   *)
(* HTTP requests of the clients, the garbage collector and one pipeline    *)
(* goroutine per attempt share the Manager's maps and the Sessions.  Every *)
(* critical section of Manager.mu and of Session.mu is one action.         *)
(*                                                                         *)
(* A session keeps the window of its latest attempt.  The window is the    *)
(* UploadStream that MultipartWindow implements: a chunk is accepted once, *)
(* at most Slots ahead of the reader, until the window is closed.          *)
(***************************************************************************)
EXTENDS Integers, FiniteSets

CONSTANTS
    Threads,      \* HTTP handlers, each serving one request after another
    GC,           \* the goroutine behind the ticker
    Ids,          \* upload ids, never reused; bounds the sessions created
    Users, Paths, \* a session's key is its user, path and size
    Files,        \* what clients upload, all of one size
    Hashes,       \* what Init requests declare: a file's hash, or Nil
    Content,      \* Content[f][i]: the checksum (and content) of chunk i of f
    Chunks,       \* 0..Total-1
    Indices,      \* bound on the X-Chunk-Index headers clients send, any int
    Slots,        \* WindowSlots
    MaxAttempts,  \* bound on the pipeline attempts of a session
    Serves,       \* bound on what each thread is asked: Serves[t] \subseteq Operations
    Expirable,    \* bound on the sessions whose TTL may elapse
    Nil

Operations == {"init", "chunk", "complete", "status", "abort"}

ASSUME SessionParams ==
    /\ IsFiniteSet(Chunks) /\ Chunks = 0..(Cardinality(Chunks) - 1) /\ Chunks # {}
    /\ Chunks \subseteq Indices /\ Indices \subseteq Int
    /\ Slots \in Nat \ {0}
    /\ MaxAttempts \in Nat \ {0}
    /\ Hashes \subseteq Files \cup {Nil}
    /\ Content \in [Files -> [Chunks -> Nat]]
    /\ Serves \in [Threads -> SUBSET Operations]
    /\ Expirable \subseteq Ids
    /\ GC \notin Threads
    /\ Nil \notin Ids \cup Files

VARIABLES
    byID, byKey,  \* Manager
    ses,          \* per id: the Session's fields
    win,          \* per id: the window of its latest attempt
    pipe,         \* per id: the goroutine of its latest attempt
    undone,       \* attempts whose verdict is recorded, done not closed yet
    aged,         \* sessions whose lastActive is older than the TTL
    pc, req, loc, \* per thread: where it is, its request, its local variables
    expired,      \* the collector's list
    object,       \* per path: what the storage holds
    locked        \* sessions whose mutex will never be released

vars == <<byID, byKey, ses, win, pipe, undone, aged, pc, req, loc, expired, object, locked>>

Total == Cardinality(Chunks)

Keys == Users \X Paths

NoTable == [i \in Chunks |-> Nil]

Closed(id) == win[id].sticky # "none"

\* A request without locals of its own yet.
NoLocals == [id |-> Nil, attempt |-> 0, prev |-> Nil, waits |-> 0, gone |-> FALSE]

NoRequest == [op |-> "none", user |-> Nil, path |-> Nil, idx |-> 0, file |-> Nil, hash |-> Nil]

Init ==
    /\ byID = {}
    /\ byKey = [k \in Keys |-> Nil]
    /\ ses = [id \in Ids |-> [state |-> "none", attempt |-> 0, win |-> FALSE,
                              prev |-> NoTable, key |-> Nil, hash |-> Nil]]
    /\ win = [id \in Ids |-> [got |-> NoTable, pos |-> 0, sticky |-> "none"]]
    /\ pipe = [id \in Ids |-> [at |-> "none", attempt |-> 0, verdict |-> "none",
                               table |-> NoTable]]
    /\ undone = {}
    /\ aged = {}
    /\ pc = [t \in Threads \cup {GC} |-> "idle"]
    /\ req = [t \in Threads \cup {GC} |-> NoRequest]
    /\ loc = [t \in Threads \cup {GC} |-> NoLocals]
    /\ expired = {}
    /\ object = [p \in Paths |-> Nil]
    /\ locked = {}

-----------------------------------------------------------------------------
\* The handler returns.
Answer(t) ==
    /\ pc' = [pc EXCEPT ![t] = "idle"]
    /\ req' = [req EXCEPT ![t] = NoRequest]
    /\ loc' = [loc EXCEPT ![t] = NoLocals]

Goto(t, label) == pc' = [pc EXCEPT ![t] = label]

\* startAttemptLocked: a fresh window, a fresh done channel, the goroutine.
StartAttempt(id, s) ==
    /\ ses' = [ses EXCEPT ![id] = [s EXCEPT !.state = "receiving", !.win = TRUE]]
    /\ win' = [win EXCEPT ![id] = [got |-> NoTable, pos |-> 0, sticky |-> "none"]]
    /\ pipe' = [pipe EXCEPT ![id] = [at |-> "put", attempt |-> s.attempt,
                                     verdict |-> "none", table |-> NoTable]]

\* Mutant: only the context is cancelled.
KilledWinOpen(id) == win

\* killAttemptLocked: cancels the context and closes the window, if any.
KilledWin(id) ==
    IF ses[id].win /\ ~ Closed(id)
    THEN [win EXCEPT ![id].sticky = "aborted"] ELSE win

\* No Init waits, inside the manager's critical section, for the mutex of a
\* session that will never be released (line 314).
ManagerFree == \A t \in Threads : pc[t] # "stuck"

\* Manager.get; a request that fails it returns at once and changes nothing.
Get(user, id) == ManagerFree /\ id \in byID /\ ses[id].key[1] = user

\* The sessions created so far.
Known == {id \in Ids : ses[id].state # "none"}

\* The handler of a new request, at the first step that can interleave.
Begin(t, r, id, label) ==
    /\ pc[t] = "idle"
    /\ pc' = [pc EXCEPT ![t] = label]
    /\ req' = [req EXCEPT ![t] = r]
    /\ loc' = [loc EXCEPT ![t] = [NoLocals EXCEPT !.id = id]]

-----------------------------------------------------------------------------
(***************************************************************************)
(* Manager.Init                                                            *)
(***************************************************************************)
\* Two files resume one session only if both clients sent the same hash.
HashesQualifyResume(id, hash) == ses[id].hash # Nil /\ hash = ses[id].hash

Resumes(id, hash) ==
    \/ ses[id].state = "failed_retriable"
    \/ ses[id].state = "receiving" /\ HashesQualifyResume(id, hash)

InitRequest(t, user, path, hash) ==
    LET id == byKey[<<user, path>>]
        r  == [NoRequest EXCEPT !.op = "init", !.user = user, !.path = path, !.hash = hash] IN
    /\ pc[t] = "idle"
    /\ ManagerFree
    /\ \/ /\ id = Nil
          /\ Begin(t, r, Nil, "create")
          /\ UNCHANGED aged
       \/ /\ id \in locked
          /\ Begin(t, r, id, "stuck")
          /\ UNCHANGED aged
       \/ /\ id \notin locked \cup {Nil}
          /\ Resumes(id, hash)
          /\ aged' = aged \ {id}
          /\ UNCHANGED <<pc, req, loc>>
       \/ /\ id \notin locked \cup {Nil}
          /\ ~ Resumes(id, hash)
          /\ Begin(t, r, id, "terminate")
          /\ UNCHANGED aged
    /\ UNCHANGED <<byID, byKey, ses, win, pipe, undone, expired, object, locked>>

\* Lines 336-359; with every id in use, or no room on the disk, Init fails.
Create(t) ==
    LET r == req[t] IN
    /\ pc[t] = "create"
    /\ \/ \E id \in Ids :
            /\ ses[id].state = "none"
            /\ StartAttempt(id, [ses[id] EXCEPT !.key = <<r.user, r.path>>, !.hash = r.hash])
            /\ loc' = [loc EXCEPT ![t].id = id]
            /\ Goto(t, "insert")
            /\ UNCHANGED req
       \/ /\ Answer(t)
          /\ UNCHANGED <<ses, win, pipe>>
    /\ UNCHANGED <<byID, byKey, undone, aged, expired, object, locked>>

\* Lines 361-365.
Insert(t) ==
    LET id == loc[t].id IN
    /\ pc[t] = "insert"
    /\ ManagerFree
    /\ byID' = byID \cup {id}
    /\ byKey' = [byKey EXCEPT ![ses[id].key] = id]
    /\ Answer(t)
    /\ UNCHANGED <<ses, win, pipe, undone, aged, expired, object, locked>>

-----------------------------------------------------------------------------
(***************************************************************************)
(* terminate, of Abort, of Init and of the collector: the session's        *)
(* section, then the maps' section.                                        *)
(***************************************************************************)
\* Mutant: every session terminated is aborted.
TerminateAlways(t) ==
    LET id == loc[t].id IN
    /\ pc[t] = "terminate"
    /\ id \notin locked
    /\ ses' = [ses EXCEPT ![id].state = "aborted"]
    /\ win' = KilledWin(id)
    /\ Goto(t, "remove")
    /\ UNCHANGED <<byID, byKey, pipe, undone, aged, req, loc, expired, object, locked>>

Terminate(t) ==
    LET id == loc[t].id IN
    /\ pc[t] = "terminate"
    /\ id \notin locked
    /\ ses' = IF ses[id].state = "receiving" THEN [ses EXCEPT ![id].state = "aborted"] ELSE ses
    /\ win' = KilledWin(id)
    /\ Goto(t, "remove")
    /\ UNCHANGED <<byID, byKey, pipe, undone, aged, req, loc, expired, object, locked>>

\* Mutant: the key is left behind.
RemovedKeepsKey(id) == byID' = byID \ {id} /\ UNCHANGED byKey

Removed(id) ==
    /\ byID' = byID \ {id}
    /\ byKey' = IF byKey[ses[id].key] = id THEN [byKey EXCEPT ![ses[id].key] = Nil] ELSE byKey

Remove(t) ==
    LET id == loc[t].id IN
    /\ pc[t] = "remove"
    /\ ManagerFree
    /\ Removed(id)
    /\ \/ req[t].op = "init" /\ Goto(t, "create") /\ UNCHANGED <<req, loc, expired>>
       \/ req[t].op \in {"abort", "complete"} /\ Answer(t) /\ UNCHANGED expired
       \/ /\ t = GC
          /\ Goto(t, "sweep")
          /\ expired' = expired \ {id}
          /\ UNCHANGED <<req, loc>>
    /\ UNCHANGED <<ses, win, pipe, undone, aged, object, locked>>

AbortRequest(t, user, id) ==
    /\ Get(user, id)
    /\ Begin(t, [NoRequest EXCEPT !.op = "abort", !.user = user], id, "terminate")
    /\ UNCHANGED <<byID, byKey, ses, win, pipe, undone, aged, expired, object, locked>>

\* gc: the expired sessions are collected under the Manager's lock and
\* terminated one by one after it is released.
Collect ==
    /\ pc[GC] = "idle"
    /\ ManagerFree
    /\ expired' = byID \cap aged
    /\ expired' # {}
    /\ Goto(GC, "sweep")
    /\ UNCHANGED <<byID, byKey, ses, win, pipe, undone, aged, req, loc, object, locked>>

Sweep ==
    /\ pc[GC] = "sweep"
    /\ \/ \E id \in expired :
            /\ loc' = [loc EXCEPT ![GC].id = id]
            /\ Goto(GC, "terminate")
       \/ /\ expired = {}
          /\ Goto(GC, "idle")
          /\ loc' = [loc EXCEPT ![GC] = NoLocals]
    /\ UNCHANGED <<byID, byKey, ses, win, pipe, undone, aged, req, expired, object, locked>>

\* The TTL passes without a touch.
Age(id) ==
    /\ id \in (Known \cap Expirable) \ aged
    /\ aged' = aged \cup {id}
    /\ UNCHANGED <<byID, byKey, ses, win, pipe, undone, pc, req, loc, expired, object, locked>>

\* Status, and Find once it has resolved the key.
StatusRequest(t, user, id) ==
    /\ pc[t] = "idle"
    /\ Get(user, id)
    /\ aged' = aged \ {id}
    /\ IF id \in locked
       THEN Begin(t, [NoRequest EXCEPT !.op = "status", !.user = user], id, "settle")
       ELSE UNCHANGED <<pc, req, loc>>
    /\ UNCHANGED <<byID, byKey, ses, win, pipe, undone, expired, object, locked>>

-----------------------------------------------------------------------------
(***************************************************************************)
(* The pipeline goroutine: the driver (external) reads the window and      *)
(* returns a verdict; finishAttempt records it; done is closed.            *)
(***************************************************************************)
\* The driver reads the next chunk.
Consume(id) ==
    /\ pipe[id].at = "put"
    /\ ~ Closed(id)
    /\ win[id].pos < Total
    /\ win[id].got[win[id].pos] # Nil
    /\ win' = [win EXCEPT ![id].pos = @ + 1]
    /\ UNCHANGED <<byID, byKey, ses, pipe, undone, aged, pc, req, loc, expired, object, locked>>

Verdict(id, v, closes) ==
    /\ pipe' = [pipe EXCEPT ![id].at = "returned", ![id].verdict = v]
    /\ win' = IF closes /\ ~ Closed(id) THEN [win EXCEPT ![id].sticky = "closed"] ELSE win
    /\ UNCHANGED <<byID, byKey, ses, undone, aged, pc, req, loc, expired, locked>>

\* The upload succeeds: the whole stream was read, or the storage knew the
\* hash (rapid upload).  op.Put closes the window before it returns.
PutSucceeds(id) ==
    LET path == ses[id].key[2] IN
    /\ pipe[id].at = "put"
    /\ \/ /\ win[id].pos = Total
          /\ object' = [object EXCEPT ![path] = win[id].got]
       \/ /\ ses[id].hash # Nil
          /\ object' = [object EXCEPT ![path] = Content[ses[id].hash]]
    /\ Verdict(id, "ok", TRUE)

\* The upload fails, for good or not; an error found before op.Put leaves the
\* window open.
PutFails(id, v, closes) ==
    /\ pipe[id].at = "put"
    /\ Verdict(id, v, closes)
    /\ UNCHANGED object

\* finishAttempt, line 410.
Harvest(id) ==
    /\ pipe[id].at = "returned"
    /\ pipe' = [pipe EXCEPT ![id].at = "harvested", ![id].table = win[id].got]
    /\ UNCHANGED <<byID, byKey, ses, win, undone, aged, pc, req, loc, expired, object, locked>>

\* Mutant: a verdict counts whatever the session became meanwhile.
StateAfterAlways(state, v) ==
    CASE v = "ok" -> "completed"
      [] v = "permanent" -> "failed_permanent"
      [] v = "retriable" -> "failed_retriable"

\* The state after a verdict, lines 420-437.
StateAfter(state, v) ==
    CASE v = "ok" -> "completed"
      [] v # "ok" /\ state # "receiving" -> state
      [] v = "permanent" /\ state = "receiving" -> "failed_permanent"
      [] v = "retriable" /\ state = "receiving" -> "failed_retriable"

\* Mutant: the failed attempt is not counted.
AttemptUncounted(a, st) == a

AttemptAfter(a, st) == IF st = "failed_retriable" THEN a + 1 ELSE a

\* finishAttempt, lines 411-437.
FinishAttempt(id) ==
    LET st == StateAfter(ses[id].state, pipe[id].verdict) IN
    /\ pipe[id].at = "harvested"
    /\ id \notin locked
    /\ pipe' = [pipe EXCEPT ![id].at = "recorded"]
    /\ win' = IF Closed(id) THEN win ELSE [win EXCEPT ![id].sticky = "closed"]
    /\ ses' = [ses EXCEPT ![id].state = st,
                          ![id].win = FALSE,
                          ![id].prev = pipe[id].table,
                          ![id].attempt = AttemptAfter(@, st)]
    /\ undone' = undone \cup {<<id, pipe[id].attempt>>}
    /\ aged' = aged \ {id}
    /\ UNCHANGED <<byID, byKey, pc, req, loc, expired, object, locked>>

CloseDone(id, a) ==
    /\ <<id, a>> \in undone
    /\ undone' = undone \ {<<id, a>>}
    /\ UNCHANGED <<byID, byKey, ses, win, pipe, aged, pc, req, loc, expired, object, locked>>

\* <-done of attempt a is ready.
Done(id, a) ==
    /\ <<id, a>> \notin undone
    /\ pipe[id].attempt # a \/ pipe[id].at = "recorded"

-----------------------------------------------------------------------------
(***************************************************************************)
(* Manager.Chunk                                                           *)
(***************************************************************************)
ChunkRequest(t, user, id, idx, file) ==
    /\ Get(user, id)
    /\ aged' = aged \ {id}
    /\ Begin(t, [NoRequest EXCEPT !.op = "chunk", !.user = user, !.idx = idx, !.file = file],
             id, "chunk")
    /\ UNCHANGED <<byID, byKey, ses, win, pipe, undone, expired, object, locked>>

\* The request remembers the window and the checksum to compare with.
HoldWindow(t, a) ==
    LET idx == req[t].idx
        crc == IF idx \in Chunks THEN ses[loc[t].id].prev[idx] ELSE Nil IN
    /\ loc' = [loc EXCEPT ![t].attempt = a, ![t].prev = crc]
    /\ Goto(t, "write")
    /\ UNCHANGED req

\* Lines 468-497.
ChunkState(t) ==
    LET id == loc[t].id
        st == ses[id].state IN
    /\ pc[t] = "chunk"
    /\ id \notin locked
    /\ \/ /\ st = "receiving" /\ req[t].idx >= 0
          /\ HoldWindow(t, pipe[id].attempt)
          /\ UNCHANGED <<ses, win, pipe>>
       \/ /\ st = "failed_retriable" /\ req[t].idx = 0
          /\ ses[id].attempt < MaxAttempts
          /\ StartAttempt(id, ses[id])
          /\ HoldWindow(t, ses[id].attempt)
       \/ /\ st # "receiving"    \* absorbed, not chunk 0, dead, or NewWindow fails
          /\ Answer(t)
          /\ UNCHANGED <<ses, win, pipe>>
    /\ UNCHANGED <<byID, byKey, undone, aged, expired, object, locked>>

\* Line 494: a negative index is below len(s.prevSet), whatever that is, and out of
\* the slice's range.  net/http recovers the panic; nobody unlocks the session.
ChunkPanics(t) ==
    LET id == loc[t].id IN
    /\ pc[t] = "chunk"
    /\ id \notin locked
    /\ ses[id].state = "receiving" /\ req[t].idx < 0
    /\ locked' = locked \cup {id}
    /\ Answer(t)
    /\ UNCHANGED <<byID, byKey, ses, win, pipe, undone, aged, expired, object>>

WindowGone(t) == pipe[loc[t].id].attempt # loc[t].attempt \/ Closed(loc[t].id)

\* The checksum WriteChunk returned, against the previous attempt's; the answer
\* takes a snapshot under the session's mutex.
Compare(t, crc) ==
    \/ /\ loc[t].prev # Nil /\ crc # loc[t].prev
       /\ Goto(t, "mismatch") /\ UNCHANGED <<req, loc>>
    \/ /\ loc[t].prev = Nil \/ crc = loc[t].prev
       /\ IF loc[t].id \in locked THEN Goto(t, "settle") /\ UNCHANGED <<req, loc>> ELSE Answer(t)

\* Line 499, on the window the request holds.
WriteChunk(t) ==
    LET id   == loc[t].id
        idx  == req[t].idx
        body == Content[req[t].file][idx]
        got  == win[id].got[idx] IN
    /\ pc[t] = "write"
    /\ \/ /\ WindowGone(t)
          /\ Goto(t, "verdict")
          /\ loc' = [loc EXCEPT ![t].gone = TRUE]
          /\ UNCHANGED <<win, req>>
       \/ /\ ~ WindowGone(t)
          /\ idx \in Chunks /\ got # Nil
          /\ Compare(t, got)
          /\ UNCHANGED win
       \/ /\ ~ WindowGone(t)
          /\ idx \in Chunks /\ got = Nil
          /\ idx < win[id].pos + Slots
          /\ win' = [win EXCEPT ![id].got[idx] = body]
          /\ Compare(t, body)
       \/ /\ ~ WindowGone(t)            \* in flight, out of window or range, bad body
          /\ Goto(t, "settle")
          /\ UNCHANGED <<win, req, loc>>
    /\ UNCHANGED <<byID, byKey, ses, pipe, undone, aged, expired, object, locked>>

\* Mutant: the verdict is not waited for.
ReadDoneSkips(t) ==
    /\ pc[t] = "verdict"
    /\ loc[t].id \notin locked
    /\ Goto(t, "settle")
    /\ UNCHANGED <<byID, byKey, ses, win, pipe, undone, aged, req, loc, expired, object, locked>>

\* Lines 507-510: the done channel of whatever attempt is the latest by now.
ReadDone(t) ==
    /\ pc[t] = "verdict"
    /\ loc[t].id \notin locked
    /\ loc' = [loc EXCEPT ![t].waits = pipe[loc[t].id].attempt]
    /\ Goto(t, "await")
    /\ UNCHANGED <<byID, byKey, ses, win, pipe, undone, aged, req, expired, object, locked>>

\* Lines 511-514.  Recording a verdict takes far less than ten seconds: only a
\* driver that has not returned can outlast the timer, or a lost mutex, which
\* keeps the request from settling as well.
AwaitDone(t) ==
    LET id == loc[t].id IN
    /\ pc[t] = "await"
    /\ \/ Done(id, loc[t].waits)
       \/ pipe[id].attempt = loc[t].waits /\ pipe[id].at = "put"
    /\ Goto(t, "settle")
    /\ UNCHANGED <<byID, byKey, ses, win, pipe, undone, aged, req, loc, expired, object, locked>>

\* Lines 516-523: the answer is success if the session is completed, and the
\* error of WriteChunk otherwise.
Settle(t) ==
    /\ pc[t] = "settle"
    /\ loc[t].id \notin locked
    /\ Answer(t)
    /\ UNCHANGED <<byID, byKey, ses, win, pipe, undone, aged, expired, object, locked>>

\* Mutant: every mismatch counts as a failed attempt.
MismatchCounts(t) ==
    LET id == loc[t].id IN
    /\ pc[t] = "mismatch"
    /\ id \notin locked
    /\ ses' = [ses EXCEPT ![id].state = "failed_permanent", ![id].attempt = @ + 1]
    /\ win' = KilledWin(id)
    /\ Answer(t)
    /\ UNCHANGED <<byID, byKey, pipe, undone, aged, expired, object, locked>>

\* Lines 525-533.
Mismatch(t) ==
    LET id == loc[t].id IN
    /\ pc[t] = "mismatch"
    /\ id \notin locked
    /\ ses' = [ses EXCEPT ![id].state = "failed_permanent"]
    /\ win' = KilledWin(id)
    /\ Answer(t)
    /\ UNCHANGED <<byID, byKey, pipe, undone, aged, expired, object, locked>>

-----------------------------------------------------------------------------
(***************************************************************************)
(* Manager.Complete                                                        *)
(***************************************************************************)
CompleteRequest(t, user, id) ==
    /\ Get(user, id)
    /\ aged' = aged \ {id}
    /\ Begin(t, [NoRequest EXCEPT !.op = "complete", !.user = user], id, "complete")
    /\ UNCHANGED <<byID, byKey, ses, win, pipe, undone, expired, object, locked>>

\* Window.Snapshot().ReceivedBytes = Size; closing the window drops what was
\* buffered and not consumed.
AllReceived(id) ==
    IF Closed(id) THEN win[id].pos = Total ELSE Nil \notin {win[id].got[i] : i \in Chunks}

\* Lines 549-555: chunks are missing.
Refuses(id) == ses[id].state = "receiving" /\ ses[id].win /\ ~ AllReceived(id)

CompleteCheck(t) ==
    LET id == loc[t].id IN
    /\ pc[t] = "complete"
    /\ id \notin locked
    /\ \/ /\ Refuses(id)
          /\ Answer(t)
       \/ /\ ~ Refuses(id) /\ ses[id].state = "receiving"
          /\ loc' = [loc EXCEPT ![t].waits = pipe[id].attempt]
          /\ Goto(t, "completewait")
          /\ UNCHANGED req
       \/ /\ ses[id].state # "receiving"
          /\ Goto(t, "outcome")
          /\ UNCHANGED <<req, loc>>
    /\ UNCHANGED <<byID, byKey, ses, win, pipe, undone, aged, expired, object, locked>>

\* Mutant: only the client's context ends the wait.
CompleteWaitNil(t) == pc[t] = "completewait" /\ FALSE /\ UNCHANGED vars

\* Lines 560-561.
CompleteWait(t) ==
    /\ pc[t] = "completewait"
    /\ Done(loc[t].id, loc[t].waits)
    /\ Goto(t, "complete")
    /\ UNCHANGED <<byID, byKey, ses, win, pipe, undone, aged, req, loc, expired, object, locked>>

\* Lines 562-563: the client hangs up first.
HangUp(t) ==
    /\ pc[t] = "completewait"
    /\ loc[t].id \notin locked
    /\ Answer(t)
    /\ UNCHANGED <<byID, byKey, ses, win, pipe, undone, aged, expired, object, locked>>

\* Lines 566-575.
CompleteOutcome(t) ==
    LET id == loc[t].id IN
    /\ pc[t] = "outcome"
    /\ id \notin locked
    /\ aged' = aged \ {id}
    /\ IF ses[id].state = "completed"
       THEN Goto(t, "remove") /\ UNCHANGED <<req, loc>>
       ELSE Answer(t)
    /\ UNCHANGED <<byID, byKey, ses, win, pipe, undone, expired, object, locked>>

-----------------------------------------------------------------------------
Requests(t) ==
    \E user \in Users :
        \/ /\ "init" \in Serves[t]
           /\ \E path \in Paths, hash \in Hashes : InitRequest(t, user, path, hash)
        \/ /\ "chunk" \in Serves[t]
           /\ \E id \in byID, idx \in Indices, file \in Files : ChunkRequest(t, user, id, idx, file)
        \/ "complete" \in Serves[t] /\ \E id \in byID : CompleteRequest(t, user, id)
        \/ "status" \in Serves[t] /\ \E id \in byID : StatusRequest(t, user, id)
        \/ "abort" \in Serves[t] /\ \E id \in byID : AbortRequest(t, user, id)

HandlerStep(t) ==
    \/ Create(t) \/ Insert(t) \/ Terminate(t) \/ Remove(t)
    \/ ChunkState(t) \/ ChunkPanics(t) \/ WriteChunk(t) \/ ReadDone(t) \/ AwaitDone(t) \/ Settle(t)
    \/ Mismatch(t)
    \/ CompleteCheck(t) \/ CompleteWait(t) \/ CompleteOutcome(t)

GCStep == Collect \/ Sweep \/ Terminate(GC) \/ Remove(GC)

PutReturns(id) ==
    PutSucceeds(id) \/ \E v \in {"retriable", "permanent"}, closes \in BOOLEAN : PutFails(id, v, closes)

FinishSteps(id) == Harvest(id) \/ FinishAttempt(id) \/ \E a \in 0..MaxAttempts : CloseDone(id, a)

Next ==
    \/ \E t \in Threads : Requests(t) \/ HangUp(t) \/ HandlerStep(t)
    \/ GCStep
    \/ \E id \in Ids : Consume(id) \/ PutReturns(id) \/ FinishSteps(id) \/ Age(id)

Spec == Init /\ [][Next]_vars

\* Goroutines that can run do run; a driver whose stream ended or was closed
\* returns; time passes and the ticker ticks.  No client has to do anything.
Fairness ==
    /\ \A t \in Threads : WF_vars(HandlerStep(t))
    /\ WF_vars(GCStep)
    /\ \A id \in Ids :
         /\ WF_vars(Consume(id))
         /\ WF_vars((Closed(id) \/ win[id].pos = Total) /\ PutReturns(id))
         /\ WF_vars(FinishSteps(id))
         /\ WF_vars(Age(id))

FairSpec == Spec /\ Fairness

-----------------------------------------------------------------------------
States == {"none", "receiving", "completed", "failed_retriable", "failed_permanent", "aborted"}

Tables == [Chunks -> Nat \cup {Nil}]

SessionRecs == [state : States, attempt : 0..MaxAttempts, win : BOOLEAN,
                prev : Tables, key : Keys \cup {Nil}, hash : Files \cup {Nil}]

WindowRecs == [got : Tables, pos : 0..Total, sticky : {"none", "closed", "aborted"}]

PipelineRecs == [at : {"none", "put", "returned", "harvested", "recorded"},
                 attempt : 0..MaxAttempts,
                 verdict : {"none", "ok", "retriable", "permanent"}, table : Tables]

TypeOK ==
    /\ byID \subseteq Ids
    /\ byKey \in [Keys -> Ids \cup {Nil}]
    /\ ses \in [Ids -> SessionRecs]
    /\ win \in [Ids -> WindowRecs]
    /\ pipe \in [Ids -> PipelineRecs]
    /\ undone \subseteq Ids \X (0..MaxAttempts)
    /\ aged \subseteq Ids /\ expired \subseteq Ids /\ locked \subseteq Ids
    /\ object \in [Paths -> Tables \cup {Nil}]

\* The two maps agree: a key leads to a session that is registered and has that
\* key, whatever Inits, Aborts, Completes and the collector did in between
\* (lines 276-284, 361-364).
MapsAgree ==
    \A k \in Keys : byKey[k] # Nil => byKey[k] \in byID /\ ses[byKey[k]].key = k

\* One pipeline per session, and its window is there exactly while it runs:
\* Chunk never holds a nil window, a new attempt never overtakes the verdict of
\* the one before, and its ring file has a name of its own (line 371).  A session that
\* has ended while its upload runs has aborted the window, so the driver's next Read
\* fails instead of waiting for chunks nobody sends (lines 252-274, 525-530).
OneAttempt ==
    \A id \in Ids :
        /\ ses[id].win <=> pipe[id].at \in {"put", "returned", "harvested"}
        /\ ses[id].state = "receiving" => ses[id].win /\ pipe[id].attempt = ses[id].attempt
        /\ ses[id].state = "failed_retriable" =>
             pipe[id].at = "recorded" /\ pipe[id].attempt < ses[id].attempt
        /\ ses[id].state # "receiving" /\ pipe[id].at = "put" => win[id].sticky = "aborted"

\* A session that ended stays ended: no late verdict, mismatch or kill brings an
\* aborted, failed or completed session back to receiving.
EndedStaysEnded ==
    [][\A id \in Ids :
         LET ended == {"completed", "failed_permanent", "aborted"} IN
         ses[id].state \in ended => ses'[id].state \in ended]_vars

\* A chunk whose window closed because the upload succeeded is absorbed: Chunk
\* answers from the recorded verdict and never from the gap between op.Put's
\* close of the window and the record (lines 501-523).
StragglersAbsorbed ==
    \A t \in Threads :
        LET id == loc[t].id IN
        /\ pc[t] = "settle" /\ loc[t].gone
        /\ pipe[id].attempt = loc[t].attempt
        /\ pipe[id].verdict = "ok" /\ win[id].sticky = "closed"
        => pipe[id].at = "recorded"

\* Once recorded, success stays recorded: neither an abort, nor the collector, nor
\* a late verdict takes it back.  Only a request that already found its chunk
\* changed does (lines 525-530 do not look at the state).
OnlyMismatchOverturns ==
    [][\A id \in Ids :
         ses[id].state = "completed" /\ ses'[id].state # "completed"
         => \E t \in Threads : pc[t] = "mismatch" /\ pc'[t] = "idle" /\ loc[t].id = id]_vars

\* A request that cannot return any more: the mutex of its session, or the
\* manager's, was lost to a panic.
Pinned(t) == loc[t].id \in locked \/ ~ ManagerFree

\* Every request returns, retries included: nobody waits for a done channel that
\* stays open (lines 499-523, 545-576).  Only a lost mutex keeps one from it, and
\* a lost mutex harms the requests of its own session until an Init of its key
\* meets it.
RequestReturns ==
    \A t \in Threads : pc[t] # "idle" ~> pc[t] = "idle" \/ Pinned(t)

\* A chunk 0 that was past the lookup revived a session that is in no map.
Orphan(id) == id \notin byID /\ ses[id].state = "receiving"

\* A session nobody touches any more loses its pipeline and its ring file,
\* whichever attempt it is in (lines 214-261; session_test.go:331 "the terminated
\* pipeline must release the ring file"), unless a chunk revived it behind the
\* collector's back, which nobody can undo, or a mutex was lost.
ReleasedOrRevived ==
    \A id \in Expirable :
        <>[](id \in aged) => <>[](pipe[id].at # "put" \/ Orphan(id) \/ locked # {})

-----------------------------------------------------------------------------
(***************************************************************************)
(* What comments of session.go say and some executions contradict.         *)
(***************************************************************************)
\* session.go:538 "so a buggy client cannot park a connection for the TTL": every
\* request returns, whatever index a client sends.
NoClientParks == \A t \in Threads : pc[t] # "idle" ~> pc[t] = "idle"

\* session.go:317 a failed_retriable session resumes unconditionally because "the
\* re-fill CRC check catches a changed file": a retry that succeeds leaves the
\* whole of one client's file.
OneFileUploaded ==
    \A id \in Ids :
        pipe[id].attempt > 0 /\ pipe[id].verdict = "ok" =>
            \E f \in Files : object[ses[id].key[2]] = Content[f]
=============================================================================
