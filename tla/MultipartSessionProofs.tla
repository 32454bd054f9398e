----------------------- MODULE MultipartSessionProofs -----------------------
(***************************************************************************)
(* The safety of multipart sessions for every number of requests, users,   *)
(* paths, sessions, chunks and attempts.  SessionInv is inductive: what    *)
(* holds of a session and its pipeline (SessionOK), of a request between   *)
(* two critical sections (ThreadOK) and of the maps.                       *)
(***************************************************************************)
EXTENDS MultipartSession, FiniteSetTheorems, TLAPS

Procs == Threads \cup {GC}

Labels == {"idle", "create", "insert", "terminate", "remove", "sweep", "stuck",
           "chunk", "write",
           "verdict", "await", "settle", "mismatch", "complete", "completewait", "outcome"}

Asked == [op : Operations \cup {"none"}, user : Users \cup {Nil}, path : Paths \cup {Nil},
          idx : Indices, file : Files \cup {Nil}, hash : Files \cup {Nil}]

Locals == [id : Ids \cup {Nil}, attempt : 0..MaxAttempts, prev : Nat \cup {Nil},
           waits : 0..MaxAttempts, gone : BOOLEAN]

ThreadTypes ==
    /\ pc \in [Procs -> Labels]
    /\ req \in [Procs -> Asked]
    /\ loc \in [Procs -> Locals]

\* A session and its latest attempt.
SessionOK(id) ==
    /\ ses[id].state = "none" => ses[id].attempt = 0 /\ pipe[id].at = "none" /\ id \notin byID
    /\ ses[id].state # "none" => ses[id].key \in Keys
    /\ ses[id].win <=> pipe[id].at \in {"put", "returned", "harvested"}
    /\ ses[id].state = "receiving" =>
         /\ ses[id].win
         /\ pipe[id].attempt = ses[id].attempt
         /\ ses[id].attempt < MaxAttempts
    /\ ses[id].state = "failed_retriable" =>
         pipe[id].at = "recorded" /\ pipe[id].attempt < ses[id].attempt
    /\ pipe[id].at = "put" => pipe[id].verdict = "none" /\ win[id].sticky # "closed"
    /\ pipe[id].at = "put" /\ ses[id].state # "receiving" => win[id].sticky = "aborted"
    /\ pipe[id].at \in {"returned", "harvested"} => pipe[id].verdict # "none"

\* Where a request is past the look-up, or the creation, of its session.
HasSession == Labels \ {"idle", "create", "sweep"}

\* A request between two critical sections.
ThreadOK(t) ==
    LET id == loc[t].id IN
    /\ pc[t] \in HasSession => id \in Known
    /\ pc[t] = "create" => req[t].op = "init"
    /\ req[t].op = "init" => req[t].user \in Users /\ req[t].path \in Paths
    /\ pc[t] \in {"chunk", "write"} => req[t].file \in Files /\ ~ loc[t].gone
    /\ pc[t] \in {"write", "verdict", "await", "settle"} => loc[t].attempt <= pipe[id].attempt
    /\ pc[t] \in {"verdict", "await"} => loc[t].gone
    /\ pc[t] \in {"verdict", "await", "settle"} /\ loc[t].gone
       /\ pipe[id].attempt = loc[t].attempt => Closed(id)
    /\ pc[t] = "await" => loc[t].attempt <= loc[t].waits /\ loc[t].waits <= pipe[id].attempt
    /\ pc[t] = "settle" /\ loc[t].gone /\ pipe[id].attempt = loc[t].attempt
       => pipe[id].at = "recorded" \/ win[id].sticky = "aborted"

SessionInv ==
    /\ TypeOK
    /\ ThreadTypes
    /\ expired \subseteq Known
    /\ \A id \in Ids : SessionOK(id)
    /\ \A t \in Procs : ThreadOK(t)
    /\ MapsAgree

-----------------------------------------------------------------------------
LEMMA Params ==
    /\ Total \in Nat
    /\ 0 \in Chunks
    /\ NoTable \in Tables
    /\ NoRequest \in Asked /\ NoRequest.op = "none"
    /\ NoLocals \in Locals
    /\ MaxAttempts \in Nat /\ 0 < MaxAttempts
  <1>1. Total \in Nat
    BY SessionParams, FS_CardinalityType DEF Total
  <1>2. 0 \in Chunks
    BY <1>1, SessionParams DEF Total
  <1> QED BY <1>1, <1>2, SessionParams DEF NoTable, Tables, NoRequest, Asked, NoLocals, Locals

\* One entry of a function is replaced.
LEMMA Update ==
    ASSUME NEW S, NEW f \in [Ids -> S], NEW id \in Ids, NEW v \in S
    PROVE  /\ [f EXCEPT ![id] = v] \in [Ids -> S]
           /\ [f EXCEPT ![id] = v][id] = v
           /\ \A j \in Ids \ {id} : [f EXCEPT ![id] = v][j] = f[j]
  OBVIOUS

\* The window of a session gets a sticky error.
LEMMA StickyStep ==
    ASSUME TypeOK, NEW id \in Ids, NEW x \in {"closed", "aborted"},
           win' = [win EXCEPT ![id].sticky = x]
    PROVE  /\ win' \in [Ids -> WindowRecs]
           /\ \A j \in Ids \ {id} : win'[j] = win[j]
           /\ win'[id].sticky = x
  <1> DEFINE w == [win[id] EXCEPT !.sticky = x]
  <1>1. win \in [Ids -> WindowRecs] /\ win[id] \in WindowRecs /\ win' = [win EXCEPT ![id] = w]
    BY DEF TypeOK
  <1>2. w \in WindowRecs /\ w.sticky = x
    BY <1>1 DEF WindowRecs
  <1> HIDE DEF w
  <1> QED BY <1>1, <1>2, Update

\* A session changes state and nothing else.
LEMMA StateStep ==
    ASSUME TypeOK, NEW id \in Ids, NEW x \in States, ses' = [ses EXCEPT ![id].state = x]
    PROVE  /\ ses' \in [Ids -> SessionRecs]
           /\ \A j \in Ids \ {id} : ses'[j] = ses[j]
           /\ ses'[id].state = x /\ ses'[id].key = ses[id].key /\ ses'[id].win = ses[id].win
           /\ ses'[id].attempt = ses[id].attempt
  <1> DEFINE s == [ses[id] EXCEPT !.state = x]
  <1>1. ses \in [Ids -> SessionRecs] /\ ses[id] \in SessionRecs /\ ses' = [ses EXCEPT ![id] = s]
    BY DEF TypeOK
  <1>2. s \in SessionRecs /\ s.state = x /\ s.key = ses[id].key /\ s.win = ses[id].win
        /\ s.attempt = ses[id].attempt
    BY <1>1 DEF SessionRecs
  <1> HIDE DEF s
  <1> QED BY <1>1, <1>2, Update

\* What a step may do to the session of a request that takes no part in it: its
\* window is closed, killed for good, its verdict is recorded, or the attempt is
\* followed by a later one.
Advances(id) ==
    /\ ses'[id].state # "none"
    /\ \/ pipe'[id].attempt > pipe[id].attempt
       \/ /\ pipe'[id].attempt = pipe[id].attempt
          /\ Closed(id) => win'[id].sticky # "none"
          /\ win[id].sticky = "aborted" => win'[id].sticky = "aborted"
          /\ pipe[id].at = "recorded" => pipe'[id].at = "recorded"

Moves(t) == \A u \in Procs \ {t} : pc'[u] = pc[u] /\ req'[u] = req[u] /\ loc'[u] = loc[u]

\* A request survives what the others do to its session.
LEMMA ThreadKept ==
    ASSUME SessionInv, TypeOK', \A id \in Known : Advances(id), NEW u \in Procs,
           pc'[u] = pc[u], req'[u] = req[u], loc'[u] = loc[u]
    PROVE  ThreadOK(u)'
  <1> DEFINE id == loc[u].id
  <1>1. loc[u] \in Locals /\ pc[u] \in Labels
    BY DEF SessionInv, ThreadTypes
  <1>2. CASE id \in Known
    <2>1. id \in Ids /\ pipe[id].attempt \in Nat /\ pipe'[id].attempt \in Nat /\ loc[u].attempt \in Nat
          /\ loc[u].waits \in Nat
      BY <1>1, <1>2, SessionParams DEF SessionInv, TypeOK, Known, Locals, SessionRecs, WindowRecs, PipelineRecs
    <2>2. Advances(id) /\ id \in Known'
      BY <1>2, <2>1 DEF Advances, Known
    <2>3. ThreadOK(u)
      BY DEF SessionInv
    <2> QED BY <2>1, <2>2, <2>3, <1>2 DEF ThreadOK, Advances, Closed
  <1>3. CASE id \notin Known
    BY <1>1, <1>3 DEF SessionInv, ThreadOK, HasSession, Labels
  <1> QED BY <1>2, <1>3

\* A step of one request that leaves the sessions alone.
LEMMA QuietKeeps ==
    ASSUME SessionInv, UNCHANGED <<byID, byKey, ses, win, pipe, undone, object>>,
           aged' \subseteq Ids, expired' \subseteq Known, locked' \subseteq locked \cup Ids,
           NEW t \in Procs, Moves(t), ThreadTypes', ThreadOK(t)'
    PROVE  SessionInv'
  <1>1. TypeOK'
    BY DEF SessionInv, TypeOK, Known
  <1>2. Known' = Known /\ \A id \in Known : Advances(id)
    BY DEF Known, Advances, Closed
  <1>3. \A u \in Procs : ThreadOK(u)'
    BY <1>1, <1>2, ThreadKept DEF Moves
  <1>4. \A id \in Ids : SessionOK(id)'
    BY DEF SessionInv, SessionOK
  <1>5. MapsAgree'
    BY DEF SessionInv, MapsAgree
  <1> QED BY <1>1, <1>2, <1>3, <1>4, <1>5 DEF SessionInv

\* The sessions but one are left alone, and no session changes its key.
Touches(id) ==
    /\ \A j \in Ids \ {id} : ses'[j] = ses[j] /\ win'[j] = win[j] /\ pipe'[j] = pipe[j]
    /\ ses[id].state # "none" => ses'[id].key = ses[id].key
    /\ UNCHANGED <<byID, byKey, expired>>

\* A step on one session, of request t or of nobody.
LEMMA SessionStep ==
    ASSUME SessionInv, TypeOK', NEW id \in Ids, Touches(id), SessionOK(id)',
           ses[id].state # "none" => Advances(id), ses'[id].state # "none",
           NEW t \in Procs, Moves(t), ThreadTypes', ThreadOK(t)'
    PROVE  SessionInv'
  <1>1. \A j \in Known : Advances(j)
    BY DEF Known, Advances, Closed, Touches
  <1>2. Known \subseteq Known'
    BY DEF Known, Touches
  <1>3. \A u \in Procs : ThreadOK(u)'
    BY <1>1, ThreadKept DEF Moves
  <1>4. \A j \in Ids : SessionOK(j)'
    <2> TAKE j \in Ids
    <2>1. CASE j # id
      BY <2>1 DEF SessionInv, SessionOK, Touches
    <2> QED BY <2>1
  <1>5. MapsAgree'
    <2> SUFFICES ASSUME NEW k \in Keys, byKey[k] # Nil
                 PROVE  byKey[k] \in byID /\ ses'[byKey[k]].key = k
      BY DEF MapsAgree, Touches
    <2>1. byKey[k] \in byID /\ ses[byKey[k]].key = k /\ byKey[k] \in Ids
      BY DEF SessionInv, MapsAgree, TypeOK
    <2>2. ses[byKey[k]].state # "none"
      BY <2>1 DEF SessionInv, SessionOK
    <2> QED BY <2>1, <2>2 DEF Touches
  <1> QED BY <1>2, <1>3, <1>4, <1>5 DEF SessionInv, Touches

\* The same, when no request moves.
LEMMA PipelineStep ==
    ASSUME SessionInv, TypeOK', NEW id \in Ids, Touches(id), SessionOK(id)',
           ses[id].state # "none", Advances(id), UNCHANGED <<pc, req, loc>>
    PROVE  SessionInv'
  <1>1. \A j \in Known : Advances(j)
    BY DEF Known, Advances, Closed, Touches
  <1>2. GC \in Procs /\ Moves(GC) /\ ThreadTypes' /\ ses'[id].state # "none"
    BY DEF Procs, Moves, ThreadTypes, SessionInv, Advances
  <1>3. ThreadOK(GC)'
    BY <1>1, <1>2, ThreadKept
  <1> QED BY <1>2, <1>3, SessionStep

\* The handler returns (pc, req and loc back to the idle values).
LEMMA AnswerThread ==
    ASSUME SessionInv, NEW t \in Procs, Answer(t)
    PROVE  ThreadTypes' /\ ThreadOK(t)' /\ Moves(t)
  <1>1. ThreadTypes'
    BY Params DEF SessionInv, ThreadTypes, Answer, Labels
  <1>2. pc'[t] = "idle" /\ req'[t] = NoRequest
    BY DEF SessionInv, ThreadTypes, Answer
  <1>3. ThreadOK(t)'
    BY <1>2, Params DEF ThreadOK, HasSession, Labels
  <1> QED BY <1>1, <1>3 DEF Moves, Answer, SessionInv, ThreadTypes

\* A thread that moves on without touching its locals.
LEMMA GotoThread ==
    ASSUME SessionInv, NEW t \in Procs, NEW label \in Labels, Goto(t, label),
           UNCHANGED <<req, loc>>
    PROVE  ThreadTypes' /\ Moves(t) /\ pc'[t] = label /\ req'[t] = req[t] /\ loc'[t] = loc[t]
  BY DEF SessionInv, ThreadTypes, Goto, Moves

\* The facts a step of request t starts from.
LEMMA ThreadFacts ==
    ASSUME SessionInv, NEW t \in Procs
    PROVE  /\ ThreadOK(t)
           /\ pc[t] \in Labels /\ req[t] \in Asked /\ loc[t] \in Locals
           /\ pc[t] \in HasSession =>
                /\ loc[t].id \in Ids /\ loc[t].id \in Known
                /\ ses[loc[t].id].state # "none" /\ ses[loc[t].id].key \in Keys
                /\ SessionOK(loc[t].id)
  BY DEF SessionInv, ThreadTypes, ThreadOK, Known, SessionOK

-----------------------------------------------------------------------------
LEMMA InitKeeps == Init => SessionInv
  <1> SUFFICES ASSUME Init PROVE SessionInv
    OBVIOUS
  <1>1. TypeOK
    BY Params, SessionParams DEF Init, TypeOK, States, SessionRecs, WindowRecs, PipelineRecs
  <1>2. ThreadTypes
    BY Params DEF Init, ThreadTypes, Procs, Labels
  <1>3. \A id \in Ids : SessionOK(id)
    BY DEF Init, SessionOK
  <1>4. \A t \in Procs : ThreadOK(t)
    BY Params DEF Init, ThreadOK, HasSession, Procs
  <1>5. MapsAgree /\ expired \subseteq Known
    BY DEF Init, MapsAgree
  <1> QED BY <1>1, <1>2, <1>3, <1>4, <1>5 DEF SessionInv

\* A request is taken up.
LEMMA BeginThread ==
    ASSUME SessionInv, NEW t \in Procs, NEW r \in Asked, NEW id \in Ids \cup {Nil},
           NEW label \in Labels, Begin(t, r, id, label),
           label \in HasSession => id \in Known,
           label \in {"create", "stuck", "terminate", "chunk", "complete", "settle"},
           label = "create" => r.op = "init",
           r.op = "init" => r.user \in Users /\ r.path \in Paths,
           label = "chunk" => r.file \in Files,
           ses' = ses, pipe' = pipe
    PROVE  ThreadTypes' /\ ThreadOK(t)' /\ Moves(t)
  <1>1. [NoLocals EXCEPT !.id = id] \in Locals
    BY Params DEF Locals
  <1>2. ThreadTypes' /\ Moves(t)
    BY <1>1 DEF SessionInv, ThreadTypes, Begin, Moves
  <1>3. pc'[t] = label /\ req'[t] = r /\ loc'[t].id = id /\ ~ loc'[t].gone /\ loc'[t].attempt = 0
    BY <1>1 DEF SessionInv, ThreadTypes, Begin, NoLocals
  <1>4. Known' = Known /\ (id \in Known => 0 <= pipe[id].attempt)
    BY Params DEF Known, SessionInv, TypeOK, PipelineRecs
  <1>5. ThreadOK(t)'
    BY <1>3, <1>4 DEF ThreadOK, HasSession, Labels
  <1> QED BY <1>2, <1>5

LEMMA RequestKeeps ==
    ASSUME SessionInv, NEW t \in Threads, Requests(t)
    PROVE  SessionInv'
  <1>1. PICK user \in Users :
          \/ \E path \in Paths, hash \in Hashes : InitRequest(t, user, path, hash)
          \/ \E id \in byID, idx \in Indices, file \in Files : ChunkRequest(t, user, id, idx, file)
          \/ \E id \in byID : CompleteRequest(t, user, id) \/ StatusRequest(t, user, id)
                              \/ AbortRequest(t, user, id)
    BY DEF Requests
  <1>2. t \in Procs /\ byID \subseteq Known /\ aged \subseteq Ids /\ expired \subseteq Known
    BY DEF Procs, SessionInv, SessionOK, Known, TypeOK
  <1>3. ASSUME NEW path \in Paths, NEW hash \in Hashes, InitRequest(t, user, path, hash)
        PROVE  SessionInv'
    <2> DEFINE id == byKey[<<user, path>>]
               r == [NoRequest EXCEPT !.op = "init", !.user = user, !.path = path, !.hash = hash]
    <2>1. r \in Asked /\ r.op = "init" /\ r.user = user /\ r.path = path
      BY Params, SessionParams DEF NoRequest, Asked, Operations
    <2>2. <<user, path>> \in Keys /\ id \in Ids \cup {Nil} /\ (id # Nil => id \in Known)
      BY <1>2 DEF SessionInv, TypeOK, Keys, MapsAgree
    <2>3. CASE id = Nil /\ Begin(t, r, Nil, "create") /\ UNCHANGED aged
      <3>1. UNCHANGED <<byID, byKey, ses, win, pipe, undone, expired, object, locked>>
        BY <1>3 DEF InitRequest
      <3>2. ThreadTypes' /\ ThreadOK(t)' /\ Moves(t)
        BY <2>3, <2>1, <3>1, <1>2, BeginThread DEF Labels, HasSession
      <3> QED BY <2>3, <3>1, <3>2, <1>2, QuietKeeps
    <2>4. CASE aged' = aged \ {id} /\ UNCHANGED <<pc, req, loc>>
      <3>1. UNCHANGED <<byID, byKey, ses, win, pipe, undone, expired, object, locked>>
        BY <1>3 DEF InitRequest
      <3>2. ThreadTypes' /\ ThreadOK(t)' /\ Moves(t)
        BY <2>4, <3>1, <1>2 DEF SessionInv, ThreadTypes, ThreadOK, Moves, Known, Closed
      <3> QED BY <2>4, <3>1, <3>2, <1>2, QuietKeeps
    <2>5. CASE id # Nil /\ UNCHANGED aged
               /\ (Begin(t, r, id, "terminate") \/ Begin(t, r, id, "stuck"))
      <3>1. UNCHANGED <<byID, byKey, ses, win, pipe, undone, expired, object, locked>>
        BY <1>3 DEF InitRequest
      <3>2. ThreadTypes' /\ ThreadOK(t)' /\ Moves(t)
        BY <2>5, <2>1, <2>2, <3>1, <1>2, BeginThread DEF Labels, HasSession
      <3> QED BY <2>5, <3>1, <3>2, <1>2, QuietKeeps
    <2>6. id # Nil \/ id \notin locked
      BY SessionParams DEF SessionInv, TypeOK
    <2> QED BY <1>3, <2>3, <2>4, <2>5, <2>6 DEF InitRequest
  <1>4. ASSUME NEW id \in byID, NEW idx \in Indices, NEW file \in Files,
               ChunkRequest(t, user, id, idx, file)
        PROVE  SessionInv'
    <2> DEFINE r == [NoRequest EXCEPT !.op = "chunk", !.user = user, !.idx = idx, !.file = file]
    <2>1. r \in Asked /\ r.op = "chunk" /\ r.file = file
      BY Params DEF NoRequest, Asked, Operations
    <2>2. /\ Begin(t, r, id, "chunk") /\ aged' \subseteq aged
          /\ UNCHANGED <<byID, byKey, ses, win, pipe, undone, expired, object, locked>>
      BY <1>4 DEF ChunkRequest
    <2>3. ThreadTypes' /\ ThreadOK(t)' /\ Moves(t)
      BY <2>1, <2>2, <1>2, BeginThread DEF Labels, HasSession, Known
    <2> QED BY <2>2, <2>3, <1>2, QuietKeeps
  <1>5. ASSUME NEW id \in byID, CompleteRequest(t, user, id)
        PROVE  SessionInv'
    <2> DEFINE r == [NoRequest EXCEPT !.op = "complete", !.user = user]
    <2>1. r \in Asked /\ r.op = "complete"
      BY Params DEF NoRequest, Asked, Operations
    <2>2. /\ Begin(t, r, id, "complete") /\ aged' \subseteq aged
          /\ UNCHANGED <<byID, byKey, ses, win, pipe, undone, expired, object, locked>>
      BY <1>5 DEF CompleteRequest
    <2>3. ThreadTypes' /\ ThreadOK(t)' /\ Moves(t)
      BY <2>1, <2>2, <1>2, BeginThread DEF Labels, HasSession, Known
    <2> QED BY <2>2, <2>3, <1>2, QuietKeeps
  <1>6. ASSUME NEW id \in byID, StatusRequest(t, user, id)
        PROVE  SessionInv'
    <2> DEFINE r == [NoRequest EXCEPT !.op = "status", !.user = user]
    <2>1. r \in Asked /\ r.op = "status"
      BY Params DEF NoRequest, Asked, Operations
    <2>2. /\ Begin(t, r, id, "settle") \/ UNCHANGED <<pc, req, loc>>
          /\ aged' \subseteq aged
          /\ UNCHANGED <<byID, byKey, ses, win, pipe, undone, expired, object, locked>>
      BY <1>6 DEF StatusRequest
    <2>3. CASE Begin(t, r, id, "settle")
      BY <2>1, <2>2, <2>3, <1>2, BeginThread, QuietKeeps DEF Labels, HasSession, Known
    <2>4. CASE UNCHANGED <<pc, req, loc>>
      <3>1. ThreadTypes' /\ ThreadOK(t)' /\ Moves(t)
        BY <2>2, <2>4, <1>2 DEF SessionInv, ThreadTypes, ThreadOK, Moves, Known, Closed
      <3> QED BY <2>2, <3>1, <1>2, QuietKeeps
    <2> QED BY <2>2, <2>3, <2>4
  <1>7. ASSUME NEW id \in byID, AbortRequest(t, user, id)
        PROVE  SessionInv'
    <2> DEFINE r == [NoRequest EXCEPT !.op = "abort", !.user = user]
    <2>1. r \in Asked /\ r.op = "abort"
      BY Params DEF NoRequest, Asked, Operations
    <2>2. /\ Begin(t, r, id, "terminate")
          /\ UNCHANGED <<byID, byKey, ses, win, pipe, undone, aged, expired, object, locked>>
      BY <1>7 DEF AbortRequest
    <2>3. ThreadTypes' /\ ThreadOK(t)' /\ Moves(t)
      BY <2>1, <2>2, <1>2, BeginThread DEF Labels, HasSession, Known
    <2> QED BY <2>2, <2>3, <1>2, QuietKeeps
  <1> QED BY <1>1, <1>3, <1>4, <1>5, <1>6, <1>7

-----------------------------------------------------------------------------
\* The latest attempt of a session starts.
LEMMA StartFacts ==
    ASSUME SessionInv, NEW id \in Ids, NEW s, StartAttempt(id, s),
           s \in SessionRecs,
           s.key \in Keys, s.attempt < MaxAttempts,
           UNCHANGED <<byID, byKey, undone, aged, expired, object, locked>>
    PROVE  /\ TypeOK' /\ SessionOK(id)'
           /\ ses'[id].state = "receiving" /\ ses'[id].key = s.key
           /\ pipe'[id].attempt = s.attempt
           /\ \A j \in Ids \ {id} : ses'[j] = ses[j] /\ win'[j] = win[j] /\ pipe'[j] = pipe[j]
  <1>1. /\ ses'[id] = [s EXCEPT !.state = "receiving", !.win = TRUE]
        /\ win'[id] = [got |-> NoTable, pos |-> 0, sticky |-> "none"]
        /\ pipe'[id] = [at |-> "put", attempt |-> s.attempt, verdict |-> "none", table |-> NoTable]
        /\ \A j \in Ids \ {id} : ses'[j] = ses[j] /\ win'[j] = win[j] /\ pipe'[j] = pipe[j]
    BY DEF StartAttempt, SessionInv, TypeOK
  <1>2. TypeOK'
    <2>1. ses' \in [Ids -> SessionRecs]
      <3>1. [s EXCEPT !.state = "receiving", !.win = TRUE] \in
              SessionRecs
        BY DEF States, SessionRecs, WindowRecs, PipelineRecs
      <3> QED BY <3>1 DEF StartAttempt, SessionInv, TypeOK
    <2>2. win' \in [Ids -> WindowRecs]
      BY Params DEF StartAttempt, SessionInv, TypeOK, SessionRecs, WindowRecs, PipelineRecs
    <2>3. pipe' \in [Ids -> PipelineRecs]
      BY Params DEF StartAttempt, SessionInv, TypeOK, SessionRecs, WindowRecs, PipelineRecs
    <2> QED BY <2>1, <2>2, <2>3 DEF SessionInv, TypeOK
  <1>3. SessionOK(id)'
    BY <1>1 DEF SessionOK
  <1> QED BY <1>1, <1>2, <1>3

LEMMA CreateKeeps ==
    ASSUME SessionInv, NEW t \in Procs, Create(t)
    PROVE  SessionInv'
  <1>1. req[t].user \in Users /\ req[t].path \in Paths /\ req[t].hash \in Files \cup {Nil}
        /\ expired \subseteq Known /\ aged \subseteq Ids
    BY ThreadFacts DEF Create, ThreadOK, Asked, SessionInv, TypeOK
  <1>2. ASSUME NEW id \in Ids,
               ses[id].state = "none",
               StartAttempt(id, [ses[id] EXCEPT !.key = <<req[t].user, req[t].path>>,
                                                !.hash = req[t].hash]),
               loc' = [loc EXCEPT ![t].id = id],
               Goto(t, "insert"),
               UNCHANGED req,
               UNCHANGED <<byID, byKey, undone, aged, expired, object, locked>>
        PROVE  SessionInv'
    <2> DEFINE s == [ses[id] EXCEPT !.key = <<req[t].user, req[t].path>>, !.hash = req[t].hash]
    <2>1. /\ s \in SessionRecs
          /\ s.key \in Keys /\ s.attempt < MaxAttempts
      <3>1. /\ ses[id] \in SessionRecs
            /\ ses[id].attempt = 0
        BY <1>2 DEF SessionInv, TypeOK, SessionOK
      <3>2. <<req[t].user, req[t].path>> \in Keys
        BY <1>1 DEF Keys
      <3> QED BY <3>1, <3>2, <1>1, Params DEF SessionRecs, WindowRecs, PipelineRecs
    <2> HIDE DEF s
    <2>2. StartAttempt(id, s)
      BY <1>2 DEF s
    <2>3. /\ TypeOK' /\ SessionOK(id)'
          /\ ses'[id].state = "receiving"
          /\ \A j \in Ids \ {id} : ses'[j] = ses[j] /\ win'[j] = win[j] /\ pipe'[j] = pipe[j]
      BY <2>1, <2>2, <1>2, StartFacts
    <2>4. Touches(id)
      BY <2>3, <1>2 DEF Touches
    <2>5. ThreadTypes' /\ Moves(t) /\ pc'[t] = "insert" /\ loc'[t].id = id /\ req'[t] = req[t]
      BY <1>2 DEF SessionInv, ThreadTypes, Goto, Moves, Labels, Locals
    <2>6. ThreadOK(t)'
      BY <2>3, <2>5, <1>1 DEF ThreadOK, Known
    <2> QED BY <1>2, <2>3, <2>4, <2>5, <2>6, SessionStep
  <1>3. CASE Answer(t) /\ UNCHANGED <<ses, win, pipe>>
    <2>1. UNCHANGED <<byID, byKey, ses, win, pipe, undone, aged, expired, object, locked>>
      BY <1>3 DEF Create
    <2> QED BY <1>1, <1>3, <2>1, AnswerThread, QuietKeeps
  <1> QED BY <1>2, <1>3 DEF Create

LEMMA InsertKeeps ==
    ASSUME SessionInv, NEW t \in Procs, Insert(t)
    PROVE  SessionInv'
  <1> DEFINE id == loc[t].id
  <1>1. /\ id \in Ids /\ ses[id].state # "none" /\ ses[id].key \in Keys
    BY ThreadFacts DEF Insert, HasSession, Labels
  <1>2. /\ byID' = byID \cup {id}
        /\ byKey' = [byKey EXCEPT ![ses[id].key] = id]
        /\ Answer(t)
        /\ UNCHANGED <<ses, win, pipe, undone, aged, expired, object, locked>>
    BY DEF Insert
  <1>3. TypeOK'
    BY <1>1, <1>2 DEF SessionInv, TypeOK
  <1>4. ThreadTypes' /\ ThreadOK(t)' /\ Moves(t)
    BY <1>2, AnswerThread
  <1>5. Known' = Known /\ \A j \in Known : Advances(j)
    BY <1>2 DEF Known, Advances, Closed
  <1>6. \A u \in Procs : ThreadOK(u)'
    BY <1>3, <1>4, <1>5, ThreadKept DEF Moves
  <1>7. \A j \in Ids : SessionOK(j)'
    BY <1>1, <1>2 DEF SessionInv, SessionOK
  <1>8. MapsAgree'
    BY <1>1, <1>2 DEF SessionInv, MapsAgree, TypeOK
  <1> QED BY <1>2, <1>3, <1>4, <1>5, <1>6, <1>7, <1>8 DEF SessionInv

\* Closing the window under a running pipeline.
LEMMA KillFacts ==
    ASSUME SessionInv, NEW id \in Ids, win' = KilledWin(id)
    PROVE  /\ win' \in [Ids -> WindowRecs]
           /\ \A j \in Ids \ {id} : win'[j] = win[j]
           /\ win'[id].sticky \in {win[id].sticky, "aborted"}
           /\ Closed(id) => win'[id].sticky = win[id].sticky
           /\ ses[id].win /\ ~ Closed(id) => win'[id].sticky = "aborted"
           /\ win[id].sticky \in {"none", "closed", "aborted"}
  <1>1. \/ win' = win /\ (~ ses[id].win \/ Closed(id))
        \/ ~ Closed(id) /\ win' = [win EXCEPT ![id].sticky = "aborted"]
    BY DEF KilledWin
  <1>2. TypeOK /\ win \in [Ids -> WindowRecs]
    BY DEF SessionInv, TypeOK
  <1>3. win[id].sticky \in {"none", "closed", "aborted"}
    BY <1>2 DEF WindowRecs
  <1> QED BY <1>1, <1>2, <1>3, StickyStep

LEMMA TerminateKeeps ==
    ASSUME SessionInv, NEW t \in Procs, Terminate(t)
    PROVE  SessionInv'
  <1>0. PICK id \in Ids : id = loc[t].id
    BY ThreadFacts DEF Terminate, HasSession, Labels
  <1>1. id \in Ids /\ ses[id].state # "none" /\ ses[id].key \in Keys /\ SessionOK(id) /\ ThreadOK(t)
    BY <1>0, ThreadFacts DEF Terminate, HasSession, Labels
  <1>2. /\ ses' = IF ses[id].state = "receiving" THEN [ses EXCEPT ![id].state = "aborted"] ELSE ses
        /\ win' = KilledWin(id)
        /\ Goto(t, "remove")
        /\ UNCHANGED <<byID, byKey, pipe, undone, aged, req, loc, expired, object, locked>>
    BY <1>0 DEF Terminate
  <1>3. /\ ses' \in [Ids -> SessionRecs]
        /\ \A j \in Ids \ {id} : ses'[j] = ses[j]
        /\ ses'[id].state = IF ses[id].state = "receiving" THEN "aborted" ELSE ses[id].state
        /\ ses'[id].key = ses[id].key /\ ses'[id].win = ses[id].win
        /\ ses'[id].attempt = ses[id].attempt
    <2>1. CASE ses[id].state = "receiving"
      <3>1. ses' = [ses EXCEPT ![id].state = "aborted"] /\ "aborted" \in States
        BY <1>2, <2>1 DEF States
      <3>2. TypeOK
        BY DEF SessionInv
      <3>3. /\ ses' \in [Ids -> SessionRecs]
            /\ \A j \in Ids \ {id} : ses'[j] = ses[j]
            /\ ses'[id].state = "aborted" /\ ses'[id].key = ses[id].key
            /\ ses'[id].win = ses[id].win /\ ses'[id].attempt = ses[id].attempt
        BY <3>1, <3>2, StateStep
      <3> QED BY <2>1, <3>3
    <2>2. CASE ses[id].state # "receiving"
      BY <1>2, <2>2 DEF SessionInv, TypeOK
    <2> QED BY <2>1, <2>2
  <1>4. TypeOK'
    BY <1>1, <1>2, <1>3, KillFacts DEF SessionInv, TypeOK
  <1>5. Touches(id)
    BY <1>1, <1>2, <1>3, KillFacts DEF Touches
  <1>6. SessionOK(id)'
    <2>1. pipe[id].at = "put" => ses[id].win /\ win[id].sticky # "closed"
      BY <1>1 DEF SessionOK
    <2>2. pipe[id].at = "put" => win'[id].sticky = "aborted"
      BY <1>2, <2>1, KillFacts DEF Closed
    <2> QED BY <1>1, <1>2, <1>3, <2>2 DEF SessionOK
  <1>7. Advances(id) /\ ses'[id].state # "none"
    BY <1>1, <1>2, <1>3, KillFacts DEF Advances, Closed
  <1>8. ThreadTypes' /\ Moves(t) /\ pc'[t] = "remove" /\ req'[t] = req[t] /\ loc'[t] = loc[t]
    BY <1>2, GotoThread DEF Labels
  <1>9. ThreadOK(t)'
    BY <1>0, <1>1, <1>7, <1>8 DEF ThreadOK, Known
  <1> QED BY <1>1, <1>4, <1>5, <1>6, <1>7, <1>8, <1>9, SessionStep

LEMMA RemoveKeeps ==
    ASSUME SessionInv, NEW t \in Procs, Remove(t)
    PROVE  SessionInv'
  <1> DEFINE id == loc[t].id
  <1>1. id \in Ids /\ ses[id].state # "none" /\ ses[id].key \in Keys /\ ThreadOK(t)
    BY ThreadFacts DEF Remove, HasSession, Labels
  <1>2. /\ byID' = byID \ {id}
        /\ byKey' = IF byKey[ses[id].key] = id THEN [byKey EXCEPT ![ses[id].key] = Nil] ELSE byKey
        /\ UNCHANGED <<ses, win, pipe, undone, aged, object, locked>>
    BY DEF Remove, Removed
  <1>3. ThreadTypes' /\ ThreadOK(t)' /\ Moves(t) /\ expired' \subseteq expired
    <2>1. CASE req[t].op = "init" /\ Goto(t, "create") /\ UNCHANGED <<req, loc, expired>>
      <3>1. ThreadTypes' /\ Moves(t) /\ pc'[t] = "create" /\ req'[t] = req[t]
        BY <2>1, GotoThread DEF Labels
      <3> QED BY <2>1, <3>1, <1>1 DEF ThreadOK, HasSession
    <2>2. CASE Answer(t) /\ UNCHANGED expired
      BY <2>2, AnswerThread
    <2>3. CASE Goto(t, "sweep") /\ expired' = expired \ {id} /\ UNCHANGED <<req, loc>>
      <3>1. ThreadTypes' /\ Moves(t) /\ pc'[t] = "sweep" /\ req'[t] = req[t]
        BY <2>3, GotoThread DEF Labels
      <3> QED BY <2>3, <3>1, <1>1 DEF ThreadOK, HasSession
    <2> QED BY <2>1, <2>2, <2>3 DEF Remove
  <1>4. TypeOK'
    BY <1>1, <1>2, <1>3 DEF SessionInv, TypeOK
  <1>5. Known' = Known /\ \A j \in Known : Advances(j)
    BY <1>2 DEF Known, Advances, Closed
  <1>6. \A u \in Procs : ThreadOK(u)'
    BY <1>3, <1>4, <1>5, ThreadKept DEF Moves
  <1>7. \A j \in Ids : SessionOK(j)'
    BY <1>1, <1>2 DEF SessionInv, SessionOK
  <1>8. MapsAgree'
    BY <1>1, <1>2, SessionParams DEF SessionInv, MapsAgree, TypeOK
  <1> QED BY <1>2, <1>3, <1>4, <1>5, <1>6, <1>7, <1>8 DEF SessionInv

-----------------------------------------------------------------------------
LEMMA HoldFacts ==
    ASSUME SessionInv, NEW t \in Procs, NEW a \in 0..MaxAttempts, HoldWindow(t, a),
           loc[t].id \in Ids
    PROVE  ThreadTypes' /\ Moves(t) /\ pc'[t] = "write" /\ req'[t] = req[t]
           /\ loc'[t].id = loc[t].id /\ loc'[t].attempt = a /\ loc'[t].gone = loc[t].gone
  <1> DEFINE crc == IF req[t].idx \in Chunks THEN ses[loc[t].id].prev[req[t].idx] ELSE Nil
             r == [loc[t] EXCEPT !.attempt = a, !.prev = crc]
  <1>1. crc \in Nat \cup {Nil}
    BY ThreadFacts DEF SessionInv, TypeOK, Tables, Asked, SessionRecs, WindowRecs, PipelineRecs
  <1>2. pc \in [Procs -> Labels] /\ req \in [Procs -> Asked] /\ loc \in [Procs -> Locals]
    BY DEF SessionInv, ThreadTypes
  <1>3. loc' = [loc EXCEPT ![t] = r] /\ pc' = [pc EXCEPT ![t] = "write"] /\ req' = req
    BY <1>2 DEF HoldWindow, Goto
  <1>4. r \in Locals /\ r.id = loc[t].id /\ r.attempt = a /\ r.gone = loc[t].gone
    BY <1>1, <1>2 DEF Locals
  <1>5. "write" \in Labels
    BY DEF Labels
  <1> HIDE DEF r
  <1> QED BY <1>2, <1>3, <1>4, <1>5 DEF ThreadTypes, Moves

LEMMA ChunkStateKeeps ==
    ASSUME SessionInv, NEW t \in Procs, ChunkState(t)
    PROVE  SessionInv'
  <1>0. PICK id \in Ids : id = loc[t].id
    BY ThreadFacts DEF ChunkState, HasSession, Labels
  <1>1. /\ ses[id].state # "none" /\ ses[id].key \in Keys /\ SessionOK(id) /\ ThreadOK(t)
        /\ id \in Known /\ expired \subseteq Known /\ aged \subseteq Ids
    BY <1>0, ThreadFacts DEF ChunkState, HasSession, Labels, SessionInv, TypeOK
  <1>2. UNCHANGED <<byID, byKey, undone, aged, expired, object, locked>> /\ pc[t] = "chunk"
    BY DEF ChunkState
  <1>3. CASE HoldWindow(t, pipe[id].attempt) /\ UNCHANGED <<ses, win, pipe>>
    <2>1. pipe[id].attempt \in 0..MaxAttempts
      BY DEF SessionInv, TypeOK, SessionRecs, WindowRecs, PipelineRecs
    <2>2. ThreadTypes' /\ Moves(t) /\ pc'[t] = "write" /\ req'[t] = req[t]
          /\ loc'[t].id = id /\ loc'[t].attempt = pipe[id].attempt /\ loc'[t].gone = loc[t].gone
      BY <1>0, <1>3, <2>1, HoldFacts
    <2>3. ThreadOK(t)'
      BY <1>1, <1>2, <1>3, <2>1, <2>2, Params DEF ThreadOK, Known
    <2> QED BY <1>1, <1>2, <1>3, <2>2, <2>3, QuietKeeps
  <1>4. CASE /\ ses[id].state = "failed_retriable"
             /\ ses[id].attempt < MaxAttempts
             /\ StartAttempt(id, ses[id])
             /\ HoldWindow(t, ses[id].attempt)
    <2>1. ses[id] \in SessionRecs
      BY DEF SessionInv, TypeOK
    <2>2. /\ TypeOK' /\ SessionOK(id)'
          /\ ses'[id].state = "receiving" /\ ses'[id].key = ses[id].key
          /\ pipe'[id].attempt = ses[id].attempt
          /\ \A j \in Ids \ {id} : ses'[j] = ses[j] /\ win'[j] = win[j] /\ pipe'[j] = pipe[j]
      BY <1>1, <1>2, <1>4, <2>1, StartFacts
    <2>3. Touches(id)
      BY <2>2, <1>2 DEF Touches
    <2>4. ThreadTypes' /\ Moves(t) /\ pc'[t] = "write" /\ req'[t] = req[t]
          /\ loc'[t].id = id /\ loc'[t].attempt = ses[id].attempt /\ loc'[t].gone = loc[t].gone
      BY <1>0, <1>4, <2>1, HoldFacts DEF SessionRecs, WindowRecs, PipelineRecs
    <2>5. ThreadOK(t)'
      <3>1. id \in Known' /\ ses[id].attempt \in Nat
        BY <2>1, <2>2, Params DEF Known, SessionRecs, WindowRecs, PipelineRecs
      <3> QED BY <1>1, <1>2, <2>2, <2>4, <3>1 DEF ThreadOK
    <2>6. Advances(id)
      BY <1>1, <1>4, <2>1, <2>2 DEF Advances, SessionOK
    <2> QED BY <2>2, <2>3, <2>4, <2>5, <2>6, SessionStep
  <1>5. CASE Answer(t) /\ UNCHANGED <<ses, win, pipe>>
    BY <1>1, <1>2, <1>5, AnswerThread, QuietKeeps
  <1> QED BY <1>0, <1>3, <1>4, <1>5 DEF ChunkState

\* A panic loses the mutex of a session and ends the request.
LEMMA ChunkPanicsKeeps ==
    ASSUME SessionInv, NEW t \in Procs, ChunkPanics(t)
    PROVE  SessionInv'
  <1>1. loc[t].id \in Ids /\ expired \subseteq Known /\ aged \subseteq Ids
    BY ThreadFacts DEF ChunkPanics, HasSession, Labels, SessionInv, TypeOK
  <1>2. /\ UNCHANGED <<byID, byKey, ses, win, pipe, undone, aged, expired, object>>
        /\ Answer(t) /\ locked' \subseteq locked \cup Ids
    BY <1>1 DEF ChunkPanics
  <1> QED BY <1>1, <1>2, AnswerThread, QuietKeeps

\* The answer, or the way to it, once the checksum is known.
LEMMA CompareThread ==
    ASSUME SessionInv, NEW t \in Procs, NEW crc, Compare(t, crc), pc[t] = "write", ses' = ses,
           pipe' = pipe
    PROVE  ThreadTypes' /\ ThreadOK(t)' /\ Moves(t)
  <1>1. CASE Goto(t, "mismatch") /\ UNCHANGED <<req, loc>>
    <2>1. ThreadTypes' /\ Moves(t) /\ pc'[t] = "mismatch" /\ req'[t] = req[t] /\ loc'[t] = loc[t]
      BY <1>1, GotoThread DEF Labels
    <2>2. ThreadOK(t) /\ loc[t].id \in Known
      BY ThreadFacts DEF HasSession, Labels
    <2> QED BY <2>1, <2>2 DEF ThreadOK, Known
  <1>2. CASE Answer(t)
    BY <1>2, AnswerThread
  <1>3. CASE Goto(t, "settle") /\ UNCHANGED <<req, loc>>
    <2>1. ThreadTypes' /\ Moves(t) /\ pc'[t] = "settle" /\ req'[t] = req[t] /\ loc'[t] = loc[t]
      BY <1>3, GotoThread DEF Labels
    <2>2. ThreadOK(t) /\ loc[t].id \in Known
      BY ThreadFacts DEF HasSession, Labels
    <2> QED BY <2>1, <2>2 DEF ThreadOK, Known
  <1> QED BY <1>1, <1>2, <1>3 DEF Compare

LEMMA WriteChunkKeeps ==
    ASSUME SessionInv, NEW t \in Procs, WriteChunk(t)
    PROVE  SessionInv'
  <1>0. PICK id \in Ids : id = loc[t].id
    BY ThreadFacts DEF WriteChunk, HasSession, Labels
  <1>1. /\ ses[id].state # "none" /\ ses[id].key \in Keys /\ SessionOK(id) /\ ThreadOK(t)
        /\ id \in Known /\ expired \subseteq Known /\ aged \subseteq Ids
        /\ req[t] \in Asked /\ loc[t] \in Locals
    BY <1>0, ThreadFacts DEF WriteChunk, HasSession, Labels, SessionInv, TypeOK
  <1>2. UNCHANGED <<byID, byKey, ses, pipe, undone, aged, expired, object, locked>> /\ pc[t] = "write"
    BY DEF WriteChunk
  <1> DEFINE idx == req[t].idx
             body == Content[req[t].file][idx]
  <1>3. CASE /\ WindowGone(t)
             /\ Goto(t, "verdict")
             /\ loc' = [loc EXCEPT ![t].gone = TRUE]
             /\ UNCHANGED <<win, req>>
    <2>1. ThreadTypes' /\ Moves(t) /\ pc'[t] = "verdict" /\ req'[t] = req[t]
          /\ loc'[t].id = id /\ loc'[t].attempt = loc[t].attempt /\ loc'[t].gone
      BY <1>0, <1>3 DEF Goto, SessionInv, ThreadTypes, Moves, Labels, Locals
    <2>2. ThreadOK(t)'
      BY <1>0, <1>1, <1>2, <1>3, <2>1 DEF ThreadOK, WindowGone, Closed, Known
    <2> QED BY <1>1, <1>2, <1>3, <2>1, <2>2, QuietKeeps
  <1>4. CASE Compare(t, win[id].got[idx]) /\ UNCHANGED win
    BY <1>1, <1>2, <1>4, CompareThread, QuietKeeps
  <1>5. CASE idx \in Chunks /\ win' = [win EXCEPT ![id].got[idx] = body] /\ Compare(t, body)
    <2>1. body \in Nat /\ idx \in Chunks
      BY <1>1, <1>2, <1>5, SessionParams DEF ThreadOK
    <2> HIDE DEF body, idx
    <2>2. /\ win' \in [Ids -> WindowRecs]
          /\ \A j \in Ids \ {id} : win'[j] = win[j]
          /\ win'[id].sticky = win[id].sticky
      <3>1. win[id] \in WindowRecs
        BY DEF SessionInv, TypeOK
      <3>2. [win[id].got EXCEPT ![idx] = body] \in Tables
        BY <2>1, <3>1 DEF Tables, SessionRecs, WindowRecs, PipelineRecs
      <3>3. win' = [win EXCEPT ![id] = [win[id] EXCEPT !.got = [win[id].got EXCEPT ![idx] = body]]]
        BY <1>5, <3>1 DEF SessionInv, TypeOK
      <3>4. [win[id] EXCEPT !.got = [win[id].got EXCEPT ![idx] = body]] \in
              WindowRecs
        BY <3>1, <3>2 DEF SessionRecs, WindowRecs, PipelineRecs
      <3> QED BY <3>1, <3>3, <3>4 DEF SessionInv, TypeOK
    <2>3. TypeOK'
      BY <1>2, <2>2 DEF SessionInv, TypeOK
    <2>4. Touches(id) /\ SessionOK(id)' /\ Advances(id)
      BY <1>1, <1>2, <2>2, Params DEF Touches, SessionOK, Advances, Closed
    <2>5. ThreadTypes' /\ ThreadOK(t)' /\ Moves(t)
      BY <1>2, <1>5, CompareThread
    <2> QED BY <1>1, <1>2, <2>3, <2>4, <2>5, SessionStep
  <1>6. CASE Goto(t, "settle") /\ UNCHANGED <<win, req, loc>> /\ ~ WindowGone(t)
    <2>1. ThreadTypes' /\ Moves(t) /\ pc'[t] = "settle" /\ req'[t] = req[t] /\ loc'[t] = loc[t]
      BY <1>6, GotoThread DEF Labels
    <2>2. CASE loc[t].gone = FALSE
      <3>1. ThreadOK(t)'
        BY <1>0, <1>1, <1>2, <1>6, <2>1, <2>2 DEF ThreadOK, Known
      <3> QED BY <1>1, <1>2, <1>6, <2>1, <3>1, QuietKeeps
    <2>3. loc[t].gone = FALSE
      BY <1>1, <1>2, <1>6 DEF ThreadOK, Locals
    <2> QED BY <2>2, <2>3
  <1> QED BY <1>0, <1>3, <1>4, <1>5, <1>6 DEF WriteChunk

\* Waiting for a verdict after a window that was gone, and settling the answer.
LEMMA StragglerKeeps ==
    ASSUME SessionInv, NEW t \in Procs, ReadDone(t) \/ AwaitDone(t) \/ Settle(t)
    PROVE  SessionInv'
  <1>0. PICK id \in Ids : id = loc[t].id
    BY ThreadFacts DEF ReadDone, AwaitDone, Settle, HasSession, Labels
  <1>1. /\ SessionOK(id) /\ ThreadOK(t) /\ id \in Known /\ expired \subseteq Known
        /\ aged \subseteq Ids /\ loc[t] \in Locals /\ pipe[id].attempt \in 0..MaxAttempts
    BY <1>0, ThreadFacts DEF ReadDone, AwaitDone, Settle, HasSession, Labels, SessionInv, TypeOK, SessionRecs, WindowRecs, PipelineRecs
  <1>2. UNCHANGED <<byID, byKey, ses, win, pipe, undone, aged, expired, object, locked>>
    BY DEF ReadDone, AwaitDone, Settle
  <1>3. CASE ReadDone(t)
    <2>1. /\ pc[t] = "verdict" /\ Goto(t, "await") /\ UNCHANGED req
          /\ loc' = [loc EXCEPT ![t].waits = pipe[id].attempt]
      BY <1>0, <1>3 DEF ReadDone
    <2>2. ThreadTypes' /\ Moves(t) /\ pc'[t] = "await" /\ req'[t] = req[t]
          /\ loc'[t].id = id /\ loc'[t].attempt = loc[t].attempt /\ loc'[t].gone = loc[t].gone
          /\ loc'[t].waits = pipe[id].attempt
      BY <1>0, <1>1, <2>1 DEF Goto, SessionInv, ThreadTypes, Moves, Labels, Locals
    <2>3. ThreadOK(t)'
      BY <1>0, <1>1, <1>2, <2>1, <2>2, Params DEF ThreadOK, Known, Closed
    <2> QED BY <1>1, <1>2, <2>2, <2>3, QuietKeeps
  <1>4. CASE AwaitDone(t)
    <2>1. /\ pc[t] = "await" /\ Goto(t, "settle") /\ UNCHANGED <<req, loc>>
          /\ pipe[id].attempt = loc[t].waits => pipe[id].at \in {"recorded", "put"}
      BY <1>0, <1>4 DEF AwaitDone, Done
    <2>2. ThreadTypes' /\ Moves(t) /\ pc'[t] = "settle" /\ req'[t] = req[t] /\ loc'[t] = loc[t]
      BY <2>1, GotoThread DEF Labels
    <2>3. pipe[id].attempt = loc[t].attempt => loc[t].waits = loc[t].attempt /\ Closed(id)
      BY <1>0, <1>1, <2>1, Params DEF ThreadOK, Locals
    <2>4. win[id].sticky \in {"none", "closed", "aborted"}
      BY DEF SessionInv, TypeOK, SessionRecs, WindowRecs, PipelineRecs
    <2>5. ThreadOK(t)'
      BY <1>0, <1>1, <1>2, <2>1, <2>2, <2>3, <2>4 DEF ThreadOK, Known, SessionOK, Closed
    <2> QED BY <1>1, <1>2, <2>2, <2>5, QuietKeeps
  <1>5. CASE Settle(t)
    <2>1. Answer(t)
      BY <1>5 DEF Settle
    <2> QED BY <1>1, <1>2, <2>1, AnswerThread, QuietKeeps
  <1> QED BY <1>3, <1>4, <1>5

LEMMA MismatchKeeps ==
    ASSUME SessionInv, NEW t \in Procs, Mismatch(t)
    PROVE  SessionInv'
  <1>0. PICK id \in Ids : id = loc[t].id
    BY ThreadFacts DEF Mismatch, HasSession, Labels
  <1>1. /\ ses[id].state # "none" /\ ses[id].key \in Keys /\ SessionOK(id)
    BY <1>0, ThreadFacts DEF Mismatch, HasSession, Labels
  <1>2. /\ ses' = [ses EXCEPT ![id].state = "failed_permanent"]
        /\ win' = KilledWin(id) /\ Answer(t)
        /\ UNCHANGED <<byID, byKey, pipe, undone, aged, expired, object, locked>>
    BY <1>0 DEF Mismatch
  <1>3. /\ ses' \in [Ids -> SessionRecs]
        /\ \A j \in Ids \ {id} : ses'[j] = ses[j]
        /\ ses'[id].state = "failed_permanent"
        /\ ses'[id].key = ses[id].key /\ ses'[id].win = ses[id].win
        /\ ses'[id].attempt = ses[id].attempt
    <2>1. "failed_permanent" \in States
      BY DEF States
    <2> QED BY <1>2, <2>1, StateStep DEF SessionInv
  <1>4. TypeOK'
    BY <1>2, <1>3, KillFacts DEF SessionInv, TypeOK
  <1>5. Touches(id)
    BY <1>2, <1>3, KillFacts DEF Touches
  <1>6. SessionOK(id)'
    <2>1. pipe[id].at = "put" => ses[id].win /\ win[id].sticky # "closed"
      BY <1>1 DEF SessionOK
    <2>2. pipe[id].at = "put" => win'[id].sticky = "aborted"
      BY <1>2, <2>1, KillFacts DEF Closed
    <2> QED BY <1>1, <1>2, <1>3, <2>2 DEF SessionOK
  <1>7. Advances(id)
    BY <1>2, <1>3, KillFacts DEF Advances, Closed
  <1>8. ThreadTypes' /\ ThreadOK(t)' /\ Moves(t)
    BY <1>2, AnswerThread
  <1> QED BY <1>3, <1>4, <1>5, <1>6, <1>7, <1>8, SessionStep

LEMMA CompleteKeeps ==
    ASSUME SessionInv, NEW t \in Procs,
           CompleteCheck(t) \/ CompleteWait(t) \/ HangUp(t) \/ CompleteOutcome(t)
    PROVE  SessionInv'
  <1>0. PICK id \in Ids : id = loc[t].id
    BY ThreadFacts DEF CompleteCheck, CompleteWait, HangUp, CompleteOutcome, HasSession, Labels
  <1>1. /\ ThreadOK(t) /\ id \in Known /\ expired \subseteq Known
        /\ aged \subseteq Ids /\ loc[t] \in Locals /\ pipe[id].attempt \in 0..MaxAttempts
    BY <1>0, ThreadFacts
       DEF CompleteCheck, CompleteWait, HangUp, CompleteOutcome, HasSession, Labels, SessionInv, TypeOK, SessionRecs, WindowRecs, PipelineRecs
  <1>2. UNCHANGED <<byID, byKey, ses, win, pipe, undone, expired, object, locked>> /\ aged' \subseteq aged
    BY DEF CompleteCheck, CompleteWait, HangUp, CompleteOutcome
  <1>3. CASE Answer(t)
    BY <1>1, <1>2, <1>3, AnswerThread, QuietKeeps
  <1>4. ASSUME NEW label \in {"outcome", "complete", "remove"}, Goto(t, label), UNCHANGED <<req, loc>>
        PROVE  SessionInv'
    <2>1. ThreadTypes' /\ Moves(t) /\ pc'[t] = label /\ req'[t] = req[t] /\ loc'[t] = loc[t]
      BY <1>4, GotoThread DEF Labels
    <2>2. ThreadOK(t)'
      BY <1>0, <1>1, <1>2, <2>1 DEF ThreadOK, Known
    <2> QED BY <1>1, <1>2, <2>1, <2>2, QuietKeeps
  <1>5. CASE /\ loc' = [loc EXCEPT ![t].waits = pipe[id].attempt]
             /\ Goto(t, "completewait")
             /\ UNCHANGED req
    <2>1. ThreadTypes' /\ Moves(t) /\ pc'[t] = "completewait" /\ req'[t] = req[t]
          /\ loc'[t].id = id
      BY <1>0, <1>1, <1>5 DEF Goto, SessionInv, ThreadTypes, Moves, Labels, Locals
    <2>2. ThreadOK(t)'
      BY <1>0, <1>1, <1>2, <2>1 DEF ThreadOK, Known
    <2> QED BY <1>1, <1>2, <2>1, <2>2, QuietKeeps
  <1> QED BY <1>0, <1>3, <1>4, <1>5 DEF CompleteCheck, CompleteWait, HangUp, CompleteOutcome

LEMMA CollectorKeeps ==
    ASSUME SessionInv, Collect \/ Sweep
    PROVE  SessionInv'
  <1>1. GC \in Procs /\ byID \subseteq Known /\ expired \subseteq Known /\ aged \subseteq Ids
        /\ Known \subseteq Ids
    BY DEF Procs, SessionInv, SessionOK, Known, TypeOK
  <1>2. ThreadOK(GC)
    BY <1>1, ThreadFacts
  <1>3. CASE Collect
    <2>1. /\ UNCHANGED <<byID, byKey, ses, win, pipe, undone, aged, req, loc, object, locked>>
          /\ expired' \subseteq Known /\ Goto(GC, "sweep")
      BY <1>1, <1>3 DEF Collect
    <2>2. ThreadTypes' /\ Moves(GC) /\ pc'[GC] = "sweep" /\ req'[GC] = req[GC]
      BY <1>1, <2>1, GotoThread DEF Labels
    <2>3. ThreadOK(GC)'
      BY <1>2, <2>1, <2>2 DEF ThreadOK, HasSession
    <2> QED BY <1>1, <2>1, <2>2, <2>3, QuietKeeps
  <1>4. CASE Sweep
    <2>1. UNCHANGED <<byID, byKey, ses, win, pipe, undone, aged, req, expired, object, locked>>
      BY <1>4 DEF Sweep
    <2>2. ThreadTypes' /\ Moves(GC) /\ ThreadOK(GC)'
      <3>1. ASSUME NEW id \in expired, loc' = [loc EXCEPT ![GC].id = id], Goto(GC, "terminate")
            PROVE  ThreadTypes' /\ Moves(GC) /\ ThreadOK(GC)'
        <4>1. /\ ThreadTypes' /\ Moves(GC) /\ pc'[GC] = "terminate" /\ loc'[GC].id = id
              /\ req'[GC] = req[GC]
          BY <1>1, <2>1, <3>1 DEF Goto, SessionInv, ThreadTypes, Moves, Labels, Locals
        <4> QED BY <4>1, <1>1, <1>2, <2>1 DEF ThreadOK, Known
      <3>2. ASSUME Goto(GC, "idle"), loc' = [loc EXCEPT ![GC] = NoLocals]
            PROVE  ThreadTypes' /\ Moves(GC) /\ ThreadOK(GC)'
        <4>1. /\ ThreadTypes' /\ Moves(GC) /\ pc'[GC] = "idle"
              /\ req'[GC] = req[GC]
          BY <1>1, <2>1, <3>2, Params DEF Goto, SessionInv, ThreadTypes, Moves, Labels
        <4> QED BY <4>1, <1>2 DEF ThreadOK, HasSession
      <3> QED BY <1>4, <3>1, <3>2 DEF Sweep
    <2> QED BY <1>1, <2>1, <2>2, QuietKeeps
  <1> QED BY <1>3, <1>4

\* Nobody's step, and stuttering.
LEMMA BackgroundKeeps ==
    ASSUME SessionInv, UNCHANGED <<byID, byKey, ses, win, pipe, pc, req, loc, expired, object, locked>>,
           undone' \subseteq undone, aged' \subseteq Ids
    PROVE  SessionInv'
  <1>1. TypeOK' /\ Known' = Known
    BY DEF SessionInv, TypeOK, Known
  <1> QED BY <1>1 DEF SessionInv, ThreadTypes, SessionOK, ThreadOK, MapsAgree, Closed

LEMMA ConsumeKeeps ==
    ASSUME SessionInv, NEW id \in Ids, Consume(id)
    PROVE  SessionInv'
  <1>1. SessionOK(id) /\ pipe[id].at = "put" /\ ses[id].state # "none"
        /\ UNCHANGED <<byID, byKey, ses, pipe, undone, aged, pc, req, loc, expired, object, locked>>
    BY DEF Consume, SessionInv, SessionOK
  <1>2. /\ win' \in [Ids -> WindowRecs]
        /\ \A j \in Ids \ {id} : win'[j] = win[j]
        /\ win'[id].sticky = win[id].sticky
    <2> DEFINE w == [win[id] EXCEPT !.pos = win[id].pos + 1]
    <2>1. win \in [Ids -> WindowRecs] /\ win[id] \in WindowRecs /\ win' = [win EXCEPT ![id] = w]
      BY DEF SessionInv, TypeOK, Consume
    <2>2. win[id].pos + 1 \in 0..Total
      BY <2>1, Params DEF Consume, WindowRecs
    <2>3. w \in WindowRecs /\ w.sticky = win[id].sticky
      BY <2>1, <2>2 DEF WindowRecs
    <2> HIDE DEF w
    <2> QED BY <2>1, <2>3, Update
  <1>3. TypeOK'
    BY <1>1, <1>2 DEF SessionInv, TypeOK
  <1>4. Touches(id) /\ SessionOK(id)' /\ Advances(id)
    BY <1>1, <1>2, Params DEF Touches, SessionOK, Advances, Closed
  <1> QED BY <1>1, <1>3, <1>4, PipelineStep

\* The driver returns with a verdict.
LEMMA VerdictKeeps ==
    ASSUME SessionInv, NEW id \in Ids, NEW v \in {"ok", "retriable", "permanent"},
           NEW closes \in BOOLEAN, Verdict(id, v, closes), pipe[id].at = "put",
           object' \in [Paths -> Tables \cup {Nil}]
    PROVE  SessionInv'
  <1>1. SessionOK(id) /\ ses[id].state # "none"
        /\ UNCHANGED <<byID, byKey, ses, undone, aged, pc, req, loc, expired, locked>>
    BY DEF Verdict, SessionInv, SessionOK
  <1>2. /\ win' \in [Ids -> WindowRecs]
        /\ \A j \in Ids \ {id} : win'[j] = win[j]
        /\ Closed(id) => win'[id].sticky = win[id].sticky
    <2>1. \/ win' = win
          \/ ~ Closed(id) /\ win' = [win EXCEPT ![id].sticky = "closed"]
      BY Zenon DEF Verdict
    <2>2. TypeOK /\ win \in [Ids -> WindowRecs]
      BY DEF SessionInv, TypeOK
    <2> QED BY <2>1, <2>2, StickyStep
  <1>3. /\ pipe' \in [Ids -> PipelineRecs]
        /\ \A j \in Ids \ {id} : pipe'[j] = pipe[j]
        /\ pipe'[id].at = "returned" /\ pipe'[id].attempt = pipe[id].attempt
        /\ pipe'[id].verdict = v
    <2> DEFINE p == [pipe[id] EXCEPT !.at = "returned", !.verdict = v]
    <2>1. /\ pipe \in [Ids -> PipelineRecs] /\ pipe[id] \in PipelineRecs
          /\ pipe' = [pipe EXCEPT ![id] = p]
      BY DEF SessionInv, TypeOK, Verdict
    <2>2. p \in PipelineRecs /\ p.at = "returned" /\ p.attempt = pipe[id].attempt /\ p.verdict = v
      BY <2>1 DEF PipelineRecs
    <2> HIDE DEF p
    <2> QED BY <2>1, <2>2, Update
  <1>4. TypeOK'
    BY <1>1, <1>2, <1>3 DEF SessionInv, TypeOK
  <1>5. Touches(id) /\ SessionOK(id)' /\ Advances(id)
    BY <1>1, <1>2, <1>3 DEF Touches, SessionOK, Advances, Closed
  <1> QED BY <1>1, <1>4, <1>5, PipelineStep

LEMMA PutKeeps ==
    ASSUME SessionInv, NEW id \in Ids, PutReturns(id)
    PROVE  SessionInv'
  <1>1. CASE PutSucceeds(id)
    <2>1. pipe[id].at = "put" /\ Verdict(id, "ok", TRUE)
      BY <1>1 DEF PutSucceeds
    <2>2. object' \in [Paths -> Tables \cup {Nil}]
      <3>1. object \in [Paths -> Tables \cup {Nil}] /\ win[id].got \in Tables
            /\ ses[id].hash \in Files \cup {Nil}
        BY DEF SessionInv, TypeOK, SessionRecs, WindowRecs, PipelineRecs
      <3>2. \A f \in Files : Content[f] \in Tables
        BY SessionParams DEF Tables
      <3> QED BY <1>1, <3>1, <3>2 DEF PutSucceeds
    <2> QED BY <2>1, <2>2, VerdictKeeps
  <1>2. ASSUME NEW v \in {"retriable", "permanent"}, NEW closes \in BOOLEAN, PutFails(id, v, closes)
        PROVE  SessionInv'
    BY <1>2, VerdictKeeps DEF PutFails, SessionInv, TypeOK
  <1> QED BY <1>1, <1>2 DEF PutReturns

LEMMA HarvestKeeps ==
    ASSUME SessionInv, NEW id \in Ids, Harvest(id)
    PROVE  SessionInv'
  <1>1. SessionOK(id) /\ pipe[id].at = "returned" /\ ses[id].state # "none"
        /\ UNCHANGED <<byID, byKey, ses, win, undone, aged, pc, req, loc, expired, object, locked>>
    BY DEF Harvest, SessionInv, SessionOK
  <1>2. /\ pipe' \in [Ids -> PipelineRecs]
        /\ \A j \in Ids \ {id} : pipe'[j] = pipe[j]
        /\ pipe'[id].at = "harvested" /\ pipe'[id].attempt = pipe[id].attempt
        /\ pipe'[id].verdict = pipe[id].verdict
    <2> DEFINE p == [pipe[id] EXCEPT !.at = "harvested", !.table = win[id].got]
    <2>1. /\ pipe \in [Ids -> PipelineRecs] /\ pipe[id] \in PipelineRecs
          /\ pipe' = [pipe EXCEPT ![id] = p]
      BY DEF SessionInv, TypeOK, Harvest
    <2>2. win[id].got \in Tables
      BY DEF SessionInv, TypeOK, WindowRecs
    <2>3. /\ p \in PipelineRecs /\ p.at = "harvested" /\ p.attempt = pipe[id].attempt
          /\ p.verdict = pipe[id].verdict
      BY <2>1, <2>2 DEF PipelineRecs
    <2> HIDE DEF p
    <2> QED BY <2>1, <2>3, Update
  <1>3. TypeOK'
    BY <1>1, <1>2 DEF SessionInv, TypeOK
  <1>4. Touches(id) /\ SessionOK(id)' /\ Advances(id)
    BY <1>1, <1>2 DEF Touches, SessionOK, Advances, Closed
  <1> QED BY <1>1, <1>3, <1>4, PipelineStep

\* What finishAttempt makes of a session (session.go 411-437).
LEMMA FinishFacts ==
    ASSUME SessionInv, NEW id \in Ids, FinishAttempt(id)
    PROVE  /\ ses' \in [Ids -> SessionRecs]
           /\ \A j \in Ids \ {id} : ses'[j] = ses[j]
           /\ ses'[id].state = StateAfter(ses[id].state, pipe[id].verdict)
           /\ ses'[id].state \in {ses[id].state, "completed", "failed_permanent", "failed_retriable"}
           /\ ses'[id].state # ses[id].state => ses[id].state = "receiving" \/ ses'[id].state = "completed"
           /\ ses[id].state # "none" /\ ses'[id].state \notin {"none", "receiving"}
           /\ ses'[id].key = ses[id].key /\ ~ ses'[id].win
           /\ ses'[id].state = "failed_retriable" =>
                ses[id].state = "receiving" /\ ses'[id].attempt = ses[id].attempt + 1
  <1> DEFINE st == StateAfter(ses[id].state, pipe[id].verdict)
             a == AttemptAfter(ses[id].attempt, st)
  <1>1. /\ SessionOK(id) /\ pipe[id].at = "harvested" /\ ses[id].state # "none"
        /\ pipe[id].verdict \in {"ok", "retriable", "permanent"}
        /\ ses[id].state \in States /\ ses[id].state # "failed_retriable"
        /\ ses[id].attempt \in 0..MaxAttempts /\ pipe[id].table \in Tables
    BY DEF FinishAttempt, SessionInv, SessionOK, TypeOK, SessionRecs, WindowRecs, PipelineRecs
  <1>2. /\ st \in {ses[id].state, "completed", "failed_permanent", "failed_retriable"}
        /\ st \in States /\ st \notin {"none", "receiving"}
        /\ st # ses[id].state => ses[id].state = "receiving" \/ st = "completed"
        /\ st = "failed_retriable" => ses[id].state = "receiving"
    BY <1>1 DEF StateAfter, States
  <1>3. a \in 0..MaxAttempts /\ (st = "failed_retriable" => a = ses[id].attempt + 1)
    BY <1>1, <1>2, Params DEF AttemptAfter, SessionOK
  <1>4. ses' = [ses EXCEPT ![id].state = st, ![id].win = FALSE,
                           ![id].prev = pipe[id].table, ![id].attempt = a]
    BY DEF FinishAttempt
  <1> HIDE DEF st, a
  <1>5. ses[id] \in SessionRecs
    BY DEF SessionInv, TypeOK
  <1>6. /\ ses' \in [Ids -> SessionRecs]
        /\ \A j \in Ids \ {id} : ses'[j] = ses[j]
        /\ ses'[id].state = st /\ ses'[id].attempt = a /\ ses'[id].win = FALSE
        /\ ses'[id].key = ses[id].key
    <2> DEFINE s == [ses[id] EXCEPT !.state = st, !.win = FALSE, !.prev = pipe[id].table,
                                    !.attempt = a]
    <2>1. ses \in [Ids -> SessionRecs] /\ ses' = [ses EXCEPT ![id] = s]
      BY <1>4 DEF SessionInv, TypeOK
    <2>2. s \in SessionRecs /\ s.state = st /\ s.attempt = a /\ s.win = FALSE /\ s.key = ses[id].key
      BY <1>1, <1>2, <1>3, <1>5 DEF SessionRecs
    <2> HIDE DEF s
    <2> QED BY <2>1, <2>2, Update
  <1> QED BY <1>1, <1>2, <1>3, <1>6 DEF st

LEMMA FinishKeeps ==
    ASSUME SessionInv, NEW id \in Ids, FinishAttempt(id)
    PROVE  SessionInv'
  <1>1. SessionOK(id) /\ pipe[id].at = "harvested" /\ ses[id].state # "none"
        /\ UNCHANGED <<byID, byKey, pc, req, loc, expired, object, locked>>
        /\ pipe[id].attempt \in 0..MaxAttempts /\ ses[id].attempt \in 0..MaxAttempts
    BY DEF FinishAttempt, SessionInv, SessionOK, TypeOK, SessionRecs, WindowRecs, PipelineRecs
  <1>2. /\ win' \in [Ids -> WindowRecs]
        /\ \A j \in Ids \ {id} : win'[j] = win[j]
        /\ Closed(id) => win'[id].sticky = win[id].sticky
    <2>1. \/ win' = win
          \/ ~ Closed(id) /\ win' = [win EXCEPT ![id].sticky = "closed"]
      BY DEF FinishAttempt
    <2>2. TypeOK /\ win \in [Ids -> WindowRecs]
      BY DEF SessionInv, TypeOK
    <2> QED BY <2>1, <2>2, StickyStep
  <1>3. /\ pipe' \in [Ids -> PipelineRecs]
        /\ \A j \in Ids \ {id} : pipe'[j] = pipe[j]
        /\ pipe'[id].at = "recorded" /\ pipe'[id].attempt = pipe[id].attempt
    <2> DEFINE p == [pipe[id] EXCEPT !.at = "recorded"]
    <2>1. /\ pipe \in [Ids -> PipelineRecs] /\ pipe[id] \in PipelineRecs
          /\ pipe' = [pipe EXCEPT ![id] = p]
      BY DEF SessionInv, TypeOK, FinishAttempt
    <2>2. p \in PipelineRecs /\ p.at = "recorded" /\ p.attempt = pipe[id].attempt
      BY <2>1 DEF PipelineRecs
    <2> HIDE DEF p
    <2> QED BY <2>1, <2>2, Update
  <1>4. undone' \subseteq Ids \X (0..MaxAttempts) /\ aged' \subseteq Ids
    BY <1>1 DEF SessionInv, TypeOK, FinishAttempt
  <1>5. TypeOK'
    BY <1>1, <1>2, <1>3, <1>4, FinishFacts DEF SessionInv, TypeOK
  <1>6. Touches(id) /\ Advances(id)
    BY <1>1, <1>2, <1>3, FinishFacts DEF Touches, Advances, Closed
  <1>7. SessionOK(id)'
    BY <1>1, <1>3, FinishFacts DEF SessionOK
  <1> QED BY <1>1, <1>5, <1>6, <1>7, PipelineStep

-----------------------------------------------------------------------------
LEMMA NextKeeps == SessionInv /\ [Next]_vars => SessionInv'
  <1> SUFFICES ASSUME SessionInv, [Next]_vars PROVE SessionInv'
    OBVIOUS
  <1>1. ASSUME NEW t \in Threads, Requests(t) PROVE SessionInv'
    BY <1>1, RequestKeeps
  <1>2. ASSUME NEW t \in Threads, HangUp(t) \/ HandlerStep(t) PROVE SessionInv'
    BY <1>2, CreateKeeps, InsertKeeps, TerminateKeeps, RemoveKeeps, ChunkStateKeeps, ChunkPanicsKeeps,
       WriteChunkKeeps, StragglerKeeps, MismatchKeeps, CompleteKeeps DEF HandlerStep, Procs
  <1>3. CASE GCStep
    BY <1>3, CollectorKeeps, TerminateKeeps, RemoveKeeps DEF GCStep, Procs
  <1>4. ASSUME NEW id \in Ids, Consume(id) \/ PutReturns(id) \/ Harvest(id) \/ FinishAttempt(id)
        PROVE  SessionInv'
    BY <1>4, ConsumeKeeps, PutKeeps, HarvestKeeps, FinishKeeps
  <1>5. ASSUME NEW id \in Ids, Age(id) \/ \E a \in 0..MaxAttempts : CloseDone(id, a)
        PROVE  SessionInv'
    <2>1. /\ UNCHANGED <<byID, byKey, ses, win, pipe, pc, req, loc, expired, object, locked>>
          /\ undone' \subseteq undone /\ aged' \subseteq Ids
      BY <1>5 DEF Age, CloseDone, SessionInv, TypeOK
    <2> QED BY <2>1, BackgroundKeeps
  <1>6. CASE UNCHANGED vars
    <2>1. /\ UNCHANGED <<byID, byKey, ses, win, pipe, pc, req, loc, expired, object, locked>>
          /\ undone' \subseteq undone /\ aged' \subseteq Ids
      BY <1>6 DEF vars, SessionInv, TypeOK
    <2> QED BY <2>1, BackgroundKeeps
  <1> QED BY <1>1, <1>2, <1>3, <1>4, <1>5, <1>6 DEF Next, FinishSteps

LEMMA SessionInvHolds == Spec => []SessionInv
  BY InitKeeps, NextKeeps, PTL DEF Spec

\* The session's fields, its window, its pipeline, the maps and what the storage
\* holds are always well formed: no attempt is numbered past the bound, no
\* verdict is applied to a session that was never created.
THEOREM SessionTypes == Spec => []TypeOK
  <1>1. SessionInv => TypeOK
    BY DEF SessionInv
  <1> QED BY <1>1, SessionInvHolds, PTL

\* Whatever Inits, Aborts, Completes and the collector do between the two
\* critical sections of each, a key leads to a registered session of that key
\* (session.go 276-284, 361-364).
THEOREM KeysLeadToSessions == Spec => []MapsAgree
  <1>1. SessionInv => MapsAgree
    BY DEF SessionInv
  <1> QED BY <1>1, SessionInvHolds, PTL

\* A session never has two pipelines, and has a window exactly while one runs
\* (session.go 367-405, 407-437).  One that ended under its running upload has
\* aborted the window, so the driver is not left waiting in Read (252-274, 525-530).
THEOREM OnePipeline == Spec => []OneAttempt
  <1>1. SessionInv => OneAttempt
    BY DEF SessionInv, OneAttempt, SessionOK
  <1> QED BY <1>1, SessionInvHolds, PTL

\* A chunk that finds the window closed by a successful upload answers from the
\* recorded verdict (session.go 499-523): the wait cannot end in the gap between
\* the close of the window and the record.
THEOREM StragglersSeeVerdict == Spec => []StragglersAbsorbed
  <1>1. SessionInv => StragglersAbsorbed
    <2> SUFFICES ASSUME SessionInv, NEW t \in Threads,
                        pc[t] = "settle", loc[t].gone,
                        pipe[loc[t].id].attempt = loc[t].attempt,
                        win[loc[t].id].sticky = "closed"
                 PROVE  pipe[loc[t].id].at = "recorded"
      BY DEF StragglersAbsorbed
    <2>1. ThreadOK(t)
      BY DEF SessionInv, Procs
    <2> QED BY <2>1 DEF ThreadOK
  <1> QED BY <1>1, SessionInvHolds, PTL

\* What any step makes of a session's state.
LEMMA StateSteps ==
    ASSUME SessionInv, [Next]_vars, NEW id \in Ids, ses'[id].state # ses[id].state
    PROVE  \/ ses[id].state = "none"
           \/ ses[id].state = "receiving" /\ ses'[id].state # "none"
           \/ ses[id].state = "failed_retriable" /\ ses'[id].state = "receiving"
           \/ ses'[id].state = "completed"
           \/ /\ ses'[id].state = "failed_permanent"
              /\ \E t \in Threads : pc[t] = "mismatch" /\ pc'[t] = "idle" /\ loc[t].id = id
  <1>0. ses \in [Ids -> SessionRecs]
        /\ pc \in [Procs -> Labels]
    BY DEF SessionInv, TypeOK, ThreadTypes
  <1>1. CASE \E t \in Threads : Create(t)
    BY <1>0, <1>1 DEF Create, StartAttempt
  <1>2. CASE \E t \in Procs : Terminate(t)
    BY <1>0, <1>2 DEF Terminate
  <1>3. CASE \E t \in Threads : ChunkState(t)
    <2>1. PICK t \in Threads : ChunkState(t)
      BY <1>3
    <2>2. CASE ses' = ses
      BY <2>2
    <2>3. ASSUME StartAttempt(loc[t].id, ses[loc[t].id]), ses[loc[t].id].state = "failed_retriable"
          PROVE  ses[id].state = "failed_retriable" /\ ses'[id].state = "receiving"
      <3>1. loc[t].id \in Ids
        BY <2>1, ThreadFacts DEF ChunkState, HasSession, Labels, Procs
      <3> QED BY <1>0, <2>3, <3>1 DEF StartAttempt
    <2> QED BY <2>1, <2>2, <2>3 DEF ChunkState
  <1>4. CASE \E t \in Threads : Mismatch(t)
    <2>1. PICK t \in Threads : Mismatch(t)
      BY <1>4
    <2>2. loc[t].id = id /\ ses'[id].state = "failed_permanent"
      BY <1>0, <2>1 DEF Mismatch
    <2>3. pc[t] = "mismatch" /\ pc'[t] = "idle"
      BY <1>0, <2>1 DEF Mismatch, Answer, Procs
    <2> QED BY <2>2, <2>3
  <1>5. CASE \E j \in Ids : FinishAttempt(j)
    BY <1>5, FinishFacts
  <1>6. CASE ses' = ses
    BY <1>6
  <1>7. \/ ses' = ses
        \/ \E t \in Threads : Create(t) \/ ChunkState(t) \/ Mismatch(t)
        \/ \E t \in Procs : Terminate(t)
        \/ \E j \in Ids : FinishAttempt(j)
    <2>1. ASSUME NEW t \in Threads, Requests(t) PROVE ses' = ses
      <3>1. \A user \in Users, path \in Paths, hash \in Hashes :
              InitRequest(t, user, path, hash) => ses' = ses
        BY DEF InitRequest
      <3>2. \A user \in Users, id1 \in byID, idx \in Indices, file \in Files :
              ChunkRequest(t, user, id1, idx, file) => ses' = ses
        BY DEF ChunkRequest
      <3>3. \A user \in Users, id1 \in byID :
              CompleteRequest(t, user, id1) \/ StatusRequest(t, user, id1)
              \/ AbortRequest(t, user, id1) => ses' = ses
        BY DEF CompleteRequest, StatusRequest, AbortRequest
      <3> QED BY <2>1, <3>1, <3>2, <3>3 DEF Requests
    <2>2. ASSUME NEW t \in Threads, HangUp(t) \/ HandlerStep(t)
          PROVE  ses' = ses \/ Create(t) \/ ChunkState(t) \/ Mismatch(t) \/ Terminate(t)
      <3>1. /\ Insert(t) => ses' = ses
            /\ Remove(t) => ses' = ses
            /\ ChunkPanics(t) => ses' = ses
            /\ WriteChunk(t) => ses' = ses
        BY DEF Insert, Remove, ChunkPanics, WriteChunk
      <3>2. ReadDone(t) \/ AwaitDone(t) \/ Settle(t) => ses' = ses
        BY DEF ReadDone, AwaitDone, Settle
      <3>3. CompleteCheck(t) \/ CompleteWait(t) \/ CompleteOutcome(t) \/ HangUp(t) => ses' = ses
        BY DEF CompleteCheck, CompleteWait, CompleteOutcome, HangUp
      <3> QED BY <2>2, <3>1, <3>2, <3>3 DEF HandlerStep
    <2>3. GCStep => ses' = ses \/ Terminate(GC)
      BY DEF GCStep, Collect, Sweep, Remove
    <2>4. ASSUME NEW j \in Ids, Consume(j) \/ PutReturns(j) \/ FinishSteps(j) \/ Age(j)
          PROVE  ses' = ses \/ FinishAttempt(j)
      BY <2>4 DEF Consume, PutReturns, PutSucceeds, PutFails, Verdict, FinishSteps, Harvest,
                  CloseDone, Age
    <2>5. UNCHANGED vars => ses' = ses
      BY DEF vars
    <2> QED BY <2>1, <2>2, <2>3, <2>4, <2>5 DEF Next, Procs
  <1> QED BY <1>1, <1>2, <1>3, <1>4, <1>5, <1>6, <1>7

\* No late verdict, mismatch, kill or retry brings back a session that ended.
THEOREM EndIsFinal == Spec => EndedStaysEnded
  <1> DEFINE ended == {"completed", "failed_permanent", "aborted"}
             Step == \A id \in Ids : ses[id].state \in ended => ses'[id].state \in ended
  <1>1. SessionInv /\ [Next]_vars => [Step]_vars
    BY StateSteps
  <1> QED BY <1>1, SessionInvHolds, PTL DEF Spec, EndedStaysEnded

\* Recorded success is only ever overturned by a request that found its chunk
\* changed (session.go 525-533): never by an abort, the collector or a late verdict.
THEOREM SuccessIsKept == Spec => OnlyMismatchOverturns
  <1> DEFINE Step == \A id \in Ids :
               ses[id].state = "completed" /\ ses'[id].state # "completed"
               => \E t \in Threads : pc[t] = "mismatch" /\ pc'[t] = "idle" /\ loc[t].id = id
  <1>1. SessionInv /\ [Next]_vars => [Step]_vars
    BY StateSteps
  <1> QED BY <1>1, SessionInvHolds, PTL DEF Spec, OnlyMismatchOverturns
=============================================================================
