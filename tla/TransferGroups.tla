--------------------------- MODULE TransferGroups ---------------------------
(***************************************************************************)
(* Copies and moves between storages (internal/fs/copy_move.go) and the    *)
(* coordinator that counts the tasks of a destination and, when the last   *)
(* one reports, removes what was moved (internal/task_group).  Workers run *)
(* the tasks concurrently; every critical section of the coordinator is    *)
(* one action.  The task manager (tache) and the storages are external.    *)
(*                                                                         *)
(* An object stands for its path in the source tree and for the same path  *)
(* below the destination.  A group is a destination directory: Root, where *)
(* the requests go, or the counterpart of a source directory.              *)
(***************************************************************************)
EXTENDS Integers, FiniteSets

CONSTANTS
    Objects, Dirs,  \* the source tree
    Parent, Root,   \* Parent[o]: the directory of o, Root for what is requested
    Above,          \* Above[o]: o and the directories it is in
    Existing,       \* objects whose path is a file at the destination already
    Requests,       \* bound on the requests: <<kind, object, inline>>, each made once
    Slots,          \* bound on the tasks and inline requests: 1..k
    MaxRetry,       \* retries of a failed task by its manager
    MaxManual,      \* bound on retries by users
    MaxRestarts,    \* bound on restarts of the server
    Nil

Kinds == {"copy", "move", "merge"}

\* The last two facts say again what the recursion over Parent makes of Above: a
\* path order, in which every step up goes through a directory and its child.
ASSUME TreeAssumption ==
    /\ IsFiniteSet(Objects) /\ Dirs \subseteq Objects
    /\ Parent \in [Objects -> Dirs \cup {Root}] /\ Root \notin Objects
    /\ Above \in [Objects -> SUBSET Objects]
    /\ \A o \in Objects : Above[o] = {o} \cup (IF Parent[o] = Root THEN {} ELSE Above[Parent[o]])
    /\ \A o \in Objects : Parent[o] # Root => o \notin Above[Parent[o]]
    /\ Existing \subseteq Objects
    /\ \A o \in Objects : \A p \in Above[o] : Above[p] \subseteq Above[o]
    /\ \A o \in Objects : \A d \in Above[o] \ {o} :
         d \in Dirs /\ \E c \in Above[o] : Parent[c] = d

ASSUME TransferParams ==
    /\ Requests \subseteq Kinds \X {o \in Objects : Parent[o] = Root} \X BOOLEAN
    /\ IsFiniteSet(Slots) /\ Slots = 1..Cardinality(Slots)
    /\ MaxRetry \in Nat /\ MaxManual \in Nat /\ MaxRestarts \in Nat
    /\ Nil \notin Objects \cup {Root}

VARIABLES
    src,                          \* objects the source still has
    dst,                          \* per object: what is at its destination path
    pending, hasSuccess, payload, \* the coordinator; a group without tasks is gone
    task,                         \* the tasks and the requests run inline
    asked, manual, restarts,      \* what the bounds count
    faulty                        \* history: has anything failed

coordinator == <<pending, hasSuccess, payload>>
bounds      == <<asked, manual, restarts>>
vars        == <<src, dst, coordinator, task, bounds, faulty>>

Groups == Dirs \cup {Root}

Children(d) == {o \in Objects : Parent[o] = d}

Below(o) == {p \in Objects : o \in Above[p]}

\* What can be at a destination path: nothing, the file that was there before, the
\* object transferred, a part of it, or nothing again after an upload removed it.
Contents == {"none", "old", "new", "part", "gone"}

Present(o) == dst[o] \notin {"none", "gone"}

\* A task runs obj; todo are the objects left to hand on, cur the file uploaded.
\* Once it completes its group: visit are the objects left to verify, open the
\* directories under way and errs those in which something failed.
NoTask == [st |-> "none", obj |-> Nil, kind |-> "copy", inline |-> FALSE, group |-> Root,
           todo |-> {}, cur |-> Nil, ok |-> FALSE, tries |-> 0,
           visit |-> {}, open |-> {}, errs |-> {}]

Init ==
    /\ src = Objects
    /\ dst = [o \in Objects |-> IF o \in Existing THEN "old"
                                ELSE IF Below(o) \cap Existing # {} THEN "new" ELSE "none"]
    /\ pending = [g \in Groups |-> 0]
    /\ hasSuccess = [g \in Groups |-> FALSE]
    /\ payload = [g \in Groups |-> {}]
    /\ task = [n \in Slots |-> NoTask]
    /\ asked = {} /\ manual = 0 /\ restarts = 0
    /\ faulty = FALSE

-----------------------------------------------------------------------------
(***************************************************************************)
(* TaskGroupCoordinator.  A payload is a set: what a second entry of a     *)
(* path finds is that the source is gone.                                  *)
(***************************************************************************)
AddTask(g, p) ==
    /\ pending' = [pending EXCEPT ![g] = @ + 1]
    /\ payload' = [payload EXCEPT ![g] = @ \cup p]
    /\ UNCHANGED hasSuccess

AppendPayload(g, p) ==
    /\ payload' = [payload EXCEPT ![g] = @ \cup p]
    /\ UNCHANGED <<pending, hasSuccess>>

\* The task is finished, and kept for a retry of its object; an inline request returns.
Finished(n) ==
    IF task[n].inline THEN NoTask
    ELSE [NoTask EXCEPT !.st = "done", !.obj = task[n].obj, !.kind = task[n].kind]

\* The task that reported last runs the completion over the payloads.
Completing(n, p) ==
    [task[n] EXCEPT !.st = "removing", !.visit = p, !.ok = FALSE, !.tries = 0]

\* Mutant: the payloads of the group survive it.
DoneKeepsPayload(n) ==
    LET g == task[n].group
        success == hasSuccess[g] \/ task[n].ok IN
    \/ /\ pending[g] > 1
       /\ pending' = [pending EXCEPT ![g] = @ - 1]
       /\ hasSuccess' = [hasSuccess EXCEPT ![g] = success]
       /\ task' = [task EXCEPT ![n] = Finished(n)]
       /\ UNCHANGED payload
    \/ /\ pending[g] = 1
       /\ pending' = [pending EXCEPT ![g] = 0]
       /\ hasSuccess' = [hasSuccess EXCEPT ![g] = FALSE]
       /\ task' = [task EXCEPT ![n] = IF success THEN Completing(n, payload[g]) ELSE Finished(n)]
       /\ UNCHANGED payload

\* Done: the last task of a group with a success goes on to its completion.  The
\* group always has a task left: lines 60-62 are never needed (CountsExact).
Done(n) ==
    LET g == task[n].group
        success == hasSuccess[g] \/ task[n].ok IN
    \/ /\ pending[g] > 1
       /\ pending' = [pending EXCEPT ![g] = @ - 1]
       /\ hasSuccess' = [hasSuccess EXCEPT ![g] = success]
       /\ task' = [task EXCEPT ![n] = Finished(n)]
       /\ UNCHANGED payload
    \/ /\ pending[g] = 1
       /\ pending' = [pending EXCEPT ![g] = 0]
       /\ hasSuccess' = [hasSuccess EXCEPT ![g] = FALSE]
       /\ payload' = [payload EXCEPT ![g] = {}]
       /\ task' = [task EXCEPT ![n] = IF success THEN Completing(n, payload[g]) ELSE Finished(n)]

-----------------------------------------------------------------------------
(***************************************************************************)
(* transfer, between two storages: as a task, or inline in the request.    *)
(***************************************************************************)
Free == {n \in Slots : task[n].st = "none"}

\* Where the next task or inline request is kept.
NewSlot == CHOOSE n \in Free : TRUE

Transfer(kind, o, inline) ==
    /\ Free # {}
    /\ <<kind, o, inline>> \in Requests \ asked
    /\ asked' = asked \cup {<<kind, o, inline>>}
    /\ AddTask(Parent[o], {})
    /\ task' = [task EXCEPT ![NewSlot] =
         [NoTask EXCEPT !.st = IF inline THEN "running" ELSE IF kind = "move" THEN "added" ELSE "queued",
                        !.obj = o, !.kind = kind, !.inline = inline, !.group = Parent[o],
                        !.todo = IF inline THEN {o} ELSE {}]]
    /\ UNCHANGED <<src, dst, manual, restarts, faulty>>

\* Lines 258-259.
Append(n) ==
    /\ task[n].st = "added"
    /\ AppendPayload(task[n].group, {task[n].obj})
    /\ task' = [task EXCEPT ![n].st = "queued"]
    /\ UNCHANGED <<src, dst, bounds, faulty>>

\* Lines 246-248.
AppendInline(n) ==
    /\ task[n].st = "ending"
    /\ AppendPayload(task[n].group, {task[n].obj})
    /\ task' = [task EXCEPT ![n].st = "report"]
    /\ UNCHANGED <<src, dst, bounds, faulty>>

-----------------------------------------------------------------------------
(***************************************************************************)
(* RunWithNextTaskCallback.  A task hands the objects of a directory to    *)
(* new tasks of its group; an inline request runs them itself.             *)
(***************************************************************************)
\* Merging skips files that exist.
Listing(kind, d) ==
    {o \in Children(d) \cap src : ~ (kind = "merge" /\ o \notin Dirs /\ Present(o))}

\* The object is a directory: it is listed and made at the destination.
OpensDir(o) ==
    /\ o \in src \cap Dirs
    /\ dst[o] # "old"
    /\ dst' = [dst EXCEPT ![o] = "new"]

RunTask(n) ==
    LET t == task[n] IN
    /\ t.st = "queued"
    /\ \/ /\ OpensDir(t.obj)
          /\ task' = [task EXCEPT ![n].st = "running", ![n].todo = Listing(t.kind, t.obj)]
       \/ /\ t.obj \in src \ Dirs
          /\ task' = [task EXCEPT ![n].st = "uploading", ![n].cur = t.obj]
          /\ UNCHANGED dst
    /\ UNCHANGED <<src, coordinator, bounds, faulty>>

\* Mutant: the new task is not counted.
NextTaskUncounted(n, o) ==
    LET t == task[n] IN
    /\ t.st = "running" /\ ~ t.inline
    /\ o \in t.todo
    /\ Free # {}
    /\ task' = [task EXCEPT ![n].todo = @ \ {o},
                            ![NewSlot] = [NoTask EXCEPT !.st = "queued", !.obj = o, !.kind = t.kind,
                                                        !.group = t.group]]
    /\ UNCHANGED <<src, dst, coordinator, bounds, faulty>>

\* The callback of Run.  The task itself is still counted: nothing can happen
\* between AddTask and the manager's Add that tells them apart.
NextTask(n, o) ==
    LET t == task[n] IN
    /\ t.st = "running" /\ ~ t.inline
    /\ o \in t.todo
    /\ Free # {}
    /\ AddTask(t.group, {})
    /\ task' = [task EXCEPT ![n].todo = @ \ {o},
                            ![NewSlot] = [NoTask EXCEPT !.st = "queued", !.obj = o, !.kind = t.kind,
                                                        !.group = t.group]]
    /\ UNCHANGED <<src, dst, bounds, faulty>>

\* The callback of an inline request.
NextInline(n, o) ==
    LET t == task[n] IN
    /\ t.st = "running" /\ t.inline
    /\ o \in t.todo
    /\ \/ /\ OpensDir(o)
          /\ task' = [task EXCEPT ![n].todo = (@ \ {o}) \cup Listing(t.kind, o),
                                  ![n].ok = @ \/ Listing(t.kind, o) = {}]
       \/ /\ o \in src \ Dirs
          /\ task' = [task EXCEPT ![n].todo = @ \ {o}, ![n].st = "uploading", ![n].cur = o]
          /\ UNCHANGED dst
    /\ UNCHANGED <<src, coordinator, bounds, faulty>>

\* Mutant: an inline move reports and appends nothing.
AfterRunReports(n) == "report"

\* What follows the run: an inline move appends its payload first.
AfterRun(n) == IF task[n].inline /\ task[n].kind = "move" THEN "ending" ELSE "report"

AllHandedOn(n) ==
    /\ task[n].st = "running" /\ task[n].todo = {}
    /\ task' = [task EXCEPT ![n].st = AfterRun(n), ![n].ok = TRUE]
    /\ UNCHANGED <<src, dst, coordinator, bounds, faulty>>

\* The driver has created the file and not written all of it (Local.Put, with
\* os.Create); the drivers that publish whole objects never do this.
Appears(n) ==
    LET o == task[n].cur IN
    /\ task[n].st = "uploading" /\ dst[o] # "part"
    /\ dst' = [dst EXCEPT ![o] = "part"]
    /\ UNCHANGED <<src, coordinator, task, bounds, faulty>>

\* op.Put returns nil.
Uploaded(n) ==
    LET t == task[n] IN
    /\ t.st = "uploading"
    /\ dst' = [dst EXCEPT ![t.cur] = "new"]
    /\ task' = [task EXCEPT ![n].st = IF t.inline THEN "running" ELSE "report",
                            ![n].ok = TRUE, ![n].cur = Nil]
    /\ UNCHANGED <<src, coordinator, bounds, faulty>>

\* Mutant: one retry too many.
RetriesLeftOneMore(t) == ~ t.inline /\ t.tries <= MaxRetry

RetriesLeft(t) == ~ t.inline /\ t.tries < MaxRetry

\* What an upload that failed leaves of o.  op.Put cleans nothing up: what was there
\* before (which it may put back), the part that was written, or nothing, when it
\* removed an empty file first or the driver removes a cancelled upload's.
Leftovers(o) == {dst[o], "part"} \cup (IF Present(o) THEN {"gone"} ELSE {})

\* The run returns an error: a storage fails, the context ends, the object is gone or
\* its directory cannot be made.  The manager retries a task, which is SetRetry with a
\* positive count; what was uploaded before stays.
Fails(n) ==
    LET t == task[n] IN
    /\ t.st \in {"queued", "running", "uploading"}
    /\ task' = [task EXCEPT ![n] =
         IF RetriesLeft(t)
         THEN [t EXCEPT !.st = "queued", !.tries = @ + 1, !.todo = {}, !.cur = Nil]
         ELSE [t EXCEPT !.st = AfterRun(n), !.todo = {}, !.cur = Nil, !.ok = t.inline /\ @]]
    /\ IF t.st = "uploading"
       THEN \E v \in Leftovers(t.cur) : dst' = [dst EXCEPT ![t.cur] = v]
       ELSE UNCHANGED dst
    /\ faulty' = TRUE
    /\ UNCHANGED <<src, coordinator, bounds>>

\* Mutant: a failed task does not report.
ReportSuccess(n) ==
    /\ task[n].st = "report"
    /\ IF task[n].ok THEN Done(n) ELSE task' = [task EXCEPT ![n] = Finished(n)] /\ UNCHANGED coordinator
    /\ UNCHANGED <<src, dst, bounds, faulty>>

\* OnSucceeded, OnFailed, and line 249.
Report(n) ==
    /\ task[n].st = "report"
    /\ Done(n)
    /\ UNCHANGED <<src, dst, bounds, faulty>>

-----------------------------------------------------------------------------
(***************************************************************************)
(* HookAndRemove and verifyAndRemove, run by the task that reported last   *)
(* while new tasks of the same group may start.                            *)
(***************************************************************************)
\* The error a recursive call returns counts against the directory of its object.
ErrsWith(n, o) == task[n].errs \cup ({Parent[o]} \ {Root})

\* Only the presence of an object at the destination is verified.
Verified(o) == o \in src /\ Present(o)

\* Line 87 asks the destination whether it is a directory.
RemovedAtOnce(o) == o \notin Dirs \/ dst[o] = "old"

VerifyObject(n, o) ==
    /\ task[n].st = "removing" /\ o \in task[n].visit
    /\ Verified(o)
    /\ \/ /\ RemovedAtOnce(o)
          /\ src' = src \ Below(o)
          /\ task' = [task EXCEPT ![n].visit = @ \ {o}]
       \/ /\ ~ RemovedAtOnce(o)
          /\ task' = [task EXCEPT ![n].visit = (@ \ {o}) \cup (Children(o) \cap src),
                                  ![n].open = @ \cup {o}]
          /\ UNCHANGED src
    /\ UNCHANGED <<dst, coordinator, bounds, faulty>>

VerifyFails(n, o) ==
    /\ task[n].st = "removing" /\ o \in task[n].visit
    /\ task' = [task EXCEPT ![n].visit = @ \ {o}, ![n].errs = ErrsWith(n, o)]
    /\ faulty' = TRUE
    /\ UNCHANGED <<src, dst, coordinator, bounds>>

\* Every call for what is below d has returned.
Listed(n, d) ==
    /\ task[n].st = "removing" /\ d \in task[n].open
    /\ Below(d) \cap task[n].visit = {}
    /\ Below(d) \cap task[n].open = {d}

\* Mutant: errors below a directory do not matter.
RemoveDirAnyway(n, d) ==
    /\ Listed(n, d)
    /\ src' = src \ Below(d)
    /\ task' = [task EXCEPT ![n].open = @ \ {d}]
    /\ UNCHANGED <<dst, coordinator, bounds, faulty>>

RemoveDir(n, d) ==
    /\ Listed(n, d)
    /\ d \notin task[n].errs
    /\ src' = src \ Below(d)
    /\ task' = [task EXCEPT ![n].open = @ \ {d}]
    /\ UNCHANGED <<dst, coordinator, bounds, faulty>>

\* Something below failed, or the removal does.
KeepDir(n, d) ==
    /\ Listed(n, d)
    /\ task' = [task EXCEPT ![n].open = @ \ {d}, ![n].errs = ErrsWith(n, d)]
    /\ faulty' = TRUE
    /\ UNCHANGED <<src, dst, coordinator, bounds>>

HookReturns(n) ==
    /\ task[n].st = "removing"
    /\ task[n].visit = {} /\ task[n].open = {}
    /\ task' = [task EXCEPT ![n] = Finished(n)]
    /\ UNCHANGED <<src, dst, coordinator, bounds, faulty>>

-----------------------------------------------------------------------------
(***************************************************************************)
(* SetRetry with a count of zero: a user retries a task, or the manager    *)
(* restores it after a restart.  Either way the task joins the group of    *)
(* its own destination directory.                                          *)
(***************************************************************************)
Payload(n) == IF task[n].kind = "move" THEN {task[n].obj} ELSE {}

SetRetry(n) ==
    LET t == task[n] IN
    /\ AddTask(Parent[t.obj], Payload(n))
    /\ task' = [task EXCEPT ![n] = [NoTask EXCEPT !.st = "queued", !.obj = t.obj, !.kind = t.kind,
                                                  !.group = Parent[t.obj]]]
    /\ UNCHANGED <<src, dst, asked, restarts, faulty>>

RetryByUser(n) ==
    /\ task[n].st = "done"
    /\ manual < MaxManual
    /\ manual' = manual + 1
    /\ SetRetry(n)

Restore(n) ==
    /\ task[n].st = "restored"
    /\ SetRetry(n)
    /\ UNCHANGED manual

\* The coordinator is lost, and so are inline requests and tasks not given to the
\* manager yet.  The end of a run may or may not have been persisted.
AfterRestart(t, persisted) ==
    LET again == [NoTask EXCEPT !.obj = t.obj, !.kind = t.kind] IN
    IF t.inline \/ t.st \in {"none", "added"} THEN NoTask
    ELSE IF t.st = "done" \/ (t.st \in {"report", "removing"} /\ persisted)
         THEN [again EXCEPT !.st = "done"]
         ELSE [again EXCEPT !.st = "restored"]

Restart ==
    /\ restarts < MaxRestarts
    /\ restarts' = restarts + 1
    /\ pending' = [g \in Groups |-> 0]
    /\ hasSuccess' = [g \in Groups |-> FALSE]
    /\ payload' = [g \in Groups |-> {}]
    /\ \E persisted \in SUBSET Slots : task' = [n \in Slots |-> AfterRestart(task[n], n \in persisted)]
    /\ faulty' = TRUE
    /\ UNCHANGED <<src, dst, asked, manual>>

-----------------------------------------------------------------------------
\* The goroutine that runs n.
Step(n) ==
    \/ Append(n) \/ AppendInline(n) \/ RunTask(n) \/ AllHandedOn(n) \/ Appears(n) \/ Uploaded(n) \/ Fails(n)
    \/ \E o \in task[n].todo : NextTask(n, o) \/ NextInline(n, o)
    \/ Report(n)
    \/ \E o \in task[n].visit : VerifyObject(n, o) \/ VerifyFails(n, o)
    \/ \E d \in task[n].open : RemoveDir(n, d) \/ KeepDir(n, d)
    \/ HookReturns(n)
    \/ Restore(n)

Next ==
    \/ \E r \in Requests : Transfer(r[1], r[2], r[3])
    \/ \E n \in Slots : Step(n) \/ RetryByUser(n)
    \/ Restart

Spec == Init /\ [][Next]_vars

\* Workers run their tasks and the manager restores them.  Nobody has to make a
\* request or a retry.
Fairness == \A n \in Slots : WF_vars(Step(n))

FairSpec == Spec /\ Fairness

-----------------------------------------------------------------------------
Counted == {"added", "queued", "running", "uploading", "ending", "report"}

Stages == Counted \cup {"none", "removing", "done", "restored"}

Tasks == [st : Stages, obj : Objects \cup {Nil}, kind : Kinds, inline : BOOLEAN,
          group : Groups, todo : SUBSET Objects, cur : Objects \cup {Nil},
          ok : BOOLEAN, tries : 0..MaxRetry, visit : SUBSET Objects,
          open : SUBSET Dirs, errs : SUBSET Dirs]

TypeOK ==
    /\ src \subseteq Objects
    /\ dst \in [Objects -> Contents]
    /\ pending \in [Groups -> Nat]
    /\ hasSuccess \in [Groups -> BOOLEAN]
    /\ payload \in [Groups -> SUBSET Objects]
    /\ task \in [Slots -> Tasks]
    /\ \A n \in Slots : task[n].st # "none" => task[n].obj \in Objects
    /\ asked \subseteq Requests /\ manual \in 0..MaxManual /\ restarts \in 0..MaxRestarts
    /\ faulty \in BOOLEAN

\* A group's count is the number of its tasks that will still report, across
\* retries by the manager, by users and after a restart (group.go 35-82,
\* copy_move.go 73, 83-103, 229).  One too many and the completion never runs;
\* one too few and it runs while a task still reads its source.
CountsExact ==
    \A g \in Groups :
        pending[g] = Cardinality({n \in Slots : task[n].group = g /\ task[n].st \in Counted})

\* An upload of o has written over the destination and has not succeeded since.
Torn(o) == dst[o] \in {"part", "gone"}

\* Exempt is a file whose path, or a directory's of it, was a file at the destination
\* already: verifyAndRemove only looks whether something is there (transfer.go 81-92).
MovedFile(o) == o \notin src /\ o \notin Dirs /\ Above[o] \cap Existing = {}

\* A moved file that is gone from the source is whole at the destination, or an
\* upload of it has failed half way or is under way: no order of tasks, retries,
\* restarts and failed verifications removes what was never uploaded, although the
\* task that removes it is seldom the one that moved it.  And only what a move
\* request names, or contains, is ever removed: copies that share the group of a
\* move, or are retried in it, keep their sources (group.go 57-82, transfer.go 75-118).
NothingLost ==
    \A o \in Objects \ src :
        /\ MovedFile(o) => dst[o] = "new" \/ Torn(o)
        /\ \E r \in Requests : r[1] = "move" /\ r[2] \in Above[o]

\* What "verify" promises before it removes (transfer.go:95, 111): once no upload of
\* a file is under way, a file gone from the source is whole at the destination.
\* The code does not do this: a part passes for the file.
MovedWhole ==
    \A o \in Objects : MovedFile(o) /\ ~ (\E n \in Slots : task[n].cur = o) => dst[o] = "new"

\* A group without tasks has left nothing behind that a later group of the same
\* destination would inherit: no payload is appended after the completion, none
\* survives it (group.go 67-72, copy_move.go 246-259).
NoStalePayload ==
    \A g \in Groups : pending[g] = 0 => payload[g] = {} /\ ~ hasSuccess[g]

Completes(n, g) == task[n].st = "removing" /\ task[n].group = g

\* No move is forgotten: if nothing has failed, then once its group has no tasks and
\* no completion under way, the source of every move requested is gone, although the
\* task that completes the group is seldom the one that moved it (group.go 54-82,
\* copy_move.go 246-259).
NoMoveForgotten ==
    ~ faulty /\ pending[Root] = 0 /\ ~ (\E n \in Slots : Completes(n, Root))
        => \A r \in asked : r[1] = "move" => r[2] \notin src

\* The completion of a group deals with its payloads, all of them and no others.
CompletionsExact == NoStalePayload /\ NoMoveForgotten

\* Every group completes: once requests and retries stop, nothing is counted.
GroupsDrain == <>[](\A g \in Groups : pending[g] = 0)

\* A move during which nothing fails ends with its source removed, whatever else
\* goes to the same destination.
MovedAway ==
    \A r \in Requests : r[1] = "move" => (r \in asked ~> r[2] \notin src \/ faulty)
=============================================================================
