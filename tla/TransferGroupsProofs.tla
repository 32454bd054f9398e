------------------------ MODULE TransferGroupsProofs ------------------------
(***************************************************************************)
(* The safety of copies and moves for every source tree, every set of      *)
(* requests and every number of tasks, retries and restarts.  The counts   *)
(* of the coordinator are exact whatever the tasks do; what the completion *)
(* may remove follows from what is known of the task that runs it, and     *)
(* that no move is forgotten from where each move is on its way.           *)
(***************************************************************************)
EXTENDS TransferGroups, FiniteSetTheorems, TLAPS

\* The tasks of a group that will still report.
CountedIn(g) == {n \in Slots : task[n].group = g /\ task[n].st \in Counted}

\* A move request names the object or a directory it is in.
Moved(o) == \E r \in Requests : r[1] = "move" /\ r[2] \in Above[o]

\* A task before its completion.
RecOK(t) ==
    /\ t.st # "none" => t.obj \in Objects
    /\ t.st # "none" /\ t.kind = "move" => Moved(t.obj)
    /\ t.st = "added" \/ (t.st # "none" /\ t.inline) => t.group = Parent[t.obj]
    /\ t.st \in {"added", "ending"} => t.kind = "move"
    /\ t.st = "ending" => t.inline
    /\ t.st = "running" /\ ~ t.inline => t.todo \subseteq Children(t.obj)
    /\ t.st = "uploading" => t.cur \in Objects
    /\ t.st # "removing" => t.visit = {} /\ t.open = {} /\ t.errs = {}

TypeInv == TypeOK /\ \A n \in Slots : RecOK(task[n])

\* The payloads of a group are moved objects of its directory.
PayloadOK == \A g \in Groups : \A o \in payload[g] : Parent[o] = g /\ Moved(o)

GroupInv == TypeInv /\ CountsExact /\ NoStalePayload /\ PayloadOK

\* The walk of a completion: what it has reached lies below the group's directory
\* under directories still open, and each object is either to be visited or open.
WalkOK(t) ==
    /\ t.visit \cap t.open = {}
    /\ \A v \in t.visit \cup t.open :
         /\ Moved(v)
         /\ Parent[v] = t.group \/ Parent[v] \in t.open
         /\ t.group # Root => v \notin Above[t.group]

\* The file may be removed: the destination has it or what an upload left of it, or
\* something of its name or of a directory of its name was a file there before.
Safe(p) == p \in Dirs \/ Above[p] \cap Existing # {} \/ dst[p] = "new" \/ Torn(p)

\* A file below an open directory is safe, is still to be visited, or lies below
\* an open directory in which something failed.
Covered(t, d) ==
    \A p \in Below(d) \cap src :
        \/ Safe(p)
        \/ \E v \in t.visit : d \in Above[v] /\ v \in Above[p]
        \/ \E e \in t.open \cap t.errs : d \in Above[e] /\ e \in Above[p]

\* A directory that is gone is gone with all that was in it.
SourceClosed == \A o \in Objects \ src : Below(o) \cap src = {}

\* Only what was there before is not the transferred object.
OldExisted == \A o \in Objects : dst[o] = "old" => o \in Existing

RemovalInv ==
    /\ \A n \in Slots : WalkOK(task[n]) /\ \A d \in task[n].open : Covered(task[n], d)
    /\ SourceClosed
    /\ OldExisted
    /\ NothingLost

-----------------------------------------------------------------------------
\* One slot is written.
LEMMA OneTask ==
  ASSUME TypeInv, NEW n \in Slots, NEW r \in Tasks, RecOK(r), task' = [task EXCEPT ![n] = r]
  PROVE  /\ task' \in [Slots -> Tasks]
         /\ task'[n] = r
         /\ \A m \in Slots \ {n} : task'[m] = task[m]
         /\ \A m \in Slots : RecOK(task'[m])
  <1>1. task \in [Slots -> Tasks]
    BY DEF TypeInv, TypeOK
  <1>2. /\ task' \in [Slots -> Tasks] /\ task'[n] = r
        /\ \A m \in Slots \ {n} : task'[m] = task[m]
    BY <1>1
  <1>3. \A m \in Slots : RecOK(task'[m])
    <2> TAKE m \in Slots
    <2>1. RecOK(task[m])
      BY DEF TypeInv
    <2> QED BY <1>2, <2>1
  <1> QED BY <1>2, <1>3

LEMMA NoTaskFacts ==
  NoTask \in Tasks /\ NoTask.st = "none" /\ RecOK(NoTask) /\ WalkOK(NoTask) /\ NoTask.open = {}
  <1>1. NoTask \in Tasks
    BY TransferParams DEF NoTask, Tasks, Stages, Counted, Kinds, Groups
  <1> QED BY <1>1 DEF NoTask, RecOK, WalkOK

\* The counts, when slots keep their standing or one of them changes it.
SameCount(m) ==
    task'[m].group = task[m].group /\ (task'[m].st \in Counted <=> task[m].st \in Counted)

LEMMA CountedFinite ==
  ASSUME NEW g
  PROVE  IsFiniteSet(CountedIn(g)) /\ Cardinality(CountedIn(g)) \in Nat
  BY TransferParams, FS_Subset, FS_CardinalityType DEF CountedIn

LEMMA CountsKept ==
  ASSUME CountsExact, UNCHANGED pending,
         \A m \in Slots : \/ SameCount(m)
                          \/ task[m].st \notin Counted /\ task'[m].st \notin Counted
  PROVE  CountsExact'
  <1>1. \A g \in Groups : CountedIn(g)' = CountedIn(g)
    BY DEF CountedIn, SameCount
  <1>2. \A g \in Groups : pending[g] = Cardinality(CountedIn(g))
    BY DEF CountsExact, CountedIn
  <1>3. \A g \in Groups : pending'[g] = Cardinality(CountedIn(g)')
    BY <1>1, <1>2
  <1> QED BY <1>3 DEF CountsExact, CountedIn

LEMMA CountsJoin ==
  ASSUME CountsExact, pending \in [Groups -> Nat], NEW n \in Slots, NEW h \in Groups,
         pending' = [pending EXCEPT ![h] = @ + 1],
         \A m \in Slots \ {n} : SameCount(m),
         task[n].st \notin Counted, task'[n].st \in Counted, task'[n].group = h
  PROVE  CountsExact'
  <1>1. ASSUME NEW g \in Groups PROVE pending'[g] = Cardinality(CountedIn(g)')
    <2>1. pending[g] = Cardinality(CountedIn(g)) /\ IsFiniteSet(CountedIn(g)) /\ n \notin CountedIn(g)
      BY CountedFinite DEF CountsExact, CountedIn
    <2>2. CASE g = h
      <3>1. CountedIn(g)' = CountedIn(g) \cup {n}
        BY <2>2 DEF CountedIn, SameCount
      <3>2. Cardinality(CountedIn(g)') = Cardinality(CountedIn(g)) + 1
        BY <2>1, <3>1, FS_AddElement
      <3> QED BY <2>1, <2>2, <3>2
    <2>3. CASE g # h
      <3>1. CountedIn(g)' = CountedIn(g)
        BY <2>3 DEF CountedIn, SameCount
      <3> QED BY <2>1, <2>3, <3>1
    <2> QED BY <2>2, <2>3
  <1> QED BY <1>1 DEF CountsExact, CountedIn

LEMMA CountsLeave ==
  ASSUME CountsExact, pending \in [Groups -> Nat], NEW n \in Slots, NEW h \in Groups,
         pending' = [pending EXCEPT ![h] = @ - 1],
         \A m \in Slots \ {n} : SameCount(m),
         task[n].st \in Counted, task[n].group = h, task'[n].st \notin Counted
  PROVE  CountsExact'
  <1>1. ASSUME NEW g \in Groups PROVE pending'[g] = Cardinality(CountedIn(g)')
    <2>1. pending[g] = Cardinality(CountedIn(g)) /\ IsFiniteSet(CountedIn(g))
      BY CountedFinite DEF CountsExact, CountedIn
    <2>2. CASE g = h
      <3>1. CountedIn(g)' = CountedIn(g) \ {n} /\ n \in CountedIn(g)
        BY <2>2 DEF CountedIn, SameCount
      <3>2. Cardinality(CountedIn(g)') = Cardinality(CountedIn(g)) - 1
        BY <2>1, <3>1, FS_RemoveElement
      <3> QED BY <2>1, <2>2, <3>2
    <2>3. CASE g # h
      <3>1. CountedIn(g)' = CountedIn(g)
        BY <2>3 DEF CountedIn, SameCount
      <3> QED BY <2>1, <2>3, <3>1
    <2> QED BY <2>2, <2>3
  <1> QED BY <1>1 DEF CountsExact, CountedIn

\* A task that will still report is counted.
LEMMA CountedPending ==
  ASSUME CountsExact, NEW n \in Slots, task[n].st \in Counted, task[n].group \in Groups
  PROVE  pending[task[n].group] # 0
  <1> DEFINE g == task[n].group
  <1>1. n \in CountedIn(g) /\ pending[g] = Cardinality(CountedIn(g))
    BY DEF CountedIn, CountsExact
  <1>2. IsFiniteSet(CountedIn(g))
    BY CountedFinite
  <1>3. Cardinality(CountedIn(g)) # 0
    BY <1>1, <1>2, FS_EmptySet
  <1> QED BY <1>1, <1>3

-----------------------------------------------------------------------------
\* What a worker does to its own task before it reports.
Works(n) == RunTask(n) \/ AllHandedOn(n) \/ Appears(n) \/ Uploaded(n) \/ Fails(n)
            \/ \E o \in task[n].todo : NextInline(n, o)

LEMMA ListingType == \A k, d : Listing(k, d) \subseteq Children(d) /\ Children(d) \subseteq Objects
  BY DEF Listing, Children

LEMMA WorkerRec ==
  ASSUME TypeInv, NEW n \in Slots, Works(n)
  PROVE  \E r \in Tasks :
           /\ task' = [task EXCEPT ![n] = r] /\ RecOK(r)
           /\ r.group = task[n].group /\ r.st \in Counted /\ task[n].st \in Counted
           /\ r.visit = {} /\ r.open = {}
  <1> DEFINE t == task[n]
  <1>0. t \in Tasks /\ RecOK(t) /\ task \in [Slots -> Tasks]
    BY DEF TypeInv, TypeOK
  <1>1. CASE RunTask(n)
    <2>1. CASE task' = [task EXCEPT ![n].st = "running", ![n].todo = Listing(t.kind, t.obj)]
      <3> DEFINE r == [t EXCEPT !.st = "running", !.todo = Listing(t.kind, t.obj)]
      <3>1. task' = [task EXCEPT ![n] = r] /\ t.st = "queued"
        BY <1>0, <1>1, <2>1 DEF RunTask
      <3>2. r \in Tasks /\ r.group = t.group /\ r.st = "running" /\ r.visit = t.visit /\ r.open = t.open
            /\ r.errs = t.errs /\ r.obj = t.obj /\ r.kind = t.kind /\ r.inline = t.inline
            /\ r.todo = Listing(t.kind, t.obj)
        BY <1>0, ListingType DEF Tasks, Stages, Counted
      <3> HIDE DEF r
      <3>3. RecOK(r)
        BY <1>0, <3>1, <3>2, ListingType DEF RecOK
      <3> QED BY <1>0, <3>1, <3>2, <3>3 DEF Counted, RecOK
    <2>2. CASE task' = [task EXCEPT ![n].st = "uploading", ![n].cur = t.obj]
      <3> DEFINE r == [t EXCEPT !.st = "uploading", !.cur = t.obj]
      <3>1. task' = [task EXCEPT ![n] = r] /\ t.st = "queued"
        BY <1>0, <1>1, <2>2 DEF RunTask
      <3>2. r \in Tasks /\ r.group = t.group /\ r.st = "uploading" /\ r.visit = t.visit /\ r.open = t.open
            /\ r.errs = t.errs /\ r.obj = t.obj /\ r.kind = t.kind /\ r.inline = t.inline
            /\ r.cur = t.obj
        BY <1>0 DEF Tasks, Stages, Counted
      <3> HIDE DEF r
      <3>3. RecOK(r)
        BY <1>0, <3>1, <3>2 DEF RecOK
      <3> QED BY <1>0, <3>1, <3>2, <3>3 DEF Counted, RecOK
    <2> QED BY <1>1, <2>1, <2>2 DEF RunTask
  <1>2. CASE AllHandedOn(n)
    <2> DEFINE r == [t EXCEPT !.st = AfterRun(n), !.ok = TRUE]
    <2>1. task' = [task EXCEPT ![n] = r] /\ t.st = "running"
      BY <1>0, <1>2 DEF AllHandedOn
    <2>2. AfterRun(n) \in {"ending", "report"} /\ (AfterRun(n) = "ending" => t.inline /\ t.kind = "move")
      BY DEF AfterRun
    <2>3. r \in Tasks /\ r.group = t.group /\ r.st = AfterRun(n) /\ r.visit = t.visit /\ r.open = t.open
          /\ r.errs = t.errs /\ r.obj = t.obj /\ r.kind = t.kind /\ r.inline = t.inline
      BY <1>0, <2>2 DEF Tasks, Stages, Counted
    <2> HIDE DEF r
    <2>4. RecOK(r)
      BY <1>0, <2>1, <2>2, <2>3 DEF RecOK
    <2> QED BY <1>0, <2>1, <2>2, <2>3, <2>4 DEF Counted, RecOK
  <1>3. CASE Uploaded(n)
    <2> DEFINE r == [t EXCEPT !.st = IF t.inline THEN "running" ELSE "report", !.ok = TRUE, !.cur = Nil]
    <2>1. task' = [task EXCEPT ![n] = r] /\ t.st = "uploading"
      BY <1>0, <1>3 DEF Uploaded
    <2>3. r \in Tasks /\ r.group = t.group /\ r.st = (IF t.inline THEN "running" ELSE "report")
          /\ r.visit = t.visit /\ r.open = t.open
          /\ r.errs = t.errs /\ r.obj = t.obj /\ r.kind = t.kind /\ r.inline = t.inline
      BY <1>0 DEF Tasks, Stages, Counted
    <2> HIDE DEF r
    <2>4. RecOK(r)
      BY <1>0, <2>1, <2>3 DEF RecOK
    <2> QED BY <1>0, <2>1, <2>3, <2>4 DEF Counted, RecOK
  <1>4. CASE Fails(n)
    <2>0. t.st \in {"queued", "running", "uploading"}
      BY <1>4 DEF Fails
    <2>1. CASE RetriesLeft(t)
      <3> DEFINE r == [t EXCEPT !.st = "queued", !.tries = @ + 1, !.todo = {}, !.cur = Nil]
      <3>1. task' = [task EXCEPT ![n] = r]
        BY <1>4, <2>1 DEF Fails
      <3>2. t.tries + 1 \in 0..MaxRetry
        BY <1>0, <2>1, TransferParams DEF Tasks, RetriesLeft
      <3>3. r \in Tasks /\ r.group = t.group /\ r.st = "queued" /\ r.visit = t.visit /\ r.open = t.open
            /\ r.errs = t.errs /\ r.obj = t.obj /\ r.kind = t.kind /\ r.inline = t.inline
        BY <1>0, <3>2 DEF Tasks, Stages, Counted
      <3> HIDE DEF r
      <3>4. RecOK(r)
        BY <1>0, <2>0, <3>3 DEF RecOK
      <3> QED BY <1>0, <2>0, <3>1, <3>3, <3>4 DEF Counted, RecOK
    <2>2. CASE ~ RetriesLeft(t)
      <3> DEFINE k == t.inline /\ t.ok
                 r == [t EXCEPT !.st = AfterRun(n), !.todo = {}, !.cur = Nil, !.ok = k]
      <3>1. task' = [task EXCEPT ![n] = r]
        BY <1>4, <2>2 DEF Fails
      <3>2. k \in BOOLEAN
        OBVIOUS
      <3> HIDE DEF k
      <3>3. AfterRun(n) \in {"ending", "report"} /\ (AfterRun(n) = "ending" => t.inline /\ t.kind = "move")
        BY DEF AfterRun
      <3>4. r \in Tasks /\ r.group = t.group /\ r.st = AfterRun(n) /\ r.visit = t.visit /\ r.open = t.open
            /\ r.errs = t.errs /\ r.obj = t.obj /\ r.kind = t.kind /\ r.inline = t.inline
        BY <1>0, <3>2, <3>3 DEF Tasks, Stages, Counted
      <3> HIDE DEF r
      <3>5. RecOK(r)
        BY <1>0, <2>0, <3>3, <3>4 DEF RecOK
      <3> QED BY <1>0, <2>0, <3>1, <3>3, <3>4, <3>5 DEF Counted, RecOK
    <2> QED BY <2>1, <2>2
  <1>5. ASSUME NEW o \in task[n].todo, NextInline(n, o)
        PROVE  \E r \in Tasks :
           /\ task' = [task EXCEPT ![n] = r] /\ RecOK(r)
           /\ r.group = task[n].group /\ r.st \in Counted /\ task[n].st \in Counted
           /\ r.visit = {} /\ r.open = {}
    <2>0. t.st = "running" /\ t.inline /\ o \in Objects
      BY <1>0, <1>5 DEF NextInline, Tasks
    <2>1. CASE task' = [task EXCEPT ![n].todo = (@ \ {o}) \cup Listing(t.kind, o),
                                    ![n].ok = @ \/ Listing(t.kind, o) = {}]
      <3> DEFINE k == t.ok \/ Listing(t.kind, o) = {}
                 d == (t.todo \ {o}) \cup Listing(t.kind, o)
                 r == [t EXCEPT !.todo = d, !.ok = k]
      <3>1. task' = [task EXCEPT ![n] = r]
        BY <1>0, <2>1
      <3>2. k \in BOOLEAN /\ d \subseteq Objects
        BY <1>0, ListingType DEF Tasks
      <3> HIDE DEF k, d
      <3>3. r \in Tasks /\ r.group = t.group /\ r.st = t.st /\ r.visit = t.visit /\ r.open = t.open
            /\ r.errs = t.errs /\ r.obj = t.obj /\ r.kind = t.kind /\ r.inline = t.inline
        BY <1>0, <3>2 DEF Tasks
      <3> HIDE DEF r
      <3>4. RecOK(r)
        BY <1>0, <2>0, <3>3 DEF RecOK
      <3> QED BY <1>0, <2>0, <3>1, <3>3, <3>4 DEF Counted, RecOK
    <2>2. CASE task' = [task EXCEPT ![n].todo = @ \ {o}, ![n].st = "uploading", ![n].cur = o]
      <3> DEFINE r == [t EXCEPT !.todo = @ \ {o}, !.st = "uploading", !.cur = o]
      <3>1. task' = [task EXCEPT ![n] = r]
        BY <1>0, <2>2
      <3>3. r \in Tasks /\ r.group = t.group /\ r.st = "uploading" /\ r.visit = t.visit /\ r.open = t.open
            /\ r.errs = t.errs /\ r.obj = t.obj /\ r.kind = t.kind /\ r.inline = t.inline /\ r.cur = o
        BY <1>0, <2>0 DEF Tasks, Stages, Counted
      <3> HIDE DEF r
      <3>4. RecOK(r)
        BY <1>0, <2>0, <3>3 DEF RecOK
      <3> QED BY <1>0, <2>0, <3>1, <3>3, <3>4 DEF Counted, RecOK
    <2> QED BY <1>5, <2>1, <2>2 DEF NextInline
  <1>6. CASE Appears(n)
    <2>1. task' = task /\ t.st = "uploading"
      BY <1>6 DEF Appears
    <2>2. task' = [task EXCEPT ![n] = t]
      BY <1>0, <2>1
    <2> QED BY <1>0, <2>1, <2>2 DEF Counted, RecOK
  <1> QED BY <1>1, <1>2, <1>3, <1>4, <1>5, <1>6 DEF Works
-----------------------------------------------------------------------------
\* What an action does to the tasks and to the coordinator.
TaskTypes == task \in [Slots -> Tasks] /\ \A n \in Slots : RecOK(task[n])

CoordTypes ==
    /\ pending \in [Groups -> Nat]
    /\ hasSuccess \in [Groups -> BOOLEAN]
    /\ payload \in [Groups -> SUBSET Objects]

CoordInv == TaskTypes /\ CoordTypes /\ CountsExact /\ NoStalePayload /\ PayloadOK

LEMMA GroupCoord == GroupInv => CoordInv
  BY DEF GroupInv, CoordInv, TypeInv, TypeOK, TaskTypes, CoordTypes

\* The coordinator is left alone and the task keeps its standing in its group.
LEMMA QuietStep ==
  ASSUME GroupInv, NEW n \in Slots, NEW r \in Tasks, RecOK(r), task' = [task EXCEPT ![n] = r],
         UNCHANGED coordinator,
         \/ r.group = task[n].group /\ r.st \in Counted /\ task[n].st \in Counted
         \/ r.st \notin Counted /\ task[n].st \notin Counted
  PROVE  CoordInv'
  <1>1. TypeInv /\ CoordInv
    BY GroupCoord DEF GroupInv
  <1>2. /\ task' \in [Slots -> Tasks] /\ task'[n] = r
        /\ \A m \in Slots \ {n} : task'[m] = task[m]
        /\ \A m \in Slots : RecOK(task'[m])
    BY <1>1, OneTask
  <1>3. \A m \in Slots : SameCount(m) \/ (task[m].st \notin Counted /\ task'[m].st \notin Counted)
    BY <1>2 DEF SameCount
  <1>4. CountsExact'
    BY <1>1, <1>3, CountsKept DEF CoordInv, coordinator
  <1>5. TaskTypes'
    BY <1>2 DEF TaskTypes
  <1>6. CoordTypes' /\ NoStalePayload' /\ PayloadOK'
    BY <1>1 DEF CoordInv, CoordTypes, NoStalePayload, PayloadOK, coordinator
  <1> QED BY <1>4, <1>5, <1>6 DEF CoordInv

\* A task that was not counted is, with payloads p.
LEMMA JoinStep ==
  ASSUME GroupInv, NEW n \in Slots, NEW h \in Groups, NEW p \in SUBSET Objects,
         AddTask(h, p), \A o \in p : Parent[o] = h /\ Moved(o),
         TaskTypes', \A m \in Slots \ {n} : SameCount(m),
         task[n].st \notin Counted, task'[n].st \in Counted, task'[n].group = h
  PROVE  CoordInv'
  <1>1. CoordInv
    BY GroupCoord
  <1>2. CountsExact'
    BY <1>1, CountsJoin DEF CoordInv, CoordTypes, AddTask
  <1>3. CoordTypes'
    BY <1>1 DEF CoordInv, CoordTypes, AddTask
  <1>4. NoStalePayload'
    BY <1>1 DEF CoordInv, CoordTypes, AddTask, NoStalePayload
  <1>5. PayloadOK'
    <2> SUFFICES ASSUME NEW g \in Groups, NEW o \in payload'[g] PROVE Parent[o] = g /\ Moved(o)
      BY DEF PayloadOK, Moved
    <2>1. o \in payload[g] \/ (g = h /\ o \in p)
      BY <1>1 DEF CoordInv, CoordTypes, AddTask
    <2> QED BY <1>1, <2>1 DEF CoordInv, PayloadOK
  <1> QED BY <1>2, <1>3, <1>4, <1>5 DEF CoordInv

LEMMA AppendStep ==
  ASSUME GroupInv, NEW n \in Slots, Append(n) \/ AppendInline(n)
  PROVE  CoordInv'
  <1> DEFINE t == task[n]
  <1>1. TypeInv /\ CoordInv
    BY GroupCoord DEF GroupInv
  <1>0. t \in Tasks /\ RecOK(t) /\ task \in [Slots -> Tasks]
    BY <1>1 DEF TypeInv, TypeOK
  <1>2. t.st \in {"added", "ending"} /\ AppendPayload(t.group, {t.obj})
    BY DEF Append, AppendInline
  <1>3. PICK s \in {"queued", "report"} : task' = [task EXCEPT ![n].st = s]
    BY DEF Append, AppendInline
  <1> DEFINE r == [t EXCEPT !.st = s]
  <1>4. /\ task' = [task EXCEPT ![n] = r] /\ r \in Tasks /\ r.st = s /\ r.obj = t.obj
        /\ r.kind = t.kind /\ r.inline = t.inline /\ r.group = t.group /\ r.visit = t.visit
        /\ r.open = t.open /\ r.errs = t.errs
    BY <1>0, <1>3 DEF Tasks, Stages, Counted
  <1> HIDE DEF r
  <1>5. RecOK(r)
    BY <1>0, <1>2, <1>4 DEF RecOK
  <1>6. /\ task' \in [Slots -> Tasks] /\ task'[n] = r
        /\ \A m \in Slots \ {n} : task'[m] = task[m]
        /\ \A m \in Slots : RecOK(task'[m])
    BY <1>1, <1>4, <1>5, OneTask
  <1>7. TaskTypes'
    BY <1>6 DEF TaskTypes
  <1>8. CountsExact'
    <2>1. \A m \in Slots : SameCount(m)
      BY <1>2, <1>4, <1>6 DEF SameCount, Counted
    <2> QED BY <1>1, <1>2, <2>1, CountsKept DEF CoordInv, AppendPayload
  <1>9. /\ t.group \in Groups /\ t.obj \in Objects /\ Moved(t.obj) /\ Parent[t.obj] = t.group
    BY <1>0, <1>2 DEF RecOK, Tasks
  <1>10. CoordTypes'
    BY <1>1, <1>2, <1>9 DEF CoordInv, CoordTypes, AppendPayload
  <1>11. pending[t.group] # 0
    BY <1>1, <1>2, <1>9, CountedPending DEF CoordInv, Counted
  <1>12. NoStalePayload'
    BY <1>1, <1>2, <1>9, <1>11 DEF CoordInv, CoordTypes, NoStalePayload, AppendPayload
  <1>13. PayloadOK'
    <2> SUFFICES ASSUME NEW g \in Groups, NEW o \in payload'[g] PROVE Parent[o] = g /\ Moved(o)
      BY DEF PayloadOK, Moved
    <2>1. o \in payload[g] \/ (g = t.group /\ o = t.obj)
      BY <1>1, <1>2, <1>9 DEF CoordInv, CoordTypes, AppendPayload
    <2> QED BY <1>1, <1>9, <2>1 DEF CoordInv, PayloadOK
  <1> QED BY <1>7, <1>8, <1>10, <1>12, <1>13 DEF CoordInv

\* The record of a task that starts, and of one in the queue of the manager.
Fresh(s, o, k, i, g, d) ==
    [NoTask EXCEPT !.st = s, !.obj = o, !.kind = k, !.inline = i, !.group = g, !.todo = d]

Queued(o, k, g) == [NoTask EXCEPT !.st = "queued", !.obj = o, !.kind = k, !.group = g]

LEMMA FreshRec ==
  ASSUME NEW s \in Counted, NEW o \in Objects, NEW k \in Kinds, NEW i \in BOOLEAN,
         NEW d \in SUBSET Objects,
         s \in {"added", "queued", "running"}, k = "move" => Moved(o),
         s = "added" => k = "move", s = "running" => i
  PROVE  /\ Fresh(s, o, k, i, Parent[o], d) \in Tasks
         /\ RecOK(Fresh(s, o, k, i, Parent[o], d))
         /\ Fresh(s, o, k, i, Parent[o], d).st = s
         /\ Fresh(s, o, k, i, Parent[o], d).group = Parent[o]
         /\ Fresh(s, o, k, i, Parent[o], d).open = {}
         /\ Fresh(s, o, k, i, Parent[o], d).visit = {}
  <1> DEFINE r == Fresh(s, o, k, i, Parent[o], d)
  <1>1. /\ NoTask \in Tasks /\ NoTask.visit = {} /\ NoTask.open = {} /\ NoTask.errs = {}
        /\ Parent[o] \in Groups
    BY NoTaskFacts, TreeAssumption DEF NoTask, Groups
  <1>2. /\ r \in Tasks /\ r.st = s /\ r.obj = o /\ r.kind = k /\ r.inline = i /\ r.group = Parent[o]
        /\ r.visit = {} /\ r.open = {} /\ r.errs = {}
    BY <1>1 DEF Tasks, Stages, Fresh
  <1> HIDE DEF r
  <1>3. RecOK(r)
    BY <1>2 DEF RecOK
  <1> QED BY <1>2, <1>3 DEF r

LEMMA QueuedRec ==
  ASSUME NEW o \in Objects, NEW k \in Kinds, NEW g \in Groups, k = "move" => Moved(o)
  PROVE  /\ Queued(o, k, g) \in Tasks /\ RecOK(Queued(o, k, g))
         /\ Queued(o, k, g).st = "queued" /\ Queued(o, k, g).group = g
         /\ Queued(o, k, g).open = {} /\ Queued(o, k, g).visit = {}
  <1> DEFINE r == Queued(o, k, g)
  <1>1. /\ NoTask \in Tasks /\ NoTask.visit = {} /\ NoTask.open = {} /\ NoTask.errs = {}
        /\ NoTask.inline = FALSE
    BY NoTaskFacts DEF NoTask
  <1>2. /\ r \in Tasks /\ r.st = "queued" /\ r.obj = o /\ r.kind = k /\ r.inline = FALSE /\ r.group = g
        /\ r.visit = {} /\ r.open = {} /\ r.errs = {}
    BY <1>1 DEF Tasks, Stages, Counted, Queued
  <1> HIDE DEF r
  <1>3. RecOK(r)
    BY <1>2 DEF RecOK
  <1> QED BY <1>2, <1>3 DEF r

\* The source tree.
LEMMA TreeFacts ==
  /\ \A o \in Objects : o \in Above[o] /\ Above[o] \subseteq Objects
  /\ \A o \in Objects : \A p \in Above[o] : Above[p] \subseteq Above[o]
  /\ \A o \in Objects : Parent[o] # o /\ (Parent[o] # Root => o \notin Above[Parent[o]])
  BY TreeAssumption

LEMMA NewSlotFree == Free # {} => NewSlot \in Slots /\ task[NewSlot].st = "none"
  BY DEF NewSlot, Free

LEMMA MovedBelow ==
  ASSUME NEW o \in Objects, NEW d \in Objects, Parent[o] = d, Moved(d)
  PROVE  Moved(o)
  BY TreeAssumption DEF Moved

LEMMA GroupOf == \A o \in Objects : Parent[o] \in Groups
  BY TreeAssumption DEF Groups

LEMMA RequestStep ==
  ASSUME GroupInv, NEW k \in Kinds, NEW o \in Objects, NEW i \in BOOLEAN,
         <<k, o, i>> \in Requests, Transfer(k, o, i)
  PROVE  CoordInv'
  <1>1. TypeInv
    BY DEF GroupInv
  <1> DEFINE s == IF i THEN "running" ELSE IF k = "move" THEN "added" ELSE "queued"
             d == IF i THEN {o} ELSE {}
             r == Fresh(s, o, k, i, Parent[o], d)
             n == NewSlot
  <1>2. Parent[o] \in Groups
    BY GroupOf
  <1>3. k = "move" => Moved(o)
    BY TreeFacts DEF Moved
  <1>4. /\ n \in Slots /\ task[n].st = "none"
        /\ task' = [task EXCEPT ![n] = r] /\ AddTask(Parent[o], {})
    BY NewSlotFree DEF Transfer, Fresh
  <1>5. s \in Counted /\ s \in {"added", "queued", "running"} /\ (s = "running" => i) /\ d \in SUBSET Objects
        /\ (s = "added" => k = "move")
    BY DEF Counted
  <1>6. r \in Tasks /\ RecOK(r) /\ r.st = s /\ r.group = Parent[o]
    <2> HIDE DEF s, d
    <2> QED BY <1>3, <1>5, FreshRec
  <1> HIDE DEF r, n, s
  <1>7. /\ task' \in [Slots -> Tasks] /\ task'[n] = r
        /\ \A m \in Slots \ {n} : task'[m] = task[m]
        /\ \A m \in Slots : RecOK(task'[m])
    BY <1>1, <1>4, <1>6, OneTask
  <1>8. TaskTypes' /\ (\A m \in Slots \ {n} : SameCount(m)) /\ task[n].st \notin Counted
    BY <1>4, <1>7 DEF TaskTypes, SameCount, Counted
  <1> QED BY <1>2, <1>4, <1>5, <1>6, <1>7, <1>8, JoinStep

LEMMA TransferStep ==
  ASSUME GroupInv, NEW q \in Requests, Transfer(q[1], q[2], q[3])
  PROVE  CoordInv'
  <1>1. q = <<q[1], q[2], q[3]>> /\ q[1] \in Kinds /\ q[2] \in Objects /\ q[3] \in BOOLEAN
    BY TransferParams
  <1> QED BY <1>1, RequestStep

LEMMA RetryStep ==
  ASSUME GroupInv, NEW n \in Slots, task[n].st \in {"done", "restored"}, SetRetry(n)
  PROVE  CoordInv' /\ task'[n].open = {} /\ task'[n].visit = {}
         /\ \A m \in Slots \ {n} : task'[m] = task[m]
  <1> DEFINE t == task[n]
             o == t.obj
             r == Queued(o, t.kind, Parent[o])
  <1>1. TypeInv /\ t \in Tasks /\ RecOK(t)
    BY DEF GroupInv, TypeInv, TypeOK
  <1>2. o \in Objects /\ t.kind \in Kinds /\ (t.kind = "move" => Moved(o)) /\ Parent[o] \in Groups
    BY <1>1, GroupOf DEF RecOK, Tasks
  <1>3. task' = [task EXCEPT ![n] = r]
    BY DEF SetRetry, Queued
  <1>4. r \in Tasks /\ RecOK(r) /\ r.st = "queued" /\ r.group = Parent[o] /\ r.open = {} /\ r.visit = {}
    BY <1>2, QueuedRec
  <1> HIDE DEF r
  <1>5. /\ task' \in [Slots -> Tasks] /\ task'[n] = r
        /\ \A m \in Slots \ {n} : task'[m] = task[m]
        /\ \A m \in Slots : RecOK(task'[m])
    BY <1>1, <1>3, <1>4, OneTask
  <1>6. TaskTypes' /\ (\A m \in Slots \ {n} : SameCount(m)) /\ task[n].st \notin Counted
        /\ task'[n].st \in Counted /\ task'[n].group = Parent[o]
    BY <1>4, <1>5 DEF TaskTypes, SameCount, Counted
  <1>7. AddTask(Parent[o], Payload(n)) /\ Payload(n) \in SUBSET Objects
        /\ \A x \in Payload(n) : Parent[x] = Parent[o] /\ Moved(x)
    BY <1>2 DEF SetRetry, Payload
  <1> QED BY <1>2, <1>4, <1>5, <1>6, <1>7, JoinStep

LEMMA NextTaskStep ==
  ASSUME GroupInv, NEW n \in Slots, NEW o \in task[n].todo, NextTask(n, o)
  PROVE  CoordInv' /\ \A m \in Slots : \/ task'[m].open = {} /\ task'[m].visit = {}
                                      \/ task'[m] = task[m]
  <1> DEFINE t == task[n]
             z == NewSlot
             r == [t EXCEPT !.todo = @ \ {o}]
             q == Queued(o, t.kind, t.group)
  <1>1. TypeInv /\ t \in Tasks /\ RecOK(t) /\ task \in [Slots -> Tasks]
    BY DEF GroupInv, TypeInv, TypeOK
  <1>2. z \in Slots /\ task[z].st = "none" /\ t.st = "running" /\ t.inline = FALSE /\ AddTask(t.group, {})
    BY <1>1, NewSlotFree DEF NextTask, Tasks
  <1>3. /\ o \in Objects /\ t.obj \in Objects /\ Parent[o] = t.obj /\ t.kind \in Kinds
        /\ (t.kind = "move" => Moved(t.obj)) /\ t.group \in Groups
    BY <1>1, <1>2 DEF RecOK, Tasks, Children
  <1>4. t.kind = "move" => Moved(o)
    BY <1>3, MovedBelow
  <1>5. q \in Tasks /\ RecOK(q) /\ q.st = "queued" /\ q.group = t.group /\ q.open = {} /\ q.visit = {}
    BY <1>3, <1>4, QueuedRec
  <1>6. /\ r \in Tasks /\ r.st = t.st /\ r.obj = t.obj /\ r.kind = t.kind /\ r.inline = t.inline
        /\ r.group = t.group /\ r.visit = t.visit /\ r.open = t.open /\ r.errs = t.errs /\ r.cur = t.cur
        /\ r.todo \subseteq t.todo
    BY <1>1 DEF Tasks
  <1>7. task' = [task EXCEPT ![n] = r, ![z] = q]
    BY <1>1 DEF NextTask, Queued
  <1> HIDE DEF r, q, z
  <1>8. RecOK(r)
    BY <1>1, <1>2, <1>6 DEF RecOK
  <1>9. n # z
    BY <1>2
  <1>10. /\ task' \in [Slots -> Tasks] /\ task'[n] = r /\ task'[z] = q
         /\ \A m \in Slots \ {n, z} : task'[m] = task[m]
    BY <1>1, <1>2, <1>5, <1>6, <1>7, <1>9
  <1>11. TaskTypes'
    <2>1. \A m \in Slots : RecOK(task[m])
      BY <1>1 DEF TypeInv
    <2>2. \A m \in Slots : RecOK(task'[m])
      BY <1>5, <1>8, <1>10, <2>1
    <2> QED BY <1>10, <2>2 DEF TaskTypes
  <1>12. (\A m \in Slots \ {z} : SameCount(m)) /\ task[z].st \notin Counted /\ task'[z].st \in Counted
         /\ task'[z].group = t.group
    BY <1>2, <1>5, <1>6, <1>10 DEF SameCount, Counted
  <1>13. CoordInv'
    BY <1>2, <1>3, <1>11, <1>12, JoinStep
  <1>14. r.open = {} /\ r.visit = {}
    BY <1>1, <1>2, <1>6 DEF RecOK
  <1> QED BY <1>5, <1>10, <1>13, <1>14

\* The task has reported; it is over, or goes on to the completion of its group.
LEMMA FinishedRec ==
  ASSUME TypeInv, NEW n \in Slots, task[n].st \in {"report", "removing"}
  PROVE  /\ Finished(n) \in Tasks /\ RecOK(Finished(n)) /\ Finished(n).st \in {"none", "done"}
         /\ Finished(n).visit = {} /\ Finished(n).open = {}
  <1> DEFINE t == task[n]
             r == [NoTask EXCEPT !.st = "done", !.obj = t.obj, !.kind = t.kind]
  <1>1. t \in Tasks /\ RecOK(t) /\ t.st # "none"
    BY DEF TypeInv, TypeOK
  <1>2. CASE t.inline
    <2>1. Finished(n) = NoTask /\ NoTask.visit = {}
      BY <1>2 DEF Finished, NoTask
    <2> QED BY <2>1, NoTaskFacts
  <1>3. CASE ~ t.inline
    <2>1. Finished(n) = r
      BY <1>3 DEF Finished
    <2>2. /\ r \in Tasks /\ r.st = "done" /\ r.obj = t.obj /\ r.kind = t.kind /\ r.inline = FALSE
          /\ r.visit = {} /\ r.open = {} /\ r.errs = {}
      BY <1>1, NoTaskFacts DEF Tasks, Stages, NoTask
    <2> HIDE DEF r
    <2>3. RecOK(r)
      BY <1>1, <2>2 DEF RecOK
    <2> QED BY <2>1, <2>2, <2>3
  <1> QED BY <1>2, <1>3

LEMMA CompletingRec ==
  ASSUME TypeInv, NEW n \in Slots, task[n].st = "report", NEW p \in SUBSET Objects
  PROVE  /\ Completing(n, p) \in Tasks /\ RecOK(Completing(n, p)) /\ Completing(n, p).st \notin Counted
         /\ Completing(n, p).visit = p /\ Completing(n, p).open = {}
         /\ Completing(n, p).group = task[n].group
  <1> DEFINE t == task[n]
             r == Completing(n, p)
  <1>1. t \in Tasks /\ RecOK(t)
    BY DEF TypeInv, TypeOK
  <1>0. 0 \in 0..MaxRetry /\ FALSE \in BOOLEAN
    BY TransferParams
  <1>2. /\ r \in Tasks /\ r.st = "removing" /\ r.obj = t.obj /\ r.kind = t.kind /\ r.inline = t.inline
        /\ r.group = t.group /\ r.visit = p /\ r.open = t.open /\ r.errs = t.errs
    BY <1>0, <1>1 DEF Tasks, Stages, Completing
  <1> HIDE DEF r
  <1>3. RecOK(r) /\ r.open = {}
    BY <1>1, <1>2 DEF RecOK
  <1> QED BY <1>2, <1>3 DEF Counted, r

LEMMA ReportRec ==
  ASSUME GroupInv, NEW n \in Slots, Report(n)
  PROVE  \E r \in Tasks :
           /\ task' = [task EXCEPT ![n] = r] /\ RecOK(r) /\ r.st \notin Counted /\ r.open = {}
           /\ r.visit = {} \/ (r.visit = payload[task[n].group] /\ r.group = task[n].group)
  <1> DEFINE g == task[n].group
             p == payload[g]
  <1>1. TypeInv /\ task[n].st = "report"
    BY DEF GroupInv, Report
  <1>2. g \in Groups /\ p \in SUBSET Objects
    BY <1>1 DEF TypeInv, TypeOK, Tasks
  <1>3. task' = [task EXCEPT ![n] = Finished(n)] \/ task' = [task EXCEPT ![n] = Completing(n, p)]
    BY DEF Report, Done
  <1> QED BY <1>1, <1>2, <1>3, FinishedRec, CompletingRec DEF Counted

LEMMA ReportStep ==
  ASSUME GroupInv, NEW n \in Slots, Report(n)
  PROVE  CoordInv'
  <1> DEFINE g == task[n].group
  <1>1. TypeInv /\ CoordInv
    BY GroupCoord DEF GroupInv
  <1>2. PICK r \in Tasks : task' = [task EXCEPT ![n] = r] /\ RecOK(r) /\ r.st \notin Counted
    BY ReportRec
  <1>3. /\ task' \in [Slots -> Tasks] /\ task'[n] = r
        /\ \A m \in Slots \ {n} : task'[m] = task[m]
        /\ \A m \in Slots : RecOK(task'[m])
    BY <1>1, <1>2, OneTask
  <1>4. TaskTypes' /\ (\A m \in Slots \ {n} : SameCount(m)) /\ task'[n].st \notin Counted
    BY <1>2, <1>3 DEF TaskTypes, SameCount
  <1>5. task[n].st \in Counted /\ g \in Groups
    BY <1>1 DEF Report, Counted, TypeInv, TypeOK, Tasks
  <1>6. pending \in [Groups -> Nat] /\ hasSuccess \in [Groups -> BOOLEAN] /\ payload \in [Groups -> SUBSET Objects]
    BY <1>1 DEF CoordInv, CoordTypes
  <1>7. pending' = [pending EXCEPT ![g] = @ - 1]
    BY <1>5, <1>6 DEF Report, Done
  <1>8. CountsExact'
    BY <1>1, <1>4, <1>5, <1>6, <1>7, CountsLeave DEF CoordInv
  <1>9. CASE pending[g] > 1 /\ UNCHANGED payload
             /\ hasSuccess' = [hasSuccess EXCEPT ![g] = hasSuccess[g] \/ task[n].ok]
    <2> DEFINE b == hasSuccess[g] \/ task[n].ok
    <2>1. b \in BOOLEAN
      OBVIOUS
    <2>2. hasSuccess' = [hasSuccess EXCEPT ![g] = b]
      BY <1>9
    <2> HIDE DEF b
    <2>3. CoordTypes'
      BY <1>5, <1>6, <1>7, <1>9, <2>1, <2>2 DEF CoordTypes
    <2>4. NoStalePayload'
      BY <1>1, <1>5, <1>6, <1>7, <1>9, <2>2 DEF NoStalePayload, CoordInv
    <2>5. PayloadOK'
      BY <1>1, <1>9 DEF PayloadOK, CoordInv
    <2> QED BY <1>4, <1>8, <2>3, <2>4, <2>5 DEF CoordInv
  <1>10. CASE pending[g] = 1 /\ payload' = [payload EXCEPT ![g] = {}]
              /\ hasSuccess' = [hasSuccess EXCEPT ![g] = FALSE]
    <2>1. CoordTypes'
      BY <1>5, <1>6, <1>7, <1>10 DEF CoordTypes
    <2>2. NoStalePayload'
      BY <1>1, <1>5, <1>6, <1>7, <1>10 DEF NoStalePayload, CoordInv
    <2>3. PayloadOK'
      BY <1>1, <1>5, <1>6, <1>10 DEF PayloadOK, CoordInv
    <2> QED BY <1>4, <1>8, <2>1, <2>2, <2>3 DEF CoordInv
  <1> QED BY <1>9, <1>10 DEF Report, Done

\* What the task that completes a group does.
Removes(n) == \/ \E o \in task[n].visit : VerifyObject(n, o) \/ VerifyFails(n, o)
              \/ \E d \in task[n].open : RemoveDir(n, d) \/ KeepDir(n, d)
              \/ HookReturns(n)

LEMMA RemoverRec ==
  ASSUME TypeInv, NEW n \in Slots, Removes(n)
  PROVE  \E r \in Tasks : /\ task' = [task EXCEPT ![n] = r] /\ RecOK(r)
                          /\ r.st \notin Counted /\ task[n].st \notin Counted
  <1> DEFINE t == task[n]
  <1>0. t \in Tasks /\ RecOK(t) /\ task \in [Slots -> Tasks]
    BY DEF TypeInv, TypeOK
  <1>1. t.st = "removing" /\ t.st \notin Counted
    BY DEF Removes, VerifyObject, VerifyFails, RemoveDir, KeepDir, Listed, HookReturns, Counted
  <1>2. \A o \in t.visit \cup t.open : ErrsWith(n, o) \subseteq Dirs
    BY <1>0, TreeAssumption DEF ErrsWith, Tasks
  <1>3. ASSUME NEW v \in SUBSET Objects, NEW d \in SUBSET Dirs, NEW e \in SUBSET Dirs,
               task' = [task EXCEPT ![n] = [t EXCEPT !.visit = v, !.open = d, !.errs = e]]
        PROVE  \E r \in Tasks : task' = [task EXCEPT ![n] = r] /\ RecOK(r) /\ r.st \notin Counted
    <2> DEFINE r == [t EXCEPT !.visit = v, !.open = d, !.errs = e]
    <2>1. /\ r \in Tasks /\ r.st = t.st /\ r.obj = t.obj /\ r.kind = t.kind /\ r.inline = t.inline
          /\ r.group = t.group
      BY <1>0 DEF Tasks
    <2>2. task' = [task EXCEPT ![n] = r]
      BY <1>3
    <2> HIDE DEF r
    <2>3. RecOK(r)
      BY <1>0, <1>1, <2>1 DEF RecOK
    <2> QED BY <1>1, <2>1, <2>2, <2>3
  <1>4. ASSUME NEW o \in t.visit, VerifyObject(n, o)
        PROVE  \E r \in Tasks : task' = [task EXCEPT ![n] = r] /\ RecOK(r) /\ r.st \notin Counted
    <2>1. CASE task' = [task EXCEPT ![n].visit = @ \ {o}]
      <3> DEFINE v == t.visit \ {o}
      <3>1. v \in SUBSET Objects /\ t.open \in SUBSET Dirs /\ t.errs \in SUBSET Dirs
        BY <1>0 DEF Tasks
      <3>2. task' = [task EXCEPT ![n] = [t EXCEPT !.visit = v, !.open = t.open, !.errs = t.errs]]
        BY <1>0, <2>1 DEF Tasks
      <3> QED BY <1>3, <3>1, <3>2
    <2>2. CASE task' = [task EXCEPT ![n].visit = (@ \ {o}) \cup (Children(o) \cap src),
                                    ![n].open = @ \cup {o}] /\ ~ RemovedAtOnce(o)
      <3> DEFINE v == (t.visit \ {o}) \cup (Children(o) \cap src)
                 d == t.open \cup {o}
      <3>1. v \in SUBSET Objects /\ d \in SUBSET Dirs /\ t.errs \in SUBSET Dirs
        BY <1>0, <2>2 DEF Tasks, Children, RemovedAtOnce
      <3>2. task' = [task EXCEPT ![n] = [t EXCEPT !.visit = v, !.open = d, !.errs = t.errs]]
        BY <1>0, <2>2 DEF Tasks
      <3> QED BY <1>3, <3>1, <3>2
    <2> QED BY <1>4, <2>1, <2>2 DEF VerifyObject
  <1>5. ASSUME NEW o \in t.visit, VerifyFails(n, o)
        PROVE  \E r \in Tasks : task' = [task EXCEPT ![n] = r] /\ RecOK(r) /\ r.st \notin Counted
    <2> DEFINE v == t.visit \ {o}
               e == ErrsWith(n, o)
    <2>1. v \in SUBSET Objects /\ t.open \in SUBSET Dirs /\ e \in SUBSET Dirs
      BY <1>0, <1>2 DEF Tasks
    <2>2. task' = [task EXCEPT ![n] = [t EXCEPT !.visit = v, !.open = t.open, !.errs = e]]
      BY <1>0, <1>5 DEF Tasks, VerifyFails
    <2> QED BY <1>3, <2>1, <2>2
  <1>6. ASSUME NEW d \in t.open, RemoveDir(n, d)
        PROVE  \E r \in Tasks : task' = [task EXCEPT ![n] = r] /\ RecOK(r) /\ r.st \notin Counted
    <2> DEFINE p == t.open \ {d}
    <2>1. t.visit \in SUBSET Objects /\ p \in SUBSET Dirs /\ t.errs \in SUBSET Dirs
      BY <1>0 DEF Tasks
    <2>2. task' = [task EXCEPT ![n] = [t EXCEPT !.visit = t.visit, !.open = p, !.errs = t.errs]]
      BY <1>0, <1>6 DEF Tasks, RemoveDir
    <2> QED BY <1>3, <2>1, <2>2
  <1>7. ASSUME NEW d \in t.open, KeepDir(n, d)
        PROVE  \E r \in Tasks : task' = [task EXCEPT ![n] = r] /\ RecOK(r) /\ r.st \notin Counted
    <2> DEFINE p == t.open \ {d}
               e == ErrsWith(n, d)
    <2>1. t.visit \in SUBSET Objects /\ p \in SUBSET Dirs /\ e \in SUBSET Dirs
      BY <1>0, <1>2 DEF Tasks
    <2>2. task' = [task EXCEPT ![n] = [t EXCEPT !.visit = t.visit, !.open = p, !.errs = e]]
      BY <1>0, <1>7 DEF Tasks, KeepDir
    <2> QED BY <1>3, <2>1, <2>2
  <1>8. ASSUME HookReturns(n)
        PROVE  \E r \in Tasks : task' = [task EXCEPT ![n] = r] /\ RecOK(r) /\ r.st \notin Counted
    <2>1. task' = [task EXCEPT ![n] = Finished(n)]
      BY <1>8 DEF HookReturns
    <2> QED BY <1>1, <2>1, FinishedRec DEF Counted
  <1> QED BY <1>1, <1>4, <1>5, <1>6, <1>7, <1>8 DEF Removes

LEMMA RestartRec ==
  ASSUME NEW t \in Tasks, RecOK(t), NEW b
  PROVE  /\ AfterRestart(t, b) \in Tasks /\ RecOK(AfterRestart(t, b))
         /\ AfterRestart(t, b).st \notin Counted
         /\ AfterRestart(t, b).visit = {} /\ AfterRestart(t, b).open = {}
  <1> DEFINE again == [NoTask EXCEPT !.obj = t.obj, !.kind = t.kind]
  <1>1. /\ NoTask \in Tasks /\ NoTask.visit = {} /\ NoTask.open = {} /\ NoTask.errs = {} /\ NoTask.st = "none"
        /\ NoTask.inline = FALSE
    BY NoTaskFacts DEF NoTask
  <1>2. CASE AfterRestart(t, b) = NoTask
    BY <1>1, <1>2, NoTaskFacts DEF Counted
  <1>3. ASSUME NEW s \in {"done", "restored"}, AfterRestart(t, b) = [again EXCEPT !.st = s], t.st # "none"
        PROVE  /\ AfterRestart(t, b) \in Tasks /\ RecOK(AfterRestart(t, b))
               /\ AfterRestart(t, b).st \notin Counted
               /\ AfterRestart(t, b).visit = {} /\ AfterRestart(t, b).open = {}
    <2> DEFINE r == [again EXCEPT !.st = s]
    <2>1. /\ r \in Tasks /\ r.st = s /\ r.obj = t.obj /\ r.kind = t.kind /\ r.inline = FALSE
          /\ r.visit = {} /\ r.open = {} /\ r.errs = {}
      BY <1>1 DEF Tasks, Stages
    <2>2. AfterRestart(t, b) = r
      BY <1>3
    <2> HIDE DEF r
    <2>3. RecOK(r)
      BY <1>3, <2>1 DEF RecOK
    <2> QED BY <2>1, <2>2, <2>3 DEF Counted
  <1> QED BY <1>2, <1>3 DEF AfterRestart

LEMMA RestartStep ==
  ASSUME GroupInv, Restart
  PROVE  CoordInv' /\ \A m \in Slots : task'[m].open = {} /\ task'[m].visit = {}
  <1>1. PICK b \in SUBSET Slots : task' = [n \in Slots |-> AfterRestart(task[n], n \in b)]
    BY DEF Restart
  <1>2. \A n \in Slots : task[n] \in Tasks /\ RecOK(task[n])
    BY DEF GroupInv, TypeInv, TypeOK
  <1>3. \A n \in Slots : /\ task'[n] \in Tasks /\ RecOK(task'[n]) /\ task'[n].st \notin Counted
                         /\ task'[n].open = {} /\ task'[n].visit = {}
    <2> TAKE n \in Slots
    <2>1. task'[n] = AfterRestart(task[n], n \in b)
      BY <1>1
    <2> QED BY <1>2, <2>1, RestartRec
  <1>4. TaskTypes'
    BY <1>1, <1>3 DEF TaskTypes
  <1>5. CoordTypes' /\ NoStalePayload' /\ PayloadOK'
    BY DEF Restart, CoordTypes, NoStalePayload, PayloadOK
  <1>6. CountsExact'
    <2>1. \A g \in Groups : CountedIn(g)' = {} /\ pending'[g] = 0
      BY <1>3 DEF CountedIn, Restart
    <2>2. Cardinality({}) = 0
      BY FS_EmptySet
    <2> QED BY <2>1, <2>2 DEF CountsExact, CountedIn
  <1> QED BY <1>3, <1>4, <1>5, <1>6 DEF CoordInv

-----------------------------------------------------------------------------
\* The storages: the source only loses objects, and what is at a destination path
\* only ever becomes the transferred object or what an upload of it leaves.
Storages ==
    /\ src' \subseteq src
    /\ dst' \in [Objects -> Contents]
    /\ \A o \in Objects : dst'[o] = dst[o] \/ dst'[o] \in {"new", "part", "gone"}

LEMMA WorksOn == ASSUME TypeInv, NEW n \in Slots, Works(n)
                 PROVE  /\ Storages /\ UNCHANGED <<src, coordinator, bounds>> /\ faulty' \in BOOLEAN
  <1>0. /\ src \subseteq Objects /\ dst \in [Objects -> Contents] /\ faulty \in BOOLEAN
        /\ task[n] \in Tasks /\ RecOK(task[n])
    BY DEF TypeInv, TypeOK
  <1>1. CASE RunTask(n)
    BY <1>0, <1>1 DEF RunTask, OpensDir, Storages, Contents
  <1>2. CASE AllHandedOn(n)
    BY <1>0, <1>2 DEF AllHandedOn, Storages
  <1>3. CASE Uploaded(n) \/ Appears(n)
    <2>1. task[n].cur \in Objects
      BY <1>0, <1>3 DEF Uploaded, Appears, RecOK
    <2> QED BY <1>0, <1>3, <2>1 DEF Uploaded, Appears, Storages, Contents
  <1>5. CASE Fails(n)
    <2>1. UNCHANGED <<src, coordinator, bounds>> /\ faulty' \in BOOLEAN
      BY <1>5 DEF Fails
    <2>2. CASE task[n].st = "uploading"
      <3>1. task[n].cur \in Objects
        BY <1>0, <2>2 DEF RecOK
      <3>2. PICK v \in Leftovers(task[n].cur) : dst' = [dst EXCEPT ![task[n].cur] = v]
        BY <1>5, <2>2 DEF Fails
      <3>3. v \in Contents /\ (v = dst[task[n].cur] \/ v \in {"part", "gone"})
        BY <1>0, <3>1 DEF Leftovers, Contents
      <3> QED BY <1>0, <2>1, <3>1, <3>2, <3>3 DEF Storages
    <2>3. CASE task[n].st # "uploading"
      BY <1>0, <1>5, <2>1, <2>3 DEF Fails, Storages
    <2> QED BY <2>2, <2>3
  <1>4. ASSUME NEW o \in task[n].todo, NextInline(n, o)
        PROVE  Storages /\ UNCHANGED <<src, coordinator, bounds>> /\ faulty' \in BOOLEAN
    BY <1>0, <1>4 DEF NextInline, OpensDir, Storages, Contents
  <1> QED BY <1>1, <1>2, <1>3, <1>4, <1>5 DEF Works

LEMMA RemovesOn == ASSUME TypeInv, NEW n \in Slots, Removes(n)
                   PROVE  /\ Storages /\ UNCHANGED <<dst, coordinator, bounds>> /\ faulty' \in BOOLEAN
  <1>0. /\ src \subseteq Objects /\ dst \in [Objects -> Contents] /\ faulty \in BOOLEAN
    BY DEF TypeInv, TypeOK
  <1> QED BY <1>0 DEF Removes, VerifyObject, VerifyFails, RemoveDir, KeepDir, HookReturns, Storages

\* Every step is one of these.
LEMMA StepCases ==
  ASSUME Next
  PROVE  \/ \E q \in Requests : Transfer(q[1], q[2], q[3])
         \/ \E n \in Slots : \/ Append(n) \/ AppendInline(n)
                             \/ Works(n)
                             \/ \E o \in task[n].todo : NextTask(n, o)
                             \/ Report(n)
                             \/ Removes(n)
                             \/ task[n].st \in {"done", "restored"} /\ SetRetry(n) /\ manual' \in {manual, manual + 1}
                                /\ (manual' # manual => manual < MaxManual)
         \/ Restart
  BY DEF Next, Step, Works, Removes, RetryByUser, Restore

LEMMA OtherTypes ==
  ASSUME TypeInv, Next
  PROVE  /\ Storages
         /\ asked' \subseteq Requests /\ manual' \in 0..MaxManual /\ restarts' \in 0..MaxRestarts
         /\ faulty' \in BOOLEAN
  <1>0. /\ src \subseteq Objects /\ dst \in [Objects -> Contents]
        /\ asked \subseteq Requests /\ manual \in 0..MaxManual /\ restarts \in 0..MaxRestarts
        /\ faulty \in BOOLEAN
    BY DEF TypeInv, TypeOK
  <1>p. MaxManual \in Nat /\ MaxRestarts \in Nat
    BY TransferParams
  <1>1. ASSUME NEW q \in Requests, Transfer(q[1], q[2], q[3])
        PROVE  UNCHANGED <<src, dst, manual, restarts, faulty>> /\ asked' \subseteq Requests
    BY <1>0, <1>1 DEF Transfer
  <1>2. ASSUME NEW n \in Slots, Append(n) \/ AppendInline(n) \/ Report(n)
        PROVE  UNCHANGED <<src, dst, bounds, faulty>>
    BY <1>2 DEF Append, AppendInline, Report
  <1>3. ASSUME NEW n \in Slots, NEW o \in task[n].todo, NextTask(n, o)
        PROVE  UNCHANGED <<src, dst, bounds, faulty>>
    BY <1>3 DEF NextTask
  <1>4. ASSUME NEW n \in Slots, SetRetry(n)
        PROVE  UNCHANGED <<src, dst, asked, restarts, faulty>>
    BY <1>4 DEF SetRetry
  <1>5. ASSUME Restart
        PROVE  UNCHANGED <<src, dst, asked, manual>> /\ restarts' \in 0..MaxRestarts /\ faulty' \in BOOLEAN
    BY <1>0, <1>5, <1>p DEF Restart
  <1>6. UNCHANGED <<src, dst>> => Storages
    BY <1>0 DEF Storages
  <1>7. ASSUME NEW n \in Slots, manual' \in {manual, manual + 1}, manual' # manual => manual < MaxManual
        PROVE  manual' \in 0..MaxManual
    BY <1>0, <1>7, <1>p
  <1> QED BY <1>0, <1>1, <1>2, <1>3, <1>4, <1>5, <1>6, <1>7, StepCases, WorksOn, RemovesOn DEF bounds

LEMMA CoordStep == GroupInv /\ Next => CoordInv'
  <1> SUFFICES ASSUME GroupInv, Next PROVE CoordInv'
    OBVIOUS
  <1>1. TypeInv
    BY DEF GroupInv
  <1>2. ASSUME NEW n \in Slots, Works(n) PROVE CoordInv'
    <2>1. UNCHANGED coordinator
      BY <1>1, <1>2, WorksOn
    <2> QED BY <1>1, <1>2, <2>1, WorkerRec, QuietStep
  <1>3. ASSUME NEW n \in Slots, Removes(n) PROVE CoordInv'
    <2>1. UNCHANGED coordinator
      BY <1>1, <1>3, RemovesOn
    <2> QED BY <1>1, <1>3, <2>1, RemoverRec, QuietStep
  <1> QED BY <1>2, <1>3, StepCases, TransferStep, AppendStep, NextTaskStep, ReportStep, RetryStep, RestartStep

LEMMA GroupStep == GroupInv /\ [Next]_vars => GroupInv'
  <1>1. ASSUME GroupInv, Next PROVE GroupInv'
    <2>1. TypeInv /\ CoordInv'
      BY <1>1, CoordStep DEF GroupInv
    <2>2. /\ Storages
          /\ asked' \subseteq Requests /\ manual' \in 0..MaxManual /\ restarts' \in 0..MaxRestarts
          /\ faulty' \in BOOLEAN
      BY <1>1, <2>1, OtherTypes
    <2>3. src' \subseteq Objects /\ dst' \in [Objects -> Contents]
      BY <2>1, <2>2 DEF TypeInv, TypeOK, Storages
    <2>4. \A n \in Slots : task'[n].st # "none" => task'[n].obj \in Objects
      BY <2>1 DEF CoordInv, TaskTypes, RecOK
    <2>5. TypeOK'
      BY <2>1, <2>2, <2>3, <2>4 DEF TypeOK, CoordInv, TaskTypes, CoordTypes
    <2> QED BY <2>1, <2>5 DEF GroupInv, TypeInv, CoordInv, TaskTypes
  <1>2. ASSUME GroupInv, UNCHANGED vars PROVE GroupInv'
    BY <1>2 DEF vars, coordinator, bounds, GroupInv, TypeInv, TypeOK, CountsExact, NoStalePayload, PayloadOK
  <1> QED BY <1>1, <1>2

LEMMA GroupInit == Init => GroupInv
  <1> SUFFICES ASSUME Init PROVE GroupInv
    OBVIOUS
  <1>1. TypeOK
    <2>1. dst \in [Objects -> Contents]
      BY DEF Init, Contents
    <2>2. task \in [Slots -> Tasks] /\ \A n \in Slots : task[n].st = "none"
      BY NoTaskFacts DEF Init
    <2>3. CoordTypes /\ src \subseteq Objects
      BY DEF Init, CoordTypes
    <2>4. asked \subseteq Requests /\ manual \in 0..MaxManual /\ restarts \in 0..MaxRestarts /\ faulty \in BOOLEAN
      <3>1. MaxManual \in Nat /\ MaxRestarts \in Nat
        BY TransferParams
      <3>2. asked = {} /\ manual = 0 /\ restarts = 0 /\ faulty \in BOOLEAN
        BY DEF Init
      <3> QED BY <3>1, <3>2
    <2> QED BY <2>1, <2>2, <2>3, <2>4 DEF TypeOK, CoordTypes
  <1>2. \A n \in Slots : RecOK(task[n]) /\ task[n].st \notin Counted
    BY NoTaskFacts DEF Init, Counted
  <1>3. CountsExact
    <2>1. \A g \in Groups : CountedIn(g) = {} /\ pending[g] = 0
      BY <1>2 DEF CountedIn, Init
    <2>2. Cardinality({}) = 0
      BY FS_EmptySet
    <2> QED BY <2>1, <2>2 DEF CountsExact, CountedIn
  <1>4. NoStalePayload /\ PayloadOK
    BY DEF NoStalePayload, PayloadOK, Init
  <1> QED BY <1>1, <1>2, <1>3, <1>4 DEF GroupInv, TypeInv

LEMMA GroupInvHolds == Spec => []GroupInv
  BY GroupInit, GroupStep, PTL DEF Spec

\* The state of the storages, the coordinator and every task has its type, whatever
\* is requested, retried or restarted.
THEOREM TransferTypes == Spec => []TypeOK
  <1>1. GroupInv => TypeOK
    BY DEF GroupInv, TypeInv
  <1> QED BY <1>1, GroupInvHolds, PTL

\* TaskGroupCoordinator counts exactly the tasks that will still call Done
\* (group.go 35-82), through retries of the manager and of users, inline requests
\* and restarts: the completion of a group runs exactly when its last task reports.
THEOREM GroupCountsExact == Spec => []CountsExact
  <1>1. GroupInv => CountsExact
    BY DEF GroupInv
  <1> QED BY <1>1, GroupInvHolds, PTL

-----------------------------------------------------------------------------
\* A directory above o, other than o, is o's own or above that one.
LEMMA UpStep ==
  ASSUME NEW o \in Objects, NEW d \in Above[o], d # o
  PROVE  Parent[o] \in Dirs /\ d \in Above[Parent[o]] /\ Parent[o] \in Above[o] /\ d \in Dirs
  <1>1. Parent[o] # Root /\ d \in Above[Parent[o]] /\ d \in Dirs
    BY TreeAssumption
  <1>2. Parent[o] \in Dirs /\ Parent[o] \in Objects
    BY <1>1, TreeAssumption
  <1> QED BY <1>1, <1>2, TreeAssumption, TreeFacts

\* The way down from a directory goes through one of its children.
LEMMA DownStep ==
  ASSUME NEW p \in Objects, NEW o \in Above[p], p # o
  PROVE  \E c \in Above[p] : Parent[c] = o /\ c \in Objects /\ Above[o] \subseteq Above[c]
  <1>1. PICK c \in Above[p] : Parent[c] = o
    BY TreeAssumption
  <1>2. c \in Objects /\ o \in Objects
    BY <1>1, TreeFacts
  <1>3. o # Root
    BY <1>2, TreeAssumption
  <1>4. Above[o] \subseteq Above[c]
    BY <1>1, <1>2, <1>3, TreeAssumption
  <1> QED BY <1>1, <1>2, <1>4

\* The slots, one by one.
SlotOK(n) == WalkOK(task[n]) /\ \A d \in task[n].open : Covered(task[n], d)

SourceOK == SourceClosed /\ OldExisted /\ NothingLost

LEMMA RemovalParts == RemovalInv <=> (\A n \in Slots : SlotOK(n)) /\ SourceOK
  BY DEF RemovalInv, SlotOK, SourceOK

LEMMA SafeKept ==
  ASSUME Storages, NEW p \in Objects, Safe(p)
  PROVE  Safe(p)'
  BY DEF Storages, Safe, Torn

\* A slot that is not written, or holds a task that does not complete a group.
LEMMA SlotKept ==
  ASSUME Storages, src \subseteq Objects, NEW n \in Slots, SlotOK(n), task'[n] = task[n]
  PROVE  SlotOK(n)'
  <1>1. WalkOK(task[n])'
    BY DEF SlotOK, WalkOK
  <1>2. ASSUME NEW d \in task'[n].open, NEW p \in Below(d) \cap src'
        PROVE  \/ Safe(p)'
               \/ \E v \in task'[n].visit : d \in Above[v] /\ v \in Above[p]
               \/ \E e \in task'[n].open \cap task'[n].errs : d \in Above[e] /\ e \in Above[p]
    <2>1. p \in Below(d) \cap src /\ p \in Objects
      BY DEF Storages, Below
    <2>2. CASE Safe(p)
      BY <2>1, <2>2, SafeKept
    <2>3. CASE ~ Safe(p)
      BY <2>1, <2>3 DEF SlotOK, Covered
    <2> QED BY <2>2, <2>3
  <1>3. \A d \in task'[n].open : Covered(task[n], d)'
    BY <1>2 DEF Covered, Below
  <1> QED BY <1>1, <1>3 DEF SlotOK

LEMMA SlotIdle ==
  ASSUME NEW n \in Slots, task'[n].visit = {}, task'[n].open = {}
  PROVE  SlotOK(n)'
  BY DEF SlotOK, WalkOK

\* What is gone stays gone and safe.
LEMMA SourceKept ==
  ASSUME Storages, UNCHANGED src, SourceOK
  PROVE  SourceOK'
  <1>1. SourceClosed'
    BY DEF SourceOK, SourceClosed, Below
  <1>2. OldExisted'
    BY DEF SourceOK, OldExisted, Storages
  <1>3. NothingLost'
    BY DEF SourceOK, NothingLost, MovedFile, Torn, Storages
  <1> QED BY <1>1, <1>2, <1>3 DEF SourceOK

\* What is below o is removed.
LEMMA SourceRemoved ==
  ASSUME SourceOK, src \subseteq Objects, NEW o \in Objects, Moved(o),
         \A p \in Below(o) \cap src : Safe(p), src' = src \ Below(o), UNCHANGED dst
  PROVE  SourceOK'
  <1>1. SourceClosed'
    <2> SUFFICES ASSUME NEW x \in Objects \ src', NEW p \in Below(x) \cap src' PROVE FALSE
      BY DEF SourceClosed, Below
    <2>1. CASE x \notin src
      BY <2>1 DEF SourceOK, SourceClosed
    <2>2. CASE x \in Below(o)
      BY <2>2, TreeFacts DEF Below
    <2> QED BY <2>1, <2>2
  <1>2. OldExisted'
    BY DEF SourceOK, OldExisted
  <1>3. NothingLost'
    <2> SUFFICES ASSUME NEW p \in Objects \ src'
                 PROVE  /\ p \notin Dirs /\ Above[p] \cap Existing = {} => dst[p] = "new" \/ Torn(p)
                        /\ \E r \in Requests : r[1] = "move" /\ r[2] \in Above[p]
      BY DEF NothingLost, MovedFile, Torn
    <2>1. CASE p \notin src
      BY <2>1 DEF SourceOK, NothingLost, MovedFile
    <2>2. CASE p \in Below(o) \cap src
      <3>1. Safe(p)
        BY <2>2
      <3>2. Above[o] \subseteq Above[p]
        BY <2>2, TreeFacts DEF Below
      <3> QED BY <3>1, <3>2 DEF Safe, Moved
    <2> QED BY <2>1, <2>2
  <1> QED BY <1>1, <1>2, <1>3 DEF SourceOK

MoveInv == GroupInv /\ RemovalInv

\* What the walk of slot n may rely on.
LEMMA WalkFacts ==
  ASSUME MoveInv, NEW n \in Slots
  PROVE  /\ task[n].visit \subseteq Objects /\ task[n].open \subseteq Dirs /\ task[n].group \in Groups
         /\ task \in [Slots -> Tasks] /\ SlotOK(n) /\ SourceOK
         /\ src \subseteq Objects /\ Dirs \subseteq Objects
         /\ dst \in [Objects -> Contents]
  BY RemovalParts, TreeAssumption DEF MoveInv, GroupInv, TypeInv, TypeOK, Tasks

\* The directory of an object under an open directory is open too.
LEMMA ParentOpen ==
  ASSUME MoveInv, NEW n \in Slots, NEW v \in task[n].visit \cup task[n].open,
         NEW d \in task[n].open, d \in Above[v], d # v
  PROVE  Parent[v] \in task[n].open /\ d \in Above[Parent[v]] /\ Parent[v] \in Above[v]
  <1> DEFINE t == task[n]
  <1>1. v \in Objects /\ d \in Objects
    BY WalkFacts
  <1>2. Parent[v] \in Dirs /\ d \in Above[Parent[v]] /\ Parent[v] \in Above[v]
    BY <1>1, UpStep
  <1>3. Parent[v] = t.group \/ Parent[v] \in t.open
    BY WalkFacts DEF SlotOK, WalkOK
  <1>4. t.group # Root => d \notin Above[t.group]
    BY WalkFacts DEF SlotOK, WalkOK
  <1>5. Parent[v] # Root
    BY <1>2, TreeAssumption
  <1> QED BY <1>2, <1>3, <1>4, <1>5

\* A directory that has been listed leaves the walk: no object of it is left.
LEMMA WalkCloses ==
  ASSUME MoveInv, NEW n \in Slots, NEW d, Listed(n, d),
         task'[n].visit = task[n].visit, task'[n].open = task[n].open \ {d},
         task'[n].group = task[n].group
  PROVE  WalkOK(task[n])'
  <1> DEFINE t == task[n]
  <1>1. t.visit \cap t.open = {} /\ d \in Objects
    BY WalkFacts DEF SlotOK, WalkOK, Listed
  <1>2. ASSUME NEW v \in t.visit \cup (t.open \ {d})
        PROVE  /\ Moved(v)
               /\ Parent[v] = t.group \/ Parent[v] \in t.open \ {d}
               /\ t.group # Root => v \notin Above[t.group]
    <2>1. /\ Moved(v)
          /\ Parent[v] = t.group \/ Parent[v] \in t.open
          /\ t.group # Root => v \notin Above[t.group]
      BY WalkFacts DEF SlotOK, WalkOK
    <2>2. v \in Objects
      BY WalkFacts
    <2>3. Parent[v] = d => v \in Below(d)
      BY <1>1, <2>2, TreeAssumption DEF Below
    <2>4. Parent[v] # d
      BY <2>3 DEF Listed
    <2> QED BY <2>1, <2>4
  <1> QED BY <1>1, <1>2 DEF WalkOK

LEMMA RemoveDirWalk ==
  ASSUME MoveInv, NEW n \in Slots, NEW d \in task[n].open, RemoveDir(n, d)
  PROVE  SlotOK(n)' /\ SourceOK'
  <1> DEFINE t == task[n]
  <1>1. /\ t.visit \subseteq Objects /\ t.open \subseteq Dirs /\ task \in [Slots -> Tasks]
        /\ SlotOK(n) /\ SourceOK /\ src \subseteq Objects /\ Dirs \subseteq Objects
    BY WalkFacts
  <1>2. /\ task'[n].visit = t.visit /\ task'[n].open = t.open \ {d} /\ task'[n].errs = t.errs
        /\ task'[n].group = t.group
    BY <1>1 DEF RemoveDir, Tasks
  <1>3. Listed(n, d) /\ d \notin t.errs /\ src' = src \ Below(d) /\ UNCHANGED dst
    BY DEF RemoveDir
  <1>4. WalkOK(task[n])'
    BY <1>2, <1>3, WalkCloses
  <1>5. \A p \in Below(d) \cap src : Safe(p)
    <2> TAKE p \in Below(d) \cap src
    <2>1. \A v \in t.visit : d \notin Above[v]
      BY <1>1, <1>3 DEF Listed, Below
    <2>2. \A e \in t.open \cap t.errs : d \notin Above[e]
      BY <1>1, <1>3 DEF Listed, Below
    <2>3. Covered(t, d)
      BY <1>1 DEF SlotOK
    <2> QED BY <2>1, <2>2, <2>3 DEF Covered
  <1>6. Moved(d) /\ d \in Objects
    BY <1>1 DEF SlotOK, WalkOK
  <1>7. SourceOK'
    BY <1>1, <1>3, <1>5, <1>6, SourceRemoved
  <1>8. ASSUME NEW x \in task'[n].open, NEW p \in Below(x) \cap src'
        PROVE  \/ Safe(p)'
               \/ \E v \in task'[n].visit : x \in Above[v] /\ v \in Above[p]
               \/ \E e \in task'[n].open \cap task'[n].errs : x \in Above[e] /\ e \in Above[p]
    <2>1. p \in Below(x) \cap src /\ d \notin Above[p] /\ x \in t.open
      BY <1>2, <1>3 DEF Below
    <2>2. Safe(p) => Safe(p)'
      BY <1>3 DEF Safe, Torn
    <2>3. Covered(t, x)
      BY <1>1, <2>1 DEF SlotOK
    <2> QED BY <1>2, <2>1, <2>2, <2>3 DEF Covered
  <1>9. \A x \in task'[n].open : Covered(task[n], x)'
    BY <1>8 DEF Covered, Below
  <1> QED BY <1>4, <1>7, <1>9 DEF SlotOK

LEMMA KeepDirWalk ==
  ASSUME MoveInv, NEW n \in Slots, NEW d \in task[n].open, KeepDir(n, d)
  PROVE  SlotOK(n)'
  <1> DEFINE t == task[n]
  <1>1. /\ t.visit \subseteq Objects /\ t.open \subseteq Dirs /\ task \in [Slots -> Tasks]
        /\ SlotOK(n) /\ src \subseteq Objects /\ Dirs \subseteq Objects
    BY WalkFacts
  <1>2. /\ task'[n].visit = t.visit /\ task'[n].open = t.open \ {d}
        /\ task'[n].errs = t.errs \cup ({Parent[d]} \ {Root}) /\ task'[n].group = t.group
    BY <1>1 DEF KeepDir, Tasks, ErrsWith
  <1>3. Listed(n, d) /\ UNCHANGED <<src, dst>>
    BY DEF KeepDir
  <1>4. WalkOK(task[n])'
    BY <1>2, <1>3, WalkCloses
  <1>5. ASSUME NEW x \in task'[n].open, NEW p \in Below(x) \cap src'
        PROVE  \/ Safe(p)'
               \/ \E v \in task'[n].visit : x \in Above[v] /\ v \in Above[p]
               \/ \E e \in task'[n].open \cap task'[n].errs : x \in Above[e] /\ e \in Above[p]
    <2>1. p \in Below(x) \cap src /\ x \in t.open /\ x # d /\ p \in Objects
      BY <1>2, <1>3 DEF Below
    <2>2. Safe(p) => Safe(p)'
      BY <1>3 DEF Safe, Torn
    <2>3. Covered(t, x)
      BY <1>1, <2>1 DEF SlotOK
    <2>4. CASE \E e \in t.open \cap t.errs : x \in Above[e] /\ e \in Above[p]
      <3>1. PICK e \in t.open \cap t.errs : x \in Above[e] /\ e \in Above[p]
        BY <2>4
      <3>2. CASE e # d
        BY <1>2, <3>1, <3>2
      <3>3. CASE e = d
        <4>1. Parent[d] \in t.open /\ x \in Above[Parent[d]] /\ Parent[d] \in Above[d]
          BY <2>1, <3>1, <3>3, ParentOpen
        <4>2. d \in Objects /\ Parent[d] # d /\ Parent[d] # Root
          BY <1>1, <4>1, TreeFacts, TreeAssumption
        <4>3. Parent[d] \in Above[p]
          BY <2>1, <3>1, <3>3, <4>1, TreeFacts
        <4> QED BY <1>2, <4>1, <4>2, <4>3
      <3> QED BY <3>2, <3>3
    <2> QED BY <1>2, <2>1, <2>2, <2>3, <2>4 DEF Covered
  <1>6. \A x \in task'[n].open : Covered(task[n], x)'
    BY <1>5 DEF Covered, Below
  <1> QED BY <1>4, <1>6 DEF SlotOK

LEMMA VerifyFailsWalk ==
  ASSUME MoveInv, NEW n \in Slots, NEW o \in task[n].visit, VerifyFails(n, o)
  PROVE  SlotOK(n)'
  <1> DEFINE t == task[n]
  <1>1. /\ t.visit \subseteq Objects /\ t.open \subseteq Dirs /\ task \in [Slots -> Tasks]
        /\ SlotOK(n) /\ src \subseteq Objects /\ Dirs \subseteq Objects
    BY WalkFacts
  <1>2. /\ task'[n].visit = t.visit \ {o} /\ task'[n].open = t.open
        /\ task'[n].errs = t.errs \cup ({Parent[o]} \ {Root}) /\ task'[n].group = t.group
    BY <1>1 DEF VerifyFails, Tasks, ErrsWith
  <1>3. UNCHANGED <<src, dst>>
    BY DEF VerifyFails
  <1>4. WalkOK(task[n])'
    BY <1>1, <1>2 DEF SlotOK, WalkOK
  <1>5. ASSUME NEW x \in task'[n].open, NEW p \in Below(x) \cap src'
        PROVE  \/ Safe(p)'
               \/ \E v \in task'[n].visit : x \in Above[v] /\ v \in Above[p]
               \/ \E e \in task'[n].open \cap task'[n].errs : x \in Above[e] /\ e \in Above[p]
    <2>1. p \in Below(x) \cap src /\ x \in t.open /\ p \in Objects
      BY <1>2, <1>3 DEF Below
    <2>2. Safe(p) => Safe(p)'
      BY <1>3 DEF Safe, Torn
    <2>3. Covered(t, x) /\ x # o
      BY <1>1, <2>1 DEF SlotOK, WalkOK
    <2>4. CASE x \in Above[o] /\ o \in Above[p]
      <3>1. Parent[o] \in t.open /\ x \in Above[Parent[o]] /\ Parent[o] \in Above[o]
        BY <2>1, <2>3, <2>4, ParentOpen
      <3>2. Parent[o] # Root
        BY <1>1, <3>1, TreeAssumption
      <3>3. Parent[o] \in Above[p]
        BY <2>1, <2>4, <3>1, TreeFacts
      <3> QED BY <1>2, <3>1, <3>2, <3>3
    <2> QED BY <1>2, <2>1, <2>2, <2>3, <2>4 DEF Covered
  <1>6. \A x \in task'[n].open : Covered(task[n], x)'
    BY <1>5 DEF Covered, Below
  <1> QED BY <1>4, <1>6 DEF SlotOK

\* A file, or what is a file at the destination, is removed at once.
LEMMA RemovedAtOnceWalk ==
  ASSUME MoveInv, NEW n \in Slots, NEW o \in task[n].visit, Verified(o), RemovedAtOnce(o),
         src' = src \ Below(o), task' = [task EXCEPT ![n].visit = @ \ {o}], UNCHANGED dst
  PROVE  SlotOK(n)' /\ SourceOK'
  <1> DEFINE t == task[n]
  <1>1. /\ t.visit \subseteq Objects /\ t.open \subseteq Dirs /\ task \in [Slots -> Tasks]
        /\ SlotOK(n) /\ SourceOK /\ src \subseteq Objects /\ Dirs \subseteq Objects
        /\ dst \in [Objects -> Contents]
    BY WalkFacts
  <1>2. /\ task'[n].visit = t.visit \ {o} /\ task'[n].open = t.open /\ task'[n].errs = t.errs
        /\ task'[n].group = t.group
    BY <1>1 DEF Tasks
  <1>3. Moved(o) /\ o \in Objects /\ o \in Above[o] /\ dst[o] \in {"old", "new", "part"}
    BY <1>1, TreeFacts DEF SlotOK, WalkOK, Verified, Present, Contents
  <1>4. dst[o] = "old" => o \in Existing
    BY <1>1, <1>3 DEF SourceOK, OldExisted
  <1>5. \A p \in Below(o) \cap src : Safe(p)
    <2> TAKE p \in Below(o) \cap src
    <2>1. p \in Objects /\ o \in Above[p]
      BY DEF Below
    <2>2. CASE dst[o] = "old"
      BY <1>4, <2>1, <2>2 DEF Safe
    <2>3. CASE o \notin Dirs /\ dst[o] \in {"new", "part"}
      <3>1. p = o
        BY <1>3, <2>1, <2>3, UpStep
      <3> QED BY <2>3, <3>1 DEF Safe, Torn
    <2> QED BY <1>3, <2>2, <2>3 DEF RemovedAtOnce
  <1>6. SourceOK'
    BY <1>1, <1>3, <1>5, SourceRemoved
  <1>7. WalkOK(task[n])'
    BY <1>1, <1>2 DEF SlotOK, WalkOK
  <1>8. ASSUME NEW x \in task'[n].open, NEW p \in Below(x) \cap src'
        PROVE  \/ Safe(p)'
               \/ \E v \in task'[n].visit : x \in Above[v] /\ v \in Above[p]
               \/ \E e \in task'[n].open \cap task'[n].errs : x \in Above[e] /\ e \in Above[p]
    <2>1. p \in Below(x) \cap src /\ o \notin Above[p] /\ x \in t.open
      BY <1>2 DEF Below
    <2>2. Safe(p) => Safe(p)'
      BY DEF Safe, Torn
    <2>3. Covered(t, x)
      BY <1>1, <2>1 DEF SlotOK
    <2> QED BY <1>2, <2>1, <2>2, <2>3 DEF Covered
  <1>9. \A x \in task'[n].open : Covered(task[n], x)'
    BY <1>8 DEF Covered, Below
  <1> QED BY <1>6, <1>7, <1>9 DEF SlotOK

\* A directory is opened: its children are to be visited in its place.
LEMMA OpenedWalk ==
  ASSUME MoveInv, NEW n \in Slots, NEW o \in task[n].visit, ~ RemovedAtOnce(o),
         task' = [task EXCEPT ![n].visit = (@ \ {o}) \cup (Children(o) \cap src),
                              ![n].open = @ \cup {o}],
         UNCHANGED <<src, dst>>
  PROVE  SlotOK(n)'
  <1> DEFINE t == task[n]
             kids == Children(o) \cap src
  <1>1. /\ t.visit \subseteq Objects /\ t.open \subseteq Dirs /\ task \in [Slots -> Tasks]
        /\ SlotOK(n) /\ SourceOK /\ src \subseteq Objects /\ Dirs \subseteq Objects
    BY WalkFacts
  <1>2. /\ task'[n].visit = (t.visit \ {o}) \cup kids /\ task'[n].open = t.open \cup {o}
        /\ task'[n].errs = t.errs /\ task'[n].group = t.group
    BY <1>1 DEF Tasks
  <1>3. o \in Dirs /\ o \in Objects /\ o # Root /\ o \in Above[o]
    BY <1>1, TreeFacts, TreeAssumption DEF RemovedAtOnce
  <1>4. /\ t.visit \cap t.open = {}
        /\ \A v \in t.visit \cup t.open :
             /\ Moved(v)
             /\ Parent[v] = t.group \/ Parent[v] \in t.open
             /\ t.group # Root => v \notin Above[t.group]
    BY <1>1 DEF SlotOK, WalkOK
  <1>5. t.group # o
    BY <1>3, <1>4
  <1>6. \A c \in kids : /\ c \in Objects /\ Parent[c] = o /\ c # o /\ o \in Above[c] /\ Moved(c)
                        /\ c \notin t.open
    <2> TAKE c \in kids
    <2>1. c \in Objects /\ Parent[c] = o
      BY DEF Children
    <2>2. c # o /\ o \in Above[c]
      BY <1>3, <2>1, TreeAssumption
    <2>3. Moved(c)
      BY <1>3, <1>4, <2>1, MovedBelow
    <2>4. c \notin t.open
      BY <1>4, <1>5, <2>1
    <2> QED BY <2>1, <2>2, <2>3, <2>4
  <1>7. WalkOK(task[n])'
    <2>1. task'[n].visit \cap task'[n].open = {}
      BY <1>2, <1>4, <1>6
    <2>2. ASSUME NEW v \in task'[n].visit \cup task'[n].open
          PROVE  /\ Moved(v)
                 /\ Parent[v] = t.group \/ Parent[v] \in task'[n].open
                 /\ t.group # Root => v \notin Above[t.group]
      <3>1. CASE v \in t.visit \cup t.open
        BY <1>2, <1>4, <3>1
      <3>2. CASE v \in kids
        <4>1. t.group # Root => t.group \in Objects
          BY WalkFacts, TreeAssumption DEF Groups
        <4>2. t.group # Root => v \notin Above[t.group]
          BY <1>4, <1>6, <3>2, <4>1, TreeFacts
        <4> QED BY <1>2, <1>6, <3>2, <4>2
      <3> QED BY <1>2, <3>1, <3>2
    <2> QED BY <1>2, <2>1, <2>2 DEF WalkOK, Moved
  <1>8. ASSUME NEW x \in task'[n].open, NEW p \in Below(x) \cap src'
        PROVE  \/ Safe(p)'
               \/ \E v \in task'[n].visit : x \in Above[v] /\ v \in Above[p]
               \/ \E e \in task'[n].open \cap task'[n].errs : x \in Above[e] /\ e \in Above[p]
    <2>1. p \in Below(x) \cap src /\ p \in Objects /\ x \in Above[p]
      BY DEF Below
    <2>2. Safe(p) => Safe(p)'
      BY DEF Safe, Torn
    <2>3. CASE x \in Above[o] /\ o \in Above[p]
      <3>1. CASE p = o
        BY <1>3, <3>1 DEF Safe
      <3>2. CASE p # o
        <4>1. PICK c \in Above[p] : Parent[c] = o /\ c \in Objects /\ Above[o] \subseteq Above[c]
          BY <2>1, <2>3, <3>2, DownStep
        <4>2. c \in src
          BY <1>1, <2>1, <4>1 DEF SourceOK, SourceClosed, Below
        <4> QED BY <1>2, <2>3, <4>1, <4>2 DEF Children
      <3> QED BY <3>1, <3>2
    <2>4. CASE ~ (x \in Above[o] /\ o \in Above[p])
      <3>1. x \in t.open
        BY <1>2, <1>3, <2>1, <2>4
      <3>2. Covered(t, x)
        BY <1>1, <3>1 DEF SlotOK
      <3> QED BY <1>2, <2>1, <2>2, <2>4, <3>2 DEF Covered
    <2> QED BY <2>3, <2>4
  <1>9. \A x \in task'[n].open : Covered(task[n], x)'
    BY <1>8 DEF Covered, Below
  <1> QED BY <1>7, <1>9 DEF SlotOK

\* The completion starts with the payloads of the group.
LEMMA ReportWalk ==
  ASSUME MoveInv, NEW n \in Slots, Report(n)
  PROVE  SlotOK(n)' /\ \A m \in Slots \ {n} : task'[m] = task[m]
  <1> DEFINE g == task[n].group
  <1>1. PICK r \in Tasks :
           /\ task' = [task EXCEPT ![n] = r] /\ r.open = {}
           /\ r.visit = {} \/ (r.visit = payload[g] /\ r.group = g)
    BY ReportRec DEF MoveInv
  <1>2. task'[n] = r /\ \A m \in Slots \ {n} : task'[m] = task[m]
    BY <1>1, WalkFacts
  <1>3. CASE r.visit = {}
    BY <1>1, <1>2, <1>3, SlotIdle
  <1>4. CASE r.visit = payload[g] /\ r.group = g
    <2>1. g \in Groups /\ payload[g] \subseteq Objects
      BY WalkFacts DEF MoveInv, GroupInv, TypeInv, TypeOK
    <2>2. \A v \in payload[g] : Moved(v) /\ Parent[v] = g /\ (g # Root => v \notin Above[g])
      BY <2>1, TreeFacts DEF MoveInv, GroupInv, PayloadOK
    <2>3. WalkOK(r)
      BY <1>1, <1>4, <2>2 DEF WalkOK
    <2> QED BY <1>1, <1>2, <2>3 DEF SlotOK, WalkOK
  <1> QED BY <1>1, <1>2, <1>3, <1>4

LEMMA RemovesWalk ==
  ASSUME MoveInv, NEW n \in Slots, Removes(n)
  PROVE  SlotOK(n)' /\ SourceOK' /\ \A m \in Slots \ {n} : task'[m] = task[m]
  <1>0. TypeInv /\ SourceOK /\ task \in [Slots -> Tasks]
    BY WalkFacts DEF MoveInv, GroupInv
  <1>1. Storages
    BY <1>0, RemovesOn
  <1>2. \A m \in Slots \ {n} : task'[m] = task[m]
    BY <1>0, RemoverRec
  <1>3. UNCHANGED src => SourceOK'
    BY <1>0, <1>1, SourceKept
  <1>4. ASSUME NEW o \in task[n].visit, VerifyObject(n, o) PROVE SlotOK(n)' /\ SourceOK'
    BY <1>3, <1>4, RemovedAtOnceWalk, OpenedWalk DEF VerifyObject
  <1>5. ASSUME NEW o \in task[n].visit, VerifyFails(n, o) PROVE SlotOK(n)' /\ SourceOK'
    BY <1>3, <1>5, VerifyFailsWalk DEF VerifyFails
  <1>6. ASSUME NEW d \in task[n].open, RemoveDir(n, d) PROVE SlotOK(n)' /\ SourceOK'
    BY <1>6, RemoveDirWalk
  <1>7. ASSUME NEW d \in task[n].open, KeepDir(n, d) PROVE SlotOK(n)' /\ SourceOK'
    BY <1>3, <1>7, KeepDirWalk DEF KeepDir
  <1>8. ASSUME HookReturns(n) PROVE SlotOK(n)' /\ SourceOK'
    <2>1. task'[n].visit = {} /\ task'[n].open = {}
      BY <1>0, <1>8, FinishedRec DEF HookReturns
    <2> QED BY <1>3, <1>8, <2>1, SlotIdle DEF HookReturns
  <1> QED BY <1>2, <1>4, <1>5, <1>6, <1>7, <1>8 DEF Removes

LEMMA RemovalStep == MoveInv /\ Next => RemovalInv'
  <1> SUFFICES ASSUME MoveInv, Next PROVE RemovalInv'
    OBVIOUS
  <1>0. /\ GroupInv /\ TypeInv /\ SourceOK /\ src \subseteq Objects /\ task \in [Slots -> Tasks]
        /\ \A n \in Slots : SlotOK(n)
    BY RemovalParts DEF MoveInv, GroupInv, TypeInv, TypeOK
  <1>1. Storages
    BY <1>0, OtherTypes
  <1>2. UNCHANGED src => SourceOK'
    BY <1>0, <1>1, SourceKept
  <1>3. \A m \in Slots : task'[m] = task[m] => SlotOK(m)'
    BY <1>0, <1>1, SlotKept
  <1>4. \A m \in Slots : task'[m].open = {} /\ task'[m].visit = {} => SlotOK(m)'
    BY SlotIdle
  <1>5. SourceOK' /\ (\A m \in Slots : SlotOK(m)') => RemovalInv'
    BY DEF RemovalInv, SlotOK, SourceOK
  <1>10. ASSUME NEW q \in Requests, Transfer(q[1], q[2], q[3]) PROVE RemovalInv'
    <2>1. NewSlot \in Slots /\ UNCHANGED src
      BY <1>10, NewSlotFree DEF Transfer
    <2>2. task'[NewSlot].open = {} /\ task'[NewSlot].visit = {}
          /\ \A m \in Slots \ {NewSlot} : task'[m] = task[m]
      BY <1>0, <1>10, <2>1 DEF Transfer, NoTask
    <2> QED BY <1>2, <1>3, <1>4, <1>5, <2>1, <2>2
  <1>11. ASSUME NEW n \in Slots, Append(n) \/ AppendInline(n) PROVE RemovalInv'
    <2>1. UNCHANGED src /\ task[n].st # "removing" /\ task'[n].open = task[n].open /\ task'[n].visit = task[n].visit
          /\ \A m \in Slots \ {n} : task'[m] = task[m]
      BY <1>0, <1>11 DEF Append, AppendInline, Tasks
    <2>2. task[n].open = {} /\ task[n].visit = {}
      BY <1>0, <2>1 DEF TypeInv, RecOK
    <2> QED BY <1>2, <1>3, <1>4, <1>5, <2>1, <2>2
  <1>12. ASSUME NEW n \in Slots, Works(n) PROVE RemovalInv'
    <2>1. PICK r \in Tasks : task' = [task EXCEPT ![n] = r] /\ r.visit = {} /\ r.open = {}
      BY <1>0, <1>12, WorkerRec
    <2>2. UNCHANGED src
      BY <1>0, <1>12, WorksOn
    <2>3. task'[n] = r /\ \A m \in Slots \ {n} : task'[m] = task[m]
      BY <1>0, <2>1
    <2> QED BY <1>2, <1>3, <1>4, <1>5, <2>1, <2>2, <2>3
  <1>13. ASSUME NEW n \in Slots, NEW o \in task[n].todo, NextTask(n, o) PROVE RemovalInv'
    <2>1. UNCHANGED src
      BY <1>13 DEF NextTask
    <2> QED BY <1>0, <1>2, <1>3, <1>4, <1>5, <1>13, <2>1, NextTaskStep
  <1>14. ASSUME NEW n \in Slots, Report(n) PROVE RemovalInv'
    <2>1. UNCHANGED src
      BY <1>14 DEF Report
    <2> QED BY <1>2, <1>3, <1>5, <1>14, <2>1, ReportWalk
  <1>15. ASSUME NEW n \in Slots, Removes(n) PROVE RemovalInv'
    BY <1>3, <1>5, <1>15, RemovesWalk
  <1>16. ASSUME NEW n \in Slots, task[n].st \in {"done", "restored"}, SetRetry(n) PROVE RemovalInv'
    <2>1. UNCHANGED src
      BY <1>16 DEF SetRetry
    <2> QED BY <1>0, <1>2, <1>3, <1>4, <1>5, <1>16, <2>1, RetryStep
  <1>17. ASSUME Restart PROVE RemovalInv'
    <2>1. UNCHANGED src
      BY <1>17 DEF Restart
    <2> QED BY <1>0, <1>2, <1>4, <1>5, <1>17, <2>1, RestartStep
  <1> QED BY <1>10, <1>11, <1>12, <1>13, <1>14, <1>15, <1>16, <1>17, StepCases

LEMMA MoveInit == Init => MoveInv
  <1> SUFFICES ASSUME Init PROVE RemovalInv
    BY GroupInit DEF MoveInv
  <1>1. \A n \in Slots : task[n] = NoTask
    BY DEF Init
  <1>2. \A n \in Slots : SlotOK(n)
    BY <1>1, NoTaskFacts DEF SlotOK
  <1>3. SourceClosed /\ NothingLost
    BY DEF Init, SourceClosed, NothingLost
  <1>4. OldExisted
    BY DEF Init, OldExisted
  <1> QED BY <1>2, <1>3, <1>4, RemovalParts DEF SourceOK

LEMMA MoveStep == MoveInv /\ [Next]_vars => MoveInv'
  <1>1. ASSUME MoveInv, Next PROVE RemovalInv'
    BY <1>1, RemovalStep
  <1>2. ASSUME MoveInv, UNCHANGED vars PROVE RemovalInv'
    BY <1>2 DEF MoveInv, RemovalInv, WalkOK, Covered, Safe, Torn, Below, SourceClosed, OldExisted, NothingLost,
                MovedFile,
                vars, coordinator, bounds
  <1> QED BY <1>1, <1>2, GroupStep DEF MoveInv

LEMMA MoveInvHolds == Spec => []MoveInv
  BY MoveInit, MoveStep, PTL DEF Spec

\* verifyAndRemove (transfer.go 75-118) takes no file from the source that was never
\* uploaded, and nothing that no move names, for every tree, whichever tasks fail, are
\* retried or are lost in a restart, and with any number of completions under way at
\* once.  What it can cost is a file whose last upload is under way or failed half
\* way: Torn cannot be dropped (MovedWhole), except where the destination's driver
\* publishes whole objects only, so that Appears and its leftovers do not happen.
THEOREM NoFileIsLost == Spec => []NothingLost
  <1>1. MoveInv => NothingLost
    BY DEF MoveInv, RemovalInv
  <1> QED BY <1>1, MoveInvHolds, PTL

-----------------------------------------------------------------------------
(***************************************************************************)
(* No move is forgotten.  As long as nothing has failed, a requested move  *)
(* whose source is still there is on its way: in a task that has still to  *)
(* append it, in the payload of the group, or in the walk of a completion. *)
(***************************************************************************)
\* The task will append o to the payload of its group.
WillAppend(t, o) ==
    /\ t.obj = o /\ t.kind = "move" /\ t.group = Root
    /\ \/ t.st = "added"
       \/ t.inline = TRUE /\ t.st \in {"running", "uploading", "ending"}

\* The walk of the task has still to remove o.
WillRemove(t, o) == t.st = "removing" /\ t.group = Root /\ o \in t.visit \cup t.open

Carries(t, o) == WillAppend(t, o) \/ WillRemove(t, o)

OnItsWay(o) == o \in payload[Root] \/ \E n \in Slots : Carries(task[n], o)

\* Until something fails, whoever reports has succeeded: the last task of a group
\* runs its completion.
AllSucceed == \A n \in Slots : task[n].st \in {"ending", "report"} => task[n].ok = TRUE

MovesKept == \A r \in asked : r[1] = "move" /\ r[2] \in src => OnItsWay(r[2])

FaultFree == faulty = FALSE => AllSucceed /\ MovesKept

\* The requests stay the same, no payload is dropped, and no task drops what it carries
\* before it is removed.
LEMMA WaysKept ==
  ASSUME MovesKept, asked' = asked, src' \subseteq src, payload[Root] \subseteq payload'[Root],
         \A o \in src' : \A n \in Slots :
           Carries(task[n], o) => Carries(task'[n], o) \/ o \in payload'[Root]
  PROVE  MovesKept'
  <1> SUFFICES ASSUME NEW r \in asked, r[1] = "move", r[2] \in src' PROVE OnItsWay(r[2])'
    BY DEF MovesKept
  <1>1. OnItsWay(r[2])
    BY DEF MovesKept
  <1>2. CASE r[2] \in payload[Root]
    BY <1>2 DEF OnItsWay
  <1>3. CASE \E n \in Slots : Carries(task[n], r[2])
    <2>1. PICK n \in Slots : Carries(task[n], r[2])
      BY <1>3
    <2>2. Carries(task'[n], r[2]) \/ r[2] \in payload'[Root]
      BY <2>1
    <2> QED BY <2>2 DEF OnItsWay, Carries, WillAppend, WillRemove
  <1> QED BY <1>1, <1>2, <1>3 DEF OnItsWay

\* The same when one task only has changed.
LEMMA OneWay ==
  ASSUME GroupInv, FaultFree, faulty = FALSE, NEW n \in Slots,
         \A m \in Slots \ {n} : task'[m] = task[m],
         task'[n].st \in {"ending", "report"} => task'[n].ok = TRUE,
         asked' = asked, src' \subseteq src, payload[Root] \subseteq payload'[Root],
         \A o \in src' : Carries(task[n], o) => Carries(task'[n], o) \/ o \in payload'[Root]
  PROVE  FaultFree'
  <1>1. AllSucceed /\ MovesKept
    BY DEF FaultFree
  <1>2. AllSucceed'
    BY <1>1 DEF AllSucceed
  <1>3. \A o \in src' : \A m \in Slots :
          Carries(task[m], o) => Carries(task'[m], o) \/ o \in payload'[Root]
    OBVIOUS
  <1>4. MovesKept'
    BY <1>1, <1>3, WaysKept
  <1> QED BY <1>2, <1>4 DEF FaultFree

LEMMA RootGroup == Root \in Groups /\ \A r \in Requests : r[2] \in Objects /\ Parent[r[2]] = Root
  BY TransferParams DEF Groups

\* A new request is carried by its task.
LEMMA TransferWay ==
  ASSUME GroupInv, FaultFree, faulty = FALSE, NEW q \in Requests, Transfer(q[1], q[2], q[3])
  PROVE  FaultFree'
  <1> DEFINE k == q[1]
             o == q[2]
             i == q[3]
             s == IF i THEN "running" ELSE IF k = "move" THEN "added" ELSE "queued"
             d == IF i THEN {o} ELSE {}
             r == Fresh(s, o, k, i, Parent[o], d)
             n == NewSlot
  <1>1. q = <<k, o, i>> /\ k \in Kinds /\ o \in Objects /\ i \in BOOLEAN /\ Parent[o] = Root
    BY TransferParams
  <1>2. /\ n \in Slots /\ task[n].st = "none" /\ task' = [task EXCEPT ![n] = r]
        /\ asked' = asked \cup {q} /\ AddTask(Root, {}) /\ src' = src
    BY <1>1, NewSlotFree DEF Transfer, Fresh
  <1>3. r.st = s /\ r.obj = o /\ r.kind = k /\ r.inline = i /\ r.group = Root
    BY <1>1 DEF Fresh, NoTask
  <1>4. s \notin {"ending", "report"} /\ (k = "move" => s = "added" \/ (s = "running" /\ i = TRUE))
    BY <1>1
  <1> HIDE DEF r, n, s
  <1>5. task \in [Slots -> Tasks] /\ payload \in [Groups -> SUBSET Objects]
    BY DEF GroupInv, TypeInv, TypeOK
  <1>6. task'[n] = r /\ \A m \in Slots \ {n} : task'[m] = task[m]
    BY <1>2, <1>5
  <1>7. AllSucceed /\ MovesKept
    BY DEF FaultFree
  <1>8. AllSucceed'
    BY <1>3, <1>4, <1>6, <1>7 DEF AllSucceed
  <1>9. payload' = payload
    BY <1>2, <1>5, RootGroup DEF AddTask
  <1>10. k = "move" => Carries(task'[n], o)
    BY <1>3, <1>4, <1>6 DEF Carries, WillAppend
  <1>11. ASSUME NEW p, OnItsWay(p) PROVE OnItsWay(p)'
    <2>1. \A m \in Slots : Carries(task[m], p) => m # n
      BY <1>2 DEF Carries, WillAppend, WillRemove
    <2>2. \A m \in Slots : Carries(task[m], p) => Carries(task'[m], p)
      BY <1>6, <2>1
    <2> QED BY <1>9, <1>11, <2>2 DEF OnItsWay, Carries, WillAppend, WillRemove
  <1>12. MovesKept'
    <2> SUFFICES ASSUME NEW x \in asked', x[1] = "move", x[2] \in src' PROVE OnItsWay(x[2])'
      BY DEF MovesKept
    <2>1. CASE x \in asked
      BY <1>2, <1>7, <1>11, <2>1 DEF MovesKept
    <2>2. CASE x = q
      BY <1>2, <1>10, <2>2 DEF OnItsWay, Carries, WillAppend, WillRemove
    <2> QED BY <1>2, <2>1, <2>2
  <1> QED BY <1>8, <1>12 DEF FaultFree

\* What is appended goes from the task to the payload.
LEMMA AppendWay ==
  ASSUME GroupInv, FaultFree, faulty = FALSE, NEW n \in Slots, Append(n) \/ AppendInline(n)
  PROVE  FaultFree'
  <1> DEFINE t == task[n]
             g == t.group
  <1>1. t \in Tasks /\ RecOK(t) /\ task \in [Slots -> Tasks] /\ payload \in [Groups -> SUBSET Objects]
        /\ g \in Groups
    BY DEF GroupInv, TypeInv, TypeOK, Tasks
  <1>2. /\ t.st \in {"added", "ending"} /\ payload' = [payload EXCEPT ![g] = @ \cup {t.obj}]
        /\ UNCHANGED <<src, asked>>
    BY DEF Append, AppendInline, AppendPayload, bounds
  <1>3. /\ \A m \in Slots \ {n} : task'[m] = task[m]
        /\ task'[n].st \in {"queued", "report"} /\ task'[n].ok = t.ok
        /\ task'[n].st = "report" => t.st = "ending"
    BY <1>1 DEF Append, AppendInline, Tasks
  <1>4. t.st = "ending" => t.ok = TRUE
    BY DEF FaultFree, AllSucceed
  <1>5. payload[Root] \subseteq payload'[Root] /\ t.obj \in payload'[g]
    BY <1>1, <1>2, RootGroup
  <1>6. ASSUME NEW o \in src', Carries(t, o) PROVE o \in payload'[Root]
    <2>1. t.obj = o /\ g = Root
      BY <1>2, <1>6 DEF Carries, WillAppend, WillRemove
    <2> QED BY <1>5, <2>1
  <1> QED BY <1>2, <1>3, <1>4, <1>5, <1>6, OneWay

\* A worker keeps what it carries, and reports a success.
LEMMA WorkerWay ==
  ASSUME GroupInv, FaultFree, faulty = FALSE, NEW n \in Slots, Works(n), faulty' = FALSE
  PROVE  FaultFree'
  <1> DEFINE t == task[n]
             u == task'[n]
  <1>1. TypeInv /\ t \in Tasks /\ RecOK(t) /\ task \in [Slots -> Tasks] /\ t.inline \in BOOLEAN
    BY DEF GroupInv, TypeInv, TypeOK, Tasks
  <1>2. UNCHANGED <<src, asked, payload>>
    BY <1>1, WorksOn DEF coordinator, bounds
  <1>3. ~ Fails(n)
    BY DEF Fails
  <1>4. \A m \in Slots \ {n} : task'[m] = task[m]
    BY <1>1, WorkerRec
  <1> DEFINE Same == u.obj = t.obj /\ u.kind = t.kind /\ u.inline = t.inline /\ u.group = t.group
  <1>5. CASE RunTask(n)
    <2>1. t.st = "queued" /\ u.st \in {"running", "uploading"}
      BY <1>1, <1>5 DEF RunTask, Tasks
    <2>2. \A o : ~ Carries(t, o)
      BY <2>1 DEF Carries, WillAppend, WillRemove
    <2> QED BY <1>2, <1>4, <2>1, <2>2, OneWay
  <1>6. CASE AllHandedOn(n)
    <2>1. t.st = "running" /\ u.st = AfterRun(n) /\ u.ok = TRUE /\ Same
      BY <1>1, <1>6 DEF AllHandedOn, Tasks
    <2>2. t.inline = TRUE /\ t.kind = "move" => u.st = "ending"
      BY <2>1 DEF AfterRun
    <2>3. ASSUME NEW o, Carries(t, o) PROVE Carries(u, o)
      BY <2>1, <2>2, <2>3 DEF Carries, WillAppend, WillRemove
    <2> QED BY <1>2, <1>4, <2>1, <2>3, OneWay
  <1>9. CASE Appears(n)
    <2>1. u = t /\ t.st = "uploading"
      BY <1>9 DEF Appears
    <2>2. \A o : Carries(t, o) => Carries(u, o)
      BY <2>1
    <2> QED BY <1>2, <1>4, <2>1, <2>2, OneWay
  <1>7. CASE Uploaded(n)
    <2>1. t.st = "uploading" /\ u.ok = TRUE /\ Same /\ (t.inline = TRUE => u.st = "running")
      BY <1>1, <1>7 DEF Uploaded, Tasks
    <2>2. ASSUME NEW o, Carries(t, o) PROVE Carries(u, o)
      BY <2>1, <2>2 DEF Carries, WillAppend, WillRemove
    <2> QED BY <1>2, <1>4, <2>1, <2>2, OneWay
  <1>8. ASSUME NEW o \in t.todo, NextInline(n, o) PROVE FaultFree'
    <2>0. t.st = "running" /\ t.inline = TRUE
      BY <1>1, <1>8 DEF NextInline
    <2>1. u.st \in {"running", "uploading"} /\ Same
      <3>1. CASE task' = [task EXCEPT ![n].todo = (@ \ {o}) \cup Listing(t.kind, o),
                                      ![n].ok = @ \/ Listing(t.kind, o) = {}]
        <4> DEFINE k == t.ok \/ Listing(t.kind, o) = {}
                   r == [t EXCEPT !.todo = (t.todo \ {o}) \cup Listing(t.kind, o), !.ok = k]
        <4>1. task' = [task EXCEPT ![n] = r]
          BY <1>1, <3>1
        <4> HIDE DEF k
        <4>2. r.st = t.st /\ r.obj = t.obj /\ r.kind = t.kind /\ r.inline = t.inline /\ r.group = t.group
          BY <1>1 DEF Tasks
        <4> HIDE DEF r
        <4> QED BY <1>1, <2>0, <4>1, <4>2
      <3>2. CASE task' = [task EXCEPT ![n].todo = @ \ {o}, ![n].st = "uploading", ![n].cur = o]
        BY <1>1, <3>2 DEF Tasks
      <3> QED BY <1>8, <3>1, <3>2 DEF NextInline
    <2>2. ASSUME NEW p, Carries(t, p) PROVE Carries(u, p)
      BY <2>0, <2>1, <2>2 DEF Carries, WillAppend, WillRemove
    <2> QED BY <1>2, <1>4, <2>1, <2>2, OneWay
  <1> QED BY <1>3, <1>5, <1>6, <1>7, <1>8, <1>9 DEF Works

\* A task that hands an object on carries nothing itself.
LEMMA NextTaskWay ==
  ASSUME GroupInv, FaultFree, faulty = FALSE, NEW n \in Slots, NEW o \in task[n].todo, NextTask(n, o)
  PROVE  FaultFree'
  <1> DEFINE t == task[n]
             z == NewSlot
             r == [t EXCEPT !.todo = @ \ {o}]
             q == Queued(o, t.kind, t.group)
  <1>1. t \in Tasks /\ task \in [Slots -> Tasks] /\ payload \in [Groups -> SUBSET Objects] /\ t.group \in Groups
    BY DEF GroupInv, TypeInv, TypeOK, Tasks
  <1>2. /\ z \in Slots /\ task[z].st = "none" /\ t.st = "running" /\ t.inline = FALSE
        /\ AddTask(t.group, {}) /\ UNCHANGED <<src, asked>>
    BY <1>1, NewSlotFree DEF NextTask, Tasks, bounds
  <1>3. task' = [task EXCEPT ![n] = r, ![z] = q] /\ r.st = t.st /\ q.st = "queued"
    BY <1>1 DEF NextTask, Queued, NoTask, Tasks
  <1> HIDE DEF r, q, z
  <1>4. n # z /\ task'[n] = r /\ task'[z] = q /\ \A m \in Slots \ {n, z} : task'[m] = task[m]
    BY <1>1, <1>2, <1>3
  <1>5. payload' = payload
    BY <1>1, <1>2 DEF AddTask
  <1>6. AllSucceed /\ MovesKept
    BY DEF FaultFree
  <1>7. AllSucceed'
    BY <1>2, <1>3, <1>4, <1>6 DEF AllSucceed
  <1>8. ASSUME NEW p, NEW m \in Slots, Carries(task[m], p) PROVE Carries(task'[m], p)
    <2>1. m \notin {n, z}
      BY <1>2, <1>8 DEF Carries, WillAppend, WillRemove
    <2> QED BY <1>4, <1>8, <2>1
  <1>9. MovesKept'
    BY <1>2, <1>5, <1>6, <1>8, WaysKept
  <1> QED BY <1>7, <1>9 DEF FaultFree

\* The last report of a group hands its payload to the completion.
LEMMA ReportWay ==
  ASSUME GroupInv, FaultFree, faulty = FALSE, NEW n \in Slots, Report(n)
  PROVE  FaultFree'
  <1> DEFINE t == task[n]
             g == t.group
             p == payload[g]
  <1>1. /\ TypeInv /\ t \in Tasks /\ task \in [Slots -> Tasks] /\ g \in Groups
        /\ payload \in [Groups -> SUBSET Objects] /\ t.st = "report"
    BY DEF GroupInv, TypeInv, TypeOK, Tasks, Report
  <1>2. t.ok = TRUE /\ AllSucceed /\ MovesKept /\ UNCHANGED <<src, asked>>
    BY <1>1 DEF FaultFree, AllSucceed, Report, bounds
  <1>3. PICK r \in Tasks : task' = [task EXCEPT ![n] = r] /\ r.st \notin Counted
    BY ReportRec
  <1>4. (\A m \in Slots \ {n} : task'[m] = task[m]) /\ task'[n].st \notin {"ending", "report"}
    BY <1>1, <1>3 DEF Counted
  <1>5. \A o : ~ Carries(t, o)
    BY <1>1 DEF Carries, WillAppend, WillRemove
  <1>6. CASE payload' = payload
    BY <1>2, <1>4, <1>5, <1>6, OneWay
  <1>7. CASE payload' = [payload EXCEPT ![g] = {}] /\ task' = [task EXCEPT ![n] = Completing(n, p)]
    <2>1. Completing(n, p).st = "removing" /\ Completing(n, p).group = g /\ Completing(n, p).visit = p
      BY <1>1 DEF Completing, Tasks
    <2>2. task'[n].st = "removing" /\ task'[n].group = g /\ task'[n].visit = p
      BY <1>1, <1>7, <2>1
    <2>3. ASSUME NEW o, OnItsWay(o) PROVE OnItsWay(o)'
      <3>1. CASE \E m \in Slots : Carries(task[m], o)
        <4>1. PICK m \in Slots : Carries(task[m], o)
          BY <3>1
        <4>2. Carries(task'[m], o)
          BY <1>4, <1>5, <4>1
        <4> QED BY <4>2 DEF OnItsWay, Carries, WillAppend, WillRemove
      <3>2. CASE o \in payload[Root] /\ g = Root
        <4>1. Carries(task'[n], o)
          BY <2>2, <3>2 DEF Carries, WillRemove
        <4> QED BY <4>1 DEF OnItsWay, Carries, WillAppend, WillRemove
      <3>3. CASE o \in payload[Root] /\ g # Root
        <4>1. o \in payload'[Root]
          BY <1>1, <1>7, <3>3, RootGroup
        <4> QED BY <4>1 DEF OnItsWay
      <3> QED BY <2>3, <3>1, <3>2, <3>3 DEF OnItsWay
    <2>4. MovesKept'
      BY <1>2, <2>3 DEF MovesKept
    <2>5. AllSucceed'
      BY <1>2, <1>4 DEF AllSucceed
    <2> QED BY <2>4, <2>5 DEF FaultFree
  <1> QED BY <1>2, <1>6, <1>7 DEF Report, Done

\* The walk drops an object only once it is removed.
LEMMA RemoverWay ==
  ASSUME GroupInv, FaultFree, faulty = FALSE, NEW n \in Slots, Removes(n), faulty' = FALSE
  PROVE  FaultFree'
  <1> DEFINE t == task[n]
             u == task'[n]
  <1>1. TypeInv /\ t \in Tasks /\ task \in [Slots -> Tasks] /\ t.visit \subseteq Objects /\ t.open \subseteq Objects
    BY TreeAssumption DEF GroupInv, TypeInv, TypeOK, Tasks
  <1>2. UNCHANGED <<asked, payload>> /\ src' \subseteq src
    BY <1>1, RemovesOn DEF coordinator, bounds, Storages
  <1>3. PICK r \in Tasks : task' = [task EXCEPT ![n] = r] /\ r.st \notin Counted
    BY <1>1, RemoverRec
  <1>4. (\A m \in Slots \ {n} : task'[m] = task[m]) /\ u.st \notin {"ending", "report"}
    BY <1>1, <1>3 DEF Counted
  <1>5. t.st = "removing"
    BY DEF Removes, VerifyObject, VerifyFails, RemoveDir, KeepDir, Listed, HookReturns
  <1>6. ASSUME u.st = "removing", u.group = t.group,
               \A o \in src' : o \in t.visit \cup t.open => o \in u.visit \cup u.open
        PROVE  FaultFree'
    <2>1. ASSUME NEW o \in src', Carries(t, o) PROVE Carries(u, o)
      BY <1>5, <1>6, <2>1 DEF Carries, WillAppend, WillRemove
    <2> QED BY <1>2, <1>4, <2>1, OneWay
  <1>7. ASSUME NEW o \in t.visit, VerifyObject(n, o) PROVE FaultFree'
    <2>1. CASE src' = src \ Below(o) /\ task' = [task EXCEPT ![n].visit = @ \ {o}]
      <3>1. u.st = t.st /\ u.group = t.group /\ u.visit = t.visit \ {o} /\ u.open = t.open
        BY <1>1, <2>1 DEF Tasks
      <3>2. o \notin src'
        BY <1>1, <2>1, TreeFacts DEF Below
      <3> QED BY <1>5, <1>6, <3>1, <3>2
    <2>2. CASE task' = [task EXCEPT ![n].visit = (@ \ {o}) \cup (Children(o) \cap src),
                                    ![n].open = @ \cup {o}]
      <3>1. /\ u.st = t.st /\ u.group = t.group /\ u.open = t.open \cup {o}
            /\ u.visit = (t.visit \ {o}) \cup (Children(o) \cap src)
        BY <1>1, <2>2 DEF Tasks
      <3> QED BY <1>5, <1>6, <3>1
    <2> QED BY <1>7, <2>1, <2>2 DEF VerifyObject
  <1>8. ASSUME NEW d \in t.open, RemoveDir(n, d) PROVE FaultFree'
    <2>1. src' = src \ Below(d) /\ u.st = t.st /\ u.group = t.group /\ u.visit = t.visit /\ u.open = t.open \ {d}
      BY <1>1, <1>8 DEF RemoveDir, Tasks
    <2>2. d \notin src'
      BY <1>1, <2>1, TreeFacts DEF Below
    <2> QED BY <1>5, <1>6, <2>1, <2>2
  <1>9. CASE HookReturns(n)
    <2>1. \A o : ~ Carries(t, o)
      BY <1>5, <1>9 DEF HookReturns, Carries, WillAppend, WillRemove
    <2> QED BY <1>2, <1>4, <2>1, OneWay
  <1>10. (\A o : ~ VerifyFails(n, o)) /\ \A d : ~ KeepDir(n, d)
    BY DEF VerifyFails, KeepDir
  <1> QED BY <1>7, <1>8, <1>9, <1>10 DEF Removes

\* A task that runs again carried nothing.
LEMMA RetryWay ==
  ASSUME GroupInv, FaultFree, faulty = FALSE, NEW n \in Slots, task[n].st \in {"done", "restored"}, SetRetry(n)
  PROVE  FaultFree'
  <1> DEFINE t == task[n]
             r == Queued(t.obj, t.kind, Parent[t.obj])
  <1>1. t \in Tasks /\ RecOK(t) /\ task \in [Slots -> Tasks] /\ payload \in [Groups -> SUBSET Objects]
    BY DEF GroupInv, TypeInv, TypeOK
  <1>2. task' = [task EXCEPT ![n] = r] /\ AddTask(Parent[t.obj], Payload(n)) /\ UNCHANGED <<src, asked>>
    BY DEF SetRetry, Queued
  <1>3. r.st = "queued"
    BY DEF Queued, NoTask
  <1> HIDE DEF r
  <1>4. task'[n] = r /\ \A m \in Slots \ {n} : task'[m] = task[m]
    BY <1>1, <1>2
  <1>5. \A o : ~ Carries(t, o)
    BY DEF Carries, WillAppend, WillRemove
  <1>6. payload[Root] \subseteq payload'[Root]
    BY <1>1, <1>2, RootGroup DEF AddTask
  <1> QED BY <1>2, <1>3, <1>4, <1>5, <1>6, OneWay

LEMMA FaultFreeStep == GroupInv /\ FaultFree /\ [Next]_vars => FaultFree'
  <1> SUFFICES ASSUME GroupInv, FaultFree, [Next]_vars, faulty' = FALSE PROVE FaultFree'
    BY DEF FaultFree
  <1>1. CASE UNCHANGED vars
    <2>1. faulty = FALSE /\ task' = task /\ payload' = payload /\ src' = src /\ asked' = asked
      BY <1>1 DEF vars, coordinator, bounds
    <2>2. AllSucceed /\ MovesKept
      BY <2>1 DEF FaultFree
    <2>3. AllSucceed'
      BY <2>1, <2>2 DEF AllSucceed
    <2>4. MovesKept'
      BY <2>1, <2>2, WaysKept
    <2> QED BY <2>3, <2>4 DEF FaultFree
  <1>2. CASE Next
    <2>2. ~ Restart
      BY DEF Restart
    <2>3. ASSUME NEW q \in Requests, Transfer(q[1], q[2], q[3]) PROVE FaultFree'
      <3>1. faulty = FALSE
        BY <2>3 DEF Transfer
      <3> QED BY <2>3, <3>1, TransferWay
    <2>4. ASSUME NEW n \in Slots, Append(n) \/ AppendInline(n) PROVE FaultFree'
      <3>1. faulty = FALSE
        BY <2>4 DEF Append, AppendInline
      <3> QED BY <2>4, <3>1, AppendWay
    <2>5. ASSUME NEW n \in Slots, Works(n) PROVE FaultFree'
      <3>1. faulty = FALSE
        BY <2>5 DEF Works, RunTask, AllHandedOn, Appears, Uploaded, Fails, NextInline
      <3> QED BY <2>5, <3>1, WorkerWay
    <2>6. ASSUME NEW n \in Slots, NEW o \in task[n].todo, NextTask(n, o) PROVE FaultFree'
      <3>1. faulty = FALSE
        BY <2>6 DEF NextTask
      <3> QED BY <2>6, <3>1, NextTaskWay
    <2>7. ASSUME NEW n \in Slots, Report(n) PROVE FaultFree'
      <3>1. faulty = FALSE
        BY <2>7 DEF Report
      <3> QED BY <2>7, <3>1, ReportWay
    <2>8. ASSUME NEW n \in Slots, Removes(n) PROVE FaultFree'
      <3>1. faulty = FALSE
        BY <2>8 DEF Removes, VerifyObject, VerifyFails, RemoveDir, KeepDir, HookReturns
      <3> QED BY <2>8, <3>1, RemoverWay
    <2>9. ASSUME NEW n \in Slots, task[n].st \in {"done", "restored"}, SetRetry(n) PROVE FaultFree'
      <3>1. faulty = FALSE
        BY <2>9 DEF SetRetry
      <3> QED BY <2>9, <3>1, RetryWay
    <2> QED BY <1>2, <2>2, <2>3, <2>4, <2>5, <2>6, <2>7, <2>8, <2>9, StepCases
  <1> QED BY <1>1, <1>2

LEMMA FaultFreeHolds == Spec => [](GroupInv /\ FaultFree)
  <1>1. Init => FaultFree
    <2> SUFFICES ASSUME Init PROVE FaultFree
      OBVIOUS
    <2>1. \A n \in Slots : task[n].st = "none"
      BY NoTaskFacts DEF Init
    <2>2. asked = {}
      BY DEF Init
    <2> QED BY <2>1, <2>2 DEF FaultFree, AllSucceed, MovesKept
  <1> QED BY <1>1, GroupInit, GroupStep, FaultFreeStep, PTL DEF Spec

\* A payload of a group without tasks is neither stale nor lost: the group leaves
\* nothing to the next one (group.go 67-72), and if nothing has failed, every move
\* requested has taken its source away once its destination has no task and no
\* completion left, whichever task ran the completion and whatever ran beside it
\* (group.go 54-82, copy_move.go 246-259).
THEOREM GroupsComplete == Spec => []CompletionsExact
  <1>1. ASSUME GroupInv, FaultFree PROVE CompletionsExact
    <2>1. NoStalePayload
      BY <1>1 DEF GroupInv
    <2>2. NoMoveForgotten
      <3> SUFFICES ASSUME ~ faulty, pending[Root] = 0, ~ (\E n \in Slots : Completes(n, Root)),
                          NEW r \in asked, r[1] = "move", r[2] \in src
                   PROVE  FALSE
        BY DEF NoMoveForgotten
      <3>1. faulty = FALSE /\ payload[Root] = {}
        BY <1>1, <2>1, RootGroup DEF NoStalePayload, GroupInv, TypeInv, TypeOK
      <3>2. PICK n \in Slots : Carries(task[n], r[2])
        BY <1>1, <3>1 DEF FaultFree, MovesKept, OnItsWay
      <3>3. CASE WillAppend(task[n], r[2])
        <4>1. task[n].st \in Counted /\ task[n].group = Root
          BY <3>3 DEF WillAppend, Counted
        <4> QED BY <1>1, <4>1, RootGroup, CountedPending DEF GroupInv
      <3>4. CASE WillRemove(task[n], r[2])
        BY <3>4 DEF WillRemove, Completes
      <3> QED BY <3>2, <3>3, <3>4 DEF Carries
    <2> QED BY <2>1, <2>2 DEF CompletionsExact
  <1> QED BY <1>1, FaultFreeHolds, PTL
=============================================================================
