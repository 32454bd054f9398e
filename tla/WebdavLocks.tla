---------------------------- MODULE WebdavLocks ----------------------------
(***************************************************************************)
(* The WebDAV lock system (server/webdav/lock.go) and the handlers that    *)
(* use it (server/webdav/webdav.go): LOCK, refresh and UNLOCK requests,    *)
(* and the writing methods, which claim the locks named in their If header *)
(* or take temporary locks of their own.  Every operation of memLS is one  *)
(* critical section: it drops the expired locks first and then acts.       *)
(*                                                                         *)
(* A path is known by the names walkToRoot visits from it, Above[p].       *)
(***************************************************************************)
EXTENDS Integers, Sequences, FiniteSets, FiniteSetsExt

CONSTANTS
    Paths, Above,     \* Above[p]: p and its ancestors up to the root
    Handlers,         \* concurrent HTTP requests
    Durations,        \* lock timeouts; -1 is infiniteTimeout
    Targets,          \* bound on the names of a writing request: <<src, dst>>, Nil if absent
    MaxLocks,         \* bound on the locks of LOCK requests in force together
    Tokens,           \* enough for them and for the temporary locks
    MaxTime,          \* bound on the clock
    Nil

\* Above is the path order of a tree.
ASSUME PathAssumption ==
    /\ IsFiniteSet(Paths)
    /\ Above \in [Paths -> SUBSET Paths]
    /\ \A p \in Paths : p \in Above[p]
    /\ \A p \in Paths : \A q \in Above[p] : Above[q] \subseteq Above[p]
    /\ \A p \in Paths : \A q \in Above[p] : p \in Above[q] => p = q
    /\ \A p \in Paths : \A q, r \in Above[p] : q \in Above[r] \/ r \in Above[q]

ASSUME LockParams ==
    /\ MaxLocks \in Nat /\ MaxTime \in Nat
    /\ IsFiniteSet(Tokens) /\ Tokens \subseteq Nat \ {0}
    /\ Targets \subseteq (Paths \cup {Nil}) \X (Paths \cup {Nil})
    /\ Durations \subseteq Nat \cup {-1}
    /\ Nil \notin Paths

VARIABLES
    byToken,         \* the locks in force
    det,             \* their details
    expiry,          \* when they expire
    byExpiry,        \* the heap
    held,            \* locks claimed by a Confirm not released yet
    refCount, locks, \* the nodes of byName; a node without references is gone
    clock,
    pc, req, tmp, claim \* the handlers: step, names and time, own locks, claimed locks

lockSystem == <<byToken, det, expiry, byExpiry, held, refCount, locks>>
handlers   == <<pc, req, tmp, claim>>
vars       == <<lockSystem, clock, handlers>>

NoDetails == [root |-> Nil, dur |-> -1, zero |-> TRUE, shared |-> FALSE, temp |-> FALSE]

NoNames == [src |-> Nil, dst |-> Nil, at |-> 0]

Init ==
    /\ byToken = {} /\ byExpiry = {} /\ held = {}
    /\ det = [t \in Tokens |-> NoDetails]
    /\ expiry = [t \in Tokens |-> 0]
    /\ refCount = [p \in Paths |-> 0]
    /\ locks = [p \in Paths |-> {}]
    /\ clock = 0
    /\ pc = [h \in Handlers |-> "idle"]
    /\ req = [h \in Handlers |-> NoNames]
    /\ tmp = [h \in Handlers |-> <<0, 0>>]
    /\ claim = [h \in Handlers |-> {}]

-----------------------------------------------------------------------------
(***************************************************************************)
(* memLS.  R is the set of locks an operation removes.                     *)
(***************************************************************************)
\* collectExpiredNodes: what has expired by the time the caller read.
Expired(at) == {t \in byExpiry : expiry[t] <= at}

\* Mutant: only the lock's own node loses a reference.
CountsRootOnly(R) == [p \in Paths |-> refCount[p] - Cardinality({t \in R : p = det[t].root})]

\* remove: references down to the root, nodes without references dropped.
Counts(R) == [p \in Paths |-> refCount[p] - Cardinality({t \in R : p \in Above[det[t].root]})]

LocksAt(R) ==
    LET n == Counts(R) IN
    [p \in Paths |-> IF n[p] = 0 THEN {} ELSE locks[p] \ R]

Remove(R) ==
    /\ byToken' = byToken \ R
    /\ det' = [t \in Tokens |-> IF t \in R THEN NoDetails ELSE det[t]]
    /\ expiry' = [t \in Tokens |-> IF t \in R THEN 0 ELSE expiry[t]]
    /\ refCount' = Counts(R)
    /\ locks' = LocksAt(R)

\* Mutant: locks below a free name are not looked at.
CanCreateAboveOnly(R, name, zeroDepth, shared) ==
    \A p \in Above[name] :
        LET here == LocksAt(R)[p] IN
        IF p = name THEN here = {} \/ (shared /\ \A t \in here : det[t].shared)
        ELSE \A t \in here : det[t].zero

CanCreate(R, name, zeroDepth, shared) ==
    LET n == Counts(R)
        at == LocksAt(R) IN
    \A p \in Above[name] :
        LET here == at[p] IN
        n[p] # 0 =>
            \/ /\ p = name /\ here # {}
               /\ shared
               /\ zeroDepth \/ n[p] = Cardinality(here)
               /\ \A t \in here : det[t].shared /\ det[t].zero = zeroDepth
            \/ p = name /\ here = {} /\ zeroDepth
            \/ p # name /\ \A t \in here : det[t].zero

\* create, and the rest of Create.
Add(R, t, d, at) ==
    /\ byToken' = (byToken \ R) \cup {t}
    /\ det' = [u \in Tokens |-> IF u = t THEN d ELSE IF u \in R THEN NoDetails ELSE det[u]]
    /\ expiry' = [u \in Tokens |-> IF u = t /\ d.dur >= 0 THEN at + d.dur
                                   ELSE IF u \in R THEN 0 ELSE expiry[u]]
    /\ byExpiry' = (byExpiry \ R) \cup (IF d.dur >= 0 THEN {t} ELSE {})
    /\ refCount' = LET n == Counts(R) IN [p \in Paths |-> n[p] + (IF p \in Above[d.root] THEN 1 ELSE 0)]
    /\ locks' = [LocksAt(R) EXCEPT ![d.root] = @ \cup {t}]

\* nextToken: a token no lock in force has.  Tokens are only ever looked up among
\* the locks in force, so the numbers of removed locks serve again here.
NextToken == CHOOSE t \in Tokens \ byToken : TRUE

\* Create succeeds.
Created(d, at) ==
    /\ Tokens \ byToken # {}
    /\ CanCreate(Expired(at), d.root, d.zero, d.shared)
    /\ Add(Expired(at), NextToken, d, at)
    /\ UNCHANGED held

\* Create returns ErrLocked.
CreateFails(d, at) ==
    /\ ~ CanCreate(Expired(at), d.root, d.zero, d.shared)
    /\ Remove(Expired(at))
    /\ byExpiry' = byExpiry \ Expired(at)
    /\ UNCHANGED held

\* Mutants: the heap keeps the lock / a claimed lock is unlocked too.
UnlockedKeepsHeap(t, at) ==
    /\ Remove(Expired(at) \cup ({t} \cap (byToken \ held)))
    /\ byExpiry' = byExpiry \ Expired(at)
    /\ UNCHANGED held

UnlockedClaimed(t, at) ==
    LET R == Expired(at) \cup ({t} \cap byToken) IN
    /\ Remove(R)
    /\ byExpiry' = byExpiry \ R
    /\ UNCHANGED held

\* Unlock; a lock that is claimed or gone stays as it is.
Unlocked(t, at) ==
    LET R == Expired(at) \cup ({t} \cap (byToken \ held)) IN
    /\ Remove(R)
    /\ byExpiry' = byExpiry \ R
    /\ UNCHANGED held

\* Refresh of a lock that is there and not claimed.
Refreshed(t, dur, at) ==
    LET R == Expired(at) IN
    /\ t \in byToken \ (R \cup held)
    /\ byToken' = byToken \ R
    /\ det' = [u \in Tokens |-> IF u = t THEN [det[u] EXCEPT !.dur = dur]
                                ELSE IF u \in R THEN NoDetails ELSE det[u]]
    /\ expiry' = [u \in Tokens |-> IF u = t /\ dur >= 0 THEN at + dur
                                   ELSE IF u \in R THEN 0 ELSE expiry[u]]
    /\ byExpiry' = (byExpiry \ (R \cup {t})) \cup (IF dur >= 0 THEN {t} ELSE {})
    /\ refCount' = Counts(R)
    /\ locks' = LocksAt(R)
    /\ UNCHANGED held

\* A lock protects its root and, unless of zero depth, what is below it.
Covers(t, name) ==
    \/ name = det[t].root
    \/ ~ det[t].zero /\ det[t].root \in Above[name]

\* Mutant: a lock may be claimed twice.
MatchingClaimed(R, name, conds) ==
    {i \in DOMAIN conds : conds[i] \in byToken \ R /\ Covers(conds[i], name)}

\* lookup: the first condition whose lock is there, unclaimed and covers name.
Matching(R, name, conds) ==
    {i \in DOMAIN conds : conds[i] \in byToken \ (R \cup held) /\ Covers(conds[i], name)}

Lookup(R, name, conds) == conds[Min(Matching(R, name, conds))]

\* hold: a claimed lock leaves the heap.
Confirmed(h, names, conds, at) ==
    LET R == Expired(at)
        c == {Lookup(R, n, conds) : n \in names} IN
    /\ \A n \in names : Matching(R, n, conds) # {}
    /\ Remove(R)
    /\ byExpiry' = byExpiry \ (R \cup c)
    /\ held' = held \cup c
    /\ claim' = [claim EXCEPT ![h] = c]

\* Mutant: a released lock does not go back to the heap.
UnholdForever(h) ==
    /\ held' = held \ claim[h]
    /\ claim' = [claim EXCEPT ![h] = {}]
    /\ UNCHANGED <<byToken, det, expiry, byExpiry, refCount, locks>>

\* The function Confirm returned: unhold.
Unhold(h) ==
    /\ held' = held \ claim[h]
    /\ byExpiry' = byExpiry \cup {t \in claim[h] : det[t].dur >= 0}
    /\ claim' = [claim EXCEPT ![h] = {}]
    /\ UNCHANGED <<byToken, det, expiry, refCount, locks>>

-----------------------------------------------------------------------------
(***************************************************************************)
(* LOCK and UNLOCK.  Clients know the tokens their LOCK requests returned, *)
(* never those of temporary locks.  A token no longer in force finds no    *)
(* lock, like that of a lock which has expired and is not collected yet.   *)
(***************************************************************************)
Temporary == {tmp[h][1] : h \in Handlers} \cup {tmp[h][2] : h \in Handlers}

Issued == byToken \ Temporary

LockRequest(h, root, dur, zero, shared) ==
    LET d == [root |-> root, dur |-> dur, zero |-> zero, shared |-> shared, temp |-> FALSE] IN
    /\ pc[h] = "idle"
    /\ Cardinality({t \in byToken : ~ det[t].temp}) < MaxLocks
    /\ Created(d, clock) \/ CreateFails(d, clock)
    /\ UNCHANGED <<clock, handlers>>

\* A lock that is claimed, or gone, is not refreshed.
RefreshRequest(h, t, dur) ==
    LET R == Expired(clock) IN
    /\ pc[h] = "idle"
    /\ t \in Issued
    /\ \/ Refreshed(t, dur, clock)
       \/ /\ t \notin byToken \ (R \cup held)
          /\ Remove(R) /\ byExpiry' = byExpiry \ R /\ UNCHANGED held
    /\ UNCHANGED <<clock, handlers>>

UnlockRequest(h, t) ==
    /\ pc[h] = "idle"
    /\ t \in Issued
    /\ Unlocked(t, clock)
    /\ UNCHANGED <<clock, handlers>>

-----------------------------------------------------------------------------
(***************************************************************************)
(* confirmLocks, of PUT, DELETE, MKCOL, PROPPATCH, COPY and MOVE.  COPY    *)
(* names a destination only, MOVE both, the others a source only.          *)
(***************************************************************************)
Begin(h, src, dst, label) ==
    /\ pc[h] = "idle"
    /\ src # dst
    /\ pc' = [pc EXCEPT ![h] = label]
    /\ req' = [req EXCEPT ![h] = [src |-> src, dst |-> dst, at |-> clock]]
    /\ UNCHANGED <<lockSystem, clock, tmp, claim>>

Goto(h, label) == pc' = [pc EXCEPT ![h] = label]

Answer(h) ==
    /\ Goto(h, "idle")
    /\ req' = [req EXCEPT ![h] = NoNames]

\* Handler.lock.
TempLock(name) ==
    [root |-> name, dur |-> -1, zero |-> TRUE, shared |-> FALSE, temp |-> TRUE]

\* The i-th name of the request is locked and the handler goes on to label; if
\* it cannot be, to failed.  A name that is absent needs no lock.
TakeTemp(h, i, label, failed) ==
    LET name == IF i = 1 THEN req[h].src ELSE req[h].dst IN
    /\ \/ /\ name = Nil
          /\ Goto(h, label)
          /\ UNCHANGED <<lockSystem, req, tmp>>
       \/ /\ name # Nil
          /\ Created(TempLock(name), req[h].at)
          /\ tmp' = [tmp EXCEPT ![h][i] = NextToken]
          /\ Goto(h, label)
          /\ UNCHANGED req
       \/ /\ name # Nil
          /\ CreateFails(TempLock(name), req[h].at)
          /\ IF failed = "idle" THEN Answer(h) ELSE Goto(h, failed) /\ UNCHANGED req
          /\ UNCHANGED tmp
    /\ UNCHANGED <<clock, claim>>

\* The i-th temporary lock, if taken, is unlocked.
DropTemp(h, i, label) ==
    /\ IF tmp[h][i] = 0 THEN UNCHANGED lockSystem ELSE Unlocked(tmp[h][i], req[h].at)
    /\ tmp' = [tmp EXCEPT ![h][i] = 0]
    /\ IF label = "idle" THEN Answer(h) ELSE Goto(h, label) /\ UNCHANGED req
    /\ UNCHANGED <<clock, claim>>

\* Without an If header.
LockSrc(h) == pc[h] = "locksrc" /\ TakeTemp(h, 1, "lockdst", "idle")

\* Mutant: the source stays locked when the destination cannot be.
LockDstKeepsSrc(h) == pc[h] = "lockdst" /\ TakeTemp(h, 2, "working", "idle")

LockDst(h) == pc[h] = "lockdst" /\ TakeTemp(h, 2, "working", "unlocksrc")

\* release, in the order of lines 193-199; a failed LockDst takes its second half.
UnlockDst(h) == pc[h] = "working" /\ claim[h] = {} /\ DropTemp(h, 2, "unlocksrc")

UnlockSrc(h) == pc[h] = "unlocksrc" /\ DropTemp(h, 1, "idle")

\* With an If header, one list at a time: the locks it names must cover the
\* resource it is tagged with, the source if untagged, and the destination.  From
\* here on src is the name that was confirmed, which a tag may make another one
\* than the name of the request.
TryList(h, tagged, conds) ==
    LET names == {tagged, req[h].dst} \ {Nil} IN
    /\ pc[h] = "confirm"
    /\ \/ /\ Confirmed(h, names, conds, clock)
          /\ req' = [req EXCEPT ![h].src = tagged]
          /\ Goto(h, "working")
       \/ /\ \E n \in names : Matching(Expired(clock), n, conds) = {}
          /\ Remove(Expired(clock))
          /\ byExpiry' = byExpiry \ Expired(clock)
          /\ UNCHANGED <<held, claim, pc, req>>
    /\ UNCHANGED <<clock, tmp>>

\* No list is left.  A negated token among them makes the handler probe the
\* names for a lock conflict before it refuses.
NoMoreLists(h, negated) ==
    /\ pc[h] = "confirm"
    /\ IF negated THEN Goto(h, "probesrc") /\ req' = [req EXCEPT ![h].at = clock] ELSE Answer(h)
    /\ UNCHANGED <<lockSystem, clock, tmp, claim>>

ProbeSrc(h) == pc[h] = "probesrc" /\ TakeTemp(h, 1, "unprobesrc", "idle")

UnprobeSrc(h) == pc[h] = "unprobesrc" /\ DropTemp(h, 1, "probedst")

ProbeDst(h) == pc[h] = "probedst" /\ TakeTemp(h, 2, "unprobedst", "idle")

UnprobeDst(h) == pc[h] = "unprobedst" /\ DropTemp(h, 2, "idle")

\* The method is done: the function Confirm returned.
Release(h) ==
    /\ pc[h] = "working"
    /\ claim[h] # {}
    /\ Unhold(h)
    /\ Answer(h)
    /\ UNCHANGED <<clock, tmp>>

Tick ==
    /\ clock < MaxTime
    /\ clock' = clock + 1
    /\ UNCHANGED <<lockSystem, handlers>>

-----------------------------------------------------------------------------
ClientRequests(h) ==
    \/ \E p \in Paths, dur \in Durations, zero, shared \in BOOLEAN : LockRequest(h, p, dur, zero, shared)
    \/ \E t \in Issued, dur \in Durations : RefreshRequest(h, t, dur)
    \/ \E t \in Issued : UnlockRequest(h, t)
    \/ \E names \in Targets, label \in {"locksrc", "confirm"} : Begin(h, names[1], names[2], label)

\* Lists of one or two tokens.
Conditions == {<<t>> : t \in Issued} \cup {c \in Issued \X Issued : c[1] # c[2]}

HandlerStep(h) ==
    \/ LockSrc(h) \/ LockDst(h) \/ UnlockDst(h) \/ UnlockSrc(h)
    \/ \E tagged \in Paths \cup {req[h].src}, conds \in Conditions : TryList(h, tagged, conds)
    \/ \E negated \in BOOLEAN : NoMoreLists(h, negated)
    \/ ProbeSrc(h) \/ UnprobeSrc(h) \/ ProbeDst(h) \/ UnprobeDst(h)
    \/ Release(h)

Next == Tick \/ \E h \in Handlers : ClientRequests(h) \/ HandlerStep(h)

Spec == Init /\ [][Next]_vars

-----------------------------------------------------------------------------
Details == [root : Paths \cup {Nil}, dur : Durations \cup {-1}, zero : BOOLEAN,
            shared : BOOLEAN, temp : BOOLEAN]

TypeOK ==
    /\ byToken \subseteq Tokens /\ byExpiry \subseteq byToken
    /\ clock \in 0..MaxTime
    /\ det \in [Tokens -> Details] /\ \A t \in byToken : det[t].root \in Paths
    /\ expiry \in [Tokens -> Nat]
    /\ refCount \in [Paths -> Nat]
    /\ locks \in [Paths -> SUBSET Tokens]
    /\ pc \in [Handlers -> {"idle", "locksrc", "lockdst", "working", "unlocksrc", "confirm",
                              "probesrc", "unprobesrc", "probedst", "unprobedst"}]
    /\ req \in [Handlers -> [src : Paths \cup {Nil}, dst : Paths \cup {Nil}, at : 0..MaxTime]]
    /\ tmp \in [Handlers -> (Tokens \cup {0}) \X (Tokens \cup {0})]
    /\ claim \in [Handlers -> SUBSET Tokens]

\* The nodes mirror the locks: each counts the locks at or below it and lists
\* those at it (lines 325-358).  canCreate reads nothing else: a reference too
\* many refuses a free path for good, one too few lets a lock in conflict pass.
CountsExact ==
    \A p \in Paths :
        /\ refCount[p] = Cardinality({t \in byToken : p \in Above[det[t].root]})
        /\ locks[p] = {t \in byToken : det[t].root = p}

\* Two locks protect the same name only if both are shared and have the same
\* root, whatever was created, refreshed, claimed or expired in between.
NoConflictingLocks ==
    \A t, u \in byToken : \A p \in Paths :
        t # u /\ Covers(t, p) /\ Covers(u, p)
        => det[t].shared /\ det[u].shared /\ det[t].root = det[u].root

\* The heap holds the locks that may expire: those with a timeout that nobody has
\* claimed.  A claimed lock cannot expire under the method that claimed it, and
\* it can again once released (lines 209-227).
ExpiryExact == byExpiry = {t \in byToken \ held : det[t].dur >= 0}

\* A lock is claimed by exactly the handler that will release it: hold and unhold
\* never panic (lines 210, 220), and no claim is forgotten.
ClaimsExact ==
    /\ held \subseteq byToken
    /\ held = UNION {claim[h] : h \in Handlers}
    /\ \A g, h \in Handlers : g # h => claim[g] \cap claim[h] = {}
    /\ \A h \in Handlers : claim[h] # {} => pc[h] = "working"

\* A temporary lock never outlives its request: it has no timeout, so one that
\* is forgotten would block its path until the server restarts (lines 187-199).
TempLocksOwned ==
    /\ \A t \in byToken : det[t].temp => t \in Temporary
    /\ \A h \in Handlers : pc[h] = "idle" => tmp[h] = <<0, 0>>

Working(h, name) == pc[h] = "working" /\ name \in {req[h].src, req[h].dst}

\* The locks a handler works under: those it claimed, or its temporary ones.
Own(h) == (claim[h] \cup {tmp[h][1], tmp[h][2]}) \ {0}

\* While a method works, no other has a name confirmed that its locks protect, a name
\* below a directory it has locked with infinite depth included, unless both have
\* claimed shared locks on the name: a temporary lock or an exclusive one keeps the
\* others out until it is released, even if its timeout passes meanwhile (lines
\* 149-227, webdav.go 174-271).  Temporary locks have zero depth: a DELETE of a
\* directory without an If header keeps nobody from the names below it.
OnlySharersMeet ==
    \A g, h \in Handlers : \A p \in Paths :
        /\ g # h
        /\ pc[g] = "working" /\ \E t \in Own(g) : Covers(t, p)
        /\ Working(h, p)
        => /\ \E t \in claim[g] : Covers(t, p) /\ det[t].shared
           /\ \E t \in claim[h] : Covers(t, p) /\ det[t].shared

=============================================================================
