------------------------- MODULE WebdavLocksProofs -------------------------
(***************************************************************************)
(* The safety of the WebDAV lock system for every tree of paths, every set *)
(* of handlers, tokens and timeouts.  LockPart is what holds of the lock   *)
(* system, HandlerPart what holds of its users; together they are          *)
(* inductive.                                                              *)
(***************************************************************************)
EXTENDS WebdavLocks, FiniteSetTheorems, TLAPS

LockTypes ==
    /\ byToken \subseteq Tokens
    /\ det \in [Tokens -> Details] /\ \A t \in byToken : det[t].root \in Paths
    /\ expiry \in [Tokens -> Nat]
    /\ refCount \in [Paths -> Nat]
    /\ locks \in [Paths -> SUBSET Tokens]

LockPart ==
    /\ LockTypes
    /\ held \subseteq byToken
    /\ CountsExact
    /\ NoConflictingLocks
    /\ ExpiryExact

Labels == {"idle", "locksrc", "lockdst", "working", "unlocksrc", "confirm",
           "probesrc", "unprobesrc", "probedst", "unprobedst"}

HandlerTypes ==
    /\ clock \in 0..MaxTime
    /\ pc \in [Handlers -> Labels]
    /\ req \in [Handlers -> [src : Paths \cup {Nil}, dst : Paths \cup {Nil}, at : 0..MaxTime]]
    /\ tmp \in [Handlers -> (Tokens \cup {0}) \X (Tokens \cup {0})]
    /\ claim \in [Handlers -> SUBSET Tokens]

Claims ==
    /\ held = UNION {claim[h] : h \in Handlers}
    /\ \A g, h \in Handlers : g # h => claim[g] \cap claim[h] = {}
    /\ \A h \in Handlers : claim[h] # {} => pc[h] = "working"

HandlerPart == HandlerTypes /\ Claims

LockInv == LockPart /\ HandlerPart

-----------------------------------------------------------------------------
\* The locks that reach a node, and those at it, once the locks of R are gone.
Reach(R, p) == {t \in byToken \ R : p \in Above[det[t].root]}
At(R, p) == {t \in byToken \ R : det[t].root = p}

\* What remove leaves of the reference counts and the nodes (lock.go 344-358) is
\* what the remaining locks account for.
LEMMA AfterRemove ==
    ASSUME LockPart, NEW R \in SUBSET byToken, NEW p \in Paths
    PROVE  /\ Counts(R)[p] = Cardinality(Reach(R, p))
           /\ LocksAt(R)[p] = At(R, p)
           /\ IsFiniteSet(Reach(R, p))
           /\ Counts(R)[p] \in Nat
           /\ Counts(R)[p] = 0 <=> Reach(R, p) = {}
           /\ At(R, p) \subseteq Reach(R, p)
  <1> DEFINE S == {t \in byToken : p \in Above[det[t].root]}
             T == {t \in R : p \in Above[det[t].root]}
  <1>1. IsFiniteSet(byToken)
    BY FS_Subset, LockParams DEF LockPart, LockTypes
  <1>2. IsFiniteSet(S) /\ S \cap T = T /\ S \ T = Reach(R, p)
    BY <1>1, FS_Subset DEF Reach
  <1>3. Cardinality(S \ T) = Cardinality(S) - Cardinality(S \cap T) /\ IsFiniteSet(S \ T)
    BY <1>2, FS_Difference
  <1>4. Counts(R)[p] = Cardinality(Reach(R, p)) /\ IsFiniteSet(Reach(R, p))
    BY <1>2, <1>3 DEF Counts, LockPart, CountsExact
  <1>5. Counts(R)[p] \in Nat /\ (Counts(R)[p] = 0 <=> Reach(R, p) = {})
    BY <1>4, FS_CardinalityType, FS_EmptySet
  <1>6. At(R, p) \subseteq Reach(R, p)
    BY PathAssumption DEF At, Reach, LockPart, LockTypes
  <1>7. LocksAt(R)[p] = At(R, p)
    <2>1. locks[p] \ R = At(R, p)
      BY DEF At, LockPart, CountsExact
    <2>2. LocksAt(R)[p] = IF Counts(R)[p] = 0 THEN {} ELSE locks[p] \ R
      BY DEF LocksAt
    <2> QED BY <2>1, <2>2, <1>5, <1>6
  <1> QED BY <1>4, <1>5, <1>6, <1>7

\* Locks that are removed, or newly claimed, leave the rest as it should be: the
\* common part of a failing Create, of Unlock and of Confirm.
LEMMA RemoveKeeps ==
    ASSUME LockPart,
           NEW R \in SUBSET (byToken \ held), NEW c \in SUBSET (byToken \ R),
           Remove(R), byExpiry' = byExpiry \ (R \cup c), held' = held \cup c
    PROVE  LockPart'
  <1>1. byToken' = byToken \ R
    BY DEF Remove
  <1>2. \A t \in byToken' : t \in Tokens /\ det'[t] = det[t]
    BY <1>1 DEF Remove, LockPart, LockTypes
  <1>3. \A p \in Paths : refCount'[p] = Counts(R)[p] /\ locks'[p] = LocksAt(R)[p]
    BY DEF Remove
  <1>4. LockTypes'
    <2>1. det' \in [Tokens -> Details]
      BY DEF Remove, LockPart, LockTypes, NoDetails, Details
    <2>2. expiry' \in [Tokens -> Nat]
      BY DEF Remove, LockPart, LockTypes
    <2>3. refCount' \in [Paths -> Nat]
      BY AfterRemove DEF Remove, Counts
    <2>4. locks' \in [Paths -> SUBSET Tokens]
      <3>1. \A p \in Paths : LocksAt(R)[p] \subseteq Tokens
        BY AfterRemove DEF At, LockPart, LockTypes
      <3> QED BY <3>1 DEF Remove, LocksAt
    <2> QED BY <1>1, <1>2, <2>1, <2>2, <2>3, <2>4 DEF LockPart, LockTypes
  <1>5. (held \subseteq byToken)'
    BY <1>1 DEF LockPart
  <1>6. CountsExact'
    <2> SUFFICES ASSUME NEW p \in Paths
                 PROVE  /\ refCount'[p] = Cardinality({t \in byToken' : p \in Above[det'[t].root]})
                        /\ locks'[p] = {t \in byToken' : det'[t].root = p}
      BY DEF CountsExact
    <2>1. {t \in byToken' : p \in Above[det'[t].root]} = Reach(R, p)
      BY <1>1, <1>2 DEF Reach
    <2>2. {t \in byToken' : det'[t].root = p} = At(R, p)
      BY <1>1, <1>2 DEF At
    <2> QED BY <2>1, <2>2, <1>3, AfterRemove
  <1>7. NoConflictingLocks'
    <2> SUFFICES ASSUME NEW t \in byToken', NEW u \in byToken', NEW p \in Paths,
                        t # u, Covers(t, p)', Covers(u, p)'
                 PROVE  det'[t].shared /\ det'[u].shared /\ det'[t].root = det'[u].root
      BY DEF NoConflictingLocks
    <2>1. Covers(t, p) /\ Covers(u, p)
      BY <1>2 DEF Covers
    <2> QED BY <2>1, <1>1, <1>2 DEF LockPart, NoConflictingLocks
  <1>8. ExpiryExact'
    BY <1>1, <1>2 DEF ExpiryExact, LockPart
  <1> QED BY <1>4, <1>5, <1>6, <1>7, <1>8 DEF LockPart

\* What has expired is not claimed.
LEMMA ExpiredFree ==
    ASSUME LockPart, NEW at
    PROVE  Expired(at) \in SUBSET (byToken \ held)
  BY DEF Expired, LockPart, ExpiryExact

\* canCreate (lock.go 293-323) refuses every lock that would conflict with one that
\* is there, looking at the path to the root only.
LEMMA CanCreateSound ==
    ASSUME LockPart, NEW R \in SUBSET byToken, NEW d \in Details, d.root \in Paths,
           CanCreate(R, d.root, d.zero, d.shared),
           NEW u \in byToken \ R, NEW p \in Paths,
           p = d.root \/ (~ d.zero /\ d.root \in Above[p]),
           Covers(u, p)
    PROVE  d.shared /\ det[u].shared /\ det[u].root = d.root
  <1> DEFINE r == d.root
             s == det[u].root
  <1>1. s \in Paths /\ r \in Above[r] /\ s \in Above[s]
    BY PathAssumption DEF LockPart, LockTypes
  <1>2. r \in Above[s] \/ s \in Above[r]
    <2>1. r \in Above[p] /\ s \in Above[p]
      BY <1>1 DEF Covers
    <2> QED BY <2>1, <1>1, PathAssumption
  <1>3. \A q \in Above[r] :
           Counts(R)[q] # 0 =>
             \/ /\ q = r /\ LocksAt(R)[q] # {} /\ d.shared
                /\ d.zero \/ Counts(R)[q] = Cardinality(LocksAt(R)[q])
                /\ \A t \in LocksAt(R)[q] : det[t].shared /\ det[t].zero = d.zero
             \/ q = r /\ LocksAt(R)[q] = {} /\ d.zero
             \/ q # r /\ \A t \in LocksAt(R)[q] : det[t].zero
    BY DEF CanCreate
  <1>4. CASE s = r
    <2>1. u \in At(R, r)
      BY <1>4 DEF At
    <2>2. Counts(R)[r] # 0 /\ u \in LocksAt(R)[r]
      BY <2>1, AfterRemove
    <2> QED BY <2>2, <1>1, <1>3, <1>4
  <1>5. CASE s # r /\ s \in Above[r]
    <2>1. u \in At(R, s)
      BY DEF At
    <2>2. Counts(R)[s] # 0 /\ u \in LocksAt(R)[s]
      BY <2>1, <1>1, AfterRemove
    <2>3. det[u].zero
      BY <2>2, <1>3, <1>5
    <2>4. p = s
      BY <2>3 DEF Covers
    <2> QED BY <2>4, <1>5, <1>1, PathAssumption
  <1>6. CASE s # r /\ r \in Above[s]
    <2>1. u \in Reach(R, r)
      BY <1>6 DEF Reach
    <2>2. Counts(R)[r] # 0
      BY <2>1, AfterRemove
    <2>3. ~ d.zero
      <3> SUFFICES ASSUME d.zero PROVE FALSE
        OBVIOUS
      <3>1. p = r
        OBVIOUS
      <3>2. s \in Above[r]
        BY <3>1, <1>6 DEF Covers
      <3> QED BY <3>2, <1>6, <1>1, PathAssumption
    <2>4. Counts(R)[r] = Cardinality(LocksAt(R)[r])
      BY <1>1, <1>3, <2>2, <2>3
    <2>5. Cardinality(Reach(R, r)) = Cardinality(At(R, r))
      BY <2>4, AfterRemove
    <2>6. At(R, r) = Reach(R, r)
      BY <2>5, AfterRemove, FS_Subset
    <2> QED BY <2>6, <2>1, <1>6 DEF At
  <1> QED BY <1>2, <1>4, <1>5, <1>6

\* Create of a lock that canCreate admits (lock.go 229-252).
LEMMA CreateKeeps ==
    ASSUME LockPart, NEW d \in Details, d.root \in Paths, NEW at \in Nat, Created(d, at)
    PROVE  LockPart' /\ held' = held /\ NextToken \in Tokens
  <1> DEFINE R == Expired(at)
  <1>1. R \in SUBSET (byToken \ held) /\ R \in SUBSET byToken
    BY ExpiredFree
  <1>2. PICK n \in Tokens : n = NextToken /\ n \notin byToken
    BY DEF Created, NextToken
  <1>3. CanCreate(R, d.root, d.zero, d.shared) /\ Add(R, n, d, at) /\ held' = held
    BY <1>2 DEF Created
  <1>4. byToken' = (byToken \ R) \cup {n}
    BY <1>3 DEF Add
  <1>5. \A t \in byToken \ R : t \in Tokens /\ t # n /\ det'[t] = det[t]
    BY <1>2, <1>3 DEF Add, LockPart, LockTypes
  <1>6. det'[n] = d
    BY <1>2, <1>3 DEF Add
  <1>7. LockTypes'
    <2>1. det' \in [Tokens -> Details]
      BY <1>3 DEF Add, LockPart, LockTypes, NoDetails, Details
    <2>2. \A t \in byToken' : det'[t].root \in Paths
      BY <1>4, <1>5, <1>6 DEF LockPart, LockTypes
    <2>3. expiry' \in [Tokens -> Nat]
      <3>0. d.dur \in Nat \cup {-1}
        BY LockParams DEF Details
      <3>1. d.dur >= 0 => at + d.dur \in Nat
        BY <3>0
      <3> QED BY <3>1, <1>3 DEF Add, LockPart, LockTypes
    <2>4. refCount' \in [Paths -> Nat]
      <3>1. \A p \in Paths : Counts(R)[p] \in Nat
        BY <1>1, AfterRemove
      <3> QED BY <3>1, <1>3 DEF Add
    <2>5. locks' \in [Paths -> SUBSET Tokens]
      <3>1. \A p \in Paths : LocksAt(R)[p] \subseteq Tokens
        BY <1>1, AfterRemove DEF At, LockPart, LockTypes
      <3>2. LocksAt(R) \in [Paths -> SUBSET Tokens]
        BY <3>1 DEF LocksAt
      <3> QED BY <3>2, <1>2, <1>3 DEF Add
    <2> QED BY <1>2, <1>4, <2>1, <2>2, <2>3, <2>4, <2>5 DEF LockPart, LockTypes
  <1>8. CountsExact'
    <2> SUFFICES ASSUME NEW p \in Paths
                 PROVE  /\ refCount'[p] = Cardinality({t \in byToken' : p \in Above[det'[t].root]})
                        /\ locks'[p] = {t \in byToken' : det'[t].root = p}
      BY DEF CountsExact
    <2> DEFINE S == {t \in byToken' : p \in Above[det'[t].root]}
    <2>1. Counts(R)[p] = Cardinality(Reach(R, p)) /\ IsFiniteSet(Reach(R, p)) /\ Counts(R)[p] \in Nat
      BY <1>1, AfterRemove
    <2>2. n \notin Reach(R, p)
      BY <1>2 DEF Reach
    <2>3. refCount'[p] = Cardinality(S)
      <3>1. CASE p \in Above[d.root]
        <4>1. S = Reach(R, p) \cup {n}
          BY <3>1, <1>4, <1>5, <1>6 DEF Reach
        <4>2. Cardinality(S) = Cardinality(Reach(R, p)) + 1
          BY <4>1, <2>1, <2>2, FS_AddElement
        <4> QED BY <4>2, <2>1, <3>1, <1>3 DEF Add
      <3>2. CASE p \notin Above[d.root]
        <4>1. S = Reach(R, p)
          BY <3>2, <1>4, <1>5, <1>6 DEF Reach
        <4>2. refCount'[p] = Counts(R)[p] + 0
          BY <3>2, <1>3 DEF Add
        <4>3. Cardinality(S) = Cardinality(Reach(R, p))
          BY <4>1
        <4> HIDE DEF S
        <4> QED BY <4>2, <4>3, <2>1
      <3> QED BY <3>1, <3>2
    <2>4. locks'[p] = {t \in byToken' : det'[t].root = p}
      <3>1. LocksAt(R)[p] = At(R, p)
        BY <1>1, AfterRemove
      <3>2. LocksAt(R) \in [Paths -> SUBSET Tokens]
        BY <1>1, AfterRemove DEF LocksAt, At, LockPart, LockTypes
      <3>3. locks'[p] = IF p = d.root THEN At(R, p) \cup {n} ELSE At(R, p)
        BY <3>1, <3>2, <1>3 DEF Add
      <3> QED BY <3>3, <1>4, <1>5, <1>6 DEF At
    <2> QED BY <2>3, <2>4
  <1>9. NoConflictingLocks'
    <2> SUFFICES ASSUME NEW t \in byToken', NEW u \in byToken', NEW p \in Paths,
                        t # u, Covers(t, p)', Covers(u, p)'
                 PROVE  det'[t].shared /\ det'[u].shared /\ det'[t].root = det'[u].root
      BY DEF NoConflictingLocks
    <2>1. \A v \in byToken \ R : Covers(v, p)' <=> Covers(v, p)
      BY <1>5 DEF Covers
    <2>2. Covers(n, p)' <=> p = d.root \/ (~ d.zero /\ d.root \in Above[p])
      BY <1>6 DEF Covers
    <2>3. CASE t # n /\ u # n
      <3>1. t \in byToken \ R /\ u \in byToken \ R
        BY <2>3, <1>4
      <3> QED BY <3>1, <2>1, <1>5 DEF LockPart, NoConflictingLocks
    <2>4. CASE t = n
      <3>1. u \in byToken \ R
        BY <2>4, <1>4
      <3> QED BY <3>1, <2>1, <2>2, <2>4, <1>1, <1>3, <1>5, <1>6, CanCreateSound
    <2>5. CASE u = n
      <3>1. t \in byToken \ R
        BY <2>5, <1>4
      <3> QED BY <3>1, <2>1, <2>2, <2>5, <1>1, <1>3, <1>5, <1>6, CanCreateSound
    <2> QED BY <2>3, <2>4, <2>5
  <1>10. ExpiryExact'
    <2>1. byExpiry' = (byExpiry \ R) \cup (IF d.dur >= 0 THEN {n} ELSE {})
      BY <1>3 DEF Add
    <2> QED BY <2>1, <1>1, <1>2, <1>3, <1>4, <1>5, <1>6 DEF LockPart, ExpiryExact
  <1>11. (held \subseteq byToken)'
    BY <1>1, <1>3, <1>4 DEF LockPart
  <1> QED BY <1>2, <1>3, <1>7, <1>8, <1>9, <1>10, <1>11 DEF LockPart

\* Create that returns ErrLocked.
LEMMA CreateFailsKeeps ==
    ASSUME LockPart, NEW d, NEW at, CreateFails(d, at)
    PROVE  LockPart' /\ held' = held
  <1>1. Expired(at) \in SUBSET (byToken \ held) /\ {} \in SUBSET (byToken \ Expired(at))
    BY ExpiredFree
  <1>2. byExpiry' = byExpiry \ (Expired(at) \cup {}) /\ held' = held \cup {} /\ Remove(Expired(at))
    BY DEF CreateFails
  <1>3. LockPart'
    BY <1>1, <1>2, RemoveKeeps
  <1> QED BY <1>3 DEF CreateFails

\* Unlock: a claimed lock stays (lock.go 277-291).
LEMMA UnlockKeeps ==
    ASSUME LockPart, NEW t, NEW at, Unlocked(t, at)
    PROVE  LockPart' /\ held' = held
  <1> DEFINE R == Expired(at) \cup ({t} \cap (byToken \ held))
  <1>1. R \in SUBSET (byToken \ held) /\ {} \in SUBSET (byToken \ R)
    BY ExpiredFree
  <1>2. byExpiry' = byExpiry \ (R \cup {}) /\ held' = held \cup {} /\ Remove(R)
    BY DEF Unlocked
  <1> HIDE DEF R
  <1>3. LockPart'
    BY <1>1, <1>2, RemoveKeeps
  <1> QED BY <1>3 DEF Unlocked

\* Collecting what has expired, and nothing else.
LEMMA CollectKeeps ==
    ASSUME LockPart, NEW at, Remove(Expired(at)), byExpiry' = byExpiry \ Expired(at), held' = held
    PROVE  LockPart'
  <1>1. Expired(at) \in SUBSET (byToken \ held) /\ {} \in SUBSET (byToken \ Expired(at))
    BY ExpiredFree
  <1>2. byExpiry' = byExpiry \ (Expired(at) \cup {}) /\ held' = held \cup {}
    OBVIOUS
  <1> QED BY <1>1, <1>2, RemoveKeeps

\* Refresh moves a lock in the heap, into it or out of it (lock.go 254-275).
LEMMA RefreshKeeps ==
    ASSUME LockPart, NEW t, NEW dur \in Durations, NEW at \in Nat, Refreshed(t, dur, at)
    PROVE  LockPart' /\ held' = held
  <1> DEFINE R == Expired(at)
  <1>1. R \in SUBSET (byToken \ held) /\ R \in SUBSET byToken
    BY ExpiredFree
  <1>2. /\ t \in byToken \ (R \cup held) /\ t \in Tokens
        /\ byToken' = byToken \ R
        /\ held' = held
        /\ byExpiry' = (byExpiry \ (R \cup {t})) \cup (IF dur >= 0 THEN {t} ELSE {})
    BY DEF Refreshed, LockPart, LockTypes
  <1>3. \A u \in byToken' : /\ u \in Tokens
                            /\ det'[u].root = det[u].root /\ det'[u].zero = det[u].zero
                            /\ det'[u].shared = det[u].shared
                            /\ det'[u].dur = IF u = t THEN dur ELSE det[u].dur
    BY <1>2 DEF Refreshed, LockPart, LockTypes, Details
  <1>4. \A p \in Paths : refCount'[p] = Counts(R)[p] /\ locks'[p] = LocksAt(R)[p]
    BY DEF Refreshed
  <1>5. LockTypes'
    <2>1. det' \in [Tokens -> Details]
      BY DEF Refreshed, LockPart, LockTypes, NoDetails, Details
    <2>2. expiry' \in [Tokens -> Nat]
      <3>1. dur >= 0 => at + dur \in Nat
        BY LockParams
      <3> QED BY <3>1 DEF Refreshed, LockPart, LockTypes
    <2>3. refCount' \in [Paths -> Nat]
      BY <1>1, AfterRemove DEF Refreshed, Counts
    <2>4. locks' \in [Paths -> SUBSET Tokens]
      <3>1. \A p \in Paths : LocksAt(R)[p] \subseteq Tokens
        BY <1>1, AfterRemove DEF At, LockPart, LockTypes
      <3> QED BY <3>1 DEF Refreshed, LocksAt
    <2> QED BY <1>2, <1>3, <2>1, <2>2, <2>3, <2>4 DEF LockPart, LockTypes
  <1>6. (held \subseteq byToken)'
    BY <1>1, <1>2 DEF LockPart
  <1>7. CountsExact'
    <2> SUFFICES ASSUME NEW p \in Paths
                 PROVE  /\ refCount'[p] = Cardinality({u \in byToken' : p \in Above[det'[u].root]})
                        /\ locks'[p] = {u \in byToken' : det'[u].root = p}
      BY DEF CountsExact
    <2>1. {u \in byToken' : p \in Above[det'[u].root]} = Reach(R, p)
      BY <1>2, <1>3 DEF Reach
    <2>2. {u \in byToken' : det'[u].root = p} = At(R, p)
      BY <1>2, <1>3 DEF At
    <2> QED BY <2>1, <2>2, <1>1, <1>4, AfterRemove
  <1>8. NoConflictingLocks'
    <2> SUFFICES ASSUME NEW v \in byToken', NEW u \in byToken', NEW p \in Paths,
                        v # u, Covers(v, p)', Covers(u, p)'
                 PROVE  det'[v].shared /\ det'[u].shared /\ det'[v].root = det'[u].root
      BY DEF NoConflictingLocks
    <2>1. Covers(v, p) /\ Covers(u, p)
      BY <1>3 DEF Covers
    <2> QED BY <2>1, <1>2, <1>3 DEF LockPart, NoConflictingLocks
  <1>9. ExpiryExact'
    BY <1>1, <1>2, <1>3 DEF ExpiryExact, LockPart
  <1> QED BY <1>2, <1>5, <1>6, <1>7, <1>8, <1>9 DEF LockPart

\* Releasing claimed locks puts those with a timeout back into the heap.
LEMMA UnholdKeeps ==
    ASSUME LockPart, NEW h, claim[h] \subseteq held, Unhold(h)
    PROVE  LockPart'
  <1>1. LockTypes' /\ CountsExact'
    BY DEF Unhold, LockPart, LockTypes, CountsExact
  <1>2. NoConflictingLocks'
    BY DEF Unhold, LockPart, NoConflictingLocks, Covers
  <1>3. ExpiryExact' /\ (held \subseteq byToken)'
    BY DEF Unhold, LockPart, ExpiryExact
  <1> QED BY <1>1, <1>2, <1>3 DEF LockPart

-----------------------------------------------------------------------------
\* Lookup returns a condition that matches (lock.go 189-207).
LEMMA LookupMatches ==
    ASSUME NEW R, NEW name, NEW conds \in Conditions, Matching(R, name, conds) # {}
    PROVE  Lookup(R, name, conds) \in byToken \ (R \cup held)
  <1> DEFINE S == Matching(R, name, conds)
  <1>1. DOMAIN conds \subseteq {1, 2}
    BY DEF Conditions
  <1>2. S \subseteq {1, 2}
    BY <1>1 DEF Matching
  <1>3. Min(S) \in S
    BY <1>2 DEF Min
  <1> QED BY <1>3 DEF Matching, Lookup

\* The initial state.
LEMMA InitKeeps == Init => LockInv
  <1> SUFFICES ASSUME Init PROVE LockInv
    OBVIOUS
  <1>1. LockTypes
    BY DEF Init, LockTypes, NoDetails, Details
  <1>2. CountsExact
    BY FS_EmptySet DEF Init, CountsExact
  <1>3. NoConflictingLocks /\ ExpiryExact /\ held \subseteq byToken
    BY DEF Init, NoConflictingLocks, ExpiryExact
  <1>4. HandlerTypes
    BY LockParams DEF Init, HandlerTypes, Labels, NoNames
  <1>5. Claims
    BY DEF Init, Claims
  <1> QED BY <1>1, <1>2, <1>3, <1>4, <1>5 DEF LockInv, LockPart, HandlerPart

\* The lock system is left alone.
LEMMA StutterKeeps ==
    ASSUME LockPart, UNCHANGED lockSystem
    PROVE  LockPart' /\ held' = held
  <1>1. LockTypes' /\ held' = held /\ (held \subseteq byToken)'
    BY DEF lockSystem, LockPart, LockTypes
  <1>2. CountsExact' <=> CountsExact
    BY DEF lockSystem, CountsExact
  <1>3. NoConflictingLocks'
    BY DEF lockSystem, LockPart, NoConflictingLocks, Covers
  <1>4. ExpiryExact'
    BY DEF lockSystem, LockPart, ExpiryExact
  <1> QED BY <1>1, <1>2, <1>3, <1>4 DEF LockPart

\* LOCK, refresh, UNLOCK, the start of a writing request and the clock change nothing
\* that a handler owns.
LEMMA RequestKeeps ==
    ASSUME LockInv, NEW h \in Handlers, ClientRequests(h)
    PROVE  LockInv'
  <1>0. LockPart /\ HandlerPart /\ clock \in Nat
    BY LockParams DEF LockInv, HandlerPart, HandlerTypes
  <1>1. ASSUME NEW p \in Paths, NEW dur \in Durations, NEW zero \in BOOLEAN, NEW shared \in BOOLEAN,
               LockRequest(h, p, dur, zero, shared)
        PROVE  LockPart' /\ held' = held /\ UNCHANGED <<clock, handlers>>
    <2> DEFINE d == [root |-> p, dur |-> dur, zero |-> zero, shared |-> shared, temp |-> FALSE]
    <2>1. d \in Details /\ d.root \in Paths
      BY DEF Details
    <2>2. (Created(d, clock) \/ CreateFails(d, clock)) /\ UNCHANGED <<clock, handlers>>
      BY <1>1 DEF LockRequest
    <2> HIDE DEF d
    <2> QED BY <2>1, <2>2, <1>0, CreateKeeps, CreateFailsKeeps
  <1>2. ASSUME NEW t \in Issued, NEW dur \in Durations, RefreshRequest(h, t, dur)
        PROVE  LockPart' /\ held' = held /\ UNCHANGED <<clock, handlers>>
    BY <1>0, <1>2, RefreshKeeps, CollectKeeps DEF RefreshRequest
  <1>3. ASSUME NEW t \in Issued, UnlockRequest(h, t)
        PROVE  LockPart' /\ held' = held /\ UNCHANGED <<clock, handlers>>
    BY <1>0, <1>3, UnlockKeeps DEF UnlockRequest
  <1>4. ASSUME LockPart', held' = held, UNCHANGED <<clock, handlers>>
        PROVE  LockInv'
    BY <1>0, <1>4 DEF LockInv, HandlerPart, HandlerTypes, Claims, handlers
  <1>5. ASSUME NEW names \in Targets, NEW label \in {"locksrc", "confirm"},
               Begin(h, names[1], names[2], label)
        PROVE  LockInv'
    <2>1. names[1] \in Paths \cup {Nil} /\ names[2] \in Paths \cup {Nil}
      BY LockParams
    <2>2. HandlerTypes'
      BY <2>1, <1>0, <1>5 DEF HandlerPart, HandlerTypes, Begin, Labels, lockSystem
    <2>3. Claims'
      BY <1>0, <1>5 DEF HandlerPart, HandlerTypes, Claims, Begin, Labels, lockSystem
    <2>4. LockPart'
      BY <1>0, <1>5, StutterKeeps DEF Begin
    <2> QED BY <2>2, <2>3, <2>4 DEF LockInv, HandlerPart
  <1> QED BY <1>1, <1>2, <1>3, <1>4, <1>5 DEF ClientRequests

\* The i-th temporary lock of a handler is taken, or could not be; what it claims
\* stays as it is, and it claims nothing on the way to "working".
LEMMA TakeKeeps ==
    ASSUME LockInv, NEW h \in Handlers, NEW i \in {1, 2}, pc[h] # "working",
           NEW label \in Labels, NEW failed \in Labels, TakeTemp(h, i, label, failed)
    PROVE  LockInv'
  <1> DEFINE name == IF i = 1 THEN req[h].src ELSE req[h].dst
  <1>0. LockPart /\ HandlerTypes /\ Claims /\ req[h].at \in Nat /\ name \in Paths \cup {Nil}
    BY LockParams DEF LockInv, HandlerPart, HandlerTypes
  <1>1. claim' = claim /\ clock' = clock
    BY DEF TakeTemp
  <1>2. req' \in [Handlers -> [src : Paths \cup {Nil}, dst : Paths \cup {Nil}, at : 0..MaxTime]]
    BY <1>0, LockParams DEF TakeTemp, Answer, HandlerTypes, NoNames
  <1>3. \E l \in Labels : pc' = [pc EXCEPT ![h] = l]
    BY DEF TakeTemp, Answer, Goto, Labels
  <1>4. LockPart' /\ held' = held /\ (tmp' = tmp \/ \E n \in Tokens : tmp' = [tmp EXCEPT ![h][i] = n])
    <2>1. CASE name = Nil
      BY <2>1, <1>0, StutterKeeps DEF TakeTemp
    <2>2. CASE name # Nil
      <3>1. TempLock(name) \in Details /\ TempLock(name).root \in Paths
        BY <2>2, <1>0 DEF TempLock, Details
      <3>2. \/ Created(TempLock(name), req[h].at) /\ tmp' = [tmp EXCEPT ![h][i] = NextToken]
            \/ CreateFails(TempLock(name), req[h].at) /\ tmp' = tmp
        BY <2>2 DEF TakeTemp
      <3> QED BY <3>1, <3>2, <1>0, CreateKeeps, CreateFailsKeeps
    <2> QED BY <2>1, <2>2
  <1>5. tmp' \in [Handlers -> (Tokens \cup {0}) \X (Tokens \cup {0})]
    <2>1. tmp \in [Handlers -> (Tokens \cup {0}) \X (Tokens \cup {0})]
      BY <1>0 DEF HandlerTypes
    <2>2. ASSUME NEW n \in Tokens, tmp' = [tmp EXCEPT ![h][i] = n]
          PROVE  tmp' \in [Handlers -> (Tokens \cup {0}) \X (Tokens \cup {0})]
      <3>1. tmp[h] \in (Tokens \cup {0}) \X (Tokens \cup {0})
        BY <2>1
      <3>2. [tmp[h] EXCEPT ![i] = n] \in (Tokens \cup {0}) \X (Tokens \cup {0})
        BY <3>1
      <3> QED BY <2>1, <2>2, <3>2
    <2> QED BY <1>4, <2>1, <2>2
  <1>6. HandlerTypes'
    BY <1>0, <1>1, <1>2, <1>3, <1>5 DEF HandlerTypes
  <1>7. Claims'
    BY <1>0, <1>1, <1>3, <1>4 DEF Claims, HandlerTypes
  <1> QED BY <1>4, <1>6, <1>7 DEF LockInv, HandlerPart

\* The i-th temporary lock of a handler is dropped.
LEMMA DropKeeps ==
    ASSUME LockInv, NEW h \in Handlers, NEW i \in {1, 2}, claim[h] = {},
           NEW label \in Labels, DropTemp(h, i, label)
    PROVE  LockInv'
  <1>0. LockPart /\ HandlerTypes /\ Claims
    BY DEF LockInv, HandlerPart
  <1>1. claim' = claim /\ clock' = clock /\ tmp' = [tmp EXCEPT ![h][i] = 0]
    BY DEF DropTemp
  <1>2. req' \in [Handlers -> [src : Paths \cup {Nil}, dst : Paths \cup {Nil}, at : 0..MaxTime]]
    BY <1>0, LockParams DEF DropTemp, Answer, HandlerTypes, NoNames
  <1>3. \E l \in Labels : pc' = [pc EXCEPT ![h] = l]
    BY DEF DropTemp, Answer, Goto, Labels
  <1>4. LockPart' /\ held' = held
    BY <1>0, StutterKeeps, UnlockKeeps DEF DropTemp
  <1>5. tmp' \in [Handlers -> (Tokens \cup {0}) \X (Tokens \cup {0})]
    BY <1>0, <1>1 DEF HandlerTypes
  <1>6. HandlerTypes'
    BY <1>0, <1>1, <1>2, <1>3, <1>5 DEF HandlerTypes
  <1>7. Claims'
    BY <1>0, <1>1, <1>3, <1>4 DEF Claims, HandlerTypes
  <1> QED BY <1>4, <1>6, <1>7 DEF LockInv, HandlerPart

\* A list of an If header is confirmed, or is not (webdav.go 203-250).
LEMMA TryListKeeps ==
    ASSUME LockInv, NEW h \in Handlers, NEW tagged \in Paths \cup {req[h].src},
           NEW conds \in Conditions, TryList(h, tagged, conds)
    PROVE  LockInv'
  <1> DEFINE names == {tagged, req[h].dst} \ {Nil}
             R == Expired(clock)
             c == {Lookup(R, n, conds) : n \in names}
  <1>0. LockPart /\ HandlerTypes /\ Claims /\ tagged \in Paths \cup {Nil}
    BY DEF LockInv, HandlerPart, HandlerTypes
  <1>1. pc[h] = "confirm" /\ claim[h] = {} /\ clock' = clock /\ tmp' = tmp
    BY <1>0 DEF TryList, Claims
  <1>2. CASE Confirmed(h, names, conds, clock) /\ req' = [req EXCEPT ![h].src = tagged] /\ Goto(h, "working")
    <2>1. c \subseteq byToken \ (R \cup held)
      BY <1>2, LookupMatches DEF Confirmed
    <2>2. Remove(R) /\ byExpiry' = byExpiry \ (R \cup c) /\ held' = held \cup c /\ claim' = [claim EXCEPT ![h] = c]
      BY <1>2 DEF Confirmed
    <2> HIDE DEF c, R, names
    <2>3. R \in SUBSET (byToken \ held) /\ c \in SUBSET (byToken \ R) /\ c \subseteq Tokens
      BY <1>0, <2>1, ExpiredFree DEF R, LockPart, LockTypes
    <2>4. LockPart'
      BY <1>0, <2>2, <2>3, RemoveKeeps
    <2>5. HandlerTypes'
      BY <1>0, <1>1, <1>2, <2>2, <2>3 DEF HandlerTypes, Goto, Labels
    <2>6. Claims'
      <3>1. \A g \in Handlers : claim'[g] = IF g = h THEN c ELSE claim[g]
        BY <1>0, <2>2 DEF HandlerTypes
      <3>2. \A g \in Handlers : pc'[g] = IF g = h THEN "working" ELSE pc[g]
        BY <1>0, <1>2 DEF HandlerTypes, Goto
      <3>3. held' = UNION {claim'[g] : g \in Handlers}
        BY <1>0, <1>1, <2>2, <3>1 DEF Claims
      <3>4. \A g \in Handlers : claim[g] \cap c = {}
        BY <1>0, <2>1 DEF Claims
      <3> QED BY <1>0, <3>1, <3>2, <3>3, <3>4 DEF Claims
    <2> QED BY <2>4, <2>5, <2>6 DEF LockInv, HandlerPart
  <1>3. CASE Remove(R) /\ byExpiry' = byExpiry \ R /\ UNCHANGED <<held, claim, pc, req>>
    <2>1. LockPart'
      BY <1>0, <1>3, CollectKeeps
    <2> QED BY <1>0, <1>1, <1>3, <2>1 DEF LockInv, HandlerPart, HandlerTypes, Claims
  <1> QED BY <1>2, <1>3 DEF TryList

\* The method is done and its claims are released (lock.go 178-187).
LEMMA ReleaseKeeps ==
    ASSUME LockInv, NEW h \in Handlers, Release(h)
    PROVE  LockInv'
  <1>0. LockPart /\ HandlerTypes /\ Claims /\ Unhold(h) /\ Answer(h) /\ clock' = clock /\ tmp' = tmp
    BY DEF LockInv, HandlerPart, Release
  <1>1. LockPart'
    BY <1>0, UnholdKeeps DEF Claims
  <1>2. \A g \in Handlers : claim'[g] = IF g = h THEN {} ELSE claim[g]
    BY <1>0 DEF HandlerTypes, Unhold
  <1>3. HandlerTypes'
    BY <1>0, LockParams DEF HandlerTypes, Unhold, Answer, Goto, Labels, NoNames
  <1>4. Claims'
    <2>1. held' = UNION {claim'[g] : g \in Handlers}
      BY <1>0, <1>2 DEF Claims, Unhold
    <2>2. \A g \in Handlers : g # h => pc'[g] = pc[g]
      BY <1>0 DEF HandlerTypes, Answer, Goto
    <2> QED BY <1>0, <1>2, <2>1, <2>2 DEF Claims
  <1> QED BY <1>1, <1>3, <1>4 DEF LockInv, HandlerPart

\* Every step of a handler keeps the invariant.
LEMMA HandlerKeeps ==
    ASSUME LockInv, NEW h \in Handlers, HandlerStep(h)
    PROVE  LockInv'
  <1>0. \A l \in Labels : claim[h] # {} /\ pc[h] = l => l = "working"
    BY DEF LockInv, HandlerPart, Claims
  <1>1. CASE LockSrc(h) \/ LockDst(h) \/ ProbeSrc(h) \/ ProbeDst(h)
    BY <1>1, TakeKeeps DEF LockSrc, LockDst, ProbeSrc, ProbeDst, Labels
  <1>2. CASE UnlockDst(h) \/ UnlockSrc(h) \/ UnprobeSrc(h) \/ UnprobeDst(h)
    BY <1>0, <1>2, DropKeeps DEF UnlockDst, UnlockSrc, UnprobeSrc, UnprobeDst, Labels
  <1>3. CASE \E tagged \in Paths \cup {req[h].src}, conds \in Conditions : TryList(h, tagged, conds)
    BY <1>3, TryListKeeps
  <1>4. ASSUME NEW negated \in BOOLEAN, NoMoreLists(h, negated)
        PROVE  LockInv'
    <2>0. LockPart /\ HandlerTypes /\ Claims
      BY DEF LockInv, HandlerPart
    <2>1. LockPart' /\ held' = held
      BY <2>0, <1>4, StutterKeeps DEF NoMoreLists
    <2>2. HandlerTypes'
      <3>1. tmp' = tmp /\ claim' = claim /\ clock' = clock /\ pc[h] = "confirm"
        BY <1>4 DEF NoMoreLists
      <3>2. CASE negated
        <4>1. pc' = [pc EXCEPT ![h] = "probesrc"] /\ req' = [req EXCEPT ![h].at = clock]
          BY <1>4, <3>2 DEF NoMoreLists, Goto
        <4> QED BY <2>0, <3>1, <4>1 DEF HandlerTypes, Labels
      <3>3. CASE ~ negated
        <4>1. Answer(h)
          BY <1>4, <3>3 DEF NoMoreLists
        <4> QED BY <2>0, <3>1, <4>1, LockParams DEF HandlerTypes, Answer, Goto, Labels, NoNames
      <3> QED BY <3>2, <3>3
    <2>3. Claims'
      BY <2>0, <2>1, <1>4 DEF Claims, HandlerTypes, NoMoreLists, Answer, Goto
    <2> QED BY <2>1, <2>2, <2>3 DEF LockInv, HandlerPart
  <1>5. CASE Release(h)
    BY <1>5, ReleaseKeeps
  <1> QED BY <1>1, <1>2, <1>3, <1>4, <1>5 DEF HandlerStep

LEMMA NextKeeps == LockInv /\ [Next]_vars => LockInv'
  <1> SUFFICES ASSUME LockInv, [Next]_vars PROVE LockInv'
    OBVIOUS
  <1>1. ASSUME NEW h \in Handlers, ClientRequests(h) \/ HandlerStep(h) PROVE LockInv'
    BY <1>1, RequestKeeps, HandlerKeeps
  <1>2. ASSUME UNCHANGED <<lockSystem, handlers>>, clock' \in 0..MaxTime PROVE LockInv'
    BY <1>2, StutterKeeps DEF LockInv, HandlerPart, HandlerTypes, Claims, handlers
  <1>3. CASE Tick
    BY <1>2, <1>3, LockParams DEF Tick, LockInv, HandlerPart, HandlerTypes
  <1>4. CASE UNCHANGED vars
    BY <1>2, <1>4 DEF vars, LockInv, HandlerPart, HandlerTypes
  <1> QED BY <1>1, <1>3, <1>4 DEF Next

LEMMA LockInvHolds == Spec => []LockInv
  BY InitKeeps, NextKeeps, PTL DEF Spec

\* Every field of the lock system and of its handlers keeps its type: no reference
\* count ever falls below zero.
THEOREM LockTypesHold == Spec => []TypeOK
  <1>1. LockInv => TypeOK
    BY DEF LockInv, LockPart, LockTypes, HandlerPart, HandlerTypes, TypeOK, ExpiryExact, Labels
  <1> QED BY <1>1, LockInvHolds, PTL

\* The reference counts and the nodes that canCreate reads are exact, whatever was
\* created, removed, refreshed or expired.
THEOREM CountsStayExact == Spec => []CountsExact
  <1>1. LockInv => CountsExact
    BY DEF LockInv, LockPart
  <1> QED BY <1>1, LockInvHolds, PTL

\* No two locks in force conflict, for every tree of paths.
THEOREM LockSafety == Spec => []NoConflictingLocks
  <1>1. LockInv => NoConflictingLocks
    BY DEF LockInv, LockPart
  <1> QED BY <1>1, LockInvHolds, PTL

\* The heap is exactly the unclaimed locks with a timeout: a claimed lock cannot
\* expire, a released one can.
THEOREM HeapStaysExact == Spec => []ExpiryExact
  <1>1. LockInv => ExpiryExact
    BY DEF LockInv, LockPart
  <1> QED BY <1>1, LockInvHolds, PTL

\* Every claimed lock is in force and claimed by one working handler: hold and
\* unhold never panic.
THEOREM ClaimsStayExact == Spec => []ClaimsExact
  <1>1. LockInv => ClaimsExact
    BY DEF LockInv, LockPart, HandlerPart, Claims, ClaimsExact
  <1> QED BY <1>1, LockInvHolds, PTL

-----------------------------------------------------------------------------
(***************************************************************************)
(* The temporary locks, and what a method may rely on while it works.      *)
(***************************************************************************)
\* The i-th name of a request.
Name(h, i) == IF i = 1 THEN req[h].src ELSE req[h].dst

\* The name is absent or locked.
Locked(h, i) == Name(h, i) # Nil => tmp[h][i] # 0

\* A temporary lock recorded by a handler is in force, on the name it was taken for.
TempInForce(h, i) ==
    tmp[h][i] # 0 => /\ tmp[h][i] \in byToken
                     /\ Name(h, i) \in Paths
                     /\ det[tmp[h][i]] = TempLock(Name(h, i))

\* When a handler has which locks.
Phases(h) ==
    /\ tmp[h][1] # 0 => pc[h] \in {"lockdst", "working", "unlocksrc", "unprobesrc"} /\ claim[h] = {}
    /\ tmp[h][2] # 0 => pc[h] \in {"working", "unprobedst"} /\ claim[h] = {}
    /\ pc[h] = "lockdst" => Locked(h, 1)
    /\ pc[h] = "working" /\ claim[h] = {} => Locked(h, 1) /\ Locked(h, 2)

\* The claims of a method cover its names.
ClaimsCover(h) ==
    claim[h] # {} => \A p \in {req[h].src, req[h].dst} \ {Nil} : \E t \in claim[h] : Covers(t, p)

HandlerOK(h) == TempInForce(h, 1) /\ TempInForce(h, 2) /\ Phases(h) /\ ClaimsCover(h)

\* Every temporary lock in force is recorded by one handler, once, and none is claimed.
TempsOwned ==
    /\ \A t \in byToken : det[t].temp => t \in Temporary
    /\ \A t \in held : ~ det[t].temp

TempsDistinct ==
    \A g, h \in Handlers : \A i, j \in {1, 2} :
        tmp[g][i] # 0 /\ tmp[g][i] = tmp[h][j] => g = h /\ i = j

TempInv == TempsOwned /\ TempsDistinct /\ \A h \in Handlers : HandlerOK(h)

\* What nobody but its owner may touch: temporary and claimed locks.
Protected == {t \in byToken : det[t].temp} \cup held

Kept(S) == \A t \in S : t \in byToken' /\ det'[t] = det[t]

NoNewTemps(S) == \A t \in byToken' \ S : det'[t].temp => t \in byToken /\ det[t].temp

\* A token of a temporary lock is one of the two its handler recorded.
LEMMA TempOwner ==
  ASSUME LockInv, TempInv, NEW t \in byToken, det[t].temp
  PROVE  t # 0 /\ \E h \in Handlers, i \in {1, 2} : t = tmp[h][i] /\ det[t].dur = -1
  <1>1. t \in Tokens /\ t # 0
    BY LockParams DEF LockInv, LockPart, LockTypes
  <1>2. PICK h \in Handlers : t = tmp[h][1] \/ t = tmp[h][2]
    BY DEF TempInv, TempsOwned, Temporary
  <1>3. TempInForce(h, 1) /\ TempInForce(h, 2)
    BY DEF TempInv, HandlerOK
  <1> QED BY <1>1, <1>2, <1>3 DEF TempInForce, TempLock

\* What expires is neither temporary nor claimed.
LEMMA ExpiredUnprotected ==
  ASSUME LockInv, TempInv, NEW at
  PROVE  Expired(at) \cap Protected = {}
  <1>1. \A t \in byExpiry : t \in byToken /\ t \notin held /\ det[t].dur >= 0
    BY DEF LockInv, LockPart, ExpiryExact
  <1>2. \A t \in byToken : det[t].temp => det[t].dur = -1
    BY TempOwner
  <1> QED BY <1>1, <1>2 DEF Expired, Protected

LEMMA ProtectedTypes ==
  ASSUME LockInv, TempInv
  PROVE  Protected \subseteq byToken /\ Protected \subseteq Tokens
  BY DEF Protected, LockInv, LockPart, LockTypes

LEMMA CollectStep ==
  ASSUME LockInv, TempInv, NEW at, Remove(Expired(at))
  PROVE  Kept(Protected) /\ NoNewTemps({})
  <1>1. byToken' = byToken \ Expired(at) /\ byToken \subseteq Tokens
    BY DEF Remove, LockInv, LockPart, LockTypes
  <1>2. \A t \in byToken' : det'[t] = det[t]
    BY <1>1 DEF Remove
  <1> QED BY <1>1, <1>2, ExpiredUnprotected, ProtectedTypes DEF Kept, NoNewTemps

LEMMA CreateStep ==
  ASSUME LockInv, TempInv, NEW at, NEW d, Created(d, at)
  PROVE  /\ Kept(Protected) /\ NoNewTemps({NextToken}) /\ held' = held
         /\ NextToken \in Tokens \ byToken /\ NextToken \in byToken' /\ det'[NextToken] = d
  <1>1. PICK n : n = NextToken
    OBVIOUS
  <1>2. n \in Tokens \ byToken /\ Add(Expired(at), n, d, at) /\ held' = held
    BY <1>1 DEF Created, NextToken
  <1>3. byToken' = (byToken \ Expired(at)) \cup {n} /\ byToken \subseteq Tokens
    BY <1>2 DEF Add, LockInv, LockPart, LockTypes
  <1>4. det'[n] = d /\ \A t \in byToken \ Expired(at) : det'[t] = det[t]
    BY <1>2, <1>3 DEF Add
  <1>5. Kept(Protected)
    BY <1>3, <1>4, ExpiredUnprotected, ProtectedTypes DEF Kept
  <1>6. NoNewTemps({n})
    BY <1>3, <1>4 DEF NoNewTemps
  <1> QED BY <1>1, <1>2, <1>3, <1>4, <1>5, <1>6

LEMMA UnlockStep ==
  ASSUME LockInv, TempInv, NEW at, NEW u, Unlocked(u, at)
  PROVE  /\ Kept(Protected \ ({u} \ held)) /\ NoNewTemps({}) /\ held' = held
         /\ u \notin held => u \notin byToken'
  <1> DEFINE R == Expired(at) \cup ({u} \cap (byToken \ held))
  <1>1. Remove(R) /\ held' = held
    BY DEF Unlocked
  <1>2. byToken' = byToken \ R /\ byToken \subseteq Tokens
    BY <1>1 DEF Remove, LockInv, LockPart, LockTypes
  <1>3. \A t \in byToken' : det'[t] = det[t]
    BY <1>1, <1>2 DEF Remove
  <1> QED BY <1>1, <1>2, <1>3, ExpiredUnprotected, ProtectedTypes DEF Kept, NoNewTemps

LEMMA RefreshStep ==
  ASSUME LockInv, TempInv, NEW at, NEW u \in Issued, NEW dur, Refreshed(u, dur, at)
  PROVE  Kept(Protected) /\ NoNewTemps({}) /\ held' = held
  <1>1. u \in byToken /\ u \notin held /\ ~ det[u].temp /\ u \in Tokens
    BY DEF Refreshed, Issued, TempInv, TempsOwned, LockInv, LockPart, LockTypes
  <1>2. byToken' = byToken \ Expired(at) /\ byToken \subseteq Tokens /\ held' = held
    BY DEF Refreshed, LockInv, LockPart, LockTypes
  <1>3. \A t \in byToken' \ {u} : det'[t] = det[t]
    BY <1>2 DEF Refreshed
  <1>4. det'[u].temp = det[u].temp
    BY <1>1 DEF Refreshed, LockInv, LockPart, LockTypes, Details
  <1>5. u \notin Protected
    BY <1>1 DEF Protected
  <1>6. Kept(Protected)
    BY <1>2, <1>3, <1>5, ExpiredUnprotected, ProtectedTypes DEF Kept
  <1> QED BY <1>1, <1>2, <1>3, <1>4, <1>6 DEF NoNewTemps

-----------------------------------------------------------------------------
\* A handler whose locks are left alone.
LEMMA HandlerFrame ==
  ASSUME NEW g \in Handlers, HandlerOK(g),
         pc'[g] = pc[g], req'[g].src = req[g].src, req'[g].dst = req[g].dst,
         tmp'[g] = tmp[g], claim'[g] = claim[g],
         \A i \in {1, 2} : tmp[g][i] # 0 => Kept({tmp[g][i]}), Kept(claim[g])
  PROVE  HandlerOK(g)'
  <1>1. TempInForce(g, 1)' /\ TempInForce(g, 2)'
    BY DEF HandlerOK, TempInForce, Name, Kept
  <1>2. Phases(g)'
    BY DEF HandlerOK, Phases, Locked, Name
  <1>3. ClaimsCover(g)'
    BY DEF HandlerOK, ClaimsCover, Covers, Kept
  <1> QED BY <1>1, <1>2, <1>3 DEF HandlerOK

\* The locks of a handler are protected.
LEMMA OwnProtected ==
  ASSUME LockInv, TempInv, NEW g \in Handlers
  PROVE  /\ \A i \in {1, 2} : tmp[g][i] # 0 => tmp[g][i] \in Protected /\ tmp[g][i] \notin held
         /\ claim[g] \subseteq Protected /\ claim[g] \subseteq held
  <1>1. TempInForce(g, 1) /\ TempInForce(g, 2)
    BY DEF TempInv, HandlerOK
  <1>2. claim[g] \subseteq held
    BY DEF LockInv, HandlerPart, Claims
  <1> QED BY <1>1, <1>2 DEF TempInForce, TempLock, Protected, TempInv, TempsOwned

\* A step of one handler that touches no protected lock but its own.
LEMMA OthersFrame ==
  ASSUME LockInv, TempInv, NEW h \in Handlers,
         \A g \in Handlers \ {h} : /\ pc'[g] = pc[g] /\ req'[g] = req[g]
                                   /\ tmp'[g] = tmp[g] /\ claim'[g] = claim[g],
         Kept(Protected \ ({tmp[h][1], tmp[h][2]} \ held))
  PROVE  \A g \in Handlers \ {h} : HandlerOK(g)'
  <1> TAKE g \in Handlers \ {h}
  <1>1. \A i \in {1, 2} : tmp[g][i] # 0 => tmp[g][i] # tmp[h][1] /\ tmp[g][i] # tmp[h][2]
    BY DEF TempInv, TempsDistinct
  <1>2. \A i \in {1, 2} : tmp[g][i] # 0 => Kept({tmp[g][i]})
    BY <1>1, OwnProtected DEF Kept
  <1>3. Kept(claim[g])
    BY OwnProtected DEF Kept
  <1> QED BY <1>2, <1>3, HandlerFrame DEF TempInv

\* LOCK, refresh and UNLOCK requests, the clock.
LEMMA QuietTemps ==
  ASSUME LockInv, TempInv, Kept(Protected), NoNewTemps({}), held' = held, UNCHANGED <<tmp, claim>>,
         \A g \in Handlers : pc'[g] = pc[g] /\ req'[g] = req[g]
  PROVE  TempInv'
  <1>1. \A g \in Handlers : HandlerOK(g)'
    <2> TAKE g \in Handlers
    <2>1. Kept(claim[g]) /\ \A i \in {1, 2} : tmp[g][i] # 0 => Kept({tmp[g][i]})
      BY OwnProtected DEF Kept
    <2> QED BY <2>1, HandlerFrame DEF TempInv
  <1>2. TempsOwned'
    BY DEF TempInv, TempsOwned, Kept, NoNewTemps, Protected, Temporary
  <1>3. TempsDistinct'
    BY DEF TempInv, TempsDistinct
  <1> QED BY <1>1, <1>2, <1>3 DEF TempInv

\* One entry of tmp is written.
SetTmp(h, i, n) == tmp' = [tmp EXCEPT ![h][i] = n]

LEMMA TmpUpdate ==
  ASSUME HandlerTypes, NEW h \in Handlers, NEW i \in {1, 2}, NEW n \in Tokens \cup {0},
         SetTmp(h, i, n)
  PROVE  /\ \A g \in Handlers \ {h} : tmp'[g] = tmp[g]
         /\ tmp'[h][i] = n
         /\ \A j \in {1, 2} \ {i} : tmp'[h][j] = tmp[h][j]
  <1>1. tmp[h] \in (Tokens \cup {0}) \X (Tokens \cup {0}) /\ tmp \in [Handlers -> (Tokens \cup {0}) \X (Tokens \cup {0})]
    BY DEF HandlerTypes
  <1>2. tmp'[h] = [tmp[h] EXCEPT ![i] = n] /\ \A g \in Handlers \ {h} : tmp'[g] = tmp[g]
    BY <1>1 DEF SetTmp
  <1> QED BY <1>1, <1>2

\* Whose locks the tokens of tmp are, once entry i of handler h is n.
LEMMA TmpOwnership ==
  ASSUME LockInv, TempInv, NEW h \in Handlers, NEW i \in {1, 2}, NEW n \in Tokens \cup {0},
         SetTmp(h, i, n), held' = held,
         n \notin byToken \/ n = 0, NoNewTemps({n}),
         tmp[h][i] = 0 \/ tmp[h][i] \notin byToken',
         Kept(Protected \ ({tmp[h][i]} \ held))
  PROVE  TempsOwned' /\ TempsDistinct'
  <1>0. HandlerTypes
    BY DEF LockInv, HandlerPart
  <1>1. /\ \A g \in Handlers \ {h} : tmp'[g] = tmp[g]
        /\ tmp'[h][i] = n
        /\ \A j \in {1, 2} \ {i} : tmp'[h][j] = tmp[h][j]
    BY <1>0, TmpUpdate
  <1>2. \A g \in Handlers, j \in {1, 2} : tmp'[g][j] = IF g = h /\ j = i THEN n ELSE tmp[g][j]
    BY <1>1
  <1>3. \A g \in Handlers, j \in {1, 2} : tmp[g][j] # 0 => tmp[g][j] \in byToken
    BY DEF TempInv, HandlerOK, TempInForce
  <1>4. TempsDistinct'
    <2> SUFFICES ASSUME NEW f \in Handlers, NEW g \in Handlers, NEW j \in {1, 2}, NEW k \in {1, 2},
                        tmp'[f][j] # 0, tmp'[f][j] = tmp'[g][k]
                 PROVE  f = g /\ j = k
      BY DEF TempsDistinct
    <2>1. CASE ~ (f = h /\ j = i) /\ ~ (g = h /\ k = i)
      <3>1. tmp'[f][j] = tmp[f][j] /\ tmp'[g][k] = tmp[g][k]
        BY <1>2, <2>1
      <3>2. tmp[f][j] # 0 /\ tmp[f][j] = tmp[g][k]
        BY <3>1
      <3>3. TempsDistinct
        BY DEF TempInv
      <3> QED BY <3>2, <3>3 DEF TempsDistinct
    <2>2. CASE f = h /\ j = i
      <3>1. n # 0 /\ n \notin byToken /\ n = tmp'[g][k]
        BY <1>2, <2>2
      <3> QED BY <1>2, <1>3, <2>2, <3>1
    <2>3. CASE g = h /\ k = i
      <3>1. n # 0 /\ n \notin byToken /\ n = tmp'[f][j]
        BY <1>2, <2>3
      <3> QED BY <1>2, <1>3, <2>3, <3>1
    <2> QED BY <2>1, <2>2, <2>3
  <1>5. ASSUME NEW t \in byToken', det'[t].temp PROVE t \in Temporary'
    <2>1. CASE t = n
      BY <1>1, <2>1 DEF Temporary
    <2>2. CASE t # n
      <3>1. t \in byToken /\ det[t].temp
        BY <1>5, <2>2 DEF NoNewTemps
      <3>2. PICK g \in Handlers, j \in {1, 2} : t = tmp[g][j] /\ t # 0
        BY <3>1, TempOwner
      <3>3. ~ (g = h /\ j = i)
        BY <1>5, <3>2
      <3>4. t = tmp'[g][j]
        BY <1>2, <3>2, <3>3
      <3> QED BY <3>2, <3>4 DEF Temporary
    <2> QED BY <2>1, <2>2
  <1>6. \A t \in held' : ~ det'[t].temp
    BY DEF Kept, Protected, TempInv, TempsOwned
  <1> QED BY <1>4, <1>5, <1>6 DEF TempsOwned

\* Taking the i-th temporary lock: the name was absent, or it is locked now, or
\* the request goes another way without it.
LEMMA TakeStep ==
  ASSUME LockInv, TempInv, NEW h \in Handlers, NEW i \in {1, 2}, NEW j \in {1, 2} \ {i},
         tmp[h][i] = 0, claim[h] = {},
         NEW label \in Labels \ {"idle"}, NEW failed \in Labels,
         TakeTemp(h, i, label, failed)
  PROVE  /\ TempsOwned' /\ TempsDistinct'
         /\ \A g \in Handlers \ {h} : HandlerOK(g)'
         /\ TempInForce(h, i)' /\ (req'[h] = req[h] \/ tmp[h][j] = 0 => TempInForce(h, j)')
         /\ tmp'[h][j] = tmp[h][j] /\ claim'[h] = {}
         /\ \/ pc'[h] = label /\ req'[h] = req[h] /\ Locked(h, i)'
            \/ pc'[h] = failed /\ tmp'[h][i] = 0 /\ (failed # "idle" => req'[h] = req[h])
  <1> DEFINE name == Name(h, i)
  <1>0. HandlerTypes /\ claim' = claim /\ name \in Paths \cup {Nil} /\ TempInForce(h, j)
    BY DEF LockInv, HandlerPart, HandlerTypes, TakeTemp, Name, TempInv, HandlerOK
  <1>1. CASE name = Nil
    <2>1. /\ UNCHANGED <<lockSystem, req, tmp>> /\ pc' = [pc EXCEPT ![h] = label]
      BY <1>1 DEF TakeTemp, Goto, Name
    <2>2. Kept(Protected) /\ NoNewTemps({}) /\ held' = held
      BY <2>1, ProtectedTypes DEF lockSystem, Kept, NoNewTemps
    <2>3. TempsOwned' /\ TempsDistinct'
      BY <2>1 DEF TempInv, TempsOwned, TempsDistinct, lockSystem, Temporary
    <2>4. \A g \in Handlers \ {h} : HandlerOK(g)'
      <3>1. Kept(Protected \ ({tmp[h][1], tmp[h][2]} \ held))
        BY <2>2 DEF Kept
      <3> QED BY <1>0, <2>1, <3>1, OthersFrame DEF HandlerTypes
    <2>5. TempInForce(h, i)' /\ TempInForce(h, j)'
      BY <1>0, <2>1 DEF TempInForce, Name, lockSystem
    <2>6. Locked(h, i)' /\ pc'[h] = label
      BY <1>0, <1>1, <2>1 DEF Locked, Name, HandlerTypes
    <2> QED BY <1>0, <2>1, <2>3, <2>4, <2>5, <2>6
  <1>2. CASE /\ name # Nil /\ Created(TempLock(name), req[h].at)
             /\ tmp' = [tmp EXCEPT ![h][i] = NextToken]
             /\ pc' = [pc EXCEPT ![h] = label] /\ UNCHANGED req
    <2>1. PICK n \in Tokens \ byToken :
             /\ Kept(Protected) /\ NoNewTemps({n}) /\ held' = held
             /\ n \in byToken' /\ det'[n] = TempLock(name)
             /\ SetTmp(h, i, n)
      BY <1>2, CreateStep DEF SetTmp
    <2>2. n # 0
      BY LockParams
    <2>3. /\ \A g \in Handlers \ {h} : tmp'[g] = tmp[g]
          /\ tmp'[h][i] = n /\ tmp'[h][j] = tmp[h][j]
      BY <1>0, <2>1, TmpUpdate
    <2>4. TempsOwned' /\ TempsDistinct'
      <3>1. Kept(Protected \ ({tmp[h][i]} \ held))
        BY <2>1 DEF Kept
      <3> QED BY <2>1, <3>1, TmpOwnership
    <2>5. \A g \in Handlers \ {h} : HandlerOK(g)'
      <3>1. Kept(Protected \ ({tmp[h][1], tmp[h][2]} \ held))
        BY <2>1 DEF Kept
      <3> QED BY <1>0, <1>2, <2>3, <3>1, OthersFrame DEF HandlerTypes
    <2>6. TempInForce(h, i)' /\ Locked(h, i)'
      BY <1>0, <1>2, <2>1, <2>2, <2>3 DEF TempInForce, Name, Locked
    <2>7. TempInForce(h, j)'
      <3>1. tmp[h][j] # 0 => Kept({tmp[h][j]})
        BY <2>1, OwnProtected DEF Kept
      <3> QED BY <1>0, <1>2, <2>3, <3>1 DEF TempInForce, Name, Kept
    <2>8. pc'[h] = label
      BY <1>0, <1>2 DEF HandlerTypes
    <2> QED BY <1>0, <1>2, <2>3, <2>4, <2>5, <2>6, <2>7, <2>8
  <1>3. CASE /\ name # Nil /\ CreateFails(TempLock(name), req[h].at)
             /\ IF failed = "idle" THEN Answer(h) ELSE Goto(h, failed) /\ UNCHANGED req
             /\ UNCHANGED tmp
    <2>1. Kept(Protected) /\ NoNewTemps({}) /\ held' = held
      BY <1>3, CollectStep DEF CreateFails
    <2>2. /\ pc' = [pc EXCEPT ![h] = failed] /\ \A g \in Handlers \ {h} : req'[g] = req[g]
          /\ failed # "idle" => req' = req
      BY <1>0, <1>3 DEF Answer, Goto, HandlerTypes
    <2>3. TempsOwned' /\ TempsDistinct'
      <3>1. TempsOwned'
        BY <1>3, <2>1 DEF TempInv, TempsOwned, Kept, NoNewTemps, Protected, Temporary
      <3> QED BY <1>3, <3>1 DEF TempInv, TempsDistinct
    <2>4. \A g \in Handlers \ {h} : HandlerOK(g)'
      <3>1. Kept(Protected \ ({tmp[h][1], tmp[h][2]} \ held))
        BY <2>1 DEF Kept
      <3> QED BY <1>0, <1>3, <2>2, <3>1, OthersFrame DEF HandlerTypes
    <2>5. TempInForce(h, i)'
      BY <1>3 DEF TempInForce
    <2>6. req'[h] = req[h] \/ tmp[h][j] = 0 => TempInForce(h, j)'
      <3>1. tmp[h][j] # 0 => Kept({tmp[h][j]})
        BY <2>1, OwnProtected DEF Kept
      <3> QED BY <1>0, <1>3, <3>1 DEF TempInForce, Name, Kept
    <2>7. pc'[h] = failed
      BY <1>0, <2>2 DEF HandlerTypes
    <2> QED BY <1>0, <1>3, <2>2, <2>3, <2>4, <2>5, <2>6, <2>7
  <1> QED BY <1>1, <1>2, <1>3 DEF TakeTemp, Goto, Name

\* Dropping the i-th temporary lock, which nobody can have claimed.
LEMMA DropStep ==
  ASSUME LockInv, TempInv, NEW h \in Handlers, NEW i \in {1, 2}, NEW j \in {1, 2} \ {i},
         claim[h] = {}, NEW label \in Labels, label = "idle" => tmp[h][j] = 0,
         DropTemp(h, i, label)
  PROVE  /\ TempsOwned' /\ TempsDistinct'
         /\ \A g \in Handlers \ {h} : HandlerOK(g)'
         /\ TempInForce(h, i)' /\ TempInForce(h, j)'
         /\ tmp'[h][i] = 0 /\ tmp'[h][j] = tmp[h][j] /\ claim'[h] = {} /\ pc'[h] = label
  <1>0. HandlerTypes /\ claim' = claim /\ TempInForce(h, j) /\ SetTmp(h, i, 0)
    BY DEF LockInv, HandlerPart, DropTemp, TempInv, HandlerOK, SetTmp
  <1>1. /\ \A g \in Handlers \ {h} : tmp'[g] = tmp[g]
        /\ tmp'[h][i] = 0 /\ tmp'[h][j] = tmp[h][j]
    BY <1>0, TmpUpdate
  <1>2. /\ Kept(Protected \ ({tmp[h][i]} \ held)) /\ NoNewTemps({}) /\ held' = held
        /\ tmp[h][i] = 0 \/ tmp[h][i] \notin byToken'
    <2>1. CASE tmp[h][i] = 0
      <3>1. UNCHANGED lockSystem
        BY <2>1 DEF DropTemp
      <3> QED BY <2>1, <3>1, ProtectedTypes DEF lockSystem, Kept, NoNewTemps
    <2>2. CASE tmp[h][i] # 0
      <3>1. Unlocked(tmp[h][i], req[h].at)
        BY <2>2 DEF DropTemp
      <3> QED BY <2>2, <3>1, UnlockStep, OwnProtected
    <2> QED BY <2>1, <2>2
  <1>3. TempsOwned' /\ TempsDistinct'
    <2>1. NoNewTemps({0})
      BY <1>2 DEF NoNewTemps
    <2> QED BY <1>0, <1>2, <2>1, TmpOwnership
  <1>4. /\ pc' = [pc EXCEPT ![h] = label] /\ \A g \in Handlers \ {h} : req'[g] = req[g]
        /\ label # "idle" => req' = req
    BY <1>0 DEF DropTemp, Answer, Goto, HandlerTypes
  <1>5. \A g \in Handlers \ {h} : HandlerOK(g)'
    <2>1. Kept(Protected \ ({tmp[h][1], tmp[h][2]} \ held))
      BY <1>2 DEF Kept
    <2> QED BY <1>0, <1>1, <1>4, <2>1, OthersFrame DEF HandlerTypes
  <1>6. TempInForce(h, i)'
    BY <1>1 DEF TempInForce
  <1>7. TempInForce(h, j)'
    <2>1. CASE tmp[h][j] = 0
      BY <1>1, <2>1 DEF TempInForce
    <2>2. CASE tmp[h][j] # 0
      <3>1. tmp[h][j] # tmp[h][i]
        BY <2>2 DEF TempInv, TempsDistinct
      <3>2. Kept({tmp[h][j]}) /\ req' = req
        BY <1>2, <1>4, <2>2, <3>1, OwnProtected DEF Kept
      <3> QED BY <1>0, <1>1, <3>2 DEF TempInForce, Name, Kept
    <2> QED BY <2>1, <2>2
  <1>8. pc'[h] = label
    BY <1>0, <1>4 DEF HandlerTypes
  <1> QED BY <1>0, <1>1, <1>3, <1>5, <1>6, <1>7, <1>8

\* The lookup of a name returns a condition that covers it and is nobody's
\* temporary lock.
LEMMA LookupCovers ==
  ASSUME NEW R, NEW name, NEW conds \in Conditions, Matching(R, name, conds) # {}
  PROVE  Covers(Lookup(R, name, conds), name) /\ Lookup(R, name, conds) \in Issued
  <1> DEFINE S == Matching(R, name, conds)
  <1>1. DOMAIN conds \subseteq {1, 2} /\ \A i \in DOMAIN conds : conds[i] \in Issued
    BY DEF Conditions
  <1>2. S \subseteq {1, 2} /\ S \subseteq DOMAIN conds
    BY <1>1 DEF Matching
  <1>3. Min(S) \in S
    BY <1>2 DEF Min
  <1> QED BY <1>1, <1>2, <1>3 DEF Matching, Lookup

\* The temporary locks a handler has at each step.
LEMMA TmpAt ==
  ASSUME TempInv, NEW h \in Handlers
  PROVE  /\ pc[h] \in {"idle", "locksrc", "confirm", "probesrc", "probedst"} => tmp[h][1] = 0 /\ tmp[h][2] = 0
         /\ pc[h] \in {"lockdst", "unlocksrc", "unprobesrc"} => tmp[h][2] = 0
         /\ pc[h] = "unprobedst" => tmp[h][1] = 0
  BY DEF TempInv, HandlerOK, Phases

\* The steps that take a temporary lock.
LEMMA TakeTemps ==
  ASSUME LockInv, TempInv, NEW h \in Handlers,
         LockSrc(h) \/ LockDst(h) \/ ProbeSrc(h) \/ ProbeDst(h)
  PROVE  TempInv'
  <1>0. claim[h] = {}
    BY DEF LockInv, HandlerPart, Claims, LockSrc, LockDst, ProbeSrc, ProbeDst
  <1>1. ASSUME HandlerOK(h)', TempsOwned', TempsDistinct', \A g \in Handlers \ {h} : HandlerOK(g)'
        PROVE  TempInv'
    BY <1>1 DEF TempInv
  <1>2. CASE LockSrc(h)
    <2>1. /\ TempsOwned' /\ TempsDistinct' /\ \A g \in Handlers \ {h} : HandlerOK(g)'
          /\ TempInForce(h, 1)' /\ TempInForce(h, 2)' /\ tmp'[h][2] = 0 /\ claim'[h] = {}
          /\ \/ pc'[h] = "lockdst" /\ Locked(h, 1)'
             \/ pc'[h] = "idle" /\ tmp'[h][1] = 0
      <3>1. pc[h] = "locksrc" /\ TakeTemp(h, 1, "lockdst", "idle")
        BY <1>2 DEF LockSrc
      <3>2. tmp[h][1] = 0 /\ tmp[h][2] = 0
        BY <3>1, TmpAt
      <3>3. 1 \in {1, 2} /\ 2 \in {1, 2} \ {1} /\ "lockdst" \in Labels \ {"idle"} /\ "idle" \in Labels
        BY DEF Labels
      <3> QED BY <1>0, <3>1, <3>2, <3>3, TakeStep
    <2>2. HandlerOK(h)'
      BY <2>1 DEF HandlerOK, Phases, ClaimsCover
    <2> QED BY <1>1, <2>1, <2>2
  <1>3. CASE LockDst(h)
    <2>0. Locked(h, 1)
      BY <1>3 DEF LockDst, TempInv, HandlerOK, Phases
    <2>1. /\ TempsOwned' /\ TempsDistinct' /\ \A g \in Handlers \ {h} : HandlerOK(g)'
          /\ TempInForce(h, 2)' /\ TempInForce(h, 1)' /\ tmp'[h][1] = tmp[h][1] /\ claim'[h] = {}
          /\ req'[h] = req[h]
          /\ \/ pc'[h] = "working" /\ Locked(h, 2)'
             \/ pc'[h] = "unlocksrc" /\ tmp'[h][2] = 0
      <3>1. pc[h] = "lockdst" /\ TakeTemp(h, 2, "working", "unlocksrc")
        BY <1>3 DEF LockDst
      <3>2. tmp[h][2] = 0
        BY <3>1, TmpAt
      <3>3. 2 \in {1, 2} /\ 1 \in {1, 2} \ {2} /\ "working" \in Labels \ {"idle"} /\ "unlocksrc" \in Labels
        BY DEF Labels
      <3> QED BY <1>0, <3>1, <3>2, <3>3, TakeStep
    <2>2. Locked(h, 1)'
      BY <2>0, <2>1 DEF Locked, Name
    <2>3. HandlerOK(h)'
      BY <2>1, <2>2 DEF HandlerOK, Phases, ClaimsCover
    <2> QED BY <1>1, <2>1, <2>3
  <1>4. CASE ProbeSrc(h)
    <2>1. /\ TempsOwned' /\ TempsDistinct' /\ \A g \in Handlers \ {h} : HandlerOK(g)'
          /\ TempInForce(h, 1)' /\ TempInForce(h, 2)' /\ tmp'[h][2] = 0 /\ claim'[h] = {}
          /\ pc'[h] = "unprobesrc" \/ (pc'[h] = "idle" /\ tmp'[h][1] = 0)
      <3>1. pc[h] = "probesrc" /\ TakeTemp(h, 1, "unprobesrc", "idle")
        BY <1>4 DEF ProbeSrc
      <3>2. tmp[h][1] = 0 /\ tmp[h][2] = 0
        BY <3>1, TmpAt
      <3>3. 1 \in {1, 2} /\ 2 \in {1, 2} \ {1} /\ "unprobesrc" \in Labels \ {"idle"} /\ "idle" \in Labels
        BY DEF Labels
      <3> QED BY <1>0, <3>1, <3>2, <3>3, TakeStep
    <2>2. HandlerOK(h)'
      BY <2>1 DEF HandlerOK, Phases, ClaimsCover
    <2> QED BY <1>1, <2>1, <2>2
  <1>5. CASE ProbeDst(h)
    <2>1. /\ TempsOwned' /\ TempsDistinct' /\ \A g \in Handlers \ {h} : HandlerOK(g)'
          /\ TempInForce(h, 2)' /\ TempInForce(h, 1)' /\ tmp'[h][1] = 0 /\ claim'[h] = {}
          /\ pc'[h] = "unprobedst" \/ (pc'[h] = "idle" /\ tmp'[h][2] = 0)
      <3>1. pc[h] = "probedst" /\ TakeTemp(h, 2, "unprobedst", "idle")
        BY <1>5 DEF ProbeDst
      <3>2. tmp[h][1] = 0 /\ tmp[h][2] = 0
        BY <3>1, TmpAt
      <3>3. 2 \in {1, 2} /\ 1 \in {1, 2} \ {2} /\ "unprobedst" \in Labels \ {"idle"} /\ "idle" \in Labels
        BY DEF Labels
      <3> QED BY <1>0, <3>1, <3>2, <3>3, TakeStep
    <2>2. HandlerOK(h)'
      BY <2>1 DEF HandlerOK, Phases, ClaimsCover
    <2> QED BY <1>1, <2>1, <2>2
  <1> QED BY <1>2, <1>3, <1>4, <1>5

\* The steps that drop one.
LEMMA DropTemps ==
  ASSUME LockInv, TempInv, NEW h \in Handlers,
         UnlockDst(h) \/ UnlockSrc(h) \/ UnprobeSrc(h) \/ UnprobeDst(h)
  PROVE  TempInv'
  <1>0. claim[h] = {}
    BY DEF LockInv, HandlerPart, Claims, UnlockDst, UnlockSrc, UnprobeSrc, UnprobeDst
  <1>1. PICK i \in {1, 2}, j \in {1, 2}, label \in Labels :
           /\ j # i /\ DropTemp(h, i, label)
           /\ label = "unlocksrc" => i = 2
           /\ label # "unlocksrc" => tmp[h][j] = 0
           /\ label \in {"unlocksrc", "idle", "probedst"}
    <2>1. CASE UnlockDst(h)
      BY <2>1 DEF UnlockDst, Labels
    <2>2. CASE UnlockSrc(h)
      <3>1. tmp[h][2] = 0 /\ DropTemp(h, 1, "idle")
        BY <2>2, TmpAt DEF UnlockSrc
      <3> QED BY <3>1 DEF Labels
    <2>3. CASE UnprobeSrc(h)
      <3>1. tmp[h][2] = 0 /\ DropTemp(h, 1, "probedst")
        BY <2>3, TmpAt DEF UnprobeSrc
      <3> QED BY <3>1 DEF Labels
    <2>4. CASE UnprobeDst(h)
      <3>1. tmp[h][1] = 0 /\ DropTemp(h, 2, "idle")
        BY <2>4, TmpAt DEF UnprobeDst
      <3> QED BY <3>1 DEF Labels
    <2> QED BY <2>1, <2>2, <2>3, <2>4
  <1>2. /\ TempsOwned' /\ TempsDistinct' /\ \A g \in Handlers \ {h} : HandlerOK(g)'
        /\ TempInForce(h, i)' /\ TempInForce(h, j)'
        /\ tmp'[h][i] = 0 /\ tmp'[h][j] = tmp[h][j] /\ claim'[h] = {} /\ pc'[h] = label
    BY <1>0, <1>1, DropStep
  <1>3. HandlerOK(h)'
    BY <1>1, <1>2 DEF HandlerOK, Phases, ClaimsCover
  <1> QED BY <1>2, <1>3 DEF TempInv

\* Confirm claims locks of clients, which cover the names confirmed.
LEMMA TryListTemps ==
  ASSUME LockInv, TempInv, NEW h \in Handlers, NEW tagged \in Paths \cup {req[h].src},
         NEW conds \in Conditions, TryList(h, tagged, conds)
  PROVE  TempInv'
  <1> DEFINE names == {tagged, req[h].dst} \ {Nil}
             R == Expired(clock)
             c == {Lookup(R, n, conds) : n \in names}
  <1>0. /\ HandlerTypes /\ Claims /\ pc[h] = "confirm" /\ tmp' = tmp
        /\ tmp[h][1] = 0 /\ tmp[h][2] = 0 /\ claim[h] = {} /\ Remove(R)
    BY TmpAt DEF LockInv, HandlerPart, TryList, Claims, Confirmed
  <1>1. Kept(Protected) /\ NoNewTemps({})
    BY <1>0, CollectStep
  <1>2. CASE UNCHANGED <<held, claim, pc, req>>
    BY <1>0, <1>1, <1>2, QuietTemps
  <1>3. CASE Confirmed(h, names, conds, clock) /\ req' = [req EXCEPT ![h].src = tagged] /\ Goto(h, "working")
    <2>1. \A n \in names : /\ Lookup(R, n, conds) \in byToken \ (R \cup held)
                           /\ Covers(Lookup(R, n, conds), n) /\ Lookup(R, n, conds) \in Issued
      BY <1>3, LookupMatches, LookupCovers DEF Confirmed
    <2>2. held' = held \cup c /\ claim' = [claim EXCEPT ![h] = c]
      BY <1>3 DEF Confirmed
    <2>3. /\ \A t \in c : t \in byToken \ (R \cup held) /\ t \in Issued
          /\ \A n \in names : \E t \in c : Covers(t, n)
      BY <2>1
    <2> HIDE DEF c, R
    <2>4. \A t \in c : ~ det[t].temp /\ t \in byToken' /\ det'[t] = det[t]
      BY <1>0, <2>3 DEF Issued, TempInv, TempsOwned, Remove, LockInv, LockPart, LockTypes
    <2>5. TempsOwned'
      <3>1. \A t \in byToken' : det'[t].temp => t \in Temporary'
        BY <1>0, <1>1 DEF NoNewTemps, TempInv, TempsOwned, Temporary
      <3>2. \A t \in held' : ~ det'[t].temp
        BY <1>1, <2>2, <2>4 DEF Kept, Protected, TempInv, TempsOwned
      <3> QED BY <3>1, <3>2 DEF TempsOwned
    <2>6. TempsDistinct'
      BY <1>0 DEF TempInv, TempsDistinct
    <2>7. \A g \in Handlers \ {h} : HandlerOK(g)'
      <3>1. Kept(Protected \ ({tmp[h][1], tmp[h][2]} \ held))
        BY <1>1 DEF Kept
      <3>2. \A g \in Handlers \ {h} : /\ pc'[g] = pc[g] /\ req'[g] = req[g]
                                      /\ tmp'[g] = tmp[g] /\ claim'[g] = claim[g]
        BY <1>0, <1>3, <2>2 DEF HandlerTypes, Goto
      <3> QED BY <3>1, <3>2, OthersFrame
    <2>8. /\ claim'[h] = c /\ pc'[h] = "working" /\ req'[h].src = tagged /\ req'[h].dst = req[h].dst
      BY <1>0, <1>3, <2>2 DEF HandlerTypes, Goto
    <2>9. ClaimsCover(h)'
      BY <2>3, <2>4, <2>8 DEF ClaimsCover, Covers
    <2>10. Phases(h)'
      <3>1. claim'[h] = {} => names = {}
        BY <2>3, <2>8
      <3> QED BY <1>0, <2>8, <3>1 DEF Phases, Locked, Name
    <2>11. HandlerOK(h)'
      BY <1>0, <2>9, <2>10 DEF HandlerOK, TempInForce
    <2> QED BY <2>5, <2>6, <2>7, <2>11 DEF TempInv
  <1> QED BY <1>2, <1>3 DEF TryList

\* Steps of a handler that leave the lock system and its records alone.
LEMMA MoveTemps ==
  ASSUME LockInv, TempInv, NEW h \in Handlers,
         \/ \E names \in Targets, label \in {"locksrc", "confirm"} : Begin(h, names[1], names[2], label)
         \/ \E negated \in BOOLEAN : NoMoreLists(h, negated)
         \/ Release(h)
  PROVE  TempInv'
  <1>0. HandlerTypes /\ Claims
    BY DEF LockInv, HandlerPart
  <1>1. /\ UNCHANGED <<byToken, det, tmp>> /\ held' \subseteq held
        /\ \A g \in Handlers \ {h} : /\ pc'[g] = pc[g] /\ req'[g] = req[g] /\ claim'[g] = claim[g]
    BY <1>0 DEF Begin, NoMoreLists, Release, Unhold, Answer, Goto, lockSystem, HandlerTypes
  <1>2. pc'[h] \in {"locksrc", "confirm", "probesrc", "idle"} /\ claim'[h] = {}
    BY <1>0 DEF Begin, NoMoreLists, Release, Unhold, Answer, Goto, lockSystem, HandlerTypes, Claims
  <1>3. tmp[h][1] = 0 /\ tmp[h][2] = 0
    BY TmpAt DEF Begin, NoMoreLists, Release, TempInv, HandlerOK, Phases
  <1>4. TempsOwned' /\ TempsDistinct'
    BY <1>1 DEF TempInv, TempsOwned, TempsDistinct, Temporary
  <1>5. \A g \in Handlers \ {h} : HandlerOK(g)'
    <2>1. Kept(Protected \ ({tmp[h][1], tmp[h][2]} \ held))
      BY <1>1, ProtectedTypes DEF Kept
    <2> QED BY <1>1, <2>1, OthersFrame
  <1>6. HandlerOK(h)'
    BY <1>1, <1>2, <1>3 DEF HandlerOK, TempInForce, Phases, ClaimsCover
  <1> QED BY <1>4, <1>5, <1>6 DEF TempInv

\* LOCK, refresh and UNLOCK leave temporary locks alone.
LEMMA ClientTemps ==
  ASSUME LockInv, TempInv, NEW h \in Handlers, ClientRequests(h)
  PROVE  TempInv'
  <1>1. ASSUME NEW p \in Paths, NEW dur \in Durations, NEW zero \in BOOLEAN, NEW shared \in BOOLEAN,
               LockRequest(h, p, dur, zero, shared)
        PROVE  TempInv'
    <2> DEFINE d == [root |-> p, dur |-> dur, zero |-> zero, shared |-> shared, temp |-> FALSE]
    <2>1. (Created(d, clock) \/ CreateFails(d, clock)) /\ UNCHANGED <<pc, req, tmp, claim>>
      BY <1>1 DEF LockRequest, handlers
    <2>2. CASE Created(d, clock)
      <3>1. /\ Kept(Protected) /\ NoNewTemps({NextToken}) /\ held' = held
            /\ det'[NextToken] = d
        BY <2>2, CreateStep
      <3>2. ~ det'[NextToken].temp
        BY <3>1
      <3>3. NoNewTemps({})
        BY <3>1, <3>2 DEF NoNewTemps
      <3> QED BY <2>1, <3>1, <3>3, QuietTemps
    <2>3. CASE CreateFails(d, clock)
      BY <2>1, <2>3, CollectStep, QuietTemps DEF CreateFails
    <2> QED BY <2>1, <2>2, <2>3
  <1>2. ASSUME NEW t \in Issued, NEW dur \in Durations, RefreshRequest(h, t, dur)
        PROVE  TempInv'
    <2>1. Kept(Protected) /\ NoNewTemps({}) /\ held' = held
      BY <1>2, RefreshStep, CollectStep DEF RefreshRequest
    <2> QED BY <1>2, <2>1, QuietTemps DEF RefreshRequest, handlers
  <1>3. ASSUME NEW t \in Issued, UnlockRequest(h, t)
        PROVE  TempInv'
    <2>1. Kept(Protected \ ({t} \ held)) /\ NoNewTemps({}) /\ held' = held
      BY <1>3, UnlockStep DEF UnlockRequest
    <2>2. t \in held \/ t \notin Protected
      BY DEF Issued, Protected, TempInv, TempsOwned
    <2>3. Kept(Protected)
      BY <2>1, <2>2 DEF Kept
    <2> QED BY <1>3, <2>1, <2>3, QuietTemps DEF UnlockRequest, handlers
  <1>4. ASSUME NEW names \in Targets, NEW label \in {"locksrc", "confirm"},
               Begin(h, names[1], names[2], label)
        PROVE  TempInv'
    BY <1>4, MoveTemps
  <1> QED BY <1>1, <1>2, <1>3, <1>4 DEF ClientRequests

LEMMA InitTemps == Init => TempInv
  <1> SUFFICES ASSUME Init PROVE TempInv
    OBVIOUS
  <1>1. \A h \in Handlers : tmp[h][1] = 0 /\ tmp[h][2] = 0 /\ claim[h] = {} /\ pc[h] = "idle"
    BY DEF Init
  <1>2. \A h \in Handlers : HandlerOK(h)
    BY <1>1 DEF HandlerOK, TempInForce, Phases, ClaimsCover
  <1>3. TempsOwned /\ TempsDistinct
    BY <1>1 DEF Init, TempsOwned, TempsDistinct
  <1> QED BY <1>2, <1>3 DEF TempInv

LEMMA NextTemps == LockInv /\ TempInv /\ [Next]_vars => TempInv'
  <1> SUFFICES ASSUME LockInv, TempInv, [Next]_vars PROVE TempInv'
    OBVIOUS
  <1>1. ASSUME NEW h \in Handlers, ClientRequests(h) PROVE TempInv'
    BY <1>1, ClientTemps
  <1>2. ASSUME NEW h \in Handlers, HandlerStep(h) PROVE TempInv'
    BY <1>2, TakeTemps, DropTemps, TryListTemps, MoveTemps DEF HandlerStep
  <1>3. CASE Tick \/ UNCHANGED vars
    <2>1. UNCHANGED <<lockSystem, handlers>>
      BY <1>3 DEF Tick, vars
    <2>2. Kept(Protected) /\ NoNewTemps({}) /\ held' = held
      BY <2>1, ProtectedTypes DEF lockSystem, Kept, NoNewTemps
    <2> QED BY <2>1, <2>2, QuietTemps DEF handlers
  <1> QED BY <1>1, <1>2, <1>3 DEF Next

LEMMA TempInvHolds == Spec => [](LockInv /\ TempInv)
  <1>1. LockInv /\ TempInv /\ [Next]_vars => (LockInv /\ TempInv)'
    BY NextKeeps, NextTemps
  <1> QED BY <1>1, InitKeeps, InitTemps, PTL DEF Spec

\* No temporary lock outlives its request: each is recorded by a handler that is
\* still at work, and whoever is idle has none.
THEOREM TempLocksReleased == Spec => []TempLocksOwned
  <1>1. ASSUME LockInv, TempInv PROVE TempLocksOwned
    <2>1. ASSUME NEW h \in Handlers, pc[h] = "idle" PROVE tmp[h] = <<0, 0>>
      <3>1. tmp[h] \in (Tokens \cup {0}) \X (Tokens \cup {0})
        BY <1>1 DEF LockInv, HandlerPart, HandlerTypes
      <3>2. tmp[h][1] = 0 /\ tmp[h][2] = 0
        BY <1>1, <2>1, TmpAt
      <3> QED BY <3>1, <3>2
    <2> QED BY <1>1, <2>1 DEF TempInv, TempsOwned, TempLocksOwned
  <1> QED BY <1>1, TempInvHolds, PTL

\* The locks a handler works under are in force, no other handler's, and exclusive
\* if it has not claimed them.
LEMMA OwnLocks ==
  ASSUME LockInv, TempInv, NEW h \in Handlers, NEW t \in Own(h)
  PROVE  /\ t \in byToken
         /\ t \in claim[h] \/ ~ det[t].shared
         /\ \A g \in Handlers : g # h => t \notin Own(g)
  <1>0. HandlerOK(h) /\ claim[h] \subseteq held /\ held \subseteq byToken
    BY DEF TempInv, LockInv, LockPart, HandlerPart, Claims
  <1>1. \A g \in Handlers, i \in {1, 2} : tmp[g][i] # 0 => tmp[g][i] \notin held
    BY OwnProtected
  <1>2. CASE t \in claim[h]
    <2>1. ASSUME NEW g \in Handlers, g # h PROVE t \notin Own(g)
      <3>1. t \notin claim[g]
        BY <1>2, <2>1 DEF LockInv, HandlerPart, Claims
      <3>2. t \in held
        BY <1>0, <1>2
      <3> QED BY <1>1, <3>1, <3>2 DEF Own
    <2> QED BY <1>0, <1>2, <2>1
  <1>3. ASSUME NEW i \in {1, 2}, t = tmp[h][i] PROVE /\ t \in byToken /\ ~ det[t].shared
                                                      /\ \A g \in Handlers : g # h => t \notin Own(g)
    <2>1. t # 0
      BY DEF Own
    <2>2. t \in byToken /\ ~ det[t].shared
      BY <1>0, <1>3, <2>1 DEF HandlerOK, TempInForce, TempLock
    <2>3. ASSUME NEW g \in Handlers, g # h PROVE t \notin Own(g)
      <3>1. t \notin claim[g]
        BY <1>1, <1>3, <2>1 DEF LockInv, HandlerPart, Claims
      <3>2. t # tmp[g][1] /\ t # tmp[g][2]
        BY <1>3, <2>1, <2>3 DEF TempInv, TempsDistinct
      <3> QED BY <3>1, <3>2 DEF Own
    <2> QED BY <2>2, <2>3
  <1> QED BY <1>2, <1>3 DEF Own

\* A method at work has a lock of its own on each of its names.
LEMMA WorksUnderLock ==
  ASSUME LockInv, TempInv, NEW h \in Handlers, NEW p \in Paths, Working(h, p)
  PROVE  \E t \in Own(h) : Covers(t, p)
  <1>1. HandlerOK(h) /\ p # Nil /\ pc[h] = "working"
    BY LockParams DEF TempInv, Working
  <1>2. CASE claim[h] # {}
    <2>1. PICK t \in claim[h] : Covers(t, p)
      BY <1>1, <1>2 DEF HandlerOK, ClaimsCover, Working
    <2>2. t # 0
      BY LockParams DEF LockInv, LockPart, LockTypes, HandlerPart, Claims
    <2> QED BY <2>1, <2>2 DEF Own
  <1>3. CASE claim[h] = {}
    <2>1. PICK i \in {1, 2} : p = Name(h, i)
      BY DEF Working, Name
    <2>2. Locked(h, i) /\ TempInForce(h, i)
      BY <1>1, <1>3 DEF HandlerOK, Phases
    <2>3. /\ tmp[h][i] # 0 /\ tmp[h][i] \in byToken /\ det[tmp[h][i]] = TempLock(p)
      BY <1>1, <2>1, <2>2 DEF Locked, TempInForce
    <2>4. tmp[h][i] \in Own(h) /\ Covers(tmp[h][i], p)
      BY <2>3 DEF TempLock, Covers, Own
    <2> QED BY <2>4
  <1> QED BY <1>2, <1>3

\* While a method works, another has a name confirmed that its locks protect, at them
\* or below them, only if both have claimed shared locks on the name.
THEOREM MeetingsAreShared == Spec => []OnlySharersMeet
  <1>1. ASSUME LockInv, TempInv, NEW g \in Handlers, NEW h \in Handlers, NEW p \in Paths, g # h,
               \E t \in Own(g) : Covers(t, p), Working(h, p)
        PROVE  /\ \E t \in claim[g] : Covers(t, p) /\ det[t].shared
               /\ \E t \in claim[h] : Covers(t, p) /\ det[t].shared
    <2>1. PICK t \in Own(g) : Covers(t, p)
      BY <1>1
    <2>2. PICK u \in Own(h) : Covers(u, p)
      BY <1>1, WorksUnderLock
    <2>3. t \in byToken /\ u \in byToken /\ t # u
      BY <1>1, OwnLocks
    <2>4. det[t].shared /\ det[u].shared
      BY <1>1, <2>1, <2>2, <2>3 DEF LockInv, LockPart, NoConflictingLocks
    <2>5. t \in claim[g] /\ u \in claim[h]
      BY <1>1, <2>4, OwnLocks
    <2> QED BY <2>1, <2>2, <2>4, <2>5
  <1>2. LockInv /\ TempInv => OnlySharersMeet
    BY <1>1 DEF OnlySharersMeet
  <1> QED BY <1>2, TempInvHolds, PTL
=============================================================================
