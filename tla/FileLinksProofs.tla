-------------------------- MODULE FileLinksProofs ---------------------------
(***************************************************************************)
(* What the reference counts of links promise, for every set of callers    *)
(* and every number of links, calls and Puts.  Types and Placed hold of    *)
(* the data, Counted of the counts and their owners, Awaited of the links  *)
(* without owners, Dated of the age of a link; LinkInv is inductive.       *)
(***************************************************************************)
EXTENDS FileLinks, FiniteSetTheorems, TLAPS

Holding == {"holding", "closing", "swap"}
Flying  == {"get", "link", "set", "end"}

LinkRec == [kind : Kinds, version : 0..MaxPuts, closes : Nat, expired : BOOLEAN,
            ref : Int, until : 0..MaxPuts]

CallerRec == [st : Stages, ol : Links \cup {Nil}, since : 0..MaxPuts, map : Links \cup {Nil},
              version : 0..MaxPuts, ref : Nat, owns : BOOLEAN]

CacheTypes == maps \in [Links -> Links \cup {Nil}] /\ current \in Links \cup {Nil}

PutTypes ==
    version \in 0..MaxPuts /\ listed \in 0..version /\ inv \in 0..version /\ done \in 0..inv

Types ==
    /\ link \in [Links -> LinkRec] /\ made \in 0..MaxLinks
    /\ CacheTypes
    /\ flight \in Callers \cup {Nil} /\ calls \in 0..MaxCalls
    /\ caller \in [Callers -> CallerRec]
    /\ PutTypes

\* Only links that were made are used, and only the flight makes one.
PlacedCaller(c) ==
    /\ caller[c].ol # Nil => caller[c].ol <= made
    /\ caller[c].st \in Holding \cup {"purge", "acquire", "restore", "set", "end"} => caller[c].ol # Nil
    /\ caller[c].st = "purge" => caller[c].map # Nil
    /\ caller[c].st \in Flying => flight = c

PlacedMaps == \A m \in Links : maps[m] # Nil => maps[m] <= made

Placed == (\A c \in Callers : PlacedCaller(c)) /\ PlacedMaps

Owners(l)    == {c \in Callers : caller[c].owns /\ caller[c].ol = l}
Restoring(l) == {c \in Callers : caller[c].st = "restore" /\ caller[c].ol = l}

\* Until it is closed, a link counts its owners; after that, the callers that have
\* added to its mark and not put it back.
CountOf(l) ==
    /\ link[l].closes \in {0, 1}
    /\ link[l].closes = 0 => link[l].ref = Cardinality(Owners(l))
    /\ link[l].closes = 1 => /\ closersClosed <= link[l].ref
                             /\ link[l].ref <= closersClosed + Cardinality(Restoring(l))

\* Who owns a reference, and who holds a link without one.
OwnsRightly(c) ==
    /\ caller[c].owns => /\ caller[c].st \in Holding
                         /\ link[caller[c].ol].kind # "ttl" /\ link[caller[c].ol].closes = 0
    /\ caller[c].st = "restore" => link[caller[c].ol].closes = 1
    /\ caller[c].st \in Holding /\ ~caller[c].owns /\ link[caller[c].ol].kind # "ttl"
            => link[caller[c].ol].kind = "plain" /\ link[caller[c].ol].closes = 1

Counted == (\A l \in Links : CountOf(l)) /\ (\A c \in Callers : OwnsRightly(c))

LinkInv == Types /\ Placed /\ Counted

-----------------------------------------------------------------------------
\* The sets that the counts are about are finite and bounded by the callers.
LEMMA Counts ==
    ASSUME NEW S, S \subseteq Callers
    PROVE  IsFiniteSet(S) /\ Cardinality(S) \in Nat /\ Cardinality(S) <= Cardinality(Callers)
  BY LinkParams, FS_Subset, FS_CardinalityType

\* A closed link has a negative count, whoever adds to it; an open one has at most
\* as many references as there are callers.
LEMMA CountBounds ==
    ASSUME Types, Counted, NEW l \in Links
    PROVE  /\ link[l].closes = 1 => link[l].ref < 0
           /\ link[l].closes = 0 => link[l].ref >= 0
           /\ link[l].ref \in closersClosed..Cardinality(Callers)
  <1>1. Owners(l) \subseteq Callers /\ Restoring(l) \subseteq Callers
    BY DEF Owners, Restoring
  <1>2. Cardinality(Owners(l)) \in Nat /\ Cardinality(Restoring(l)) \in Nat /\ Cardinality(Callers) \in Nat
    BY <1>1, Counts
  <1>3. Cardinality(Owners(l)) <= Cardinality(Callers) /\ Cardinality(Restoring(l)) <= Cardinality(Callers)
    BY <1>1, Counts
  <1>4. CountOf(l) /\ link[l].ref \in Int
    BY DEF Counted, Types, LinkRec
  <1> QED BY <1>2, <1>3, <1>4 DEF CountOf, closersClosed

\* A step that neither counts nor changes who owns or restores.
Quiet ==
    /\ \A l \in Links : /\ link'[l].kind = link[l].kind
                        /\ link'[l].closes = link[l].closes /\ link'[l].ref = link[l].ref
    /\ \A c \in Callers :
            \/ caller'[c] = caller[c]
            \/ /\ caller[c].st \notin Holding \cup {"restore"} /\ ~caller[c].owns
               /\ caller'[c].st \notin Holding \cup {"restore"} /\ ~caller'[c].owns

LEMMA QuietKeepsCounts ==
    ASSUME Types, Types', Placed, Counted, Quiet
    PROVE  Counted'
  <1>1. ASSUME NEW l \in Links PROVE Owners(l)' = Owners(l) /\ Restoring(l)' = Restoring(l)
    BY DEF Quiet, Owners, Restoring, Holding
  <1>2. ASSUME NEW l \in Links PROVE CountOf(l)'
    <2>1. CountOf(l) BY DEF Counted
    <2> QED BY <1>1, <2>1 DEF CountOf, Quiet, closersClosed
  <1>3. ASSUME NEW c \in Callers PROVE OwnsRightly(c)'
    <2>1. CASE caller'[c] = caller[c]
      <3>1. OwnsRightly(c) BY DEF Counted
      <3>2. CASE caller[c].ol \in Links
        BY <2>1, <3>1, <3>2 DEF OwnsRightly, Quiet
      <3>3. CASE caller[c].ol = Nil
        BY <2>1, <3>1, <3>3 DEF OwnsRightly, Placed, PlacedCaller, Holding
      <3> QED BY <3>2, <3>3 DEF Types, CallerRec
    <2>2. CASE caller'[c] # caller[c]
      BY <2>2 DEF Quiet, OwnsRightly, Holding
    <2> QED BY <2>1, <2>2
  <1> QED BY <1>2, <1>3 DEF Counted

-----------------------------------------------------------------------------
\* The shape of the data.

LEMMA IdleType == Idle \in CallerRec /\ Idle.st = "idle" /\ Idle.ol = Nil /\ ~Idle.owns
  BY LinkParams DEF Idle, CallerRec, Stages

\* A caller once it has looked into the cache, once the flight has given it a link,
\* and before it takes part in a flight.
Found(st, l, t, m) == [Idle EXCEPT !.since = t, !.ol = l, !.map = m, !.st = st]
Given(l, t) == [Idle EXCEPT !.st = "acquire", !.ol = l, !.since = t]
Asking(t) == [Idle EXCEPT !.st = "do", !.since = t]

LEMMA FoundFields ==
    ASSUME NEW st \in Stages, NEW l \in Links \cup {Nil}, NEW t \in 0..MaxPuts, NEW m \in Links \cup {Nil}
    PROVE  /\ Found(st, l, t, m) \in CallerRec
           /\ Found(st, l, t, m).st = st /\ Found(st, l, t, m).ol = l
           /\ Found(st, l, t, m).since = t /\ Found(st, l, t, m).map = m /\ ~Found(st, l, t, m).owns
  <1>1. ASSUME NEW i \in CallerRec, ~i.owns
        PROVE  LET r == [i EXCEPT !.since = t, !.ol = l, !.map = m, !.st = st]
               IN  r \in CallerRec /\ r.st = st /\ r.ol = l /\ r.since = t /\ r.map = m /\ ~r.owns
    BY <1>1 DEF CallerRec
  <1> QED BY <1>1, IdleType DEF Found

LEMMA GivenFields ==
    ASSUME NEW l \in Links, NEW t \in 0..MaxPuts
    PROVE  /\ Given(l, t) \in CallerRec
           /\ Given(l, t).st = "acquire" /\ Given(l, t).ol = l /\ Given(l, t).since = t /\ ~Given(l, t).owns
  <1>1. ASSUME NEW i \in CallerRec, ~i.owns
        PROVE  LET r == [i EXCEPT !.st = "acquire", !.ol = l, !.since = t]
               IN  r \in CallerRec /\ r.st = "acquire" /\ r.ol = l /\ r.since = t /\ ~r.owns
    BY <1>1 DEF CallerRec, Stages
  <1> QED BY <1>1, IdleType DEF Given

LEMMA AskingFields ==
    ASSUME NEW t \in 0..MaxPuts
    PROVE  /\ Asking(t) \in CallerRec
           /\ Asking(t).st = "do" /\ Asking(t).ol = Nil /\ Asking(t).since = t /\ ~Asking(t).owns
  <1>1. ASSUME NEW i \in CallerRec, i.ol = Nil, ~i.owns
        PROVE  LET r == [i EXCEPT !.st = "do", !.since = t]
               IN  r \in CallerRec /\ r.st = "do" /\ r.ol = Nil /\ r.since = t /\ ~r.owns
    BY <1>1 DEF CallerRec, Stages
  <1> QED BY <1>1, IdleType DEF Asking

\* A caller that a flight has returned to.
Returned(d) ==
    /\ caller[d].st \in Flying \cup {"wait"}
    /\ caller'[d].st \in {"idle", "acquire"} /\ ~caller'[d].owns

\* What the end of a flight leaves of its callers.
LEMMA FlightReturnsTypes ==
    ASSUME Types, Placed, NEW c \in Callers, NEW l \in Links \cup {Nil}, FlightReturns(c, l),
           l # Nil => l <= made, made' \in Nat, made <= made', caller[c].st \in Flying
    PROVE  /\ flight' \in Callers \cup {Nil}
           /\ caller' \in [Callers -> CallerRec]
           /\ \A d \in Callers : PlacedCaller(d)'
           /\ \A d \in Callers : caller'[d] = caller[d] \/ Returned(d)
  <1>1. /\ flight' = Nil
        /\ caller' = [d \in Callers |->
                    IF d # c /\ ~At(d, "wait") THEN caller[d]
                    ELSE IF l = Nil THEN Idle
                    ELSE [Idle EXCEPT !.st = "acquire", !.ol = l, !.since = caller[d].since]]
    BY DEF FlightReturns
  <1>2. ASSUME NEW d \in Callers PROVE caller'[d] \in CallerRec /\ PlacedCaller(d)' /\ (caller'[d] = caller[d] \/ Returned(d))
    <2>1. CASE d # c /\ ~At(d, "wait")
      <3>1. caller'[d] = caller[d] /\ caller[d] \in CallerRec BY <1>1, <2>1 DEF Types
      <3>2. caller[d].st \notin Flying BY <2>1 DEF Placed, PlacedCaller
      <3>3. PlacedCaller(d) BY DEF Placed
      <3>4. caller[d].ol \in Nat \/ caller[d].ol = Nil BY <3>1 DEF CallerRec, Links
      <3> QED BY <3>1, <3>2, <3>3, <3>4 DEF Types, PlacedCaller
    <2>2. CASE ~(d # c /\ ~At(d, "wait")) /\ l = Nil
      <3>1. caller'[d] = Idle BY <1>1, <2>2
      <3> QED BY <2>2, <3>1, IdleType DEF At, PlacedCaller, Returned, Flying, Holding
    <2>3. CASE ~(d # c /\ ~At(d, "wait")) /\ l # Nil
      <3>1. caller'[d] = Given(l, caller[d].since) BY <1>1, <2>3 DEF Given
      <3>2. caller[d].since \in 0..MaxPuts BY DEF Types, CallerRec
      <3>3. l \in Links /\ l <= made' BY <2>3 DEF Links, Types
      <3>4. caller'[d] \in CallerRec /\ caller'[d].st = "acquire" /\ caller'[d].ol = l /\ ~caller'[d].owns
        BY <3>1, <3>2, <3>3, GivenFields
      <3> QED BY <2>3, <3>3, <3>4, LinkParams DEF At, PlacedCaller, Returned, Flying, Links
    <2> QED BY <2>1, <2>2, <2>3
  <1> QED BY <1>1, <1>2

\* A caller that changes nothing but itself keeps the others in place.
LEMMA OneCaller ==
    ASSUME Types, Placed, NEW c \in Callers, NEW r \in CallerRec, caller' = [caller EXCEPT ![c] = r],
           made' \in Nat, made <= made', flight' = flight \/ (flight = Nil /\ flight' = c), PlacedCaller(c)'
    PROVE  caller' \in [Callers -> CallerRec] /\ \A d \in Callers : PlacedCaller(d)'
  <1>1. caller' \in [Callers -> CallerRec] BY DEF Types
  <1>2. ASSUME NEW d \in Callers, d # c PROVE PlacedCaller(d)'
    <2>1. caller'[d] = caller[d] /\ caller[d] \in CallerRec BY <1>2 DEF Types
    <2>2. PlacedCaller(d) BY DEF Placed
    <2>3. caller[d].ol \in Nat \/ caller[d].ol = Nil BY <2>1 DEF CallerRec, Links
    <2>4. flight = d => flight' = flight BY LinkParams
    <2> QED BY <2>1, <2>2, <2>3, <2>4 DEF Types, PlacedCaller
  <1> QED BY <1>1, <1>2

\* A step of one caller that leaves the other variables well formed.
LEMMA CallerStep ==
    ASSUME Types, Placed, NEW c \in Callers, NEW r \in CallerRec, caller' = [caller EXCEPT ![c] = r],
           link' \in [Links -> LinkRec], made' \in 0..MaxLinks, made <= made', calls' \in 0..MaxCalls,
           CacheTypes', PlacedMaps', UNCHANGED put,
           flight' = flight \/ (flight = Nil /\ flight' = c), PlacedCaller(c)'
    PROVE  Types' /\ Placed'
  <1>1. caller' \in [Callers -> CallerRec] /\ \A d \in Callers : PlacedCaller(d)'
    <2>1. made' \in Nat BY LinkParams
    <2> QED BY <2>1, OneCaller
  <1>2. flight' \in Callers \cup {Nil} BY DEF Types
  <1>3. PutTypes' BY DEF Types, PutTypes, put
  <1> QED BY <1>1, <1>2, <1>3 DEF Types, Placed

\* What the steps of a caller need to know of it.
LEMMA CallerFacts ==
    ASSUME Types, Placed, NEW c \in Callers
    PROVE  /\ caller[c] \in CallerRec /\ PlacedCaller(c)
           /\ caller[c].ol \in Links \/ caller[c].ol = Nil
           /\ caller[c].since \in 0..MaxPuts /\ made \in Nat
           /\ Nil \notin Links
           /\ caller[c].ol \in Links => caller[c].ol \in Nat
  BY LinkParams DEF Types, Placed, CallerRec, Links

\* A link whose count changes, and one that is closed.
Counting(r, n)   == [r EXCEPT !.ref = n]
ClosedWith(r, n) == [r EXCEPT !.ref = n, !.closes = r.closes + 1]

LEMMA CountingStep ==
    ASSUME Types, NEW l \in Links, NEW n \in Int, link' = [link EXCEPT ![l] = Counting(link[l], n)]
    PROVE  /\ link' \in [Links -> LinkRec] /\ link'[l].ref = n
           /\ \A m \in Links : /\ link'[m].closes = link[m].closes /\ link'[m].kind = link[m].kind
                               /\ link'[m].until = link[m].until /\ link'[m].version = link[m].version
           /\ \A m \in Links : m # l => link'[m] = link[m]
  <1>1. link[l] \in LinkRec /\ \A m \in Links : link'[m] = IF m = l THEN Counting(link[l], n) ELSE link[m]
    BY DEF Types
  <1>2. ASSUME NEW i \in LinkRec
        PROVE  LET j == Counting(i, n)
               IN  j \in LinkRec /\ j.ref = n /\ j.closes = i.closes /\ j.kind = i.kind /\ j.until = i.until
                   /\ j.version = i.version
    BY DEF LinkRec, Counting
  <1> QED BY <1>1, <1>2 DEF Types

LEMMA ClosedStep ==
    ASSUME Types, NEW l \in Links, NEW n \in Int, link' = [link EXCEPT ![l] = ClosedWith(link[l], n)]
    PROVE  /\ link' \in [Links -> LinkRec] /\ link'[l].ref = n /\ link'[l].closes = link[l].closes + 1
           /\ \A m \in Links : /\ link'[m].kind = link[m].kind
                               /\ link'[m].until = link[m].until /\ link'[m].version = link[m].version
           /\ \A m \in Links : m # l => link'[m] = link[m]
  <1>1. link[l] \in LinkRec /\ \A m \in Links : link'[m] = IF m = l THEN ClosedWith(link[l], n) ELSE link[m]
    BY DEF Types
  <1>2. ASSUME NEW i \in LinkRec
        PROVE  LET j == ClosedWith(i, n)
               IN  j \in LinkRec /\ j.ref = n /\ j.closes = i.closes + 1 /\ j.kind = i.kind /\ j.until = i.until
                   /\ j.version = i.version
    <2>1. i.closes + 1 \in Nat BY DEF LinkRec
    <2> QED BY <2>1 DEF LinkRec, ClosedWith
  <1> QED BY <1>1, <1>2 DEF Types

LEMMA Mark == closersClosed \in Int /\ closersClosed < 0 /\ Cardinality(Callers) \in Nat
  BY LinkParams, FS_CardinalityType DEF closersClosed

-----------------------------------------------------------------------------
\* The four steps that count: acquire, and Close of SyncClosers.

Moved(r, st)   == [r EXCEPT !.st = st]
HeldBy(r, o)   == [r EXCEPT !.st = "holding", !.owns = o]
Swapping(r, n) == [r EXCEPT !.st = "swap", !.ref = n, !.since = 0]

LEMMA MovedFields ==
    ASSUME NEW r \in CallerRec, NEW st \in Stages
    PROVE  /\ Moved(r, st) \in CallerRec
           /\ Moved(r, st).st = st /\ Moved(r, st).ol = r.ol /\ Moved(r, st).owns = r.owns
           /\ Moved(r, st).since = r.since /\ Moved(r, st).version = r.version
  BY DEF Moved, CallerRec

LEMMA HeldFields ==
    ASSUME NEW r \in CallerRec, NEW o \in BOOLEAN
    PROVE  /\ HeldBy(r, o) \in CallerRec
           /\ HeldBy(r, o).st = "holding" /\ HeldBy(r, o).ol = r.ol /\ HeldBy(r, o).owns = o
           /\ HeldBy(r, o).since = r.since
  BY DEF HeldBy, CallerRec, Stages

LEMMA SwappingFields ==
    ASSUME NEW r \in CallerRec, NEW n \in Nat
    PROVE  /\ Swapping(r, n) \in CallerRec
           /\ Swapping(r, n).st = "swap" /\ Swapping(r, n).ol = r.ol /\ Swapping(r, n).owns = r.owns
           /\ Swapping(r, n).since = 0
  <1>1. 0 \in 0..MaxPuts BY LinkParams
  <1> QED BY <1>1 DEF Swapping, CallerRec, Stages

\* One caller's part in the sets that are counted.
LEMMA OwnersStep ==
    ASSUME Types, NEW c \in Callers, NEW r \in CallerRec, caller' = [caller EXCEPT ![c] = r], NEW l \in Links
    PROVE  /\ r.owns /\ r.ol = l => Owners(l)' = Owners(l) \cup {c}
           /\ ~(r.owns /\ r.ol = l) => Owners(l)' = Owners(l) \ {c}
           /\ r.st = "restore" /\ r.ol = l => Restoring(l)' = Restoring(l) \cup {c}
           /\ ~(r.st = "restore" /\ r.ol = l) => Restoring(l)' = Restoring(l) \ {c}
  <1>1. \A d \in Callers : caller'[d] = IF d = c THEN r ELSE caller[d] BY DEF Types
  <1> QED BY <1>1 DEF Owners, Restoring

LEMMA OwnersKept ==
    ASSUME Types, NEW c \in Callers, NEW r \in CallerRec, caller' = [caller EXCEPT ![c] = r], NEW l \in Links,
           c \notin Owners(l), c \notin Restoring(l), r.ol = l => ~r.owns /\ r.st # "restore"
    PROVE  Owners(l)' = Owners(l) /\ Restoring(l)' = Restoring(l)
  <1>1. Owners(l) \ {c} = Owners(l) /\ Restoring(l) \ {c} = Restoring(l) OBVIOUS
  <1>2. Owners(l)' = Owners(l) \ {c} BY OwnersStep
  <1>3. Restoring(l)' = Restoring(l) \ {c} BY OwnersStep
  <1> QED BY <1>1, <1>2, <1>3

LEMMA OwnersSame ==
    ASSUME Types, NEW c \in Callers, NEW r \in CallerRec, caller' = [caller EXCEPT ![c] = r], NEW l \in Links,
           r.ol = caller[c].ol, r.owns = caller[c].owns, r.st # "restore", caller[c].st # "restore"
    PROVE  Owners(l)' = Owners(l) /\ Restoring(l)' = Restoring(l)
  <1>1. \A d \in Callers : caller'[d] = IF d = c THEN r ELSE caller[d] BY DEF Types
  <1> QED BY <1>1 DEF Owners, Restoring

LEMMA CardStep ==
    ASSUME NEW S, S \subseteq Callers, NEW c \in Callers
    PROVE  /\ Cardinality(S) \in Nat
           /\ c \notin S => Cardinality(S \cup {c}) = Cardinality(S) + 1 /\ S \ {c} = S
           /\ c \in S => Cardinality(S \ {c}) = Cardinality(S) - 1 /\ Cardinality(S) >= 1
  <1>1. IsFiniteSet(S) /\ Cardinality(S) \in Nat BY Counts
  <1>2. c \notin S => Cardinality(S \cup {c}) = Cardinality(S) + 1 BY <1>1, FS_AddElement
  <1>3. ASSUME c \in S PROVE Cardinality(S \ {c}) = Cardinality(S) - 1 /\ Cardinality(S) >= 1
    <2>1. Cardinality(S \ {c}) = Cardinality(S) - 1 BY <1>1, <1>3, FS_RemoveElement
    <2>2. Cardinality(S \ {c}) \in Nat BY Counts
    <2> QED BY <1>1, <2>1, <2>2
  <1> QED BY <1>1, <1>2, <1>3

\* A link of which neither a count nor a counted set changes keeps its count.
LEMMA CountKept ==
    ASSUME Types, Counted, NEW l \in Links, link'[l].closes = link[l].closes, link'[l].ref = link[l].ref,
           Owners(l)' = Owners(l), Restoring(l)' = Restoring(l)
    PROVE  CountOf(l)'
  <1>1. CountOf(l) BY DEF Counted
  <1> QED BY <1>1 DEF CountOf, closersClosed

\* The other callers own what they owned, if their links stay open or closed.
LEMMA OwnsKept ==
    ASSUME Types, Placed, Counted, NEW d \in Callers, caller'[d] = caller[d],
           \A l \in Links : caller[d].ol = l => link'[l].kind = link[l].kind /\ link'[l].closes = link[l].closes
    PROVE  OwnsRightly(d)'
  <1>1. OwnsRightly(d) BY DEF Counted
  <1>2. CASE caller[d].ol \in Links
    BY <1>1, <1>2 DEF OwnsRightly
  <1>3. CASE caller[d].ol = Nil
    BY <1>1, <1>3 DEF OwnsRightly, Placed, PlacedCaller, Holding
  <1> QED BY <1>2, <1>3 DEF Types, CallerRec

\* A caller that goes on with its link, or without one.
LEMMA UserStep ==
    ASSUME Types, Placed, NEW c \in Callers, NEW r \in CallerRec, caller' = [caller EXCEPT ![c] = r],
           link' \in [Links -> LinkRec], UNCHANGED <<made, cache, flight, calls, put>>,
           r.ol # Nil => r.ol = caller[c].ol,
           r.ol = Nil => r.st \in {"do", "idle"}, r.st \in Holding \cup {"restore", "do", "idle"}
    PROVE  Types' /\ Placed'
  <1>1. CacheTypes' /\ PlacedMaps' /\ made' \in 0..MaxLinks /\ made <= made' /\ calls' \in 0..MaxCalls
    BY LinkParams DEF Types, Placed, CacheTypes, PlacedMaps, cache
  <1>2. PlacedCaller(c)'
    <2>1. caller'[c] = r BY DEF Types
    <2> QED BY <2>1, CallerFacts DEF PlacedCaller, Flying, Holding
  <1> QED BY <1>1, <1>2, CallerStep

LEMMA AcquireStep ==
    ASSUME LinkInv, NEW c \in Callers, Acquire(c)
    PROVE  LinkInv'
  <1> USE DEF LinkInv
  <1>1. At(c, "acquire") /\ UNCHANGED <<made, cache, flight, calls, put>>
    BY DEF Acquire
  <1>2. PICK l \in Links : caller[c].ol = l /\ caller[c] \in CallerRec /\ l <= made /\ ~caller[c].owns
    <2>1. OwnsRightly(c) BY DEF Counted
    <2> QED BY <1>1, <2>1, CallerFacts DEF At, PlacedCaller, OwnsRightly, Holding
  <1>3. c \notin Owners(l) /\ c \notin Restoring(l)
    BY <1>1, <1>2 DEF Owners, Restoring, At
  <1>4. \A m \in Links : Owners(m) \subseteq Callers /\ Restoring(m) \subseteq Callers
                         /\ (m # l => c \notin Owners(m) /\ c \notin Restoring(m))
    BY <1>2 DEF Owners, Restoring
  <1>5. link[l].ref \in Int /\ link[l].closes \in {0, 1} BY <1>2 DEF Types, LinkRec, Counted, CountOf
  <1>6. ASSUME NEW r \in CallerRec, caller' = [caller EXCEPT ![c] = r], r.ol = l, r.st \in {"holding", "restore"},
               link' \in [Links -> LinkRec]
        PROVE  Types' /\ Placed'
    <2>1. r.ol # Nil BY <1>2, <1>6, CallerFacts
    <2> QED BY <1>1, <1>2, <1>6, <2>1, UserStep DEF Holding
  <1>7. CASE link[l].kind = "ttl"
    <2> DEFINE r == HeldBy(caller[c], FALSE)
    <2>1. caller' = [caller EXCEPT ![c] = r] /\ link' = link
      BY <1>2, <1>7 DEF Acquire, Held, HeldBy, Counting
    <2>2. r \in CallerRec /\ r.st = "holding" /\ r.ol = l /\ ~r.owns BY <1>2, HeldFields
    <2> HIDE DEF r
    <2>3. Types' /\ Placed' BY <1>6, <2>1, <2>2 DEF Types
    <2>4. ASSUME NEW m \in Links PROVE CountOf(m)'
      <3>1. Owners(m)' = Owners(m) /\ Restoring(m)' = Restoring(m)
        BY <1>3, <1>4, <2>1, <2>2, OwnersKept
      <3> QED BY <2>1, <3>1, CountKept
    <2>5. ASSUME NEW d \in Callers PROVE OwnsRightly(d)'
      <3>1. CASE d = c
        <4>1. caller'[c] = r BY <2>1 DEF Types
        <4> QED BY <3>1, <4>1, <2>1, <2>2, <1>7 DEF OwnsRightly
      <3>2. CASE d # c
        <4>1. caller'[d] = caller[d] BY <2>1, <3>2 DEF Types
        <4> QED BY <4>1, <2>1, OwnsKept
      <3> QED BY <3>1, <3>2
    <2> QED BY <2>3, <2>4, <2>5 DEF Counted
  <1>8. CASE link[l].kind # "ttl" /\ link[l].ref + 1 > 0
    <2> DEFINE r == HeldBy(caller[c], TRUE)
    <2>1. caller' = [caller EXCEPT ![c] = r] /\ link' = [link EXCEPT ![l] = Counting(link[l], link[l].ref + 1)]
      BY <1>2, <1>8 DEF Acquire, Held, HeldBy, Counting
    <2>2. r \in CallerRec /\ r.st = "holding" /\ r.ol = l /\ r.owns BY <1>2, HeldFields
    <2> HIDE DEF r
    <2>3. link[l].closes = 0 BY <1>2, <1>5, <1>8, CountBounds
    <2>4. link[l].ref + 1 \in Int BY <1>5
    <2>5. /\ link' \in [Links -> LinkRec]
          /\ link'[l].ref = link[l].ref + 1 /\ link'[l].closes = 0
          /\ \A m \in Links : link'[m].closes = link[m].closes /\ link'[m].kind = link[m].kind
          /\ \A m \in Links : m # l => link'[m] = link[m]
      BY <2>1, <2>3, <2>4, CountingStep
    <2>6. Types' /\ Placed' BY <1>2, <1>6, <2>1, <2>2, <2>5
    <2>7. ASSUME NEW m \in Links, m # l PROVE CountOf(m)'
      <3>1. Owners(m)' = Owners(m) /\ Restoring(m)' = Restoring(m)
        BY <1>4, <2>1, <2>2, <2>7, OwnersKept
      <3> QED BY <2>5, <2>7, <3>1, CountKept
    <2>8. CountOf(l)'
      <3>1. Owners(l)' = Owners(l) \cup {c} BY <1>2, <2>1, <2>2, OwnersStep
      <3>2. Cardinality(Owners(l) \cup {c}) = Cardinality(Owners(l)) + 1
        BY <1>2, <1>3, <1>4, CardStep
      <3>3. link[l].ref = Cardinality(Owners(l)) BY <1>2, <2>3 DEF Counted, CountOf
      <3> QED BY <2>5, <3>1, <3>2, <3>3 DEF CountOf
    <2>9. ASSUME NEW d \in Callers PROVE OwnsRightly(d)'
      <3>1. CASE d = c
        <4>1. caller'[c] = r BY <2>1 DEF Types
        <4> QED BY <3>1, <4>1, <2>2, <2>5, <1>8 DEF OwnsRightly, Holding
      <3>2. CASE d # c
        <4>1. caller'[d] = caller[d] BY <2>1, <3>2 DEF Types
        <4> QED BY <4>1, <2>5, OwnsKept
      <3> QED BY <3>1, <3>2
    <2> QED BY <2>6, <2>7, <2>8, <2>9 DEF Counted
  <1>9. CASE link[l].kind # "ttl" /\ ~(link[l].ref + 1 > 0)
    <2> DEFINE r == Moved(caller[c], "restore")
    <2>1. caller' = [caller EXCEPT ![c] = r] /\ link' = [link EXCEPT ![l] = Counting(link[l], link[l].ref + 1)]
      BY <1>2, <1>9 DEF Acquire, To, Moved, Counting
    <2>2. r \in CallerRec /\ r.st = "restore" /\ r.ol = l /\ ~r.owns
      <3>1. "restore" \in Stages BY DEF Stages
      <3> QED BY <3>1, <1>2, MovedFields
    <2> HIDE DEF r
    <2>3. link[l].closes = 1 BY <1>2, <1>5, <1>9, CountBounds
    <2>4. link[l].ref + 1 \in Int BY <1>5
    <2>5. /\ link' \in [Links -> LinkRec]
          /\ link'[l].ref = link[l].ref + 1 /\ link'[l].closes = 1
          /\ \A m \in Links : link'[m].closes = link[m].closes /\ link'[m].kind = link[m].kind
          /\ \A m \in Links : m # l => link'[m] = link[m]
      BY <2>1, <2>3, <2>4, CountingStep
    <2>6. Types' /\ Placed' BY <1>2, <1>6, <2>1, <2>2, <2>5
    <2>7. ASSUME NEW m \in Links, m # l PROVE CountOf(m)'
      <3>1. Owners(m)' = Owners(m) /\ Restoring(m)' = Restoring(m)
        BY <1>4, <2>1, <2>2, <2>7, OwnersKept
      <3> QED BY <2>5, <2>7, <3>1, CountKept
    <2>8. CountOf(l)'
      <3>1. Restoring(l)' = Restoring(l) \cup {c} BY <1>2, <2>1, <2>2, OwnersStep
      <3>2. Cardinality(Restoring(l) \cup {c}) = Cardinality(Restoring(l)) + 1
            /\ Cardinality(Restoring(l)) \in Nat
        BY <1>2, <1>3, <1>4, CardStep
      <3>3. closersClosed <= link[l].ref /\ link[l].ref <= closersClosed + Cardinality(Restoring(l))
        BY <1>2, <2>3 DEF Counted, CountOf
      <3>4. closersClosed' = closersClosed /\ closersClosed \in Int BY Mark DEF closersClosed
      <3> QED BY <1>5, <2>5, <3>1, <3>2, <3>3, <3>4 DEF CountOf
    <2>9. ASSUME NEW d \in Callers PROVE OwnsRightly(d)'
      <3>1. CASE d = c
        <4>1. caller'[c] = r BY <2>1 DEF Types
        <4> QED BY <3>1, <4>1, <2>2, <2>5 DEF OwnsRightly, Holding
      <3>2. CASE d # c
        <4>1. caller'[d] = caller[d] BY <2>1, <3>2 DEF Types
        <4> QED BY <4>1, <2>5, OwnsKept
      <3> QED BY <3>1, <3>2
    <2> QED BY <2>6, <2>7, <2>8, <2>9 DEF Counted
  <1> QED BY <1>7, <1>8, <1>9

LEMMA AcquireFailsStep ==
    ASSUME LinkInv, NEW c \in Callers, AcquireFails(c)
    PROVE  LinkInv'
  <1> USE DEF LinkInv
  <1>1. At(c, "restore") /\ UNCHANGED <<made, cache, flight, calls, put>>
    BY DEF AcquireFails
  <1>2. PICK l \in Links : /\ caller[c].ol = l /\ caller[c] \in CallerRec /\ l <= made /\ ~caller[c].owns
                           /\ link[l].closes = 1
    <2>1. OwnsRightly(c) BY DEF Counted
    <2> QED BY <1>1, <2>1, CallerFacts DEF At, PlacedCaller, OwnsRightly, Holding
  <1>3. \A m \in Links : Owners(m) \subseteq Callers /\ Restoring(m) \subseteq Callers
                         /\ c \notin Owners(m) /\ (m # l => c \notin Restoring(m))
    BY <1>2 DEF Owners, Restoring
  <1>4. PICK r \in CallerRec : /\ caller' = [caller EXCEPT ![c] = r] /\ ~r.owns
                               /\ \/ r.st = "do" /\ r.ol = Nil
                                  \/ r.st = "holding" /\ r.ol = l /\ link[l].kind # "reference"
    <2>1. CASE link[l].kind = "reference"
      <3>1. caller' = [caller EXCEPT ![c] = Asking(caller[c].since)]
        BY <1>2, <2>1 DEF AcquireFails, ToDo, Asking
      <3> QED BY <3>1, CallerFacts, AskingFields
    <2>2. CASE link[l].kind # "reference"
      <3>1. caller' = [caller EXCEPT ![c] = HeldBy(caller[c], FALSE)]
        BY <1>2, <2>2 DEF AcquireFails, Held, HeldBy
      <3> QED BY <1>2, <2>2, <3>1, HeldFields
    <2> QED BY <2>1, <2>2
  <1>5. /\ link' \in [Links -> LinkRec] /\ link'[l].ref = closersClosed
        /\ \A m \in Links : link'[m].closes = link[m].closes /\ link'[m].kind = link[m].kind
        /\ \A m \in Links : m # l => link'[m] = link[m]
    <2>1. link' = [link EXCEPT ![l] = Counting(link[l], closersClosed)]
      BY <1>2 DEF AcquireFails, Counting
    <2> QED BY <2>1, Mark, CountingStep
  <1>6. Types' /\ Placed'
    <2>1. l # Nil BY CallerFacts
    <2> QED BY <1>1, <1>2, <1>4, <1>5, <2>1, UserStep DEF Holding
  <1>7. ASSUME NEW m \in Links, m # l PROVE CountOf(m)'
    <2>1. Owners(m)' = Owners(m) /\ Restoring(m)' = Restoring(m)
      BY <1>3, <1>4, <1>7, OwnersKept
    <2> QED BY <1>5, <1>7, <2>1, CountKept
  <1>8. CountOf(l)'
    <2>1. Restoring(l)' \subseteq Callers BY DEF Restoring
    <2>2. Cardinality(Restoring(l)') \in Nat BY <2>1, Counts
    <2>3. closersClosed' = closersClosed BY DEF closersClosed
    <2> QED BY <1>2, <1>5, <2>2, <2>3, Mark DEF CountOf
  <1>9. ASSUME NEW d \in Callers PROVE OwnsRightly(d)'
    <2>1. CASE d = c
      <3>1. caller'[c] = r BY <1>4 DEF Types
      <3>2. link[l].kind \in Kinds BY DEF Types, LinkRec
      <3> QED BY <2>1, <3>1, <3>2, <1>2, <1>4, <1>5 DEF OwnsRightly, Holding, Kinds
    <2>2. CASE d # c
      <3>1. caller'[d] = caller[d] BY <1>4, <2>2 DEF Types
      <3> QED BY <3>1, <1>5, OwnsKept
    <2> QED BY <2>1, <2>2
  <1> QED BY <1>6, <1>7, <1>8, <1>9 DEF Counted

LEMMA CloseLoadsStep ==
    ASSUME LinkInv, NEW c \in Callers, CloseLoads(c)
    PROVE  LinkInv'
  <1> USE DEF LinkInv
  <1>1. /\ caller[c].st \in {"holding", "closing"}
        /\ UNCHANGED <<made, cache, flight, calls, put>> /\ link' = link
    BY DEF CloseLoads, At
  <1>2. PICK l \in Links : caller[c].ol = l /\ caller[c] \in CallerRec /\ OwnsRightly(c)
    <2>1. OwnsRightly(c) BY DEF Counted
    <2> QED BY <1>1, <2>1, CallerFacts DEF PlacedCaller, Holding
  <1>3. link[l].ref \in Int /\ link[l].closes \in {0, 1} BY DEF Types, LinkRec, Counted, CountOf
  <1>4. PICK r \in CallerRec : /\ caller' = [caller EXCEPT ![c] = r]
                               /\ \/ r.st = "idle" /\ r.ol = Nil /\ ~r.owns /\ ~caller[c].owns
                                  \/ r.st = "swap" /\ r.ol = l /\ r.owns = caller[c].owns
    <2>1. CASE link[l].ref < 0
      <3>1. caller' = [caller EXCEPT ![c] = Idle] BY <1>2, <2>1 DEF CloseLoads
      <3>2. link[l].closes = 1 BY <1>3, <2>1, CountBounds
      <3>3. ~caller[c].owns BY <1>2, <3>2 DEF OwnsRightly
      <3> QED BY <3>1, <3>3, IdleType
    <2>2. CASE ~(link[l].ref < 0)
      <3>1. caller' = [caller EXCEPT ![c] = Swapping(caller[c], link[l].ref)]
        BY <1>2, <2>2 DEF CloseLoads, Swapping
      <3>2. link[l].ref \in Nat BY <1>3, <2>2
      <3> QED BY <1>2, <3>1, <3>2, SwappingFields
    <2> QED BY <2>1, <2>2
  <1>5. Types' /\ Placed'
    <2>1. link' \in [Links -> LinkRec] BY <1>1 DEF Types
    <2>2. l # Nil BY CallerFacts
    <2> QED BY <1>1, <1>2, <1>4, <2>1, <2>2, UserStep DEF Holding
  <1>6. ASSUME NEW m \in Links PROVE CountOf(m)'
    <2>1. CASE r.st = "idle" /\ r.ol = Nil /\ ~r.owns /\ ~caller[c].owns
      <3>1. c \notin Owners(m) /\ c \notin Restoring(m) BY <1>1, <2>1 DEF Owners, Restoring
      <3>2. Owners(m)' = Owners(m) /\ Restoring(m)' = Restoring(m)
        BY <1>4, <2>1, <3>1, OwnersKept
      <3> QED BY <1>1, <3>2, CountKept
    <2>2. CASE r.st = "swap" /\ r.ol = l /\ r.owns = caller[c].owns
      <3>1. Owners(m)' = Owners(m) /\ Restoring(m)' = Restoring(m)
        BY <1>1, <1>2, <1>4, <2>2, OwnersSame
      <3> QED BY <1>1, <3>1, CountKept
    <2> QED BY <1>4, <2>1, <2>2
  <1>7. ASSUME NEW d \in Callers PROVE OwnsRightly(d)'
    <2>1. CASE d = c
      <3>1. caller'[c] = r BY <1>4 DEF Types
      <3> QED BY <2>1, <3>1, <1>1, <1>2, <1>4 DEF OwnsRightly, Holding
    <2>2. CASE d # c
      <3>1. caller'[d] = caller[d] BY <1>4, <2>2 DEF Types
      <3> QED BY <3>1, <1>1, OwnsKept
    <2> QED BY <2>1, <2>2
  <1> QED BY <1>5, <1>6, <1>7 DEF Counted

LEMMA CloseSwapsStep ==
    ASSUME LinkInv, NEW c \in Callers, CloseSwaps(c)
    PROVE  LinkInv'
  <1> USE DEF LinkInv
  <1>1. caller[c].st = "swap" /\ UNCHANGED <<made, cache, flight, calls, put>>
    BY DEF CloseSwaps, At
  <1>2. PICK l \in Links : caller[c].ol = l /\ caller[c] \in CallerRec /\ OwnsRightly(c)
    <2>1. OwnsRightly(c) BY DEF Counted
    <2> QED BY <1>1, <2>1, CallerFacts DEF PlacedCaller, Holding
  <1>3. link[l].ref \in Int /\ link[l].closes \in {0, 1} /\ caller[c].ref \in Nat
    BY <1>2 DEF Types, LinkRec, CallerRec, Counted, CountOf
  <1>4. \A m \in Links : Owners(m) \subseteq Callers /\ Restoring(m) \subseteq Callers
                         /\ c \notin Restoring(m) /\ (m # l => c \notin Owners(m))
    BY <1>1, <1>2 DEF Owners, Restoring
  <1>5. CASE link[l].ref # caller[c].ref
    <2> DEFINE r == Moved(caller[c], "closing")
    <2>1. caller' = [caller EXCEPT ![c] = r] /\ link' = link
      BY <1>2, <1>5 DEF CloseSwaps, To, Moved
    <2>2. r \in CallerRec /\ r.st = "closing" /\ r.ol = l /\ r.owns = caller[c].owns
      <3>1. "closing" \in Stages BY DEF Stages
      <3> QED BY <3>1, <1>2, MovedFields
    <2> HIDE DEF r
    <2>3. Types' /\ Placed'
      <3>1. link' \in [Links -> LinkRec] BY <2>1 DEF Types
      <3>2. l # Nil BY CallerFacts
      <3> QED BY <1>1, <1>2, <2>1, <2>2, <3>1, <3>2, UserStep DEF Holding
    <2>4. ASSUME NEW m \in Links PROVE CountOf(m)'
      <3>1. Owners(m)' = Owners(m) /\ Restoring(m)' = Restoring(m)
        BY <1>1, <1>2, <2>1, <2>2, OwnersSame
      <3> QED BY <2>1, <3>1, CountKept
    <2>5. ASSUME NEW d \in Callers PROVE OwnsRightly(d)'
      <3>1. CASE d = c
        <4>1. caller'[c] = r BY <2>1 DEF Types
        <4> QED BY <3>1, <4>1, <1>1, <1>2, <2>1, <2>2 DEF OwnsRightly, Holding
      <3>2. CASE d # c
        <4>1. caller'[d] = caller[d] BY <2>1, <3>2 DEF Types
        <4> QED BY <4>1, <2>1, OwnsKept
      <3> QED BY <3>1, <3>2
    <2> QED BY <2>3, <2>4, <2>5 DEF Counted
  <1>6. ASSUME link[l].ref = caller[c].ref PROVE LinkInv'
    <2>1. caller' = [caller EXCEPT ![c] = Idle] BY <1>2, <1>6 DEF CloseSwaps
    <2>2. caller'[c] = Idle /\ \A d \in Callers : d # c => caller'[d] = caller[d] BY <2>1 DEF Types
    <2>3. link[l].closes = 0 BY <1>3, <1>6, CountBounds
    <2>4. link[l].ref = Cardinality(Owners(l)) BY <2>3 DEF Counted, CountOf
    <2>5. Owners(l) # {} => link[l].kind # "ttl" /\ c \in Owners(l)
      <3>1. ASSUME NEW d \in Owners(l) PROVE link[l].kind # "ttl"
        <4>1. OwnsRightly(d) BY DEF Counted, Owners
        <4> QED BY <4>1 DEF OwnsRightly, Owners
      <3>2. link[l].kind # "ttl" => caller[c].owns
        BY <1>1, <1>2, <2>3 DEF OwnsRightly, Holding
      <3> QED BY <3>1, <3>2, <1>2 DEF Owners
    <2>6. /\ Owners(l)' = Owners(l) \ {c}
          /\ \A m \in Links : Restoring(m)' = Restoring(m) /\ (m # l => Owners(m)' = Owners(m))
      <3>1. Owners(l)' = Owners(l) \ {c} BY <2>1, IdleType, OwnersStep
      <3>2. ASSUME NEW m \in Links PROVE Restoring(m)' = Restoring(m)
        <4>1. Restoring(m)' = Restoring(m) \ {c} BY <2>1, IdleType, OwnersStep
        <4> QED BY <4>1, <1>4
      <3>3. ASSUME NEW m \in Links, m # l PROVE Owners(m)' = Owners(m)
        BY <1>4, <2>1, <3>3, IdleType, OwnersKept
      <3> QED BY <3>1, <3>2, <3>3
    <2>7. link' \in [Links -> LinkRec] => Types' /\ Placed'
      BY <1>1, <2>1, IdleType, UserStep DEF Holding
    <2>8. OwnsRightly(c)' BY <2>2, IdleType DEF OwnsRightly, Holding
    <2>9. CASE caller[c].ref > 1
      <3>1. link' = [link EXCEPT ![l] = Counting(link[l], caller[c].ref - 1)]
        BY <1>2, <1>6, <2>9 DEF CloseSwaps, Counting
      <3>2. /\ link' \in [Links -> LinkRec] /\ link'[l].ref = caller[c].ref - 1
            /\ \A m \in Links : link'[m].closes = link[m].closes /\ link'[m].kind = link[m].kind
            /\ \A m \in Links : m # l => link'[m] = link[m]
        <4>1. caller[c].ref - 1 \in Int BY <1>3
        <4> QED BY <3>1, <4>1, CountingStep
      <3>3. CountOf(l)'
        <4>1. Owners(l) # {}
          <5>1. Owners(l) = {} => Cardinality(Owners(l)) = 0 BY FS_EmptySet
          <5> QED BY <5>1, <1>6, <2>4, <2>9
        <4>2. Cardinality(Owners(l) \ {c}) = Cardinality(Owners(l)) - 1 BY <1>4, <2>5, <4>1, CardStep
        <4>3. link'[l].closes = 0 BY <2>3, <3>2
        <4>4. link'[l].ref = Cardinality(Owners(l)') BY <1>6, <2>4, <2>6, <3>2, <4>2
        <4> QED BY <4>3, <4>4 DEF CountOf
      <3>4. ASSUME NEW m \in Links, m # l PROVE CountOf(m)'
        BY <2>6, <3>2, <3>4, CountKept
      <3>5. ASSUME NEW d \in Callers, d # c PROVE OwnsRightly(d)'
        BY <2>2, <3>2, <3>5, OwnsKept
      <3> QED BY <2>7, <2>8, <3>2, <3>3, <3>4, <3>5 DEF Counted
    <2>10. CASE ~(caller[c].ref > 1)
      <3>1. link' = [link EXCEPT ![l] = ClosedWith(link[l], closersClosed)]
        BY <1>2, <1>6, <2>10 DEF CloseSwaps, ClosedWith
      <3>2. /\ link' \in [Links -> LinkRec] /\ link'[l].ref = closersClosed /\ link'[l].closes = 1
            /\ \A m \in Links : link'[m].kind = link[m].kind
            /\ \A m \in Links : m # l => link'[m] = link[m]
        <4>1. closersClosed \in Int BY Mark
        <4>2. link' \in [Links -> LinkRec] /\ link'[l].ref = closersClosed /\ link'[l].closes = link[l].closes + 1
          BY <3>1, <4>1, ClosedStep
        <4>3. /\ \A m \in Links : link'[m].kind = link[m].kind
              /\ \A m \in Links : m # l => link'[m] = link[m]
          BY <3>1, <4>1, ClosedStep
        <4> QED BY <2>3, <4>2, <4>3
      <3>3. CountOf(l)'
        <4>1. Cardinality(Restoring(l)) \in Nat BY <1>4, Counts
        <4>2. closersClosed' = closersClosed BY DEF closersClosed
        <4> QED BY <2>6, <3>2, <4>1, <4>2, Mark DEF CountOf
      <3>4. ASSUME NEW m \in Links, m # l PROVE CountOf(m)'
        BY <2>6, <3>2, <3>4, CountKept
      <3>5. ASSUME NEW d \in Callers, d # c, caller[d].ol = l PROVE OwnsRightly(d)'
        <4>1. ~caller[d].owns
          <5>1. SUFFICES ASSUME caller[d].owns PROVE FALSE OBVIOUS
          <5>2. d \in Owners(l) BY <5>1, <3>5 DEF Owners
          <5>3. c \in Owners(l) BY <5>2, <2>5
          <5>4. Cardinality(Owners(l) \ {c}) = Cardinality(Owners(l)) - 1 BY <1>4, <5>3, CardStep
          <5>5. Cardinality(Owners(l) \ {c}) >= 1
            <6>1. d \in Owners(l) \ {c} /\ Owners(l) \ {c} \subseteq Callers BY <5>2, <3>5, <1>4
            <6> QED BY <6>1, CardStep
          <5> QED BY <1>3, <1>6, <2>4, <2>10, <5>4, <5>5
        <4>2. OwnsRightly(d) BY DEF Counted
        <4> QED BY <2>2, <2>3, <3>2, <3>5, <4>1, <4>2 DEF OwnsRightly
      <3>6. ASSUME NEW d \in Callers, d # c, caller[d].ol # l PROVE OwnsRightly(d)'
        BY <2>2, <3>2, <3>6, OwnsKept
      <3> QED BY <2>7, <2>8, <3>2, <3>3, <3>4, <3>5, <3>6 DEF Counted
    <2> QED BY <2>9, <2>10
  <1> QED BY <1>5, <1>6

-----------------------------------------------------------------------------
\* The steps that do not count.

LEMMA QuietCaller ==
    ASSUME LinkInv, NEW c \in Callers, NEW r \in CallerRec, caller' = [caller EXCEPT ![c] = r],
           UNCHANGED link, Types', Placed',
           caller[c].st \notin Holding \cup {"restore"}, r.st \notin Holding \cup {"restore"}, ~r.owns
    PROVE  LinkInv'
  <1>1. ~caller[c].owns
    <2>1. OwnsRightly(c) BY DEF LinkInv, Counted
    <2> QED BY <2>1 DEF OwnsRightly
  <1>2. \A d \in Callers : caller'[d] = IF d = c THEN r ELSE caller[d] BY DEF LinkInv, Types
  <1>3. Quiet BY <1>1, <1>2 DEF Quiet
  <1> QED BY <1>3, QuietKeepsCounts DEF LinkInv

LEMMA LinkLooksStep ==
    ASSUME LinkInv, NEW c \in Callers, LinkLooks(c)
    PROVE  LinkInv'
  <1> USE LinkParams DEF LinkInv
  <1> DEFINE l == IF current = Nil THEN Nil ELSE maps[current]
  <1>1. PICK st \in {"do", "purge", "acquire"}, m \in {current, Nil} :
          /\ caller' = [caller EXCEPT ![c] = Found(st, l, done, m)]
          /\ st = "do" <=> l = Nil
          /\ st = "purge" => m # Nil
    <2>1. CASE l = Nil
      BY <2>1 DEF LinkLooks, Found
    <2>2. CASE l # Nil /\ Expired(l)
      BY <2>2 DEF LinkLooks, Found
    <2>3. CASE l # Nil /\ ~Expired(l)
      BY <2>3 DEF LinkLooks, Found
    <2> QED BY <2>1, <2>2, <2>3
  <1>2. /\ UNCHANGED <<link, made, maps, current, flight, version, listed, inv, done>>
        /\ calls' \in 0..MaxCalls
    BY DEF LinkLooks, cache, put, Types
  <1>3. l \in Links \cup {Nil} /\ (l # Nil => l <= made)
    BY DEF Types, CacheTypes, Placed, PlacedMaps
  <1>4. m \in Links \cup {Nil} /\ done \in 0..MaxPuts
    BY DEF Types, CacheTypes, PutTypes
  <1> DEFINE r == Found(st, l, done, m)
  <1> HIDE DEF l
  <1>5. r \in CallerRec /\ r.st = st /\ r.ol = l /\ r.map = m /\ ~r.owns
    <2>1. st \in Stages BY DEF Stages
    <2> QED BY <2>1, <1>3, <1>4, FoundFields
  <1>6. PlacedCaller(c)'
    <2>1. caller'[c] = r BY <1>1 DEF Types
    <2> QED BY <2>1, <1>1, <1>2, <1>3, <1>5 DEF PlacedCaller, Holding, Flying
  <1>7. caller' = [caller EXCEPT ![c] = r] BY <1>1
  <1> HIDE DEF r
  <1>8. CacheTypes' /\ PlacedMaps' BY <1>2 DEF Types, Placed, CacheTypes, PlacedMaps
  <1>9. link' \in [Links -> LinkRec] /\ made' \in 0..MaxLinks /\ made <= made' /\ UNCHANGED put
    BY <1>2 DEF Types, put
  <1>10. Types' /\ Placed' BY <1>2, <1>5, <1>6, <1>7, <1>8, <1>9, CallerStep
  <1>11. At(c, "idle") BY DEF LinkLooks
  <1> QED BY <1>1, <1>2, <1>5, <1>7, <1>10, <1>11, QuietCaller DEF At, Holding
LEMMA GetTypePurgesStep ==
    ASSUME LinkInv, NEW c \in Callers, GetTypePurges(c)
    PROVE  LinkInv'
  <1> USE LinkParams DEF LinkInv
  <1>1. /\ caller' = [caller EXCEPT ![c] = Asking(caller[c].since)]
        /\ UNCHANGED <<link, made, flight, calls, put>>
    BY DEF GetTypePurges, ToDo, Asking
  <1>2. CacheTypes' /\ PlacedMaps'
    <2>1. caller[c].map \in Links
      BY CallerFacts DEF GetTypePurges, At, PlacedCaller, CallerRec
    <2> QED BY <1>1, <2>1 DEF GetTypePurges, cache, Types, Placed, CacheTypes, PlacedMaps
  <1>3. PlacedCaller(c)'
    <2>1. caller'[c] = Asking(caller[c].since) BY <1>1 DEF Types
    <2> QED BY <2>1, CallerFacts, AskingFields DEF PlacedCaller, Holding, Flying
  <1>4. link' \in [Links -> LinkRec] /\ made' \in 0..MaxLinks /\ made <= made' /\ calls' \in 0..MaxCalls
    BY <1>1 DEF Types
  <1>5. Asking(caller[c].since) \in CallerRec /\ Asking(caller[c].since).st = "do" /\ ~Asking(caller[c].since).owns
    BY CallerFacts, AskingFields
  <1>6. Types' /\ Placed' BY <1>1, <1>2, <1>3, <1>4, <1>5, CallerStep
  <1>7. At(c, "purge") BY DEF GetTypePurges
  <1> QED BY <1>1, <1>5, <1>6, <1>7, QuietCaller DEF At, Holding

LEMMA DoStep ==
    ASSUME LinkInv, NEW c \in Callers, Do(c)
    PROVE  LinkInv'
  <1> USE DEF LinkInv
  <1>1. caller[c].st = "do" /\ UNCHANGED <<link, made, cache, calls, put>> BY DEF Do, At
  <1>2. PICK st \in {"get", "wait"} :
            /\ caller' = [caller EXCEPT ![c] = Moved(caller[c], st)]
            /\ st = "get" => flight = Nil /\ flight' = c
            /\ st = "wait" => flight' = flight
    BY DEF Do, To, Moved
  <1> DEFINE r == Moved(caller[c], st)
  <1>3. r \in CallerRec /\ r.st = st /\ r.ol = caller[c].ol /\ r.owns = caller[c].owns
    <2>1. st \in Stages BY DEF Stages
    <2> QED BY <2>1, CallerFacts, MovedFields
  <1>4. caller' = [caller EXCEPT ![c] = r] BY <1>2
  <1> HIDE DEF r
  <1>5. ~caller[c].owns
    <2>1. OwnsRightly(c) BY DEF Counted
    <2> QED BY <1>1, <2>1 DEF OwnsRightly, Holding
  <1>6. PlacedCaller(c)'
    <2>1. caller'[c] = r BY <1>4 DEF Types
    <2> QED BY <2>1, <1>1, <1>2, <1>3, CallerFacts DEF PlacedCaller, Holding, Flying
  <1>7. Types' /\ Placed'
    <2>1. CacheTypes' /\ PlacedMaps' /\ made' \in 0..MaxLinks /\ made <= made' /\ calls' \in 0..MaxCalls
      BY <1>1, LinkParams DEF Types, Placed, CacheTypes, PlacedMaps, cache
    <2>2. link' \in [Links -> LinkRec] BY <1>1 DEF Types
    <2> QED BY <1>1, <1>2, <1>3, <1>4, <1>6, <2>1, <2>2, CallerStep
  <1> QED BY <1>1, <1>2, <1>3, <1>4, <1>5, <1>7, QuietCaller DEF Holding

\* The flight, when it ends: what FlightReturns does, with the links as they were.
LEMMA ReturnStep ==
    ASSUME LinkInv, NEW c \in Callers, NEW l \in Links \cup {Nil}, l # Nil => l <= made,
           FlightReturns(c, l), caller[c].st \in Flying,
           link' \in [Links -> LinkRec], UNCHANGED <<made, cache, calls, put>>,
           \A m \in Links : /\ link'[m].kind = link[m].kind
                            /\ link'[m].closes = link[m].closes /\ link'[m].ref = link[m].ref
    PROVE  LinkInv'
  <1> USE DEF LinkInv
  <1>1. made' \in Nat /\ made <= made' /\ made' \in 0..MaxLinks BY DEF Types
  <1>2. /\ flight' \in Callers \cup {Nil} /\ caller' \in [Callers -> CallerRec]
        /\ \A d \in Callers : PlacedCaller(d)'
        /\ \A d \in Callers : caller'[d] = caller[d] \/ Returned(d)
    BY <1>1, FlightReturnsTypes
  <1>3. CacheTypes' /\ PlacedMaps' /\ calls' \in 0..MaxCalls /\ PutTypes'
    BY DEF Types, Placed, CacheTypes, PlacedMaps, PutTypes, cache, put
  <1>4. Types' /\ Placed' BY <1>1, <1>2, <1>3 DEF Types, Placed
  <1>5. Quiet
    <2>1. ASSUME NEW d \in Callers, Returned(d)
          PROVE  /\ caller[d].st \notin Holding \cup {"restore"} /\ ~caller[d].owns
                 /\ caller'[d].st \notin Holding \cup {"restore"} /\ ~caller'[d].owns
      <3>1. OwnsRightly(d) BY DEF Counted
      <3> QED BY <2>1, <3>1 DEF Returned, OwnsRightly, Holding, Flying
    <2> QED BY <1>2, <2>1 DEF Quiet
  <1> QED BY <1>4, <1>5, QuietKeepsCounts

Linking(r, v) == [r EXCEPT !.st = "link", !.version = v]
Setting(r, l) == [r EXCEPT !.st = "set", !.ol = l]

LEMMA LinkingFields ==
    ASSUME NEW r \in CallerRec, NEW v \in 0..MaxPuts
    PROVE  /\ Linking(r, v) \in CallerRec /\ Linking(r, v).st = "link"
           /\ Linking(r, v).ol = r.ol /\ Linking(r, v).owns = r.owns /\ Linking(r, v).since = r.since
  BY DEF Linking, CallerRec, Stages

LEMMA SettingFields ==
    ASSUME NEW r \in CallerRec, NEW l \in Links
    PROVE  /\ Setting(r, l) \in CallerRec /\ Setting(r, l).st = "set"
           /\ Setting(r, l).ol = l /\ Setting(r, l).owns = r.owns /\ Setting(r, l).since = r.since
  BY DEF Setting, CallerRec, Stages

LEMMA FlightGetsStep ==
    ASSUME LinkInv, NEW c \in Callers, FlightGets(c)
    PROVE  LinkInv'
  <1> USE DEF LinkInv
  <1>1. caller[c].st = "get" /\ UNCHANGED <<link, made, cache, calls, put>> BY DEF FlightGets, At
  <1>2. link' \in [Links -> LinkRec] BY <1>1 DEF Types
  <1>3. CASE FlightReturns(c, Nil)
    BY <1>1, <1>2, <1>3, ReturnStep DEF Flying
  <1>4. CASE caller' = [caller EXCEPT ![c].st = "link", ![c].version = listed] /\ UNCHANGED flight
    <2> DEFINE r == Linking(caller[c], listed)
    <2>1. caller' = [caller EXCEPT ![c] = r] BY <1>4 DEF Linking
    <2>2. r \in CallerRec /\ r.st = "link" /\ r.ol = caller[c].ol /\ r.owns = caller[c].owns
      <3>1. listed \in 0..MaxPuts BY LinkParams DEF Types, PutTypes
      <3> QED BY <3>1, CallerFacts, LinkingFields
    <2> HIDE DEF r
    <2>3. ~caller[c].owns
      <3>1. OwnsRightly(c) BY DEF Counted
      <3> QED BY <1>1, <3>1 DEF OwnsRightly, Holding
    <2>4. PlacedCaller(c)'
      <3>1. caller'[c] = r BY <2>1 DEF Types
      <3> QED BY <3>1, <1>1, <1>4, <2>2, CallerFacts DEF PlacedCaller, Holding, Flying
    <2>5. Types' /\ Placed'
      <3>1. CacheTypes' /\ PlacedMaps' /\ made' \in 0..MaxLinks /\ made <= made' /\ calls' \in 0..MaxCalls
        BY <1>1, LinkParams DEF Types, Placed, CacheTypes, PlacedMaps, cache
      <3> QED BY <1>1, <1>2, <1>4, <2>1, <2>2, <2>4, <3>1, CallerStep
    <2> QED BY <1>1, <2>1, <2>2, <2>3, <2>5, QuietCaller DEF Holding
  <1> QED BY <1>3, <1>4 DEF FlightGets

LEMMA FlightCachesStep ==
    ASSUME LinkInv, NEW c \in Callers, FlightCaches(c)
    PROVE  LinkInv'
  <1> USE DEF LinkInv
  <1> DEFINE r == Moved(caller[c], "end")
  <1>1. /\ caller[c].st = "set" /\ UNCHANGED <<link, made, flight, calls, put>>
        /\ caller' = [caller EXCEPT ![c] = r]
    BY DEF FlightCaches, At, To, Moved
  <1>2. PICK l \in Links : caller[c].ol = l /\ l <= made
    BY <1>1, CallerFacts DEF PlacedCaller
  <1>3. r \in CallerRec /\ r.st = "end" /\ r.ol = l /\ r.owns = caller[c].owns
    <2>1. "end" \in Stages BY DEF Stages
    <2> QED BY <2>1, <1>2, CallerFacts, MovedFields
  <1> HIDE DEF r
  <1>4. ~caller[c].owns
    <2>1. OwnsRightly(c) BY DEF Counted
    <2> QED BY <1>1, <2>1 DEF OwnsRightly, Holding
  <1>5. PlacedCaller(c)'
    <2>1. caller'[c] = r BY <1>1 DEF Types
    <2> QED BY <2>1, <1>1, <1>2, <1>3, CallerFacts DEF PlacedCaller, Holding, Flying
  <1>6. CacheTypes' /\ PlacedMaps'
    <2>1. PICK g \in Links : current' = g /\ maps' = [maps EXCEPT ![g] = l]
      BY <1>2 DEF FlightCaches, Types, CacheTypes
    <2> QED BY <1>1, <1>2, <2>1 DEF Types, Placed, CacheTypes, PlacedMaps
  <1>7. Types' /\ Placed'
    <2>1. link' \in [Links -> LinkRec] /\ made' \in 0..MaxLinks /\ made <= made' /\ calls' \in 0..MaxCalls
      BY <1>1, LinkParams DEF Types
    <2> QED BY <1>1, <1>3, <1>5, <1>6, <2>1, CallerStep
  <1> QED BY <1>1, <1>3, <1>4, <1>7, QuietCaller DEF Holding

Ended(r, t) == [r EXCEPT !.until = t]
Aged(r)     == [r EXCEPT !.expired = TRUE]

LEMMA AgeFields ==
    ASSUME NEW r \in LinkRec, NEW t \in 0..MaxPuts
    PROVE  /\ Ended(r, t) \in LinkRec /\ Ended(r, t).kind = r.kind /\ Ended(r, t).ref = r.ref
           /\ Ended(r, t).closes = r.closes /\ Ended(r, t).until = t /\ Ended(r, t).version = r.version
           /\ Aged(r) \in LinkRec /\ Aged(r).kind = r.kind /\ Aged(r).ref = r.ref
           /\ Aged(r).closes = r.closes /\ Aged(r).until = r.until /\ Aged(r).version = r.version
  BY DEF Ended, Aged, LinkRec

LEMMA FlightEndsStep ==
    ASSUME LinkInv, NEW c \in Callers, FlightEnds(c)
    PROVE  LinkInv'
  <1> USE DEF LinkInv
  <1>1. caller[c].st = "end" /\ UNCHANGED <<made, cache, calls, put>> BY DEF FlightEnds, At
  <1>2. PICK l \in Links : caller[c].ol = l /\ l <= made
    BY <1>1, CallerFacts DEF PlacedCaller
  <1>3. FlightReturns(c, l) /\ link' = [link EXCEPT ![l] = Ended(link[l], inv)]
    BY <1>2 DEF FlightEnds, Ended
  <1>4. inv \in 0..MaxPuts /\ link[l] \in LinkRec BY LinkParams DEF Types, PutTypes
  <1>5. /\ link' \in [Links -> LinkRec]
        /\ \A m \in Links : /\ link'[m].kind = link[m].kind
                            /\ link'[m].closes = link[m].closes /\ link'[m].ref = link[m].ref
    <2>1. \A m \in Links : link'[m] = IF m = l THEN Ended(link[l], inv) ELSE link[m]
      BY <1>3 DEF Types
    <2>2. /\ Ended(link[l], inv) \in LinkRec /\ Ended(link[l], inv).kind = link[l].kind
          /\ Ended(link[l], inv).ref = link[l].ref /\ Ended(link[l], inv).closes = link[l].closes
      BY <1>4, AgeFields
    <2> QED BY <1>3, <2>1, <2>2 DEF Types
  <1> QED BY <1>1, <1>2, <1>3, <1>5, ReturnStep DEF Flying

\* A link that is new has no owner and nobody who restores its mark.
LEMMA NewLink ==
    ASSUME LinkInv, NEW n \in Links, n > made
    PROVE  Owners(n) = {} /\ Restoring(n) = {} /\ \A d \in Callers : caller[d].ol # n
  <1>1. ASSUME NEW d \in Callers PROVE caller[d].ol # n
    <2>1. PlacedCaller(d) /\ made \in Nat /\ n \in Nat /\ n # Nil
      BY LinkParams DEF LinkInv, Placed, Types, Links
    <2> QED BY <2>1 DEF PlacedCaller
  <1> QED BY <1>1 DEF Owners, Restoring

LEMMA FreshFields ==
    ASSUME NEW k \in Kinds, NEW v \in 0..MaxPuts
    PROVE  /\ Fresh(k, v) \in LinkRec /\ Fresh(k, v).ref = 0 /\ Fresh(k, v).closes = 0
           /\ Fresh(k, v).until = MaxPuts
  BY LinkParams DEF Fresh, LinkRec

\* The link that admitLink has closed.
Refused(v) == [Fresh("ttl", v) EXCEPT !.ref = closersClosed, !.closes = 1]

LEMMA RefusedFields ==
    ASSUME NEW v \in 0..MaxPuts
    PROVE  Refused(v) \in LinkRec /\ Refused(v).ref = closersClosed /\ Refused(v).closes = 1
  <1>1. ASSUME NEW i \in LinkRec, NEW n \in Int
        PROVE  LET j == [i EXCEPT !.ref = n, !.closes = 1]
               IN  j \in LinkRec /\ j.ref = n /\ j.closes = 1
    BY DEF LinkRec
  <1>2. "ttl" \in Kinds BY DEF Kinds
  <1> QED BY <1>1, <1>2, Mark, FreshFields DEF Refused

\* A caller that neither counts nor is counted.
Uncounted(d) ==
    \/ caller'[d] = caller[d]
    \/ /\ caller[d].st \notin Holding \cup {"restore"}
       /\ caller'[d].st \notin Holding \cup {"restore"} /\ ~caller'[d].owns

\* A step that makes the link n as f.
Makes(n, f) ==
    /\ n = made + 1 /\ made' = n /\ link' = [link EXCEPT ![n] = f]
    /\ (f.closes = 0 /\ f.ref = 0) \/ (f.closes = 1 /\ f.ref = closersClosed)
    /\ caller' \in [Callers -> CallerRec] /\ flight' \in Callers \cup {Nil}
    /\ \A d \in Callers : PlacedCaller(d)' /\ Uncounted(d)

LEMMA FlightLinksStep ==
    ASSUME LinkInv, NEW c \in Callers, FlightLinks(c)
    PROVE  LinkInv'
  <1> USE DEF LinkInv
  <1>1. caller[c].st = "link" /\ UNCHANGED <<cache, calls, put>> BY DEF FlightLinks, At
  <1>2. ~caller[c].owns
    <2>1. OwnsRightly(c) BY DEF Counted
    <2> QED BY <1>1, <2>1 DEF OwnsRightly, Holding
  <1>3. CASE FlightReturns(c, Nil) /\ UNCHANGED <<link, made>>
    <2>1. link' \in [Links -> LinkRec] BY <1>3 DEF Types
    <2> QED BY <1>1, <1>3, <2>1, ReturnStep DEF Flying
  <1>4. ASSUME NEW f \in LinkRec, NEW n \in Links, Makes(n, f) PROVE LinkInv'
    <2> USE DEF Makes
    <2>1. link' \in [Links -> LinkRec] /\ \A m \in Links : link'[m] = IF m = n THEN f ELSE link[m]
      BY <1>4 DEF Types
    <2>2. Types' /\ Placed'
      <3>1. made \in Nat /\ made' \in 0..MaxLinks /\ made' = made + 1 BY <1>4 DEF Types, Links
      <3>2. CacheTypes' /\ calls' \in 0..MaxCalls /\ PutTypes'
        BY <1>1 DEF Types, CacheTypes, PutTypes, cache, put
      <3>3. PlacedMaps'
        <4>1. ASSUME NEW m \in Links, maps[m] # Nil PROVE maps[m] <= made + 1
          <5>1. maps[m] \in Links /\ maps[m] <= made
            BY <4>1 DEF Types, CacheTypes, Placed, PlacedMaps
          <5> QED BY <5>1, <3>1 DEF Links
        <4> QED BY <1>1, <3>1, <4>1 DEF PlacedMaps, cache
      <3> QED BY <1>4, <2>1, <3>1, <3>2, <3>3 DEF Types, Placed
    <2>3. n > made BY <1>4 DEF Types
    <2>4. ASSUME NEW d \in Callers
          PROVE  \/ caller'[d] = caller[d]
                 \/ /\ caller[d].st \notin Holding \cup {"restore"} /\ ~caller[d].owns
                    /\ caller'[d].st \notin Holding \cup {"restore"} /\ ~caller'[d].owns
      <3>1. OwnsRightly(d) BY DEF Counted
      <3> QED BY <1>4, <3>1 DEF Uncounted, OwnsRightly
    <2>5. \A m \in Links : Owners(m)' = Owners(m) /\ Restoring(m)' = Restoring(m)
      BY <2>4 DEF Owners, Restoring, Holding
    <2>6. ASSUME NEW m \in Links PROVE CountOf(m)'
      <3>1. CASE m = n
        <4>1. Owners(n)' = {} /\ Restoring(n)' = {} BY <2>3, <2>5, NewLink
        <4>2. Cardinality({}) = 0 BY FS_EmptySet
        <4>3. closersClosed' = closersClosed BY DEF closersClosed
        <4>4. link'[n] = f BY <2>1
        <4>5. CASE f.closes = 0 /\ f.ref = 0
          BY <3>1, <4>1, <4>2, <4>4, <4>5 DEF CountOf
        <4>6. CASE f.closes = 1 /\ f.ref = closersClosed
          <5>1. Cardinality(Restoring(n)') = 0 BY <4>1, <4>2
          <5> QED BY <3>1, <4>3, <4>4, <4>6, <5>1, Mark DEF CountOf
        <4> QED BY <1>4, <4>5, <4>6
      <3>2. CASE m # n
        BY <2>1, <2>5, <3>2, CountKept
      <3> QED BY <3>1, <3>2
    <2>7. ASSUME NEW d \in Callers PROVE OwnsRightly(d)'
      <3>1. CASE caller'[d] = caller[d]
        BY <2>1, <2>3, <3>1, NewLink, OwnsKept
      <3>2. CASE caller'[d] # caller[d]
        BY <2>4, <3>2 DEF OwnsRightly, Holding
      <3> QED BY <3>1, <3>2
    <2> QED BY <2>2, <2>6, <2>7 DEF Counted
  <1>5. ASSUME made < MaxLinks, made' = made + 1 PROVE \E n \in Links : n = made + 1 /\ made' = n
    BY <1>5, LinkParams DEF Types, Links
  <1>6. caller[c].version \in 0..MaxPuts BY CallerFacts DEF CallerRec
  <1>7. ASSUME NEW kind \in Kinds, made < MaxLinks, made' = made + 1,
               link' = [link EXCEPT ![made'] = Fresh(kind, caller[c].version)],
               caller' = [caller EXCEPT ![c].st = "set", ![c].ol = made'], UNCHANGED flight
        PROVE  LinkInv'
    <2>1. PICK n \in Links : n = made + 1 /\ made' = n BY <1>5, <1>7
    <2> DEFINE r == Setting(caller[c], n)
    <2>2. caller' = [caller EXCEPT ![c] = r] BY <1>7, <2>1 DEF Setting
    <2>3. r \in CallerRec /\ r.st = "set" /\ r.ol = n /\ r.owns = caller[c].owns
      BY CallerFacts, SettingFields
    <2> HIDE DEF r
    <2>4. PlacedCaller(c)'
      <3>1. caller'[c] = r BY <2>2 DEF Types
      <3>2. n # Nil BY LinkParams DEF Links
      <3> QED BY <3>1, <3>2, <1>1, <1>7, <2>1, <2>3, CallerFacts DEF PlacedCaller, Holding, Flying, Links
    <2>5. caller' \in [Callers -> CallerRec] /\ \A d \in Callers : PlacedCaller(d)'
      <3>1. made' \in Nat /\ made <= made' BY <2>1 DEF Types
      <3> QED BY <3>1, <1>7, <2>2, <2>3, <2>4, OneCaller
    <2>6. \A d \in Callers : Uncounted(d)
      <3>1. \A d \in Callers : caller'[d] = IF d = c THEN r ELSE caller[d] BY <2>2 DEF Types
      <3> QED BY <3>1, <1>1, <1>2, <2>3 DEF Uncounted, Holding
    <2>7. flight' \in Callers \cup {Nil} BY <1>7 DEF Types
    <2>8. Fresh(kind, caller[c].version) \in LinkRec
          /\ Fresh(kind, caller[c].version).ref = 0 /\ Fresh(kind, caller[c].version).closes = 0
      BY <1>6, FreshFields
    <2>9. PICK f \in LinkRec : link' = [link EXCEPT ![n] = f] /\ f.closes = 0 /\ f.ref = 0
      BY <1>7, <2>1, <2>8
    <2>10. Makes(n, f) BY <2>1, <2>5, <2>6, <2>7, <2>9 DEF Makes
    <2> QED BY <1>4, <2>10
  <1>8. ASSUME made < MaxLinks, made' = made + 1, FlightReturns(c, Nil),
               link' = [link EXCEPT ![made'] = Refused(caller[c].version)]
        PROVE  LinkInv'
    <2>1. PICK n \in Links : n = made + 1 /\ made' = n BY <1>5, <1>8
    <2>2. /\ flight' \in Callers \cup {Nil} /\ caller' \in [Callers -> CallerRec]
          /\ \A d \in Callers : PlacedCaller(d)'
          /\ \A d \in Callers : caller'[d] = caller[d] \/ Returned(d)
      <3>1. made' \in Nat /\ made <= made' BY <2>1 DEF Types
      <3> QED BY <3>1, <1>1, <1>8, FlightReturnsTypes DEF Flying
    <2>3. \A d \in Callers : Uncounted(d)
      BY <2>2 DEF Uncounted, Returned, Holding, Flying
    <2>4. Refused(caller[c].version) \in LinkRec
          /\ Refused(caller[c].version).ref = closersClosed /\ Refused(caller[c].version).closes = 1
      BY <1>6, RefusedFields
    <2>5. Makes(n, Refused(caller[c].version)) BY <1>8, <2>1, <2>2, <2>3, <2>4 DEF Makes
    <2> QED BY <1>4, <2>4, <2>5
  <1> QED BY <1>3, <1>7, <1>8 DEF FlightLinks, Refused

LEMMA OtherSteps ==
    ASSUME LinkInv, Put \/ GC \/ (\E l \in Links : LinkExpires(l)) \/ UNCHANGED vars
    PROVE  LinkInv'
  <1> USE DEF LinkInv
  <1>1. UNCHANGED <<made, flight, caller, calls>>
    BY DEF Put, PutUploads, PutInvalidates, PutLists, PutReturns, GC, LinkExpires, vars
  <1>2. /\ link' \in [Links -> LinkRec]
        /\ \A l \in Links : /\ link'[l].kind = link[l].kind
                            /\ link'[l].closes = link[l].closes /\ link'[l].ref = link[l].ref
    <2>1. CASE link' = link BY <2>1 DEF Types
    <2>2. ASSUME NEW l \in Links, LinkExpires(l) PROVE <1>2!1 /\ <1>2!2
      <3>1. link' = [link EXCEPT ![l] = Aged(link[l])] BY <2>2 DEF LinkExpires, Aged
      <3>2. \A m \in Links : link'[m] = IF m = l THEN Aged(link[l]) ELSE link[m] BY <3>1 DEF Types
      <3>3. 0 \in 0..MaxPuts /\ link[l] \in LinkRec BY LinkParams DEF Types
      <3>4. /\ Aged(link[l]) \in LinkRec /\ Aged(link[l]).kind = link[l].kind
            /\ Aged(link[l]).ref = link[l].ref /\ Aged(link[l]).closes = link[l].closes
        BY <3>3, AgeFields
      <3> QED BY <3>1, <3>2, <3>4 DEF Types
    <2> QED BY <2>1, <2>2 DEF Put, PutUploads, PutInvalidates, PutLists, PutReturns, GC, vars
  <1>3. CacheTypes' /\ PlacedMaps'
    BY <1>1 DEF Put, PutUploads, PutInvalidates, PutLists, PutReturns, GC, LinkExpires, vars, cache,
                Types, Placed, CacheTypes, PlacedMaps
  <1>4. PutTypes'
    BY LinkParams DEF Put, PutUploads, PutInvalidates, PutLists, PutReturns, GC, LinkExpires, vars, put,
                      Types, PutTypes
  <1>5. Types' /\ Placed'
    BY <1>1, <1>2, <1>3, <1>4 DEF Types, Placed, PlacedCaller
  <1>6. Quiet BY <1>1, <1>2 DEF Quiet
  <1> QED BY <1>5, <1>6, QuietKeepsCounts

LEMMA InitLinkInv == Init => LinkInv
  <1> SUFFICES ASSUME Init PROVE LinkInv OBVIOUS
  <1>1. \A c \in Callers : caller[c] = Idle BY DEF Init
  <1>2. \A l \in Links : link[l] = Fresh("plain", 0) BY DEF Init
  <1>3. /\ Fresh("plain", 0) \in LinkRec /\ Fresh("plain", 0).ref = 0 /\ Fresh("plain", 0).closes = 0
    <2>1. "plain" \in Kinds /\ 0 \in 0..MaxPuts BY LinkParams DEF Kinds
    <2> QED BY <2>1, FreshFields
  <1>4. Types
    <2>1. link \in [Links -> LinkRec] BY <1>2, <1>3 DEF Init
    <2>2. caller \in [Callers -> CallerRec] BY <1>1, IdleType DEF Init
    <2> QED BY <2>1, <2>2, LinkParams DEF Init, Types, CacheTypes, PutTypes
  <1>5. Placed BY <1>1, IdleType DEF Init, Placed, PlacedCaller, PlacedMaps, Holding, Flying
  <1>6. ASSUME NEW l \in Links PROVE CountOf(l)
    <2>1. Owners(l) = {} BY <1>1, IdleType DEF Owners
    <2> QED BY <1>2, <1>3, <2>1, FS_EmptySet DEF CountOf
  <1>7. \A c \in Callers : OwnsRightly(c) BY <1>1, IdleType DEF OwnsRightly, Holding
  <1> QED BY <1>4, <1>5, <1>6, <1>7 DEF LinkInv, Counted

LEMMA NextLinkInv == LinkInv /\ [Next]_vars => LinkInv'
  BY LinkLooksStep, GetTypePurgesStep, AcquireStep, AcquireFailsStep, CloseLoadsStep, CloseSwapsStep,
     DoStep, FlightGetsStep, FlightLinksStep, FlightCachesStep, FlightEndsStep, OtherSteps
  DEF Next, Call, Close

LEMMA LinkInvHolds == Spec => []LinkInv
  BY InitLinkInv, NextLinkInv, PTL DEF Spec

\* Every variable keeps its type: no reference count exceeds the callers or falls
\* below the mark of a closed link, in any interleaving of acquire and Close.
THEOREM TypesHold == Spec => []TypeOK
  <1>1. LinkInv => TypeOK
    <2> SUFFICES ASSUME LinkInv PROVE TypeOK OBVIOUS
    <2>1. ASSUME NEW l \in Links
          PROVE  link[l] \in [kind : Kinds, version : 0..MaxPuts, closes : Nat, expired : BOOLEAN,
                              ref : closersClosed..Cardinality(Callers), until : 0..MaxPuts]
      <3>1. link[l] \in LinkRec BY DEF LinkInv, Types
      <3>2. link[l].ref \in closersClosed..Cardinality(Callers) BY CountBounds DEF LinkInv
      <3> QED BY <3>1, <3>2 DEF LinkRec
    <2>2. link \in [Links -> [kind : Kinds, version : 0..MaxPuts, closes : Nat, expired : BOOLEAN,
                              ref : closersClosed..Cardinality(Callers), until : 0..MaxPuts]]
      BY <2>1 DEF LinkInv, Types
    <2> QED BY <2>2 DEF TypeOK, LinkInv, Types, CacheTypes, PutTypes, CallerRec
  <1> QED BY <1>1, LinkInvHolds, PTL

\* A link without owners that is not closed is about to be acquired.  With Counted
\* it says that no link is forgotten.
AwaitedLink(l) == link[l].kind # "ttl" /\ link[l].closes = 0 /\ link[l].ref = 0

Awaited == \A l \in Links : l <= made /\ AwaitedLink(l) => Comers(l) # {}

\* Steps that count nothing: whoever was about to acquire a link still is.
LEMMA AwaitedQuiet ==
    ASSUME Awaited, made' = made,
           \A l \in Links : /\ link'[l].kind = link[l].kind
                            /\ link'[l].closes = link[l].closes /\ link'[l].ref = link[l].ref,
           \A d \in Callers : \/ caller'[d] = caller[d]
                              \/ caller[d].st \notin {"set", "end", "acquire"}
                              \/ caller'[d].st \in {"set", "end", "acquire"} /\ caller'[d].ol = caller[d].ol
    PROVE  Awaited'
  <1> SUFFICES ASSUME NEW l \in Links, l <= made', AwaitedLink(l)' PROVE Comers(l)' # {}
    BY DEF Awaited
  <1>1. AwaitedLink(l) BY DEF AwaitedLink
  <1>2. PICK d \in Comers(l) : TRUE BY <1>1 DEF Awaited
  <1>3. d \in Comers(l)' BY <1>2 DEF Comers
  <1> QED BY <1>3

\* The steps of one caller that leave the links alone.
LEMMA AwaitedCaller ==
    ASSUME LinkInv, Awaited, NEW c \in Callers,
           LinkLooks(c) \/ GetTypePurges(c) \/ CloseLoads(c) \/ Do(c) \/ FlightCaches(c)
    PROVE  Awaited'
  <1> USE DEF LinkInv
  <1>1. UNCHANGED <<link, made>> BY DEF LinkLooks, GetTypePurges, CloseLoads, Do, FlightCaches
  <1>2. \A d \in Callers : d # c => caller'[d] = caller[d]
    BY DEF LinkLooks, GetTypePurges, CloseLoads, Do, FlightCaches, To, ToDo, Types
  <1>3. \/ caller[c].st \notin {"set", "end", "acquire"}
        \/ caller'[c].st \in {"set", "end", "acquire"} /\ caller'[c].ol = caller[c].ol
    <2>1. CASE FlightCaches(c)
      <3>1. caller'[c] = Moved(caller[c], "end") BY <2>1 DEF FlightCaches, To, Moved, Types
      <3>2. "end" \in Stages BY DEF Stages
      <3> QED BY <3>1, <3>2, CallerFacts, MovedFields
    <2>2. CASE ~ FlightCaches(c)
      BY <2>2 DEF LinkLooks, GetTypePurges, CloseLoads, Do, At
    <2> QED BY <2>1, <2>2
  <1> QED BY <1>1, <1>2, <1>3, AwaitedQuiet

\* The end of a flight hands its link on.
LEMMA AwaitedReturn ==
    ASSUME LinkInv, Awaited, NEW c \in Callers, NEW l \in Links \cup {Nil}, FlightReturns(c, l),
           caller[c].st \in {"get", "link"} \/ (caller[c].st = "end" /\ caller[c].ol = l /\ l # Nil),
           made' = made,
           \A m \in Links : /\ link'[m].kind = link[m].kind
                            /\ link'[m].closes = link[m].closes /\ link'[m].ref = link[m].ref
    PROVE  Awaited'
  <1> USE DEF LinkInv
  <1>1. ASSUME NEW d \in Callers
        PROVE  \/ caller'[d] = caller[d]
               \/ caller[d].st \notin {"set", "end", "acquire"}
               \/ caller'[d].st \in {"set", "end", "acquire"} /\ caller'[d].ol = caller[d].ol
    <2>1. CASE d # c
      BY <2>1 DEF FlightReturns, At
    <2>2. CASE d = c /\ caller[c].st = "end"
      <3>1. caller'[c] = Given(l, caller[c].since) BY <2>2 DEF FlightReturns, Given
      <3>2. caller'[c].st = "acquire" /\ caller'[c].ol = l
        BY <2>2, <3>1, CallerFacts, GivenFields
      <3> QED BY <2>2, <3>2
    <2> QED BY <2>1, <2>2
  <1> QED BY <1>1, AwaitedQuiet

LEMMA AwaitedFlight ==
    ASSUME LinkInv, Awaited, NEW c \in Callers, FlightGets(c) \/ FlightEnds(c)
    PROVE  Awaited'
  <1> USE DEF LinkInv
  <1>1. CASE FlightEnds(c)
    <2>1. caller[c].st = "end" /\ made' = made BY <1>1 DEF FlightEnds, At
    <2>2. PICK l \in Links : caller[c].ol = l /\ l # Nil
      BY <2>1, CallerFacts DEF PlacedCaller
    <2>3. FlightReturns(c, l) /\ link' = [link EXCEPT ![l] = Ended(link[l], inv)]
      BY <1>1, <2>2 DEF FlightEnds, Ended
    <2>4. \A m \in Links : /\ link'[m].kind = link[m].kind
                           /\ link'[m].closes = link[m].closes /\ link'[m].ref = link[m].ref
      <3>1. inv \in 0..MaxPuts /\ link[l] \in LinkRec BY LinkParams DEF Types, PutTypes
      <3>2. \A m \in Links : link'[m] = IF m = l THEN Ended(link[l], inv) ELSE link[m]
        BY <2>3 DEF Types
      <3> QED BY <3>1, <3>2, AgeFields
    <2> QED BY <2>1, <2>2, <2>3, <2>4, AwaitedReturn
  <1>2. CASE FlightGets(c)
    <2>1. caller[c].st = "get" /\ UNCHANGED <<link, made>> BY <1>2 DEF FlightGets, At
    <2>2. CASE FlightReturns(c, Nil) BY <2>1, <2>2, AwaitedReturn
    <2>3. CASE caller' = [caller EXCEPT ![c].st = "link", ![c].version = listed]
      <3>1. \A d \in Callers : d # c => caller'[d] = caller[d] BY <2>3 DEF Types
      <3> QED BY <2>1, <3>1, AwaitedQuiet
    <2> QED BY <1>2, <2>2, <2>3 DEF FlightGets
  <1> QED BY <1>1, <1>2

\* A new link is in the hands of its flight, unless it was refused and closed.
LEMMA AwaitedLinks ==
    ASSUME LinkInv, Awaited, NEW c \in Callers, FlightLinks(c)
    PROVE  Awaited'
  <1> USE DEF LinkInv
  <1>1. caller[c].st = "link" BY DEF FlightLinks, At
  <1>2. caller[c].version \in 0..MaxPuts /\ made \in Nat BY CallerFacts DEF CallerRec
  <1>3. CASE FlightReturns(c, Nil) /\ UNCHANGED <<link, made>>
    BY <1>1, <1>3, AwaitedReturn
  <1>4. ASSUME NEW n \in Links, n = made + 1, made' = n, NEW f, link' = [link EXCEPT ![n] = f],
               f.closes = 0 => Comers(n)' # {},
               \A d \in Callers : caller[d].st \in {"set", "end", "acquire"} => caller'[d] = caller[d]
        PROVE  Awaited'
    <2> SUFFICES ASSUME NEW l \in Links, l <= made', AwaitedLink(l)' PROVE Comers(l)' # {}
      BY DEF Awaited
    <2>1. CASE l = n
      <3>1. link'[n] = f BY <1>4 DEF Types
      <3> QED BY <1>4, <2>1, <3>1 DEF AwaitedLink
    <2>2. CASE l # n
      <3>1. link'[l] = link[l] /\ l <= made BY <1>2, <1>4, <2>2 DEF Types, Links
      <3>2. PICK d \in Comers(l) : TRUE BY <3>1 DEF Awaited, AwaitedLink
      <3>3. d \in Comers(l)' BY <1>4, <3>2 DEF Comers
      <3> QED BY <3>3
    <2> QED BY <2>1, <2>2
  <1>5. ASSUME made < MaxLinks, made' = made + 1 PROVE \E n \in Links : n = made + 1 /\ made' = n
    BY <1>2, <1>5, LinkParams DEF Links
  <1>6. ASSUME NEW kind \in Kinds, made < MaxLinks, made' = made + 1,
               link' = [link EXCEPT ![made'] = Fresh(kind, caller[c].version)],
               caller' = [caller EXCEPT ![c].st = "set", ![c].ol = made']
        PROVE  Awaited'
    <2>1. PICK n \in Links : n = made + 1 /\ made' = n BY <1>5, <1>6
    <2>2. caller' = [caller EXCEPT ![c] = Setting(caller[c], n)] BY <1>6, <2>1 DEF Setting
    <2>3. Setting(caller[c], n).st = "set" /\ Setting(caller[c], n).ol = n
      BY CallerFacts, SettingFields
    <2>4. caller'[c].st = "set" /\ caller'[c].ol = n /\ \A d \in Callers : d # c => caller'[d] = caller[d]
      BY <2>2, <2>3 DEF Types
    <2>5. c \in Comers(n)' BY <2>4 DEF Comers
    <2> QED BY <1>1, <1>4, <1>6, <2>1, <2>4, <2>5
  <1>7. ASSUME made < MaxLinks, made' = made + 1, FlightReturns(c, Nil),
               link' = [link EXCEPT ![made'] = Refused(caller[c].version)]
        PROVE  Awaited'
    <2>1. PICK n \in Links : n = made + 1 /\ made' = n BY <1>5, <1>7
    <2>2. Refused(caller[c].version).closes = 1 BY <1>2, RefusedFields
    <2>3. \A d \in Callers : caller[d].st \in {"set", "end", "acquire"} => caller'[d] = caller[d]
      BY <1>1, <1>7 DEF FlightReturns, At
    <2> DEFINE f == Refused(caller[c].version)
    <2>4. link' = [link EXCEPT ![n] = f] /\ f.closes # 0 BY <1>7, <2>1, <2>2
    <2> HIDE DEF f
    <2> QED BY <1>4, <2>1, <2>3, <2>4
  <1> QED BY <1>3, <1>6, <1>7 DEF FlightLinks, Refused

\* The steps that count: a link they leave without owners is closed.
LEMMA AwaitedUse ==
    ASSUME LinkInv, Awaited, NEW c \in Callers, Acquire(c) \/ AcquireFails(c) \/ CloseSwaps(c)
    PROVE  Awaited'
  <1> USE DEF LinkInv
  <1>1. caller[c].st \in {"acquire", "restore", "swap"} /\ made' = made
    BY DEF Acquire, AcquireFails, CloseSwaps, At
  <1>2. PICK l \in Links : caller[c].ol = l
    BY <1>1, CallerFacts DEF PlacedCaller, Holding
  <1>3. \A d \in Callers : d # c => caller'[d] = caller[d]
    BY DEF Acquire, AcquireFails, CloseSwaps, Held, To, ToDo, Types
  <1>4. \A m \in Links : m # l => link'[m] = link[m]
    BY <1>2 DEF Acquire, AcquireFails, CloseSwaps, Types
  <1>5. link[l] \in LinkRec /\ link[l].ref \in Int /\ link[l].closes \in {0, 1} /\ caller[c].ref \in Nat
    BY CallerFacts DEF Types, LinkRec, CallerRec, Counted, CountOf
  <1>6. AwaitedLink(l)' => AwaitedLink(l) /\ caller[c].st # "acquire"
    <2>1. CASE Acquire(c) /\ link[l].kind = "ttl"
      BY <1>2, <2>1 DEF Acquire, AwaitedLink
    <2>2. CASE Acquire(c) /\ link[l].kind # "ttl"
      <3>1. link' = [link EXCEPT ![l] = Counting(link[l], link[l].ref + 1)]
        BY <1>2, <2>2 DEF Acquire, Counting
      <3>2. link'[l].ref = link[l].ref + 1 /\ link'[l].closes = link[l].closes
        <4>1. link[l].ref + 1 \in Int BY <1>5
        <4> QED BY <3>1, <4>1, CountingStep
      <3>3. link[l].closes = 0 => link[l].ref >= 0 BY CountBounds
      <3> QED BY <1>5, <3>2, <3>3 DEF AwaitedLink
    <2>3. CASE AcquireFails(c)
      <3>1. link' = [link EXCEPT ![l] = Counting(link[l], closersClosed)]
        BY <1>2, <2>3 DEF AcquireFails, Counting
      <3>2. link'[l].ref < 0 BY <3>1, Mark, CountingStep
      <3> QED BY <3>2 DEF AwaitedLink
    <2>4. CASE CloseSwaps(c) /\ link[l].ref # caller[c].ref
      BY <1>1, <1>2, <2>4 DEF CloseSwaps, AwaitedLink, At
    <2>5. CASE CloseSwaps(c) /\ link[l].ref = caller[c].ref /\ caller[c].ref > 1
      <3>1. link' = [link EXCEPT ![l] = Counting(link[l], caller[c].ref - 1)]
        BY <1>2, <2>5 DEF CloseSwaps, Counting
      <3>2. caller[c].ref - 1 \in Int /\ caller[c].ref - 1 # 0 BY <1>5, <2>5
      <3>3. link'[l].ref # 0 BY <3>1, <3>2, CountingStep
      <3> QED BY <3>3 DEF AwaitedLink
    <2>6. CASE CloseSwaps(c) /\ link[l].ref = caller[c].ref /\ ~ (caller[c].ref > 1)
      <3>1. link' = [link EXCEPT ![l] = ClosedWith(link[l], closersClosed)]
        BY <1>2, <2>6 DEF CloseSwaps, ClosedWith
      <3>2. link'[l].ref < 0 BY <3>1, Mark, ClosedStep
      <3> QED BY <3>2 DEF AwaitedLink
    <2> QED BY <2>1, <2>2, <2>3, <2>4, <2>5, <2>6
  <1> SUFFICES ASSUME NEW m \in Links, m <= made', AwaitedLink(m)' PROVE Comers(m)' # {}
    BY DEF Awaited
  <1>7. AwaitedLink(m) /\ (m = l => caller[c].st # "acquire")
    BY <1>4, <1>6 DEF AwaitedLink
  <1>8. PICK d \in Comers(m) : TRUE BY <1>1, <1>7 DEF Awaited
  <1>9. d # c BY <1>1, <1>2, <1>7, <1>8 DEF Comers
  <1>10. d \in Comers(m)' BY <1>3, <1>8, <1>9 DEF Comers
  <1> QED BY <1>10

LEMMA AwaitedOthers ==
    ASSUME LinkInv, Awaited, Put \/ GC \/ (\E l \in Links : LinkExpires(l)) \/ UNCHANGED vars
    PROVE  Awaited'
  <1> USE DEF LinkInv
  <1>1. UNCHANGED <<made, caller>>
    BY DEF Put, PutUploads, PutInvalidates, PutLists, PutReturns, GC, LinkExpires, vars
  <1>2. \A m \in Links : /\ link'[m].kind = link[m].kind
                         /\ link'[m].closes = link[m].closes /\ link'[m].ref = link[m].ref
    <2>1. CASE link' = link BY <2>1
    <2>2. ASSUME NEW l \in Links, LinkExpires(l) PROVE <1>2
      <3>1. link' = [link EXCEPT ![l] = Aged(link[l])] BY <2>2 DEF LinkExpires, Aged
      <3>2. \A m \in Links : link'[m] = IF m = l THEN Aged(link[l]) ELSE link[m] BY <3>1 DEF Types
      <3>3. 0 \in 0..MaxPuts /\ link[l] \in LinkRec BY LinkParams DEF Types
      <3> QED BY <3>2, <3>3, AgeFields
    <2> QED BY <2>1, <2>2 DEF Put, PutUploads, PutInvalidates, PutLists, PutReturns, GC, vars
  <1> QED BY <1>1, <1>2, AwaitedQuiet

LEMMA NextAwaited == LinkInv /\ Awaited /\ [Next]_vars => Awaited'
  BY AwaitedCaller, AwaitedFlight, AwaitedLinks, AwaitedUse, AwaitedOthers DEF Next, Call, Close

\* The closers of a link run at most once, never while a caller holds a link that
\* requires its reference, and a link that nobody holds or is about to acquire has
\* been closed (io.go 195-234, link_lifecycle.go 31-34).
THEOREM LinksStayAlive == Spec => []SharedLinksAlive
  <1>1. Init => Awaited
    BY LinkParams DEF Init, Awaited, Links
  <1>2. LinkInv /\ Awaited => SharedLinksAlive
    <2> SUFFICES ASSUME LinkInv, Awaited, NEW l \in Links
                 PROVE  /\ link[l].closes <= 1
                        /\ link[l].kind = "reference" /\ Holders(l) # {} => link[l].closes = 0
                        /\ l <= made /\ link[l].kind # "ttl" /\ Holders(l) \cup Comers(l) = {}
                              => link[l].closes = 1
      BY DEF SharedLinksAlive
    <2>1. link[l].closes \in {0, 1} BY DEF LinkInv, Counted, CountOf
    <2>2. ASSUME link[l].kind = "reference", NEW c \in Holders(l) PROVE link[l].closes = 0
      <3>1. c \in Callers /\ caller[c].st \in Holding /\ caller[c].ol = l BY DEF Holders, Holding
      <3>2. OwnsRightly(c) BY <3>1 DEF LinkInv, Counted
      <3> QED BY <2>2, <3>1, <3>2 DEF OwnsRightly
    <2>3. ASSUME l <= made, link[l].kind # "ttl", Holders(l) = {}, Comers(l) = {}, link[l].closes = 0
          PROVE  FALSE
      <3>1. Owners(l) = {}
        BY <2>3 DEF Owners, Holders, Holding, LinkInv, Counted, OwnsRightly
      <3>2. link[l].ref = 0 BY <2>3, <3>1, FS_EmptySet DEF LinkInv, Counted, CountOf
      <3> QED BY <2>3, <3>2 DEF Awaited, AwaitedLink
    <2> QED BY <2>1, <2>2, <2>3
  <1> QED BY <1>1, <1>2, NextAwaited, LinkInvHolds, PTL DEF Spec

-----------------------------------------------------------------------------
(***************************************************************************)
(* How old a link may be.  Whoever is about to hold a link came before the *)
(* Puts that had invalidated the cache when its flight ended, and what the *)
(* cache holds is no older than the last invalidation.                     *)
(***************************************************************************)
DatedCaller(c) ==
    /\ caller[c].since <= done
    /\ caller[c].st \in {"acquire", "restore", "holding"} => link[caller[c].ol].until >= caller[c].since
    /\ caller[c].st \in {"set", "end"} => link[caller[c].ol].until = MaxPuts

DatedCache == current # Nil /\ maps[current] # Nil => link[maps[current]].until >= inv

Dated == (\A c \in Callers : DatedCaller(c)) /\ DatedCache

\* Links that were made keep their date.
DatesKept == \A m \in Links : m <= made => link'[m].until = link[m].until

LEMMA DatedKept ==
    ASSUME LinkInv, Dated, DatesKept, done \in Nat, done' \in Nat, done <= done',
           NEW d \in Callers, caller'[d] = caller[d]
    PROVE  DatedCaller(d)'
  <1>1. DatedCaller(d) /\ PlacedCaller(d) /\ caller[d] \in CallerRec
    BY DEF Dated, LinkInv, Placed, Types
  <1>2. caller[d].since \in Nat BY <1>1 DEF CallerRec
  <1>3. caller[d].ol \in Links \/ caller[d].ol = Nil BY <1>1 DEF CallerRec
  <1>4. caller'[d].since <= done' BY <1>1, <1>2 DEF DatedCaller
  <1>5. CASE caller[d].ol \in Links
    <2>1. caller[d].ol <= made
      BY <1>1, <1>5, LinkParams DEF PlacedCaller, Links
    <2>2. link'[caller[d].ol].until = link[caller[d].ol].until BY <1>5, <2>1 DEF DatesKept
    <2> QED BY <1>1, <1>4, <2>2 DEF DatedCaller
  <1>6. CASE caller[d].ol = Nil
    BY <1>1, <1>4, <1>6 DEF DatedCaller, PlacedCaller, Holding
  <1> QED BY <1>3, <1>5, <1>6

LEMMA DatedCacheKept ==
    ASSUME LinkInv, Dated, DatesKept, UNCHANGED <<cache, inv>>
    PROVE  DatedCache'
  <1>1. DatedCache /\ PlacedMaps /\ CacheTypes BY DEF Dated, LinkInv, Placed, Types
  <1> QED BY <1>1 DEF DatedCache, PlacedMaps, CacheTypes, DatesKept, cache

LEMMA PutFacts ==
    ASSUME LinkInv
    PROVE  /\ done \in Nat /\ inv \in Nat /\ done <= inv /\ inv <= MaxPuts /\ MaxPuts \in Nat /\ version \in Nat
           /\ inv <= version
           /\ \A l \in Links : link[l].until \in Nat
           /\ \A c \in Callers : caller[c].since \in Nat
  BY LinkParams DEF LinkInv, Types, PutTypes, LinkRec, CallerRec

LEMMA IdleDate == Idle.since = 0
  BY DEF Idle

\* A step of one caller that leaves the dates and the cache alone.
LEMMA DatedOne ==
    ASSUME LinkInv, Dated, DatesKept, NEW c \in Callers, NEW r \in CallerRec,
           caller' = [caller EXCEPT ![c] = r], UNCHANGED put, DatedCache', DatedCaller(c)'
    PROVE  Dated'
  <1>1. done \in Nat /\ done' = done BY PutFacts DEF put
  <1>2. ASSUME NEW d \in Callers, d # c PROVE DatedCaller(d)'
    <2>1. caller'[d] = caller[d] BY <1>2 DEF LinkInv, Types
    <2> QED BY <1>1, <2>1, DatedKept
  <1> QED BY <1>2 DEF Dated

LEMMA DatedUse ==
    ASSUME LinkInv, Dated, NEW c \in Callers,
           Acquire(c) \/ AcquireFails(c) \/ CloseLoads(c) \/ CloseSwaps(c)
    PROVE  Dated'
  <1> USE DEF LinkInv
  <1>1. UNCHANGED <<cache, put>> BY DEF Acquire, AcquireFails, CloseLoads, CloseSwaps
  <1>2. caller[c].st \in Holding \cup {"acquire", "restore"}
    BY DEF Acquire, AcquireFails, CloseLoads, CloseSwaps, At, Holding
  <1>3. PICK l \in Links : caller[c].ol = l /\ caller[c] \in CallerRec /\ l <= made /\ l \in Nat
    BY <1>2, CallerFacts DEF PlacedCaller, Holding
  <1>4. link[l].ref \in Int /\ caller[c].ref \in Nat BY <1>3 DEF Types, LinkRec, CallerRec
  <1>5. \A m \in Links : link'[m].until = link[m].until
    <2>1. CASE link' = link BY <2>1
    <2>2. CASE \E n \in Int : link' = [link EXCEPT ![l] = Counting(link[l], n)]
      BY <2>2, CountingStep
    <2>3. CASE link' = [link EXCEPT ![l] = ClosedWith(link[l], closersClosed)]
      BY <2>3, Mark, ClosedStep
    <2>4. CASE Acquire(c)
      <3>1. link[l].ref + 1 \in Int BY <1>4
      <3> QED BY <1>3, <2>1, <2>2, <2>4, <3>1 DEF Acquire, Counting
    <2>5. CASE AcquireFails(c)
      BY <1>3, <2>2, <2>5, Mark DEF AcquireFails, Counting
    <2>6. CASE CloseLoads(c) BY <2>1, <2>6 DEF CloseLoads
    <2>7. CASE CloseSwaps(c)
      <3>1. caller[c].ref - 1 \in Int BY <1>4
      <3> QED BY <1>3, <2>1, <2>2, <2>3, <2>7, <3>1 DEF CloseSwaps, Counting, ClosedWith
    <2> QED BY <2>4, <2>5, <2>6, <2>7
  <1>6. PICK r \in CallerRec : /\ caller' = [caller EXCEPT ![c] = r]
                               /\ \/ r.ol = l /\ r.since = caller[c].since
                                     /\ (r.st \in {"restore", "holding"} => caller[c].st \in {"acquire", "restore"})
                                     /\ r.st \in Holding \cup {"restore"}
                                  \/ r.st = "do" /\ r.since = caller[c].since
                                  \/ r.st = "swap" /\ r.since = 0
                                  \/ r = Idle
    <2>1. CASE Acquire(c)
      <3>1. PICK st \in {"a", "b", "c"} :
                /\ st = "a" => caller' = [caller EXCEPT ![c] = HeldBy(caller[c], FALSE)]
                /\ st = "b" => caller' = [caller EXCEPT ![c] = HeldBy(caller[c], TRUE)]
                /\ st = "c" => caller' = [caller EXCEPT ![c] = Moved(caller[c], "restore")]
        BY <2>1 DEF Acquire, Held, HeldBy, To, Moved
      <3>2. "restore" \in Stages BY DEF Stages
      <3>3. caller[c].st = "acquire" BY <2>1 DEF Acquire, At
      <3>4. CASE st = "a" BY <1>3, <3>1, <3>3, <3>4, HeldFields DEF Holding
      <3>5. CASE st = "b" BY <1>3, <3>1, <3>3, <3>5, HeldFields DEF Holding
      <3>6. CASE st = "c" BY <1>3, <3>1, <3>2, <3>3, <3>6, MovedFields DEF Holding
      <3> QED BY <3>4, <3>5, <3>6
    <2>2. CASE AcquireFails(c)
      <3>1. \/ caller' = [caller EXCEPT ![c] = Asking(caller[c].since)]
            \/ caller' = [caller EXCEPT ![c] = HeldBy(caller[c], FALSE)]
        BY <2>2 DEF AcquireFails, ToDo, Asking, Held, HeldBy
      <3>2. caller[c].st = "restore" BY <2>2 DEF AcquireFails, At
      <3>3. CASE caller' = [caller EXCEPT ![c] = Asking(caller[c].since)]
        BY <3>3, CallerFacts, AskingFields
      <3>4. CASE caller' = [caller EXCEPT ![c] = HeldBy(caller[c], FALSE)]
        BY <1>3, <3>2, <3>4, HeldFields DEF Holding
      <3> QED BY <3>1, <3>3, <3>4
    <2>3. CASE CloseLoads(c)
      <3>1. CASE link[l].ref < 0
        BY <1>3, <2>3, <3>1, IdleType DEF CloseLoads
      <3>2. CASE ~(link[l].ref < 0)
        <4>1. caller' = [caller EXCEPT ![c] = Swapping(caller[c], link[l].ref)]
          BY <1>3, <2>3, <3>2 DEF CloseLoads, Swapping
        <4>2. link[l].ref \in Nat BY <1>4, <3>2
        <4> QED BY <1>3, <4>1, <4>2, SwappingFields
      <3> QED BY <3>1, <3>2
    <2>4. CASE CloseSwaps(c)
      <3>1. \/ caller' = [caller EXCEPT ![c] = Moved(caller[c], "closing")]
            \/ caller' = [caller EXCEPT ![c] = Idle]
        BY <2>4 DEF CloseSwaps, To, Moved
      <3>2. "closing" \in Stages BY DEF Stages
      <3>3. CASE caller' = [caller EXCEPT ![c] = Moved(caller[c], "closing")]
        BY <1>3, <3>2, <3>3, MovedFields DEF Holding
      <3> QED BY <3>1, <3>3, IdleType
    <2> QED BY <2>1, <2>2, <2>3, <2>4
  <1>7. DatedCaller(c)'
    <2>1. caller'[c] = r BY <1>6 DEF Types
    <2>2. DatedCaller(c) BY DEF Dated
    <2>3. done' = done /\ done \in Nat BY <1>1, PutFacts DEF put
    <2>4. link'[l].until = link[l].until BY <1>5
    <2>5. CASE r = Idle \/ (r.st = "swap" /\ r.since = 0)
      BY <2>1, <2>3, <2>5, IdleDate, IdleType DEF DatedCaller
    <2>6. CASE r.st = "do" /\ r.since = caller[c].since
      BY <2>1, <2>2, <2>3, <2>6 DEF DatedCaller
    <2>7. CASE /\ r.ol = l /\ r.since = caller[c].since
               /\ (r.st \in {"restore", "holding"} => caller[c].st \in {"acquire", "restore"})
               /\ r.st \in Holding \cup {"restore"}
      BY <1>3, <2>1, <2>2, <2>3, <2>4, <2>7 DEF DatedCaller, Holding
    <2> QED BY <1>6, <2>5, <2>6, <2>7
  <1>8. DatesKept BY <1>5 DEF DatesKept
  <1> QED BY <1>1, <1>6, <1>7, <1>8, DatedCacheKept, DatedOne DEF put

LEMMA DatedLook ==
    ASSUME LinkInv, Dated, NEW c \in Callers, LinkLooks(c)
    PROVE  Dated'
  <1> USE DEF LinkInv
  <1>1. UNCHANGED <<link, cache, put>> BY DEF LinkLooks
  <1>2. DatesKept /\ DatedCache' BY <1>1, DatedCacheKept DEF DatesKept, put
  <1>3. PICK l \in Links \cup {Nil}, st \in {"do", "purge", "acquire"}, m \in Links \cup {Nil} :
            /\ caller' = [caller EXCEPT ![c] = Found(st, l, done, m)]
            /\ st = "acquire" => l # Nil /\ current # Nil /\ l = maps[current]
    <2> DEFINE l == IF current = Nil THEN Nil ELSE maps[current]
    <2>1. l \in Links \cup {Nil} /\ current \in Links \cup {Nil} BY DEF Types, CacheTypes
    <2>2. CASE l = Nil
      BY <2>1, <2>2 DEF LinkLooks, Found
    <2>3. CASE l # Nil /\ Expired(l)
      BY <2>1, <2>3 DEF LinkLooks, Found
    <2>4. CASE l # Nil /\ ~Expired(l)
      BY <2>1, <2>4 DEF LinkLooks, Found
    <2> QED BY <2>2, <2>3, <2>4
  <1> DEFINE r == Found(st, l, done, m)
  <1>4. r \in CallerRec /\ r.st = st /\ r.ol = l /\ r.since = done
    <2>1. st \in Stages /\ done \in 0..MaxPuts BY LinkParams DEF Stages, Types, PutTypes
    <2> QED BY <2>1, FoundFields
  <1>5. caller' = [caller EXCEPT ![c] = r] BY <1>3
  <1> HIDE DEF r
  <1>6. DatedCaller(c)'
    <2>1. caller'[c] = r BY <1>5 DEF Types
    <2>2. done' = done /\ done \in Nat BY <1>1, PutFacts DEF put
    <2>3. ASSUME st = "acquire" PROVE link'[l].until >= done
      <3>1. l \in Links /\ link[l].until >= inv BY <1>3, <2>3 DEF Dated, DatedCache
      <3> QED BY <1>1, <3>1, PutFacts
    <2> QED BY <1>4, <2>1, <2>2, <2>3 DEF DatedCaller
  <1> QED BY <1>1, <1>2, <1>4, <1>5, <1>6, DatedOne DEF put

LEMMA DatedPurge ==
    ASSUME LinkInv, Dated, NEW c \in Callers, GetTypePurges(c)
    PROVE  Dated'
  <1> USE DEF LinkInv
  <1>1. UNCHANGED <<link, put>> /\ caller' = [caller EXCEPT ![c] = Asking(caller[c].since)]
    BY DEF GetTypePurges, ToDo, Asking
  <1>2. DatesKept BY <1>1 DEF DatesKept
  <1>3. DatedCache'
    <2>1. CASE UNCHANGED cache BY <1>1, <1>2, <2>1, DatedCacheKept DEF put
    <2>2. CASE current' = Nil BY <2>2 DEF DatedCache
    <2> QED BY <2>1, <2>2 DEF GetTypePurges
  <1>4. /\ Asking(caller[c].since) \in CallerRec /\ Asking(caller[c].since).st = "do"
        /\ Asking(caller[c].since).since = caller[c].since
    BY CallerFacts, AskingFields
  <1>5. DatedCaller(c)'
    <2>1. caller'[c] = Asking(caller[c].since) BY <1>1 DEF Types
    <2>2. caller[c].since <= done /\ done' = done BY <1>1 DEF Dated, DatedCaller, put
    <2> QED BY <1>4, <2>1, <2>2 DEF DatedCaller
  <1> QED BY <1>1, <1>2, <1>3, <1>4, <1>5, DatedOne

\* The end of a flight: those who are given the link came before it ended.
LEMMA DatedReturn ==
    ASSUME LinkInv, Dated, NEW c \in Callers, NEW l \in Links \cup {Nil}, FlightReturns(c, l),
           UNCHANGED put, DatedCache',
           l # Nil => link'[l].until = inv,
           \A d \in Callers : d # c /\ ~At(d, "wait") => DatedCaller(d)'
    PROVE  Dated'
  <1> USE DEF LinkInv
  <1>1. ASSUME NEW d \in Callers, ~(d # c /\ ~At(d, "wait")) PROVE DatedCaller(d)'
    <2>1. caller'[d] = IF l = Nil THEN Idle ELSE Given(l, caller[d].since)
      BY <1>1 DEF FlightReturns, Given
    <2>2. done' = done /\ done \in Nat /\ inv \in Nat /\ done <= inv /\ caller[d].since \in Nat
      BY PutFacts DEF put
    <2>3. caller[d].since <= done BY DEF Dated, DatedCaller
    <2>4. CASE l = Nil
      BY <2>1, <2>2, <2>4, IdleType, IdleDate DEF DatedCaller
    <2>5. CASE l # Nil
      <3>1. /\ Given(l, caller[d].since).st = "acquire" /\ Given(l, caller[d].since).ol = l
            /\ Given(l, caller[d].since).since = caller[d].since
        BY <2>5, CallerFacts, GivenFields
      <3>2. inv >= caller[d].since BY <2>2, <2>3
      <3> QED BY <2>1, <2>2, <2>3, <2>5, <3>1, <3>2 DEF DatedCaller
    <2> QED BY <2>4, <2>5
  <1> QED BY <1>1 DEF Dated

LEMMA DatedNone ==
    ASSUME LinkInv, Dated, DatesKept, NEW c \in Callers, FlightReturns(c, Nil), UNCHANGED <<cache, put>>
    PROVE  Dated'
  <1>1. DatedCache' BY DatedCacheKept DEF put
  <1>2. ASSUME NEW d \in Callers, d # c, ~At(d, "wait") PROVE DatedCaller(d)'
    <2>1. caller'[d] = caller[d] BY <1>2 DEF FlightReturns
    <2>2. done' = done /\ done \in Nat BY PutFacts DEF put
    <2> QED BY <2>1, <2>2, DatedKept
  <1> QED BY <1>1, <1>2, DatedReturn

LEMMA DatedDo ==
    ASSUME LinkInv, Dated, NEW c \in Callers, Do(c)
    PROVE  Dated'
  <1> USE DEF LinkInv
  <1>1. UNCHANGED <<link, cache, put>> BY DEF Do
  <1>2. DatesKept /\ DatedCache' BY <1>1, DatedCacheKept DEF DatesKept, put
  <1>3. PICK st \in {"get", "wait"} : caller' = [caller EXCEPT ![c] = Moved(caller[c], st)]
    BY DEF Do, To, Moved
  <1>4. /\ Moved(caller[c], st) \in CallerRec /\ Moved(caller[c], st).st = st
        /\ Moved(caller[c], st).since = caller[c].since
    <2>1. st \in Stages BY DEF Stages
    <2> QED BY <2>1, CallerFacts, MovedFields
  <1>5. DatedCaller(c)'
    <2>1. caller'[c] = Moved(caller[c], st) BY <1>3 DEF Types
    <2>2. caller[c].since <= done /\ done' = done BY <1>1 DEF Dated, DatedCaller, put
    <2> QED BY <1>4, <2>1, <2>2 DEF DatedCaller
  <1> QED BY <1>1, <1>2, <1>3, <1>4, <1>5, DatedOne

LEMMA DatedGets ==
    ASSUME LinkInv, Dated, NEW c \in Callers, FlightGets(c)
    PROVE  Dated'
  <1> USE DEF LinkInv
  <1>1. UNCHANGED <<link, cache, put>> BY DEF FlightGets
  <1>2. DatesKept /\ DatedCache' BY <1>1, DatedCacheKept DEF DatesKept, put
  <1>3. CASE FlightReturns(c, Nil) BY <1>1, <1>2, <1>3, DatedNone
  <1>4. CASE caller' = [caller EXCEPT ![c].st = "link", ![c].version = listed]
    <2>1. caller' = [caller EXCEPT ![c] = Linking(caller[c], listed)] BY <1>4 DEF Linking
    <2>2. /\ Linking(caller[c], listed) \in CallerRec /\ Linking(caller[c], listed).st = "link"
          /\ Linking(caller[c], listed).since = caller[c].since
      <3>1. listed \in 0..MaxPuts BY LinkParams DEF Types, PutTypes
      <3> QED BY <3>1, CallerFacts, LinkingFields
    <2>3. DatedCaller(c)'
      <3>1. caller'[c] = Linking(caller[c], listed) BY <2>1 DEF Types
      <3>2. caller[c].since <= done /\ done' = done BY <1>1 DEF Dated, DatedCaller, put
      <3> QED BY <2>2, <3>1, <3>2 DEF DatedCaller
    <2> QED BY <1>1, <1>2, <2>1, <2>2, <2>3, DatedOne
  <1> QED BY <1>3, <1>4 DEF FlightGets

LEMMA DatedLinks ==
    ASSUME LinkInv, Dated, NEW c \in Callers, FlightLinks(c)
    PROVE  Dated'
  <1> USE DEF LinkInv
  <1>1. UNCHANGED <<cache, put>> BY DEF FlightLinks
  <1>2. DatesKept
    <2>1. link' = link \/ \E f : link' = [link EXCEPT ![made + 1] = f] BY DEF FlightLinks
    <2>2. made \in Nat BY DEF Types
    <2>3. ASSUME NEW f, link' = [link EXCEPT ![made + 1] = f], NEW m \in Links, m <= made
          PROVE  link'[m].until = link[m].until
      <3>1. m \in Nat /\ m # made + 1 BY <2>2, <2>3 DEF Links
      <3> QED BY <2>3, <3>1 DEF Types
    <2> QED BY <2>1, <2>3 DEF DatesKept
  <1>3. CASE FlightReturns(c, Nil) BY <1>1, <1>2, <1>3, DatedNone
  <1>4. ASSUME NEW kind \in Kinds, made < MaxLinks, made' = made + 1,
               link' = [link EXCEPT ![made'] = Fresh(kind, caller[c].version)],
               caller' = [caller EXCEPT ![c].st = "set", ![c].ol = made']
        PROVE  Dated'
    <2>1. PICK n \in Links : n = made + 1 /\ made' = n BY <1>4, LinkParams DEF Types, Links
    <2>2. caller' = [caller EXCEPT ![c] = Setting(caller[c], n)] BY <1>4, <2>1 DEF Setting
    <2>3. /\ Setting(caller[c], n) \in CallerRec /\ Setting(caller[c], n).st = "set"
          /\ Setting(caller[c], n).ol = n /\ Setting(caller[c], n).since = caller[c].since
      BY CallerFacts, SettingFields
    <2>4. link'[n].until = MaxPuts
      <3>1. caller[c].version \in 0..MaxPuts BY CallerFacts DEF CallerRec
      <3>2. link'[n] = Fresh(kind, caller[c].version) BY <1>4, <2>1 DEF Types
      <3> QED BY <3>1, <3>2, FreshFields
    <2>5. DatedCaller(c)'
      <3>1. caller'[c] = Setting(caller[c], n) BY <2>2 DEF Types
      <3>2. caller[c].since <= done /\ done' = done BY <1>1 DEF Dated, DatedCaller, put
      <3> QED BY <2>3, <2>4, <3>1, <3>2 DEF DatedCaller
    <2>6. DatedCache' BY <1>1, <1>2, DatedCacheKept DEF put
    <2> QED BY <1>1, <1>2, <2>2, <2>3, <2>5, <2>6, DatedOne
  <1> QED BY <1>3, <1>4 DEF FlightLinks

LEMMA DatedCaches ==
    ASSUME LinkInv, Dated, NEW c \in Callers, FlightCaches(c)
    PROVE  Dated'
  <1> USE DEF LinkInv
  <1>1. /\ caller[c].st = "set" /\ UNCHANGED <<link, put>>
        /\ caller' = [caller EXCEPT ![c] = Moved(caller[c], "end")]
    BY DEF FlightCaches, At, To, Moved
  <1>2. PICK l \in Links : caller[c].ol = l BY <1>1, CallerFacts DEF PlacedCaller
  <1>3. link[l].until = MaxPuts BY <1>1, <1>2 DEF Dated, DatedCaller
  <1>4. DatesKept BY <1>1 DEF DatesKept
  <1>5. DatedCache'
    <2>1. PICK g \in Links : current' = g /\ maps' = [maps EXCEPT ![g] = l]
      BY <1>2 DEF FlightCaches, Types, CacheTypes
    <2>2. maps'[current'] = l BY <2>1 DEF Types, CacheTypes
    <2> QED BY <1>1, <1>3, <2>2, PutFacts DEF DatedCache, put
  <1>6. /\ Moved(caller[c], "end") \in CallerRec /\ Moved(caller[c], "end").st = "end"
        /\ Moved(caller[c], "end").since = caller[c].since /\ Moved(caller[c], "end").ol = l
    <2>1. "end" \in Stages BY DEF Stages
    <2> QED BY <2>1, <1>2, CallerFacts, MovedFields
  <1>7. DatedCaller(c)'
    <2>1. caller'[c] = Moved(caller[c], "end") BY <1>1 DEF Types
    <2>2. caller[c].since <= done /\ done' = done BY <1>1 DEF Dated, DatedCaller, put
    <2> QED BY <1>1, <1>3, <1>6, <2>1, <2>2 DEF DatedCaller
  <1> QED BY <1>1, <1>4, <1>5, <1>6, <1>7, DatedOne

LEMMA DatedEnds ==
    ASSUME LinkInv, Dated, NEW c \in Callers, FlightEnds(c)
    PROVE  Dated'
  <1> USE DEF LinkInv
  <1>1. caller[c].st = "end" /\ UNCHANGED <<made, cache, calls, put>> BY DEF FlightEnds, At
  <1>2. PICK l \in Links : caller[c].ol = l BY <1>1, CallerFacts DEF PlacedCaller
  <1>3. FlightReturns(c, l) /\ link' = [link EXCEPT ![l] = Ended(link[l], inv)]
    BY <1>2 DEF FlightEnds, Ended
  <1>4. link'[l].until = inv /\ \A m \in Links : m # l => link'[m] = link[m]
    <2>1. link'[l] = Ended(link[l], inv) /\ \A m \in Links : m # l => link'[m] = link[m]
      BY <1>3 DEF Types
    <2>2. link[l] \in LinkRec /\ inv \in 0..MaxPuts BY LinkParams DEF Types, PutTypes
    <2>3. Ended(link[l], inv).until = inv BY <2>2, AgeFields
    <2> QED BY <2>1, <2>3
  <1>5. DatedCache'
    <2>1. DatedCache /\ CacheTypes /\ inv \in Nat BY PutFacts DEF Dated, Types
    <2> QED BY <1>1, <1>4, <2>1 DEF DatedCache, CacheTypes, cache, put
  <1>6. ASSUME NEW d \in Callers, d # c, ~At(d, "wait") PROVE DatedCaller(d)'
    <2>1. caller'[d] = caller[d] BY <1>3, <1>6 DEF FlightReturns
    <2>2. done' = done /\ done \in Nat /\ inv \in Nat /\ done <= inv /\ caller[d].since \in Nat
      BY <1>1, PutFacts DEF put
    <2>3. DatedCaller(d) /\ caller[d].since <= inv BY <2>2 DEF Dated, DatedCaller
    <2>4. caller[d].st \notin Flying
      <3>1. flight = c BY <1>1, CallerFacts DEF PlacedCaller, Flying
      <3> QED BY <3>1, <1>6, CallerFacts DEF PlacedCaller
    <2>5. CASE caller[d].ol = l
      BY <1>4, <2>1, <2>2, <2>3, <2>4, <2>5 DEF DatedCaller, Flying
    <2>6. CASE caller[d].ol # l
      <3>1. caller[d].st \in {"acquire", "restore", "holding"} => caller[d].ol \in Links
        BY CallerFacts DEF PlacedCaller, Holding
      <3> QED BY <1>4, <2>1, <2>2, <2>3, <2>4, <2>6, <3>1 DEF DatedCaller, Flying
    <2> QED BY <2>5, <2>6
  <1> QED BY <1>1, <1>3, <1>4, <1>5, <1>6, DatedReturn DEF put

LEMMA DatedOthers ==
    ASSUME LinkInv, Dated, Put \/ GC \/ (\E l \in Links : LinkExpires(l)) \/ UNCHANGED vars
    PROVE  Dated'
  <1> USE DEF LinkInv
  <1>1. UNCHANGED caller
    BY DEF Put, PutUploads, PutInvalidates, PutLists, PutReturns, GC, LinkExpires, vars
  <1>2. done \in Nat /\ done' \in Nat /\ done <= done'
    BY PutFacts DEF Put, PutUploads, PutInvalidates, PutLists, PutReturns, GC, LinkExpires, vars, put
  <1>3. \A m \in Links : link'[m].until = link[m].until
    <2>1. CASE link' = link BY <2>1
    <2>2. ASSUME NEW l \in Links, LinkExpires(l) PROVE <1>3
      <3>1. link' = [link EXCEPT ![l] = Aged(link[l])] BY <2>2 DEF LinkExpires, Aged
      <3>2. \A m \in Links : link'[m] = IF m = l THEN Aged(link[l]) ELSE link[m] BY <3>1 DEF Types
      <3>3. 0 \in 0..MaxPuts /\ link[l] \in LinkRec BY LinkParams DEF Types
      <3> QED BY <3>2, <3>3, AgeFields
    <2> QED BY <2>1, <2>2 DEF Put, PutUploads, PutInvalidates, PutLists, PutReturns, GC, vars
  <1>4. DatesKept BY <1>3 DEF DatesKept
  <1>5. DatedCache'
    <2>1. CASE UNCHANGED <<cache, inv>> BY <1>4, <2>1, DatedCacheKept
    <2>2. CASE current' = Nil BY <2>2 DEF DatedCache
    <2> QED BY <2>1, <2>2 DEF Put, PutUploads, PutInvalidates, PutLists, PutReturns, GC, LinkExpires, vars, put
  <1>6. ASSUME NEW d \in Callers PROVE DatedCaller(d)' BY <1>1, <1>2, <1>4, DatedKept
  <1> QED BY <1>5, <1>6 DEF Dated

LEMMA InitDated == Init => Dated
  <1> SUFFICES ASSUME Init PROVE Dated OBVIOUS
  <1>1. \A c \in Callers : caller[c] = Idle BY DEF Init
  <1> QED BY <1>1, IdleType, IdleDate DEF Init, Dated, DatedCaller, DatedCache

LEMMA NextDated == LinkInv /\ Dated /\ [Next]_vars => Dated'
  BY DatedLook, DatedPurge, DatedUse, DatedDo, DatedGets, DatedLinks, DatedCaches, DatedEnds, DatedOthers
  DEF Next, Call, Close

\* Whoever asks for a link after a Put has returned is given one to the content
\* before it only if that link was still being made while the Put ran
\* (fs.go 251-284 against 693).
THEOREM StaleLinksRaced == Spec => []StaleOnlyIfRaced
  <1>1. LinkInv /\ Dated => StaleOnlyIfRaced
    BY DEF Dated, DatedCaller, StaleOnlyIfRaced, At
  <1> QED BY <1>1, InitDated, NextDated, LinkInvHolds, PTL DEF Spec
=============================================================================
