------------------------------ MODULE FileLinks ------------------------------
(***************************************************************************)
(* Links to one file of a storage: op.Link with its cache, its single      *)
(* flight and the reference counts of shared links (internal/op/fs.go,     *)
(* link_lifecycle.go, internal/cache/typed_cache.go,                       *)
(* pkg/singleflight/singleflight.go, SyncClosers of pkg/utils/io.go), while *)
(* the file is replaced by Put.  Requests run concurrently; a step is a    *)
(* critical section or one atomic operation on a reference count.  The     *)
(* driver is external: it makes links of any kind, or fails.               *)
(*                                                                         *)
(* Only one key and one type of it are modelled: other keys share nothing. *)
(* The content of the file is its version, the number of Puts so far.      *)
(***************************************************************************)
EXTENDS Integers, FiniteSets

CONSTANTS
    Callers,   \* requests that ask for a link, use it and close it, repeatedly
    MaxCalls,  \* bound on the calls of Link
    MaxLinks,  \* bound on the links the driver makes
    MaxPuts,   \* bound on the Puts
    Nil

ASSUME LinkParams ==
    /\ IsFiniteSet(Callers) /\ Nil \notin Callers
    /\ MaxCalls \in Nat /\ MaxLinks \in Nat /\ MaxPuts \in Nat /\ Nil \notin Nat

VARIABLES
    link,    \* the links, by the order in which the driver made them
    made,    \* how many there are
    maps,    \* the inner maps the cache had for the key, by the first link of each:
             \* the link it holds, or Nil
    current, \* the inner map the cache has now, or Nil
    flight,  \* the caller whose function runs in linkG, or Nil
    caller,
    calls,   \* what MaxCalls counts
    version, \* Puts the driver has done
    listed,  \* the version that a look at the directory finds
    inv,     \* Puts that have invalidated the cached links
    done     \* Puts that have returned

cache == <<maps, current>>
put   == <<version, listed, inv, done>>
vars  == <<link, made, cache, flight, caller, calls, put>>

Links == 1..MaxLinks

\* With an expiration; closed when the last reference is, and of no use after
\* that; closed the same way but still of use.
Kinds == {"ttl", "reference", "plain"}

\* math.MinInt32: it stays negative however many callers add to it.
closersClosed == -1 - Cardinality(Callers)

\* A link as the driver makes it; until: history, how many Puts had invalidated
\* the cache when the flight that made it ended.
Fresh(kind, v) ==
    [kind |-> kind, version |-> v, ref |-> 0, closes |-> 0, expired |-> FALSE, until |-> MaxPuts]

Idle == [st |-> "idle", ol |-> Nil, since |-> 0, map |-> Nil, version |-> 0, ref |-> 0, owns |-> FALSE]

Init ==
    /\ link = [l \in Links |-> Fresh("plain", 0)] /\ made = 0
    /\ maps = [l \in Links |-> Nil] /\ current = Nil
    /\ flight = Nil
    /\ caller = [c \in Callers |-> Idle] /\ calls = 0
    /\ version = 0 /\ listed = 0 /\ inv = 0 /\ done = 0

At(c, st) == caller[c].st = st

To(c, st) == [caller EXCEPT ![c].st = st]

ToDo(c) == [caller EXCEPT ![c] = [Idle EXCEPT !.st = "do", !.since = caller[c].since]]

\* CacheEntry.Expired: by its time, or because the link is closed.
Expired(l) == IF link[l].kind = "ttl" THEN link[l].expired ELSE link[l].ref < 0

-----------------------------------------------------------------------------
\* Link looks into the cache (GetType).  An entry that has expired is removed in a
\* second critical section, from the map it was found in.

LinkLooks(c) ==
    /\ At(c, "idle") /\ calls < MaxCalls /\ calls' = calls + 1
    /\ LET l == IF current = Nil THEN Nil ELSE maps[current]
       IN  caller' = [caller EXCEPT ![c] = [Idle EXCEPT
                !.since = done, !.ol = l,
                !.map = IF l # Nil /\ Expired(l) THEN current ELSE Nil,
                !.st = IF l = Nil THEN "do" ELSE IF Expired(l) THEN "purge" ELSE "acquire"]]
    /\ UNCHANGED <<link, made, cache, flight, put>>

GetTypePurges(c) ==
    /\ At(c, "purge")
    /\ IF maps[caller[c].map] = caller[c].ol
       THEN maps' = [maps EXCEPT ![caller[c].map] = Nil] /\ current' = Nil
       ELSE UNCHANGED cache
    /\ caller' = ToDo(c)
    /\ UNCHANGED <<link, made, flight, calls, put>>

-----------------------------------------------------------------------------
\* acquire, for what the cache or the flight gave.  A link with an expiration has no
\* references to count; one that only may be closed is returned although it is.

Held(c, owns) == [caller EXCEPT ![c].st = "holding", ![c].owns = owns]

Acquire(c) ==
    LET l == caller[c].ol
    IN  /\ At(c, "acquire")
        /\ IF link[l].kind = "ttl"
           THEN caller' = Held(c, FALSE) /\ UNCHANGED link
           ELSE /\ link' = [link EXCEPT ![l].ref = @ + 1]
                /\ caller' = IF link[l].ref + 1 > 0 THEN Held(c, TRUE) ELSE To(c, "restore")
        /\ UNCHANGED <<made, cache, flight, calls, put>>

\* The link was closed: the mark is put back, and a link that requires its
\* reference is asked for again.
AcquireFails(c) ==
    LET l == caller[c].ol
    IN  /\ At(c, "restore")
        /\ link' = [link EXCEPT ![l].ref = closersClosed]
        /\ caller' = IF link[l].kind = "reference" THEN ToDo(c) ELSE Held(c, FALSE)
        /\ UNCHANGED <<made, cache, flight, calls, put>>

\* SyncClosers.Close: load, then compare and swap; the last reference runs the closers.
CloseLoads(c) ==
    LET r == link[caller[c].ol].ref
    IN  /\ At(c, "holding") \/ At(c, "closing")
        /\ caller' = IF r < 0 THEN [caller EXCEPT ![c] = Idle]
                              ELSE [caller EXCEPT ![c].st = "swap", ![c].ref = r, ![c].since = 0]
        /\ UNCHANGED <<link, made, cache, flight, calls, put>>

\* Mutant: the reference count is stored without the comparison.
CloseStores(c) ==
    LET l == caller[c].ol
        r == caller[c].ref
    IN  /\ At(c, "swap")
        /\ link' = IF r > 1 THEN [link EXCEPT ![l].ref = r - 1]
                   ELSE [link EXCEPT ![l].ref = closersClosed, ![l].closes = @ + 1]
        /\ caller' = [caller EXCEPT ![c] = Idle]
        /\ UNCHANGED <<made, cache, flight, calls, put>>

\* Mutant: only the last reference is given back.
CloseKeepsCount(c) ==
    LET l == caller[c].ol
        r == caller[c].ref
    IN  /\ At(c, "swap")
        /\ IF link[l].ref # r
           THEN caller' = To(c, "closing") /\ UNCHANGED link
           ELSE /\ link' = IF r > 1 THEN link
                           ELSE [link EXCEPT ![l].ref = closersClosed, ![l].closes = @ + 1]
                /\ caller' = [caller EXCEPT ![c] = Idle]
        /\ UNCHANGED <<made, cache, flight, calls, put>>

CloseSwaps(c) ==
    LET l == caller[c].ol
        r == caller[c].ref
    IN  /\ At(c, "swap")
        /\ IF link[l].ref # r
           THEN caller' = To(c, "closing") /\ UNCHANGED link
           ELSE /\ link' = IF r > 1 THEN [link EXCEPT ![l].ref = r - 1]
                           ELSE [link EXCEPT ![l].ref = closersClosed, ![l].closes = @ + 1]
                /\ caller' = [caller EXCEPT ![c] = Idle]
        /\ UNCHANGED <<made, cache, flight, calls, put>>

-----------------------------------------------------------------------------
\* linkG.Do: the first caller runs the function, the others wait for its result.

Do(c) ==
    /\ At(c, "do")
    /\ IF flight = Nil THEN flight' = c /\ caller' = To(c, "get")
                       ELSE caller' = To(c, "wait") /\ UNCHANGED flight
    /\ UNCHANGED <<link, made, cache, calls, put>>

\* Mutant: those who wait for the flight are not told.
FlightReturnsAlone(c, l) ==
    /\ flight' = Nil
    /\ caller' = [caller EXCEPT ![c] = IF l = Nil THEN Idle
                    ELSE [Idle EXCEPT !.st = "acquire", !.ol = l, !.since = caller[c].since]]

\* The end of doCall: everyone has the result, an error is returned.
FlightReturns(c, l) ==
    /\ flight' = Nil
    /\ caller' = [d \in Callers |->
                    IF d # c /\ ~At(d, "wait") THEN caller[d]
                    ELSE IF l = Nil THEN Idle
                    ELSE [Idle EXCEPT !.st = "acquire", !.ol = l, !.since = caller[d].since]]

\* GetUnwrap: what is listed, or an error.
FlightGets(c) ==
    /\ At(c, "get")
    /\ \/ caller' = [caller EXCEPT ![c].st = "link", ![c].version = listed] /\ UNCHANGED flight
       \/ FlightReturns(c, Nil)
    /\ UNCHANGED <<link, made, cache, calls, put>>

\* storage.Link and admitLink: a link, or an error.  One with an expiration that
\* also owns closers is closed at once, which is an error too.
FlightLinks(c) ==
    /\ At(c, "link")
    /\ \/ /\ made < MaxLinks /\ made' = made + 1
          /\ \/ \E kind \in Kinds :
                    /\ link' = [link EXCEPT ![made'] = Fresh(kind, caller[c].version)]
                    /\ caller' = [caller EXCEPT ![c].st = "set", ![c].ol = made']
                    /\ UNCHANGED flight
             \/ /\ link' = [link EXCEPT ![made'] =
                        [Fresh("ttl", caller[c].version) EXCEPT !.ref = closersClosed, !.closes = 1]]
                /\ FlightReturns(c, Nil)
       \/ FlightReturns(c, Nil) /\ UNCHANGED <<link, made>>
    /\ UNCHANGED <<cache, calls, put>>

\* SetTypeWithTTL and SetTypeWithExpirable.
FlightCaches(c) ==
    LET l == caller[c].ol
        g == IF current = Nil THEN l ELSE current
    IN  /\ At(c, "set")
        /\ current' = g /\ maps' = [maps EXCEPT ![g] = l]
        /\ caller' = To(c, "end")
        /\ UNCHANGED <<link, made, flight, calls, put>>

FlightEnds(c) ==
    /\ At(c, "end")
    /\ link' = [link EXCEPT ![caller[c].ol].until = inv]
    /\ FlightReturns(c, caller[c].ol)
    /\ UNCHANGED <<made, cache, calls, put>>

-----------------------------------------------------------------------------
\* Put replaces the file at the driver, drops the cached links, then brings the
\* cached listing up to date.

PutUploads ==
    /\ version = done /\ version < MaxPuts /\ version' = version + 1
    /\ UNCHANGED <<link, made, cache, flight, caller, calls, listed, inv, done>>

\* Mutant: the links stay cached.
PutKeepsLinks ==
    /\ inv < version /\ inv' = version
    /\ UNCHANGED <<link, made, cache, flight, caller, calls, version, listed, done>>

\* DeleteKey drops the inner map, whoever still looks at it.
PutInvalidates ==
    /\ inv < version /\ inv' = version
    /\ current' = Nil
    /\ UNCHANGED <<link, made, maps, flight, caller, calls, version, listed, done>>

\* A listing that is not cached is up to date from the start.
PutLists ==
    /\ listed' = version /\ listed < version
    /\ UNCHANGED <<link, made, cache, flight, caller, calls, version, inv, done>>

PutReturns ==
    /\ inv = version /\ listed = version /\ done < version /\ done' = version
    /\ UNCHANGED <<link, made, cache, flight, caller, calls, version, listed, inv>>

\* The expiration of a link passes; the hourly GC drops the entry.
LinkExpires(l) ==
    /\ l <= made /\ link[l].kind = "ttl" /\ ~link[l].expired
    /\ link' = [link EXCEPT ![l].expired = TRUE]
    /\ UNCHANGED <<made, cache, flight, caller, calls, put>>

GC ==
    /\ current # Nil /\ maps[current] # Nil /\ Expired(maps[current])
    /\ maps' = [maps EXCEPT ![current] = Nil] /\ current' = Nil
    /\ UNCHANGED <<link, made, flight, caller, calls, put>>

Call(c) ==
    \/ GetTypePurges(c) \/ Acquire(c) \/ AcquireFails(c) \/ Do(c)
    \/ FlightGets(c) \/ FlightLinks(c) \/ FlightCaches(c) \/ FlightEnds(c)

Close(c) == CloseLoads(c) \/ CloseSwaps(c)

Put == PutUploads \/ PutInvalidates \/ PutLists \/ PutReturns

Next ==
    \/ \E c \in Callers : LinkLooks(c) \/ Call(c) \/ Close(c)
    \/ Put \/ GC \/ \E l \in Links : LinkExpires(l)

Spec == Init /\ [][Next]_vars

\* A call that is under way goes on, and a link that is held is closed.
Fairness == \A c \in Callers : WF_vars(Call(c)) /\ WF_vars(Close(c))

FairSpec == Spec /\ Fairness

-----------------------------------------------------------------------------
Stages == {"idle", "purge", "acquire", "restore", "holding", "closing", "swap", "do", "wait",
           "get", "link", "set", "end"}

\* Every variable has its type; a reference count is at most the number of callers,
\* and never below the mark of a closed link (io.go 190-234).
TypeOK ==
    /\ link \in [Links -> [kind : Kinds, version : 0..MaxPuts, closes : Nat, expired : BOOLEAN,
                           ref : closersClosed..Cardinality(Callers), until : 0..MaxPuts]]
    /\ made \in 0..MaxLinks
    /\ maps \in [Links -> Links \cup {Nil}] /\ current \in Links \cup {Nil}
    /\ flight \in Callers \cup {Nil} /\ calls \in 0..MaxCalls
    /\ caller \in [Callers -> [st : Stages, ol : Links \cup {Nil}, since : 0..MaxPuts,
                               map : Links \cup {Nil}, version : 0..MaxPuts, ref : Nat, owns : BOOLEAN]]
    /\ version \in 0..MaxPuts /\ listed \in 0..version /\ inv \in 0..version /\ done \in 0..inv

Holders(l) == {c \in Callers : caller[c].st \in {"holding", "closing", "swap"} /\ caller[c].ol = l}

\* Those who have been given the link and not acquired it, and the flight that made it.
Comers(l) == {c \in Callers : caller[c].st \in {"set", "end", "acquire"} /\ caller[c].ol = l}

\* The closers of a link run at most once, never under a caller that holds it when it
\* requires its reference, and no link is forgotten: one that nobody holds or is about
\* to acquire has been closed (io.go 195-234, link_lifecycle.go 31-34).
SharedLinksAlive ==
    \A l \in Links :
        /\ link[l].closes <= 1
        /\ link[l].kind = "reference" /\ Holders(l) # {} => link[l].closes = 0
        /\ l <= made /\ link[l].kind # "ttl" /\ Holders(l) \cup Comers(l) = {} => link[l].closes = 1

\* A caller that came after a Put had returned is given a link to the content before
\* it only if that link was still being made while the Put ran.
StaleOnlyIfRaced ==
    \A c \in Callers : At(c, "holding") /\ link[caller[c].ol].version < caller[c].since
        => link[caller[c].ol].until >= caller[c].since

\* Every call returns, and every link that was made is closed in the end, once
\* nobody asks for it any more.
LinksReleased ==
    <>[] /\ \A c \in Callers : At(c, "idle")
         /\ \A l \in 1..made : link[l].kind # "ttl" => link[l].closes = 1
=============================================================================
