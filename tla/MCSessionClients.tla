------------------------- MODULE MCSessionClients -------------------------
(***************************************************************************)
(* Two clients of one account that follow the protocol: each has a file of *)
(* its own, declares its hash, and sends its chunks only to the session    *)
(* that its own Init was answered with.                                    *)
(***************************************************************************)
EXTENDS MCMultipartSession

VARIABLE told    \* which client was given which session

FileOf == t1 :> fileA @@ t2 :> fileB

ClientInit == Init /\ told = {}

\* An Init answered at once hands out the session that holds the key.
Asks(t, user, path) ==
    LET id == byKey[<<user, path>>] IN
    /\ InitRequest(t, user, path, FileOf[t])
    /\ told' = IF id # Nil /\ Resumes(id, FileOf[t]) THEN told \cup {<<t, id>>} ELSE told

GetsNew(t) ==
    /\ Insert(t)
    /\ told' = told \cup {<<t, loc[t].id>>}

SendsChunk(t, user, id, idx) ==
    /\ <<t, id>> \in told
    /\ ChunkRequest(t, user, id, idx, FileOf[t])
    /\ UNCHANGED told

ClientNext ==
    \/ \E t \in Threads, user \in Users :
        \/ \E path \in Paths : Asks(t, user, path)
        \/ \E id \in byID, idx \in Indices : SendsChunk(t, user, id, idx)
    \/ \E t \in Threads :
        \/ GetsNew(t)
        \/ pc[t] # "insert" /\ HandlerStep(t) /\ UNCHANGED told
    \/ \E id \in Ids :
        (Consume(id) \/ PutReturns(id) \/ FinishSteps(id)) /\ UNCHANGED told

ClientSpec == ClientInit /\ [][ClientNext]_<<vars, told>>
===========================================================================
