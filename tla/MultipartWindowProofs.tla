----------------------- MODULE MultipartWindowProofs -----------------------
(***************************************************************************)
(* The receiving window for every number of requests, slots and chunks:    *)
(* the geometry of the file, and the slot discipline of the ring.          *)
(***************************************************************************)
EXTENDS MultipartWindow, TLAPS

\* The quotient is the number of whole chunks before a position.
LEMMA DivBounds ==
  ASSUME NEW a \in Nat, NEW n \in Nat \ {0}
  PROVE  /\ a \div n \in Nat
         /\ n * (a \div n) <= a
         /\ a < n * (a \div n) + n
  OBVIOUS

\* More chunks are never fewer bytes.
LEMMA MulMono ==
  ASSUME NEW a \in Nat, NEW b \in Nat, NEW n \in Nat, a <= b
  PROVE  a * n <= b * n
  OBVIOUS

\* A slot number is below the number of slots.
LEMMA ModType ==
  ASSUME NEW a \in Nat, NEW n \in Nat \ {0}
  PROVE  a % n \in 0..(n - 1)
  OBVIOUS

\* The chunk that holds a position is the only one whose range contains it.
LEMMA DivUnique ==
  ASSUME NEW a \in Nat, NEW n \in Nat \ {0}, NEW q \in Nat,
         q * n <= a, a < (q + 1) * n
  PROVE  a \div n = q
  <1>1. n * (a \div n) <= a /\ a < n * (a \div n) + n /\ a \div n \in Nat
    BY DivBounds
  <1>2. ~ (q < a \div n)
    <2> SUFFICES ASSUME q + 1 <= a \div n PROVE FALSE
      BY <1>1
    <2>1. (q + 1) * n <= (a \div n) * n
      BY <1>1, MulMono
    <2> QED BY <2>1, <1>1
  <1>3. ~ (a \div n < q)
    <2> SUFFICES ASSUME (a \div n) + 1 <= q PROVE FALSE
      BY <1>1
    <2>1. ((a \div n) + 1) * n <= q * n
      BY <1>1, MulMono
    <2> QED BY <2>1, <1>1
  <1> QED BY <1>1, <1>2, <1>3
-----------------------------------------------------------------------------
(***************************************************************************)
(* Geometry of the file: where chunks end, and what the frontier is.       *)
(***************************************************************************)
\* The chunks cover the file, and the last one is not empty (window.go, NewWindow).
LEMMA TotalFacts ==
  /\ Total \in Nat \ {0}
  /\ (Total - 1) * ChunkSize < TotalSize
  /\ TotalSize <= Total * ChunkSize
  <1> DEFINE a == TotalSize + ChunkSize - 1
  <1>1. a \in Nat /\ ChunkSize \in Nat \ {0} /\ TotalSize \in Nat \ {0}
    BY WindowParams
  <1>2. /\ a \div ChunkSize \in Nat
        /\ ChunkSize * (a \div ChunkSize) <= a
        /\ a < ChunkSize * (a \div ChunkSize) + ChunkSize
    BY <1>1, DivBounds
  <1>3. Total = a \div ChunkSize
    BY DEF Total
  <1> HIDE DEF a
  <1>4. a = TotalSize + ChunkSize - 1
    BY DEF a
  <1> QED BY <1>1, <1>2, <1>3, <1>4

\* A chunk has between one byte and ChunkSize bytes, lies inside the file, and
\* the last one ends where the file ends.
LEMMA ChunkFacts ==
  ASSUME NEW idx \in Chunks
  PROVE  /\ idx \in Nat
         /\ idx * ChunkSize \in Nat
         /\ ChunkLen(idx) \in 1..ChunkSize
         /\ ChunkEnd(idx) \in 1..TotalSize
         /\ idx = Total - 1 => ChunkEnd(idx) = TotalSize
         /\ idx # Total - 1 => ChunkEnd(idx) = (idx + 1) * ChunkSize
                               /\ ChunkEnd(idx) < TotalSize
         /\ ChunkEnd(idx) <= (idx + 1) * ChunkSize
  <1>1. ChunkSize \in Nat \ {0} /\ TotalSize \in Nat \ {0} /\ Total \in Nat \ {0}
    BY WindowParams, TotalFacts
  <1>2. idx \in Nat /\ idx <= Total - 1
    BY <1>1 DEF Chunks
  <1>3. idx * ChunkSize \in Nat /\ (idx + 1) * ChunkSize = idx * ChunkSize + ChunkSize
    BY <1>1, <1>2
  <1>4. CASE idx = Total - 1
    <2>1. TotalSize <= (idx + 1) * ChunkSize
      BY <1>4, <1>1, TotalFacts
    <2> QED BY <2>1, <1>4, <1>1, <1>2, <1>3, TotalFacts DEF ChunkLen, ChunkEnd
  <1>5. CASE idx # Total - 1
    <2>1. idx + 1 <= Total - 1
      BY <1>5, <1>2, <1>1
    <2>2. (idx + 1) * ChunkSize <= (Total - 1) * ChunkSize
      BY <2>1, <1>1, <1>2, MulMono
    <2>3. (Total - 1) * ChunkSize \in Nat
      BY <1>1
    <2> QED BY <2>2, <2>3, <1>5, <1>1, <1>2, <1>3, TotalFacts DEF ChunkLen, ChunkEnd
  <1> QED BY <1>4, <1>5

\* Every chunk has a slot of the ring.
LEMMA SlotFacts ==
  ASSUME NEW idx \in Nat
  PROVE  SlotOf(idx) \in SlotIds
  BY ModType, WindowParams DEF SlotOf, SlotIds

\* The chunk of a position inside the file.
LEMMA CurFacts ==
  ASSUME NEW pos \in Nat, pos < TotalSize
  PROVE  /\ pos \div ChunkSize \in Chunks
         /\ (pos \div ChunkSize) * ChunkSize <= pos
         /\ pos < ChunkEnd(pos \div ChunkSize)
         /\ FrontierAt(pos) = pos \div ChunkSize
  <1> DEFINE c == pos \div ChunkSize
  <1>1. ChunkSize \in Nat \ {0} /\ TotalSize \in Nat \ {0} /\ Total \in Nat \ {0}
    BY WindowParams, TotalFacts
  <1>2. c \in Nat /\ ChunkSize * c <= pos /\ pos < ChunkSize * c + ChunkSize
    BY <1>1, DivBounds
  <1>3. FrontierAt(pos) = c
    BY <1>1 DEF FrontierAt
  <1> HIDE DEF c
  <1>4. c < Total
    <2> SUFFICES ASSUME Total <= c PROVE FALSE
      BY <1>1, <1>2
    <2>1. Total * ChunkSize <= c * ChunkSize
      BY <1>1, <1>2, MulMono
    <2> QED BY <2>1, <1>1, <1>2, TotalFacts
  <1>5. c \in Chunks
    BY <1>1, <1>2, <1>4 DEF Chunks
  <1>6. pos < ChunkEnd(c)
    BY <1>5, <1>2, <1>1, ChunkFacts
  <1>7. c * ChunkSize <= pos
    BY <1>1, <1>2
  <1> QED BY <1>3, <1>5, <1>6, <1>7 DEF c

\* A position before the end of a chunk has its frontier at or before it.
LEMMA FrontierBefore ==
  ASSUME NEW pos \in Nat, NEW idx \in Chunks, pos < ChunkEnd(idx)
  PROVE  FrontierAt(pos) \in Chunks /\ FrontierAt(pos) <= idx
  <1>1. ChunkSize \in Nat \ {0} /\ TotalSize \in Nat \ {0} /\ idx \in Nat
        /\ ChunkEnd(idx) \in Nat /\ ChunkEnd(idx) <= TotalSize
        /\ ChunkEnd(idx) <= (idx + 1) * ChunkSize
    BY WindowParams, ChunkFacts
  <1>2. pos < TotalSize
    BY <1>1
  <1> DEFINE f == pos \div ChunkSize
  <1>3. FrontierAt(pos) = f /\ f \in Chunks /\ f * ChunkSize <= pos
    BY <1>2, CurFacts
  <1> HIDE DEF f
  <1>4. f \in Nat
    BY <1>3, ChunkFacts
  <1>5. f <= idx
    <2> SUFFICES ASSUME idx + 1 <= f PROVE FALSE
      BY <1>1, <1>4
    <2>1. (idx + 1) * ChunkSize <= f * ChunkSize
      BY <1>1, <1>4, MulMono
    <2>2. (idx + 1) * ChunkSize \in Nat /\ f * ChunkSize \in Nat
      BY <1>1, <1>4
    <2> QED BY <2>1, <2>2, <1>1, <1>3
  <1> QED BY <1>3, <1>5

\* Reading on inside the current chunk keeps the frontier; reaching its end
\* moves the frontier by exactly one chunk.
LEMMA FrontierAdvance ==
  ASSUME NEW pos \in Nat, pos < TotalSize,
         NEW q \in Nat, pos <= q, q <= ChunkEnd(pos \div ChunkSize)
  PROVE  /\ q <= TotalSize
         /\ q < ChunkEnd(pos \div ChunkSize) => FrontierAt(q) = pos \div ChunkSize
         /\ q = ChunkEnd(pos \div ChunkSize) => FrontierAt(q) = (pos \div ChunkSize) + 1
  <1> DEFINE c == pos \div ChunkSize
  <1>1. ChunkSize \in Nat \ {0} /\ TotalSize \in Nat \ {0} /\ Total \in Nat \ {0}
    BY WindowParams, TotalFacts
  <1>2. c \in Chunks /\ c * ChunkSize <= pos
    BY CurFacts
  <1> HIDE DEF c
  <1>3. /\ c \in Nat
        /\ c * ChunkSize \in Nat
        /\ ChunkEnd(c) \in 1..TotalSize
        /\ c = Total - 1 => ChunkEnd(c) = TotalSize
        /\ c # Total - 1 => ChunkEnd(c) = (c + 1) * ChunkSize /\ ChunkEnd(c) < TotalSize
        /\ ChunkEnd(c) <= (c + 1) * ChunkSize
    BY <1>2, ChunkFacts
  <1>4. q <= ChunkEnd(c)
    BY DEF c
  <1>5. ASSUME q < ChunkEnd(c) PROVE FrontierAt(q) = c
    <2>1. q < TotalSize /\ c * ChunkSize <= q /\ q < (c + 1) * ChunkSize
      BY <1>5, <1>1, <1>2, <1>3
    <2>2. q \div ChunkSize = c
      BY <2>1, <1>1, <1>3, DivUnique
    <2> QED BY <2>1, <2>2, <1>1 DEF FrontierAt
  <1>6. ASSUME q = ChunkEnd(c) PROVE FrontierAt(q) = c + 1
    <2>1. CASE c = Total - 1
      BY <2>1, <1>6, <1>1, <1>3 DEF FrontierAt
    <2>2. CASE c # Total - 1
      <3>1. q < TotalSize /\ q = (c + 1) * ChunkSize
        BY <2>2, <1>6, <1>3
      <3>2. (c + 1) * ChunkSize <= q /\ q < ((c + 1) + 1) * ChunkSize
        BY <3>1, <1>1, <1>3
      <3>3. q \div ChunkSize = c + 1
        <4> DEFINE d == c + 1
        <4>1. d \in Nat /\ d * ChunkSize <= q /\ q < (d + 1) * ChunkSize
          BY <3>2, <1>3
        <4> HIDE DEF d
        <4>2. q \div ChunkSize = d
          BY <4>1, <1>1, DivUnique
        <4> QED BY <4>2 DEF d
      <3> QED BY <3>1, <3>3, <1>1 DEF FrontierAt
    <2> QED BY <2>1, <2>2
  <1>7. /\ q <= TotalSize
        /\ q < ChunkEnd(c) => FrontierAt(q) = c
        /\ q = ChunkEnd(c) => FrontierAt(q) = c + 1
    BY <1>1, <1>3, <1>4, <1>5, <1>6
  <1> QED BY <1>7 DEF c
-----------------------------------------------------------------------------
(***************************************************************************)
(* The inductive invariant.                                                *)
(***************************************************************************)
\* Chunk numbers are among those a request may ask for; -1, which marks a free slot, is
\* none of them.
LEMMA ChunkTypes ==
  /\ Chunks \subseteq Nat
  /\ -1 \notin Chunks
  /\ Chunks \subseteq -1..Total
  /\ 0 \in -1..Total
  /\ \A c \in Chunks : SlotOf(c) \in SlotIds
  BY TotalFacts, SlotFacts DEF Chunks

\* A new window satisfies the invariant.
LEMMA InitInv == Init => WindowInv
  <1> SUFFICES ASSUME Init PROVE WindowInv
    OBVIOUS
  <1>1. TypeOK
    BY ChunkTypes, WindowParams DEF Init, NewWindow, TypeOK, Pending, Errors
  <1>2. RequestLocals /\ ReaderLocals /\ ClosedIsEmpty
    BY DEF Init, NewWindow, RequestLocals, ReaderLocals, ClosedIsEmpty, Copying
  <1>3. SlotDiscipline /\ NoRace
    BY DEF Init, NewWindow, SlotDiscipline, NoRace, Copying
  <1> QED BY <1>1, <1>2, <1>3 DEF WindowInv

\* The requests' steps that leave the slots alone.
LEMMA RequestInv ==
  ASSUME WindowInv, NEW w \in Writers, NEW idx \in -1..Total, NEW body \in Bodies,
         Request(w, idx, body)
  PROVE  WindowInv'
  <1> USE DEF WindowInv, Request, window, disk, timing, reader, history
  <1>1. TypeOK'
    BY ChunkTypes DEF TypeOK, Pending, Errors
  <1>2. RequestLocals' /\ ReaderLocals' /\ ClosedIsEmpty'
    BY DEF TypeOK, RequestLocals, ReaderLocals, ClosedIsEmpty, Copying, Cur
  <1>3. SlotDiscipline'
    BY DEF TypeOK, SlotDiscipline, Copying, Frontier
  <1>4. NoRace'
    BY DEF TypeOK, NoRace, Copying, Holds
  <1> QED BY <1>1, <1>2, <1>3, <1>4

\* A request that returns without a slot leaves the ring alone.
LEMMA ReturnInv ==
  ASSUME WindowInv, NEW w \in Writers, ReturnEarly(w) \/ GiveUp(w)
  PROVE  WindowInv'
  <1> USE DEF WindowInv, window, disk, timing, reader, history
  <1>1. PICK res \in [idx : Chunks \cup {-1}, crc : Nat \cup {-1},
                      err : {NoErr} \cup Errors \cup
                            {"inflight", "outofwindow", "range", "body"}] :
          /\ Return(w, res)
          /\ ~ Copying(w)
          /\ UNCHANGED <<window, disk, rpc, reader, cpc, history>>
    BY ChunkTypes DEF ReturnEarly, GiveUp, Undecided, TypeOK, Failed, OK, Errors, Copying
  <1>2. TypeOK'
    BY <1>1, ChunkTypes DEF TypeOK, Return
  <1>3. RequestLocals' /\ ReaderLocals' /\ ClosedIsEmpty'
    BY <1>1 DEF TypeOK, RequestLocals, ReaderLocals, ClosedIsEmpty, Copying, Cur, Return
  <1>4. SlotDiscipline'
    BY <1>1 DEF TypeOK, SlotDiscipline, Copying, Frontier, Return
  <1>5. NoRace'
    BY <1>1 DEF TypeOK, NoRace, Copying, Holds, Return
  <1> QED BY <1>2, <1>3, <1>4, <1>5
\* A request takes a slot: it was free, so nobody is copying into it or reading
\* from it, and the chunk lies inside the window.
LEMMA AdmitInv ==
  ASSUME WindowInv, NEW w \in Writers, Admit(w)
  PROVE  WindowInv'
  <1> DEFINE idx == widx[w]
             s == SlotOf(idx)
  <1> USE DEF WindowInv, request, reader, history
  <1>1. idx \in Chunks /\ s \in SlotIds /\ idx \in Nat
    BY ChunkTypes DEF Admit, Undecided
  <1>2. /\ err = NoErr /\ wpc[w] = "loop" /\ slotState[s] = "free" /\ slotChunk[s] = -1
        /\ wbody[w] \in Bodies
    BY <1>1 DEF Admit, Undecided, Admissible, SlotDiscipline, RequestLocals
  <1>3. Frontier <= idx /\ idx < Frontier + Slots
    <2>1. readPos < ChunkEnd(idx)
      BY <1>1, ChunkFacts DEF Admit, Undecided, Consumed, ChunkEnd, TypeOK
    <2> QED BY <2>1, <1>1, FrontierBefore DEF Admit, Admissible, Frontier, TypeOK
  <1>4. TypeOK'
    BY <1>1 DEF TypeOK, Admit
  <1>5. RequestLocals' /\ ReaderLocals' /\ ClosedIsEmpty'
    BY <1>1, <1>2 DEF TypeOK, RequestLocals, ReaderLocals, ClosedIsEmpty, Copying, Cur, Admit
  <1>6. SlotDiscipline'
    <2> SUFFICES ASSUME NEW t \in SlotIds
                 PROVE  /\ slotState'[t] = "free" <=> slotChunk'[t] = -1
                        /\ slotState'[t] # "free" =>
                             /\ SlotOf(slotChunk'[t]) = t
                             /\ Frontier <= slotChunk'[t] /\ slotChunk'[t] < Frontier + Slots
                        /\ slotState'[t] = "filling" =>
                             \E v \in Writers : Copying(v)' /\ widx'[v] = slotChunk'[t]
      BY DEF SlotDiscipline, Frontier, Admit
    <2>1. CASE t = s
      BY <2>1, <1>1, <1>2, <1>3, ChunkTypes DEF Admit, TypeOK, Copying
    <2>2. CASE t # s
      BY <2>2, <1>1, <1>2 DEF Admit, TypeOK, SlotDiscipline, Copying
    <2> QED BY <2>1, <2>2
  <1>7. NoRace'
    <2>1. \A v \in Writers : Copying(v) => v # w /\ SlotOf(widx[v]) # s
                                         /\ Holds(SlotOf(widx[v]), "filling", widx[v])
      BY <1>2 DEF NoRace, Copying, Holds
    <2>2. rpc \in {"reading", "read"} => SlotOf(rcur) # s /\ Holds(SlotOf(rcur), "ready", rcur)
      BY <1>2 DEF NoRace, Holds
    <2>3. \A v \in Writers : widx'[v] = widx[v]
      BY DEF Admit
    <2>4. \A v \in Writers : Copying(v)' <=> (v = w \/ Copying(v))
      BY DEF Copying, Admit, TypeOK
    <2>5. /\ slotState'[s] = "filling" /\ slotChunk'[s] = idx
          /\ \A t \in SlotIds \ {s} : slotState'[t] = slotState[t] /\ slotChunk'[t] = slotChunk[t]
      BY <1>1 DEF Admit, TypeOK
    <2>6. \A v \in Writers : Copying(v) => SlotOf(widx[v]) \in SlotIds
      BY ChunkTypes DEF RequestLocals
    <2>7. rpc \in {"reading", "read"} => SlotOf(rcur) \in SlotIds
      BY CurFacts, ChunkTypes DEF ReaderLocals, Cur, TypeOK
    <2>8. rpc' = rpc /\ rcur' = rcur
      BY DEF Admit
    <2>9. \A v \in Writers : Copying(v)' => Holds(SlotOf(widx[v]), "filling", widx[v])'
      BY <2>1, <2>3, <2>4, <2>5, <2>6 DEF Holds
    <2>10. \A u, v \in Writers : u # v /\ Copying(u)' /\ Copying(v)' =>
              SlotOf(widx'[u]) # SlotOf(widx'[v])
      BY <2>1, <2>3, <2>4, <1>2 DEF NoRace
    <2>11. rpc' \in {"reading", "read"} =>
             /\ Holds(SlotOf(rcur), "ready", rcur)'
             /\ \A v \in Writers : Copying(v)' => SlotOf(rcur') # SlotOf(widx'[v])
      BY <2>2, <2>3, <2>4, <2>5, <2>7, <2>8, <1>2 DEF NoRace, Holds
    <2> QED BY <2>9, <2>10, <2>11 DEF NoRace
  <1> QED BY <1>4, <1>5, <1>6, <1>7

\* Parking, the passing of time and the timer only move threads between "loop"
\* and "parked".
LEMMA WaitInv ==
  ASSUME WindowInv, NEW w \in Writers, Park(w) \/ Deadline(w) \/ TimerFires(w)
  PROVE  WindowInv'
  <1> USE DEF WindowInv, window, disk, request, reader, history
  <1>1. /\ UNCHANGED <<window, disk, request, reader, cpc, history>>
        /\ late' \subseteq Writers /\ timer' \subseteq Writers
        /\ wpc' \in [Writers -> {"idle", "loop", "parked", "copy", "copied"}]
        /\ \A v \in Writers : wpc'[v] = wpc[v] \/
              (wpc[v] \in {"loop", "parked"} /\ wpc'[v] \in {"loop", "parked"})
        /\ \A v \in Writers : wpc'[v] = "parked" => wpc[v] = "parked" \/ widx[v] \in Chunks
        /\ rpc' = rpc \/ (rpc = "parked" /\ rpc' = "loop")
    BY DEF Park, Undecided, Deadline, TimerFires, WokenWriters, WokenReader, TypeOK
  <1>2. TypeOK'
    BY <1>1 DEF TypeOK
  <1>3. RequestLocals' /\ ReaderLocals' /\ ClosedIsEmpty'
    BY <1>1 DEF TypeOK, RequestLocals, ReaderLocals, ClosedIsEmpty, Copying, Cur
  <1>4. SlotDiscipline'
    BY <1>1 DEF TypeOK, SlotDiscipline, Copying, Frontier
  <1>5. NoRace'
    BY <1>1 DEF TypeOK, NoRace, Copying, Holds
  <1> QED BY <1>2, <1>3, <1>4, <1>5

\* The unlocked copy writes the bytes of the request's own slot only.
LEMMA CopyInv ==
  ASSUME WindowInv, NEW w \in Writers, CopyBody(w)
  PROVE  WindowInv'
  <1> USE DEF WindowInv, window, timing, reader, history
  <1>1. widx[w] \in Chunks /\ SlotOf(widx[w]) \in SlotIds /\ wbody[w] \in Bodies
    BY ChunkTypes DEF CopyBody, RequestLocals, Copying
  <1>2. TypeOK'
    <2>1. PICK ok \in BOOLEAN :
            /\ wcopied' = [wcopied EXCEPT ![w] = ok]
            /\ ring' = [ring EXCEPT ![SlotOf(widx[w])] =
                           IF ok THEN <<widx[w], wbody[w]>> ELSE @]
      BY DEF CopyBody, TypeOK
    <2>2. <<widx[w], wbody[w]>> \in Chunks \X Bodies
      BY <1>1
    <2>3. ring' \in [SlotIds -> {Torn} \cup Chunks \X Bodies]
      <3>1. CASE ok
        BY <3>1, <2>1, <2>2, <1>1 DEF TypeOK
      <3>2. CASE ~ ok
        BY <3>2, <2>1, <1>1 DEF TypeOK
      <3> QED BY <3>1, <3>2
    <2>4. wcopied' \in [Writers -> BOOLEAN]
      BY <2>1 DEF TypeOK
    <2> QED BY <2>3, <2>4 DEF TypeOK, CopyBody
  <1>3. RequestLocals' /\ ReaderLocals' /\ ClosedIsEmpty'
    BY DEF TypeOK, RequestLocals, ReaderLocals, ClosedIsEmpty, Copying, Cur, CopyBody
  <1>4. SlotDiscipline'
    BY DEF TypeOK, SlotDiscipline, Copying, Frontier, CopyBody
  <1>5. NoRace'
    BY DEF TypeOK, NoRace, Copying, Holds, CopyBody
  <1> QED BY <1>2, <1>3, <1>4, <1>5

\* The end of WriteChunk frees the request's own slot or declares it ready.
LEMMA FinishInv ==
  ASSUME WindowInv, NEW w \in Writers, FinishChunk(w)
  PROVE  WindowInv'
  <1> DEFINE idx == widx[w]
             s == SlotOf(idx)
  <1> USE DEF WindowInv, window, disk, reader
  <1>1. /\ idx \in Chunks /\ s \in SlotIds /\ idx # -1 /\ Copying(w)
        /\ wbody[w] \in Bodies /\ CRC32[wbody[w]] \in Nat
    BY ChunkTypes, ChecksumAssumption DEF FinishChunk, RequestLocals, Copying
  <1>2. TypeOK'
    <2>1. wres' \in [Writers -> [idx : Chunks \cup {-1}, crc : Nat \cup {-1},
                                err : {NoErr} \cup Errors \cup
                                      {"inflight", "outofwindow", "range", "body"}]]
      <3>1. PICK res \in [idx : Chunks \cup {-1}, crc : Nat \cup {-1},
                          err : {NoErr} \cup Errors \cup
                                {"inflight", "outofwindow", "range", "body"}] :
              wres' = [wres EXCEPT ![w] = res]
        BY <1>1 DEF FinishChunk, Failed, OK, Errors, TypeOK
      <3> QED BY <3>1 DEF TypeOK
    <2>2. /\ slotState' \in [SlotIds -> {"free", "filling", "ready"}]
          /\ slotChunk' \in [SlotIds -> Chunks \cup {-1}]
          /\ crcs' \in [Chunks -> Nat \cup {-1}]
          /\ stored' \in [Chunks -> Bodies \cup {Nil}]
      BY <1>1 DEF FinishChunk, TypeOK
    <2>3. /\ wpc' \in [Writers -> {"idle", "loop", "parked", "copy", "copied"}]
          /\ rpc' \in {"idle", "loop", "parked", "reading", "read"}
      BY DEF FinishChunk, TypeOK, WokenWriters, WokenReader
    <2>5. /\ widx' \in [Writers -> -1..Total]
          /\ wbody' \in [Writers -> Bodies \cup {Nil}]
          /\ wcopied' \in [Writers -> BOOLEAN]
      <3>1. /\ widx' = [widx EXCEPT ![w] = 0]
            /\ wbody' = [wbody EXCEPT ![w] = Nil]
            /\ wcopied' = [wcopied EXCEPT ![w] = FALSE]
        BY DEF FinishChunk
      <3> QED BY <3>1, ChunkTypes DEF TypeOK
    <2>4. UNCHANGED <<readPos, err, handle, fdOpen, ringFile, ring, late, timer,
                      rcur, rlen, rgot, cpc>>
      BY DEF FinishChunk
    <2> QED BY <2>1, <2>2, <2>3, <2>4, <2>5 DEF TypeOK
  \* Which threads move, and what happens to the slot.
  <1>3. /\ readPos' = readPos /\ err' = err /\ rcur' = rcur /\ rlen' = rlen /\ rgot' = rgot
        /\ rpc' \in {"reading", "read"} => rpc' = rpc
        /\ rpc \in {"reading", "read"} => rpc' = rpc
        /\ ~ Copying(w)'
        /\ \A v \in Writers : v # w => /\ widx'[v] = widx[v] /\ wbody'[v] = wbody[v]
                                       /\ Copying(v)' <=> Copying(v)
                                       /\ wpc'[v] = "parked" => wpc[v] = "parked"
                                       /\ wpc'[v] # "idle" => wpc[v] # "idle"
    BY DEF FinishChunk, Copying, WokenWriters, WokenReader, TypeOK
  <1>4. wpc'[w] = "idle"
    BY DEF FinishChunk, TypeOK, WokenWriters
  <1>5. /\ \A t \in SlotIds \ {s} : slotState'[t] = slotState[t] /\ slotChunk'[t] = slotChunk[t]
        /\ \/ slotState'[s] = slotState[s] /\ slotChunk'[s] = slotChunk[s]
              /\ ~ Holds(s, "filling", idx)
           \/ slotState'[s] = "free" /\ slotChunk'[s] = -1
              /\ Holds(s, "filling", idx)
           \/ slotState'[s] = "ready" /\ slotChunk'[s] = idx
              /\ Holds(s, "filling", idx)
    BY <1>1 DEF FinishChunk, TypeOK, Holds
  <1>6. RequestLocals' /\ ReaderLocals'
    BY <1>3, <1>4 DEF RequestLocals, ReaderLocals, Cur
  <1>7. ClosedIsEmpty'
    BY <1>1, <1>3, <1>5 DEF ClosedIsEmpty, Holds
  <1>8. SlotDiscipline'
    <2> SUFFICES ASSUME NEW t \in SlotIds
                 PROVE  /\ slotState'[t] = "free" <=> slotChunk'[t] = -1
                        /\ slotState'[t] # "free" =>
                             /\ SlotOf(slotChunk'[t]) = t
                             /\ Frontier <= slotChunk'[t] /\ slotChunk'[t] < Frontier + Slots
                        /\ slotState'[t] = "filling" =>
                             \E v \in Writers : Copying(v)' /\ widx'[v] = slotChunk'[t]
      BY <1>3 DEF SlotDiscipline, Frontier
    <2>1. CASE t = s
      <3>1. ~ Holds(s, "filling", idx) => slotState[s] # "filling"
        <4> SUFFICES ASSUME slotState[s] = "filling" PROVE slotChunk[s] = idx
          BY DEF Holds
        <4>1. err = NoErr
          BY <1>1 DEF ClosedIsEmpty
        <4> QED BY <4>1, <1>1 DEF NoRace, Holds
      <3> QED BY <3>1, <2>1, <1>1, <1>5 DEF SlotDiscipline, Holds
    <2>2. CASE t # s
      <3>1. slotState[t] = "filling" =>
              \E v \in Writers : v # w /\ Copying(v) /\ widx[v] = slotChunk[t]
        <4> SUFFICES ASSUME slotState[t] = "filling" PROVE slotChunk[t] # idx
          BY DEF SlotDiscipline
        <4> QED BY <2>2 DEF SlotDiscipline
      <3>2. slotState'[t] = slotState[t] /\ slotChunk'[t] = slotChunk[t]
        BY <2>2, <1>5
      <3> QED BY <3>1, <3>2, <1>3 DEF SlotDiscipline
    <2> QED BY <2>1, <2>2
  <1>9. NoRace'
    <2> SUFFICES ASSUME err = NoErr PROVE NoRace'
      BY <1>3 DEF NoRace
    <2>1. \A v \in Writers : Copying(v)' => v # w /\ Copying(v) /\ SlotOf(widx[v]) # s
                                         /\ SlotOf(widx[v]) \in SlotIds
      BY <1>1, <1>3, ChunkTypes DEF NoRace, RequestLocals
    <2>2. rpc' \in {"reading", "read"} => SlotOf(rcur) # s /\ SlotOf(rcur) \in SlotIds
      BY <1>1, <1>3, CurFacts, ChunkTypes DEF NoRace, ReaderLocals, Cur, TypeOK
    <2>3. \A v \in Writers : Copying(v)' => Holds(SlotOf(widx[v]), "filling", widx[v])'
      BY <2>1, <1>3, <1>5 DEF NoRace, Holds
    <2>4. rpc' \in {"reading", "read"} => Holds(SlotOf(rcur), "ready", rcur)'
      BY <2>2, <1>3, <1>5 DEF NoRace, Holds
    <2> QED BY <2>1, <2>2, <2>3, <2>4, <1>3 DEF NoRace
  <1> QED BY <1>2, <1>6, <1>7, <1>8, <1>9

\* The reader's steps that leave the position and the slots alone.
LEMMA ReadInv ==
  ASSUME WindowInv,
         ReadFails \/ ReadStarts \/ ReadParks \/ ReadAt
           \/ \E n \in 1..ChunkSize : Read(n)
  PROVE  WindowInv'
  <1> USE DEF WindowInv, window, disk, request, timing, reader, history
  <1>1. UNCHANGED <<slotState, slotChunk, readPos, err, wpc, widx, wbody>>
    BY DEF ReadFails, ReadStarts, ReadParks, ReadAt, Read
  <1>2. TypeOK' /\ ReaderLocals'
    <2>1. CASE ReadFails \/ ReadParks \/ \E n \in 1..ChunkSize : Read(n)
      BY <2>1, WindowParams DEF TypeOK, ReaderLocals, ReadFails, ReadParks, Read
    <2>2. CASE ReadStarts
      <3> DEFINE avail == Cur * ChunkSize + ChunkLen(Cur) - readPos
      <3>1. readPos \in Nat /\ readPos < TotalSize /\ Cur \in Chunks /\ Cur \in Nat
            /\ readPos < ChunkEnd(Cur) /\ ChunkEnd(Cur) \in Nat
        BY <2>2, CurFacts, ChunkFacts, ChunkTypes DEF ReadStarts, TypeOK, Cur
      <3>a. avail = ChunkEnd(Cur) - readPos
        BY <3>1, ChunkFacts DEF ChunkEnd
      <3>b. ChunkEnd(Cur) - readPos \in Nat
        BY <3>1
      <3>2. avail = ChunkEnd(Cur) - readPos /\ avail \in Nat
        BY <3>a, <3>b
      <3>3. rcur' = Cur /\ rlen' \in Nat /\ rlen' <= avail /\ rgot' = rgot /\ rpc' = "reading"
        BY <2>2, <3>2 DEF ReadStarts, TypeOK
      <3>4. rgot = 0
        BY <2>2 DEF ReadStarts, ReaderLocals
      <3> QED BY <2>2, <3>1, <3>2, <3>3, <3>4, <1>1
            DEF TypeOK, ReaderLocals, ReadStarts, Cur
    <2>3. CASE ReadAt
      BY <2>3, <1>1 DEF TypeOK, ReaderLocals, ReadAt, Cur
    <2> QED BY <2>1, <2>2, <2>3
  <1>3. RequestLocals' /\ ClosedIsEmpty' /\ SlotDiscipline'
    BY <1>1 DEF RequestLocals, ClosedIsEmpty, SlotDiscipline, Copying, Frontier
  <1>4. NoRace'
    <2>1. CASE ReadFails \/ ReadParks \/ ReadAt \/ \E n \in 1..ChunkSize : Read(n)
      BY <2>1, <1>1 DEF NoRace, Copying, Holds, ReadFails, ReadParks, ReadAt, Read
    <2>2. CASE ReadStarts
      BY <2>2, <1>1 DEF NoRace, Copying, Holds, ReadStarts, Readable
    <2> QED BY <2>1, <2>2
  <1> QED BY <1>2, <1>3, <1>4

\* The position advances inside the chunk, or the chunk is done: its slot is
\* freed and the frontier moves past it, and no other slot in use falls behind.
LEMMA ReadFinishInv ==
  ASSUME WindowInv, ReadFinishes
  PROVE  WindowInv'
  <1> DEFINE s == SlotOf(rcur)
             q == readPos + rgot
  <1> USE DEF WindowInv, disk, request, timing, history
  <1>1. /\ readPos \in Nat /\ readPos < TotalSize /\ rcur = Cur /\ rcur \in Chunks
        /\ rcur \in Nat /\ s \in SlotIds /\ q \in Nat /\ readPos <= q /\ q <= ChunkEnd(rcur)
        /\ ChunkEnd(rcur) \in Nat
    BY CurFacts, ChunkTypes, ChunkFacts DEF ReadFinishes, ReaderLocals, TypeOK, Cur
  <1>2. CrossesEnd <=> q = ChunkEnd(rcur)
    <2>1. readPos < ChunkEnd(rcur)
      BY <1>1, CurFacts DEF Cur
    <2>2. CrossesEnd <=> rgot > 0 /\ readPos + rgot >= ChunkEnd(rcur)
      BY DEF CrossesEnd, ChunkEnd
    <2>3. rgot \in Nat
      BY DEF TypeOK
    <2> QED BY <1>1, <2>1, <2>2, <2>3
  <1>3. /\ q <= TotalSize
        /\ ~ CrossesEnd => FrontierAt(q) = Frontier
        /\ CrossesEnd => FrontierAt(q) = Frontier + 1
        /\ Frontier = rcur
    BY <1>1, <1>2, FrontierAdvance, CurFacts DEF Cur, Frontier
  <1>4. TypeOK'
    BY <1>1, <1>3 DEF TypeOK, ReadFinishes, WokenWriters
  <1>5. /\ err' = err /\ widx' = widx /\ wbody' = wbody
        /\ readPos' = q /\ rpc' = "idle" /\ rgot' = 0
        /\ \A v \in Writers :
             /\ wpc'[v] \in {"copy", "copied"} <=> wpc[v] \in {"copy", "copied"}
             /\ wpc'[v] = "parked" => wpc[v] = "parked"
             /\ wpc'[v] # "idle" => wpc[v] # "idle"
    BY DEF ReadFinishes, WokenWriters, TypeOK
  <1>6. /\ \A t \in SlotIds : t # s => slotState'[t] = slotState[t] /\ slotChunk'[t] = slotChunk[t]
        /\ CrossesEnd => slotState'[s] = "free" /\ slotChunk'[s] = -1
        /\ ~ CrossesEnd => slotState'[s] = slotState[s] /\ slotChunk'[s] = slotChunk[s]
    BY <1>1 DEF ReadFinishes, TypeOK
  <1>7. RequestLocals' /\ ReaderLocals' /\ ClosedIsEmpty'
    BY <1>1, <1>5, <1>6 DEF RequestLocals, ReaderLocals, ClosedIsEmpty, Copying
  <1>8. SlotDiscipline'
    <2>1. Frontier' = FrontierAt(q)
      BY <1>5 DEF Frontier
    <2> SUFFICES ASSUME NEW t \in SlotIds
                 PROVE  /\ slotState'[t] = "free" <=> slotChunk'[t] = -1
                        /\ slotState'[t] # "free" =>
                             /\ SlotOf(slotChunk'[t]) = t
                             /\ FrontierAt(q) <= slotChunk'[t]
                             /\ slotChunk'[t] < FrontierAt(q) + Slots
                        /\ slotState'[t] = "filling" =>
                             \E v \in Writers : Copying(v)' /\ widx'[v] = slotChunk'[t]
      BY <2>1 DEF SlotDiscipline
    <2>2. CASE ~ CrossesEnd
      <3>1. slotState'[t] = slotState[t] /\ slotChunk'[t] = slotChunk[t]
        BY <2>2, <1>6
      <3>2. FrontierAt(q) = Frontier
        BY <2>2, <1>3
      <3> QED BY <3>1, <3>2, <1>5 DEF SlotDiscipline, Copying
    <2>3. CASE CrossesEnd /\ t = s
      BY <2>3, <1>6
    <2>4. CASE CrossesEnd /\ t # s
      <3>1. slotState'[t] = slotState[t] /\ slotChunk'[t] = slotChunk[t]
        BY <2>4, <1>6
      <3>2. slotState[t] # "free" => slotChunk[t] # rcur /\ slotChunk[t] \in Nat
        <4>1. slotChunk[t] \in Chunks \cup {-1}
          BY DEF TypeOK
        <4>2. slotState[t] # "free" => SlotOf(slotChunk[t]) = t /\ slotChunk[t] # -1
          BY DEF SlotDiscipline
        <4> QED BY <2>4, <4>1, <4>2, ChunkTypes
      <3>3. slotState[t] # "free" => FrontierAt(q) <= slotChunk[t]
                                     /\ slotChunk[t] < FrontierAt(q) + Slots
        BY <3>2, <2>4, <1>1, <1>3, WindowParams DEF SlotDiscipline
      <3> QED BY <3>1, <3>3, <1>5 DEF SlotDiscipline, Copying
    <2> QED BY <2>2, <2>3, <2>4
  <1>9. NoRace'
    <2> SUFFICES ASSUME err = NoErr PROVE NoRace'
      BY <1>5 DEF NoRace
    <2>1. \A v \in Writers : Copying(v) => SlotOf(widx[v]) # s /\ SlotOf(widx[v]) \in SlotIds
      BY ChunkTypes DEF NoRace, RequestLocals, ReadFinishes
    <2>2. \A v \in Writers : Copying(v) => Holds(SlotOf(widx[v]), "filling", widx[v])
      BY DEF NoRace
    <2>3. \A v \in Writers : Copying(v) => Holds(SlotOf(widx[v]), "filling", widx[v])'
      BY <2>1, <2>2, <1>5, <1>6 DEF Holds
    <2>4. \A u, v \in Writers : u # v /\ Copying(u) /\ Copying(v) =>
            SlotOf(widx[u]) # SlotOf(widx[v])
      BY DEF NoRace
    <2> QED BY <2>3, <2>4, <1>5 DEF NoRace, Copying
  <1> QED BY <1>4, <1>7, <1>8, <1>9

\* The close frees every slot at once; copies under way find the window closed when
\* they end.
LEMMA CloseInv ==
  ASSUME WindowInv, NEW c \in Closers,
         RemoveRing(c) \/ \E e \in Errors : CloseWithError(c, e)
  PROVE  WindowInv'
  <1> USE DEF WindowInv, window, disk, request, timing, reader, history
  <1>1. CASE RemoveRing(c)
    <2>1. TypeOK'
      BY <1>1 DEF RemoveRing, TypeOK
    <2>2. UNCHANGED <<slotState, slotChunk, readPos, err, wpc, widx, wbody, rpc, rcur, rlen, rgot>>
      BY <1>1 DEF RemoveRing
    <2>3. RequestLocals' /\ ReaderLocals' /\ ClosedIsEmpty'
      BY <2>2 DEF RequestLocals, ReaderLocals, ClosedIsEmpty, Copying, Cur
    <2>4. SlotDiscipline' /\ NoRace'
      BY <2>2 DEF SlotDiscipline, NoRace, Copying, Holds, Frontier
    <2> QED BY <2>1, <2>3, <2>4
  <1>2. CASE \E e \in Errors : CloseWithError(c, e)
    <2>1. /\ err' \in Errors /\ err' # NoErr
          /\ slotState' = [s \in SlotIds |-> "free"] /\ slotChunk' = [s \in SlotIds |-> -1]
          /\ UNCHANGED <<readPos, crcs, disk, request, timing, reader, history>>
          /\ handle' = FALSE /\ wpc' = WokenWriters /\ rpc' = WokenReader
          /\ cpc' \in [Closers -> {"idle", "removing"}]
      BY <1>2, MarkerAssumption DEF CloseWithError, Sticky, TypeOK, Errors
    <2>2. TypeOK'
      BY <2>1 DEF TypeOK, WokenWriters, WokenReader
    <2>3. RequestLocals' /\ ReaderLocals' /\ ClosedIsEmpty'
      BY <2>1 DEF RequestLocals, ReaderLocals, ClosedIsEmpty, Copying, Cur,
                  WokenWriters, WokenReader, TypeOK
    <2>4. SlotDiscipline' /\ NoRace'
      BY <2>1 DEF SlotDiscipline, NoRace
    <2> QED BY <2>2, <2>3, <2>4
  <1> QED BY <1>1, <1>2

\* Stuttering.
LEMMA StutterInv == ASSUME WindowInv, UNCHANGED vars PROVE WindowInv'
  BY DEF WindowInv, vars, window, disk, request, timing, reader, history, TypeOK,
         RequestLocals, ReaderLocals, ClosedIsEmpty, SlotDiscipline, NoRace, Copying,
         Holds, Cur, Frontier

LEMMA NextInv == WindowInv /\ [Next]_vars => WindowInv'
  <1> SUFFICES ASSUME WindowInv, [Next]_vars PROVE WindowInv'
    OBVIOUS
  <1>1. ASSUME NEW w \in Writers, NEW idx \in -1..Total, NEW body \in Bodies,
               Request(w, idx, body)
        PROVE  WindowInv'
    BY <1>1, RequestInv
  <1>2. ASSUME NEW w \in Writers, WriterStep(w) PROVE WindowInv'
    BY <1>2, ReturnInv, AdmitInv, WaitInv, CopyInv, FinishInv DEF WriterStep, WriterPass
  <1>3. ASSUME NEW w \in Writers, Deadline(w) \/ TimerFires(w) PROVE WindowInv'
    BY <1>3, WaitInv
  <1>4. CASE ReaderStep \/ \E n \in 1..ChunkSize : Read(n)
    BY <1>4, ReadInv, ReadFinishInv DEF ReaderStep
  <1>5. ASSUME NEW c \in Closers, NEW e \in {"closed", "aborted"}, CloseWithError(c, e)
        PROVE  WindowInv'
    BY <1>5, CloseInv DEF Errors
  <1>6. ASSUME NEW c \in Closers, RemoveRing(c) PROVE WindowInv'
    BY <1>6, CloseInv
  <1>7. CASE UNCHANGED vars
    BY <1>7, StutterInv
  <1> QED BY <1>1, <1>2, <1>3, <1>4, <1>5, <1>6, <1>7 DEF Next

LEMMA WindowInvHolds == Spec => []WindowInv
  BY InitInv, NextInv, PTL DEF Spec

\* Every field of the window and every local variable of its users keeps its
\* type: no slot or chunk number leaves its range, the position never passes
\* the end of the file.
THEOREM WindowTypes == Spec => []TypeOK
  <1>1. WindowInv => TypeOK
    BY DEF WindowInv
  <1> QED BY <1>1, WindowInvHolds, PTL

\* No two unlocked copies, and no copy and the reader, ever touch the same slot
\* of an open window, whatever the number of requests, slots and chunks.
THEOREM WindowSafety == Spec => [](SlotDiscipline /\ NoRace)
  <1>1. WindowInv => SlotDiscipline /\ NoRace
    BY DEF WindowInv
  <1> QED BY <1>1, WindowInvHolds, PTL
=============================================================================
