------------------------- MODULE WindowStreamProofs -------------------------
(***************************************************************************)
(* What the receiving window does with the data: the bytes in the ring are *)
(* those of the chunk the slot is said to hold, a chunk is stored once,    *)
(* the reader gets the file in order, no sleeper is forgotten, and the     *)
(* window implements UploadStream.  All of it rests on the slot discipline *)
(* of MultipartWindowProofs.                                               *)
(***************************************************************************)
EXTENDS MultipartWindowProofs, SequenceTheorems, FiniteSetTheorems

\* What a delivered byte is: the payload it comes from and its offset in it.
Bytes == ({Torn} \cup Chunks \X Bodies) \X Nat

\* A slot declared ready, a copy that succeeded and the slot under the reader
\* hold the payload they are said to hold.  The last two survive a close, after
\* which NoRace says nothing: a read under way still returns its bytes.
RingData ==
    /\ \A s \in SlotIds : slotState[s] = "ready" =>
         ring[s] = <<slotChunk[s], stored[slotChunk[s]]>>
    /\ \A w \in Writers : wpc[w] = "copied" /\ wcopied[w] /\ err = NoErr =>
         ring[SlotOf(widx[w])] = <<widx[w], wbody[w]>>
    /\ rpc = "reading" => ring[SlotOf(rcur)] = <<rcur, stored[rcur]>> /\ stored[rcur] # Nil
    /\ rpc = "reading" => \A w \in Writers : Copying(w) => SlotOf(widx[w]) # SlotOf(rcur)

\* While the window is open, the chunks stored are those consumed and those ready.
StoredExact ==
    err = NoErr =>
        \A c \in Chunks : stored[c] # Nil <=> c < Frontier \/ Holds(SlotOf(c), "ready", c)

\* The checksum table, and every answer of success, are about what is stored.
ChecksumsExact ==
    /\ \A c \in Chunks : stored[c] # Nil => crcs[c] = CRC32[stored[c]]
    /\ \A w \in Writers : wres[w].idx # -1 =>
         stored[wres[w].idx] # Nil /\ wres[w].crc = CRC32[stored[wres[w].idx]]

StreamInv ==
    /\ out \in Seq(Bytes)
    /\ RingData
    /\ StoredExact
    /\ ChecksumsExact
    /\ DeliveredInOrder

-----------------------------------------------------------------------------
\* A chunk that was consumed lies before the frontier.
LEMMA ConsumedBefore ==
  ASSUME NEW pos \in 0..TotalSize, NEW idx \in Chunks, ChunkEnd(idx) <= pos
  PROVE  idx < FrontierAt(pos)
  <1>1. ChunkSize \in Nat \ {0} /\ TotalSize \in Nat \ {0} /\ Total \in Nat \ {0}
        /\ idx \in Nat /\ idx <= Total - 1 /\ pos \in Nat
    BY WindowParams, TotalFacts, ChunkTypes DEF Chunks
  <1>2. CASE pos >= TotalSize
    BY <1>1, <1>2 DEF FrontierAt
  <1>3. CASE pos < TotalSize
    <2>1. ChunkEnd(idx) = (idx + 1) * ChunkSize
      BY <1>1, <1>3, ChunkFacts
    <2> DEFINE c == pos \div ChunkSize
    <2>2. FrontierAt(pos) = c /\ c \in Nat /\ pos < ChunkSize * c + ChunkSize
      BY <1>1, <1>3, DivBounds, CurFacts
    <2> HIDE DEF c
    <2> SUFFICES ASSUME c <= idx PROVE FALSE
      BY <1>1, <2>2
    <2>3. (c + 1) * ChunkSize <= (idx + 1) * ChunkSize
      BY <1>1, <2>2, MulMono
    <2>4. (c + 1) * ChunkSize = ChunkSize * c + ChunkSize /\ (idx + 1) * ChunkSize \in Nat
          /\ ChunkSize * c \in Nat
      BY <1>1, <2>2
    <2> QED BY <1>1, <2>1, <2>2, <2>3, <2>4
  <1> QED BY <1>1, <1>2, <1>3

\* The frontier never passes the number of chunks.
LEMMA FrontierType ==
  ASSUME NEW pos \in 0..TotalSize
  PROVE  FrontierAt(pos) \in 0..Total
  BY WindowParams, TotalFacts, CurFacts DEF FrontierAt, Chunks

\* Two chunks of one window never share a slot.
LEMMA SameSlot ==
  ASSUME NEW f \in Nat, NEW a \in Nat, NEW b \in Nat, SlotOf(a) = SlotOf(b),
         f <= a, a < f + Slots, f <= b, b < f + Slots
  PROVE  a = b
  <1>1. Slots \in Nat \ {0}
    BY WindowParams
  <1> DEFINE qa == a \div Slots
             qb == b \div Slots
             r == a % Slots
  <1>2. /\ qa \in Nat /\ qb \in Nat /\ r \in Nat
        /\ a = Slots * qa + r /\ b = Slots * qb + r
    BY <1>1 DEF SlotOf
  <1> HIDE DEF qa, qb, r
  <1>3. ~ (qa < qb)
    <2> SUFFICES ASSUME qa + 1 <= qb PROVE FALSE
      BY <1>2
    <2>1. (qa + 1) * Slots <= qb * Slots
      BY <1>1, <1>2, MulMono
    <2> QED BY <1>1, <1>2, <2>1
  <1>4. ~ (qb < qa)
    <2> SUFFICES ASSUME qb + 1 <= qa PROVE FALSE
      BY <1>2
    <2>1. (qb + 1) * Slots <= qa * Slots
      BY <1>1, <1>2, MulMono
    <2> QED BY <1>1, <1>2, <2>1
  <1> QED BY <1>2, <1>3, <1>4

\* Quotient and remainder.
LEMMA DivMod ==
  ASSUME NEW a \in Nat, NEW n \in Nat \ {0}
  PROVE  a % n = a - n * (a \div n)
  OBVIOUS

\* The offset of a position in its chunk.
LEMMA OffsetFacts ==
  ASSUME NEW a \in Nat, NEW q \in Nat, q * ChunkSize <= a, a < (q + 1) * ChunkSize
  PROVE  a \div ChunkSize = q /\ a % ChunkSize = a - q * ChunkSize
  <1>1. ChunkSize \in Nat \ {0}
    BY WindowParams
  <1>2. a \div ChunkSize = q
    BY <1>1, DivUnique
  <1>3. a % ChunkSize = a - ChunkSize * (a \div ChunkSize)
    BY <1>1, DivMod
  <1> QED BY <1>1, <1>2, <1>3
-----------------------------------------------------------------------------
LEMMA InitStream == Init => StreamInv
  <1> SUFFICES ASSUME Init PROVE StreamInv
    OBVIOUS
  <1>1. out = <<>> /\ out \in Seq(Bytes) /\ Len(out) = 0
    BY EmptySeq DEF Init
  <1>2. RingData /\ ChecksumsExact
    BY DEF Init, NewWindow, RingData, ChecksumsExact, Pending
  <1>3. StoredExact
    <2>1. Frontier = 0
      BY WindowParams, CurFacts DEF Init, NewWindow, Frontier, FrontierAt
    <2> QED BY <2>1, ChunkTypes DEF Init, NewWindow, StoredExact, Holds
  <1>4. DeliveredInOrder
    BY <1>1 DEF Init, NewWindow, DeliveredInOrder
  <1> QED BY <1>1, <1>2, <1>3, <1>4 DEF StreamInv

\* A step that neither moves the reader nor writes to the ring or the tables.
Undisturbed ==
    UNCHANGED <<slotState, slotChunk, readPos, crcs, err, ring, stored, out, rcur, rgot>>

\* The requests' steps outside the copy: only answers change.
LEMMA QuietStream ==
  ASSUME WindowInv, WindowInv', StreamInv, Undisturbed,
         rpc' = rpc \/ (rpc' \in {"idle", "loop", "parked"} /\ rpc \in {"idle", "loop", "parked"}),
         \A v \in Writers : Copying(v)' => /\ wpc'[v] = wpc[v] /\ widx'[v] = widx[v]
                                          /\ wbody'[v] = wbody[v] /\ wcopied'[v] = wcopied[v],
         \A v \in Writers : wres'[v] = wres[v] \/ wres'[v].idx = -1 \/
              (stored[wres'[v].idx] # Nil /\ wres'[v].crc = CRC32[stored[wres'[v].idx]])
  PROVE  StreamInv'
  <1>1. RingData'
    <2>1. \A s \in SlotIds : slotState'[s] = "ready" =>
            ring'[s] = <<slotChunk'[s], stored'[slotChunk'[s]]>>
      BY DEF StreamInv, RingData, Undisturbed
    <2>2. ASSUME NEW w \in Writers, wpc'[w] = "copied", wcopied'[w], err' = NoErr
          PROVE  ring'[SlotOf(widx'[w])] = <<widx'[w], wbody'[w]>>
      <3>1. wpc[w] = "copied" /\ widx'[w] = widx[w] /\ wbody'[w] = wbody[w] /\ wcopied'[w] = wcopied[w]
        BY <2>2 DEF Copying
      <3>2. wcopied[w]
        BY <2>2, <3>1
      <3> QED BY <2>2, <3>1, <3>2 DEF StreamInv, RingData, Undisturbed
    <2>3. rpc' = "reading" =>
            /\ ring'[SlotOf(rcur')] = <<rcur', stored'[rcur']>> /\ stored'[rcur'] # Nil
            /\ \A w \in Writers : Copying(w)' => SlotOf(widx'[w]) # SlotOf(rcur')
      BY DEF StreamInv, RingData, Undisturbed, Copying
    <2> QED BY <2>1, <2>2, <2>3 DEF RingData
  <1>2. StoredExact' /\ ChecksumsExact'
    BY DEF StreamInv, StoredExact, ChecksumsExact, Undisturbed, Frontier, Holds
  <1>3. DeliveredInOrder'
    BY DEF StreamInv, DeliveredInOrder, Undisturbed
  <1> QED BY <1>1, <1>2, <1>3 DEF StreamInv, Undisturbed

LEMMA RequestStream ==
  ASSUME WindowInv, WindowInv', StreamInv, NEW w \in Writers, NEW idx \in -1..Total,
         NEW body \in Bodies, Request(w, idx, body)
  PROVE  StreamInv'
  <1>1. Undisturbed /\ rpc' = rpc
    BY DEF Request, Undisturbed, window, disk, reader, history
  <1>2. \A v \in Writers : Copying(v)' => /\ wpc'[v] = wpc[v] /\ widx'[v] = widx[v]
                                         /\ wbody'[v] = wbody[v] /\ wcopied'[v] = wcopied[v]
    BY DEF Request, WindowInv, TypeOK, Copying
  <1>3. \A v \in Writers : wres'[v] = wres[v] \/ wres'[v].idx = -1
    BY DEF Request, WindowInv, TypeOK, Pending
  <1> QED BY <1>1, <1>2, <1>3, QuietStream

\* An answer of success is about a stored chunk.
LEMMA ReturnStream ==
  ASSUME WindowInv, WindowInv', StreamInv, NEW w \in Writers, ReturnEarly(w) \/ GiveUp(w)
  PROVE  StreamInv'
  <1> USE DEF WindowInv
  <1>1. PICK res : /\ Return(w, res) /\ ~ Copying(w)
                   /\ res.idx = -1 \/ (stored[res.idx] # Nil /\ res.crc = CRC32[stored[res.idx]])
    <2>1. CASE GiveUp(w)
      BY <2>1 DEF GiveUp, Undecided, Failed, Copying
    <2>2. ASSUME NEW e, Return(w, Failed(e)), wpc[w] = "loop"
          PROVE  \E res : /\ Return(w, res) /\ ~ Copying(w) /\ res.idx = -1
      BY <2>2 DEF Failed, Copying
    <2>3. ASSUME err = NoErr, widx[w] \in Chunks, wpc[w] = "loop",
                 Consumed(widx[w]) \/ Holds(SlotOf(widx[w]), "ready", widx[w]),
                 Return(w, OK(widx[w], crcs[widx[w]]))
          PROVE  \E res : /\ Return(w, res) /\ ~ Copying(w)
                          /\ stored[res.idx] # Nil /\ res.crc = CRC32[stored[res.idx]]
      <3>1. stored[widx[w]] # Nil
        <4>1. CASE Consumed(widx[w])
          BY <4>1, <2>3, ConsumedBefore
             DEF Consumed, ChunkEnd, StreamInv, StoredExact, Frontier, TypeOK
        <4>2. CASE Holds(SlotOf(widx[w]), "ready", widx[w])
          BY <4>2, <2>3 DEF StreamInv, StoredExact
        <4> QED BY <4>1, <4>2, <2>3
      <3>2. crcs[widx[w]] = CRC32[stored[widx[w]]]
        BY <2>3, <3>1 DEF StreamInv, ChecksumsExact
      <3> QED BY <2>3, <3>1, <3>2 DEF OK, Copying
    <2> QED BY <2>1, <2>2, <2>3 DEF ReturnEarly
  <1>2. Undisturbed /\ rpc' = rpc
    BY DEF ReturnEarly, GiveUp, Undisturbed, window, disk, reader, history
  <1>3. \A v \in Writers : Copying(v)' => /\ wpc'[v] = wpc[v] /\ widx'[v] = widx[v]
                                         /\ wbody'[v] = wbody[v] /\ wcopied'[v] = wcopied[v]
    BY <1>1 DEF Return, TypeOK, Copying
  <1>4. \A v \in Writers : wres'[v] = wres[v] \/ wres'[v] = res
    BY <1>1 DEF Return, TypeOK
  <1> QED BY <1>1, <1>2, <1>3, <1>4, QuietStream

LEMMA WaitStream ==
  ASSUME WindowInv, WindowInv', StreamInv, NEW w \in Writers,
         Park(w) \/ Deadline(w) \/ TimerFires(w)
  PROVE  StreamInv'
  <1>1. /\ Undisturbed /\ UNCHANGED request
        /\ rpc' = rpc \/ (rpc' = "loop" /\ rpc = "parked")
        /\ \A v \in Writers : Copying(v)' => wpc'[v] = wpc[v]
    BY DEF Park, Undecided, Deadline, TimerFires, WokenWriters, WokenReader, Undisturbed,
           window, disk, reader, history, Copying, WindowInv, TypeOK
  <1> QED BY <1>1, QuietStream DEF request

\* The slot a request takes was free: nothing ready or being read is overwritten.
LEMMA AdmitStream ==
  ASSUME WindowInv, WindowInv', StreamInv, NEW w \in Writers, Admit(w)
  PROVE  StreamInv'
  <1> DEFINE idx == widx[w]
             s == SlotOf(idx)
  <1> USE DEF WindowInv
  <1>1. /\ idx \in Chunks /\ s \in SlotIds /\ err = NoErr /\ slotState[s] = "free"
        /\ wpc[w] = "loop"
    BY ChunkTypes DEF Admit, Undecided, Admissible
  <1>2. /\ UNCHANGED <<readPos, crcs, err, stored, out, rcur, rgot, rpc, widx, wbody, wcopied, wres>>
        /\ slotState'[s] = "filling" /\ slotChunk'[s] = idx /\ ring'[s] = Torn
        /\ \A t \in SlotIds \ {s} : /\ slotState'[t] = slotState[t] /\ slotChunk'[t] = slotChunk[t]
                                    /\ ring'[t] = ring[t]
        /\ wpc'[w] = "copy" /\ \A v \in Writers \ {w} : wpc'[v] = wpc[v]
    BY <1>1 DEF Admit, TypeOK, request, reader, history
  <1>3. rpc \in {"reading", "read"} => SlotOf(rcur) # s /\ SlotOf(rcur) \in SlotIds
    BY <1>1, CurFacts, ChunkTypes DEF NoRace, Holds, ReaderLocals, Cur, TypeOK
  <1>4. RingData'
    <2>1. ASSUME NEW t \in SlotIds, slotState'[t] = "ready"
          PROVE  ring'[t] = <<slotChunk'[t], stored'[slotChunk'[t]]>>
      <3>1. t # s
        BY <2>1, <1>2
      <3> QED BY <2>1, <3>1, <1>2 DEF StreamInv, RingData
    <2>2. ASSUME NEW v \in Writers, wpc'[v] = "copied", wcopied'[v], err' = NoErr
          PROVE  ring'[SlotOf(widx'[v])] = <<widx'[v], wbody'[v]>>
      <3>1. v # w /\ wpc[v] = "copied" /\ Copying(v)
        BY <2>2, <1>2 DEF Copying
      <3>2. wcopied[v]
        BY <2>2, <1>2
      <3>3. SlotOf(widx[v]) # s /\ SlotOf(widx[v]) \in SlotIds
        BY <3>1, <1>1, ChunkTypes DEF NoRace, Holds, RequestLocals
      <3> QED BY <3>1, <3>2, <3>3, <1>1, <1>2 DEF StreamInv, RingData
    <2>3. rpc' = "reading" => ring'[SlotOf(rcur')] = <<rcur', stored'[rcur']>> /\ stored'[rcur'] # Nil
      BY <1>2, <1>3 DEF StreamInv, RingData
    <2>4. rpc' = "reading" => \A v \in Writers : Copying(v)' => SlotOf(widx'[v]) # SlotOf(rcur')
      BY <1>2, <1>3 DEF StreamInv, RingData, Copying
    <2> QED BY <2>1, <2>2, <2>3, <2>4 DEF RingData
  <1>5. StoredExact'
    <2> SUFFICES ASSUME NEW c \in Chunks
                 PROVE  stored[c] # Nil <=> c < Frontier \/ Holds(SlotOf(c), "ready", c)'
      BY <1>2 DEF StoredExact, Frontier
    <2>1. SlotOf(c) \in SlotIds
      BY ChunkTypes
    <2>2. Holds(SlotOf(c), "ready", c)' <=> Holds(SlotOf(c), "ready", c)
      BY <1>1, <1>2, <2>1 DEF Holds
    <2> QED BY <1>1, <2>2 DEF StreamInv, StoredExact
  <1>6. ChecksumsExact' /\ DeliveredInOrder' /\ out' \in Seq(Bytes)
    BY <1>2 DEF StreamInv, ChecksumsExact, DeliveredInOrder
  <1> QED BY <1>4, <1>5, <1>6 DEF StreamInv

\* The unlocked copy writes to a slot nobody reads, even after a close.
LEMMA CopyStream ==
  ASSUME WindowInv, WindowInv', StreamInv, NEW w \in Writers, CopyBody(w)
  PROVE  StreamInv'
  <1> DEFINE idx == widx[w]
             s == SlotOf(idx)
  <1> USE DEF WindowInv
  <1>1. idx \in Chunks /\ s \in SlotIds /\ Copying(w)
    BY ChunkTypes DEF CopyBody, RequestLocals, Copying
  <1>2. /\ UNCHANGED <<slotState, slotChunk, readPos, crcs, err, stored, out, rcur, rgot, rpc,
                       widx, wbody, wres>>
        /\ \A t \in SlotIds \ {s} : ring'[t] = ring[t]
        /\ \A v \in Writers \ {w} : wpc'[v] = wpc[v] /\ wcopied'[v] = wcopied[v]
        /\ \A v \in Writers : Copying(v)' <=> Copying(v)
    BY <1>1 DEF CopyBody, TypeOK, window, reader, history, Copying
  <1>3. wcopied'[w] => ring'[s] = <<idx, wbody[w]>>
    <2>1. PICK ok \in BOOLEAN :
            /\ wcopied' = [wcopied EXCEPT ![w] = ok]
            /\ ring' = [ring EXCEPT ![SlotOf(widx[w])] =
                           IF ok THEN <<widx[w], wbody[w]>> ELSE @]
      BY DEF CopyBody
    <2>2. wcopied'[w] = ok
      BY <2>1 DEF TypeOK
    <2>3. CASE ok
      BY <1>1, <2>1, <2>3 DEF TypeOK
    <2>4. CASE ~ ok
      BY <2>2, <2>4
    <2> QED BY <2>3, <2>4
  <1>4. RingData'
    <2>1. ASSUME NEW t \in SlotIds, slotState'[t] = "ready"
          PROVE  ring'[t] = <<slotChunk'[t], stored'[slotChunk'[t]]>>
      <3>1. err = NoErr
        BY <2>1, <1>2 DEF ClosedIsEmpty
      <3>2. t # s
        BY <2>1, <3>1, <1>1, <1>2 DEF NoRace, Holds
      <3> QED BY <2>1, <3>2, <1>2 DEF StreamInv, RingData
    <2>2. ASSUME NEW v \in Writers, wpc'[v] = "copied", wcopied'[v], err' = NoErr
          PROVE  ring'[SlotOf(widx'[v])] = <<widx'[v], wbody'[v]>>
      <3>1. CASE v = w
        BY <2>2, <3>1, <1>2, <1>3
      <3>2. CASE v # w
        <4>1. wpc[v] = "copied" /\ Copying(v)
          BY <2>2, <3>2, <1>2 DEF Copying
        <4>2. wcopied[v]
          BY <2>2, <3>2, <1>2
        <4>3. SlotOf(widx[v]) # s /\ SlotOf(widx[v]) \in SlotIds
          BY <2>2, <3>2, <4>1, <1>1, <1>2, ChunkTypes DEF NoRace, RequestLocals
        <4> QED BY <2>2, <4>1, <4>2, <4>3, <1>2 DEF StreamInv, RingData
      <3> QED BY <3>1, <3>2
    <2>3. rpc' = "reading" => ring'[SlotOf(rcur')] = <<rcur', stored'[rcur']>> /\ stored'[rcur'] # Nil
      <3>1. rpc = "reading" => SlotOf(rcur) # s /\ SlotOf(rcur) \in SlotIds
        BY <1>1, CurFacts, ChunkTypes DEF StreamInv, RingData, ReaderLocals, Cur, TypeOK
      <3> QED BY <3>1, <1>2 DEF StreamInv, RingData
    <2>4. rpc' = "reading" => \A v \in Writers : Copying(v)' => SlotOf(widx'[v]) # SlotOf(rcur')
      BY <1>2 DEF StreamInv, RingData
    <2> QED BY <2>1, <2>2, <2>3, <2>4 DEF RingData
  <1>5. StoredExact' /\ ChecksumsExact' /\ DeliveredInOrder' /\ out' \in Seq(Bytes)
    BY <1>2 DEF StreamInv, StoredExact, ChecksumsExact, DeliveredInOrder, Holds, Frontier
  <1> QED BY <1>4, <1>5 DEF StreamInv

\* The chunk of a request that ends was not stored before.
LEMMA FinishStores ==
  ASSUME WindowInv, StreamInv, NEW w \in Writers, wpc[w] = "copied", err = NoErr
  PROVE  stored[widx[w]] = Nil
  <1> USE DEF WindowInv
  <1> DEFINE idx == widx[w]
             s == SlotOf(idx)
  <1>1. idx \in Chunks /\ s \in SlotIds /\ Copying(w) /\ idx \in Nat
    BY ChunkTypes DEF RequestLocals, Copying
  <1>2. slotState[s] = "filling" /\ slotChunk[s] = idx
    BY <1>1 DEF NoRace, Holds
  <1>3. ~ (idx < Frontier)
    <2>1. Frontier \in 0..Total
      BY FrontierType DEF Frontier, TypeOK
    <2>2. Frontier <= idx
      BY <1>1, <1>2 DEF SlotDiscipline
    <2> QED BY <1>1, <2>1, <2>2
  <1>4. ~ Holds(s, "ready", idx)
    BY <1>2 DEF Holds
  <1> QED BY <1>1, <1>3, <1>4 DEF StreamInv, StoredExact

\* What the end of WriteChunk does to the data: nothing, or the chunk is stored.
LEMMA FinishData ==
  ASSUME WindowInv, NEW w \in Writers, FinishChunk(w)
  PROVE  LET idx == widx[w]
             s == SlotOf(idx) IN
         /\ idx \in Chunks /\ s \in SlotIds /\ wbody[w] \in Bodies /\ wpc[w] = "copied"
         /\ UNCHANGED <<readPos, err, ring, rcur, rgot, out>>
         /\ rpc' = rpc \/ (rpc = "parked" /\ rpc' = "loop")
         /\ wpc'[w] = "idle"
         /\ \A v \in Writers \ {w} : /\ widx'[v] = widx[v] /\ wbody'[v] = wbody[v]
                                     /\ wcopied'[v] = wcopied[v] /\ wres'[v] = wres[v]
                                     /\ Copying(v)' => wpc'[v] = wpc[v]
         /\ \A t \in SlotIds \ {s} : slotState'[t] = slotState[t] /\ slotChunk'[t] = slotChunk[t]
         /\ \/ /\ slotState'[s] # "ready" \/ (slotState'[s] = slotState[s] /\ slotChunk'[s] = slotChunk[s])
               /\ ~ (err = NoErr /\ slotState'[s] = "ready")
               /\ wres'[w].idx = -1
               /\ UNCHANGED <<crcs, stored>>
            \/ /\ slotState'[s] = "ready" /\ slotChunk'[s] = idx
               /\ err = NoErr /\ wcopied[w]
               /\ wres'[w].idx = idx /\ wres'[w].crc = CRC32[wbody[w]]
               /\ crcs' = [crcs EXCEPT ![idx] = CRC32[wbody[w]]]
               /\ stored' = [stored EXCEPT ![idx] = wbody[w]]
  <1> DEFINE idx == widx[w]
             s == SlotOf(idx)
  <1> USE DEF WindowInv
  <1>1. idx \in Chunks /\ s \in SlotIds /\ wbody[w] \in Bodies /\ Copying(w) /\ wpc[w] = "copied"
    BY ChunkTypes DEF FinishChunk, RequestLocals, Copying
  <1>2. UNCHANGED <<readPos, err, ring, rcur, rgot, out>>
    BY DEF FinishChunk, window, disk, reader
  <1>3. /\ rpc' = rpc \/ (rpc = "parked" /\ rpc' = "loop")
        /\ wpc'[w] = "idle"
        /\ \A v \in Writers \ {w} : Copying(v)' => wpc'[v] = wpc[v]
    BY DEF FinishChunk, WokenWriters, WokenReader, TypeOK, Copying
  <1>4. \A v \in Writers \ {w} : /\ widx'[v] = widx[v] /\ wbody'[v] = wbody[v]
                                 /\ wcopied'[v] = wcopied[v] /\ wres'[v] = wres[v]
    BY DEF FinishChunk, TypeOK
  <1>5. \A t \in SlotIds \ {s} : slotState'[t] = slotState[t] /\ slotChunk'[t] = slotChunk[t]
    BY <1>1 DEF FinishChunk, TypeOK, window
  <1>6. CASE /\ ~ Holds(s, "filling", idx)
             /\ wres' = [wres EXCEPT ![w] = Failed(IF err # NoErr THEN err ELSE "closed")]
             /\ UNCHANGED <<window, stored>>
    <2>1. err # NoErr
      BY <1>1, <1>6 DEF NoRace
    <2>2. wres'[w].idx = -1
      BY <1>6 DEF TypeOK, Failed
    <2> QED BY <1>1, <1>2, <1>3, <1>4, <1>5, <1>6, <2>1, <2>2 DEF Holds, window
  <1>7. CASE /\ slotState' = [slotState EXCEPT ![s] = "free"]
             /\ wres' = [wres EXCEPT ![w] = Failed(IF wcopied[w] THEN err ELSE "body")]
             /\ UNCHANGED <<crcs, stored>>
    <2>1. slotState'[s] = "free"
      BY <1>1, <1>7 DEF TypeOK
    <2>2. wres'[w].idx = -1
      BY <1>7 DEF TypeOK, Failed
    <2> QED BY <1>1, <1>2, <1>3, <1>4, <1>5, <1>7, <2>1, <2>2 DEF Holds
  <1>8. CASE /\ Holds(s, "filling", idx)
             /\ ~ CopyError(w)
             /\ slotState' = [slotState EXCEPT ![s] = "ready"]
             /\ crcs' = [crcs EXCEPT ![idx] = CRC32[wbody[w]]]
             /\ stored' = [stored EXCEPT ![idx] = wbody[w]]
             /\ wres' = [wres EXCEPT ![w] = OK(idx, CRC32[wbody[w]])]
             /\ UNCHANGED slotChunk
    <2>1. slotState'[s] = "ready" /\ slotChunk'[s] = idx
      BY <1>1, <1>8 DEF TypeOK, Holds
    <2>2. wres'[w].idx = idx /\ wres'[w].crc = CRC32[wbody[w]]
      BY <1>8 DEF TypeOK, OK
    <2>3. err = NoErr /\ wcopied[w]
      BY <1>8 DEF CopyError
    <2> QED BY <1>1, <1>2, <1>3, <1>4, <1>5, <1>8, <2>1, <2>2, <2>3
  <1> QED BY <1>6, <1>7, <1>8 DEF FinishChunk

LEMMA FinishStream ==
  ASSUME WindowInv, WindowInv', StreamInv, NEW w \in Writers, FinishChunk(w)
  PROVE  StreamInv'
  <1> DEFINE idx == widx[w]
             s == SlotOf(idx)
  <1> USE DEF WindowInv
  <1>1. /\ idx \in Chunks /\ s \in SlotIds /\ wbody[w] \in Bodies /\ wpc[w] = "copied"
        /\ UNCHANGED <<readPos, err, ring, rcur, rgot, out>>
        /\ rpc' = rpc \/ (rpc = "parked" /\ rpc' = "loop")
        /\ wpc'[w] = "idle"
        /\ \A v \in Writers \ {w} : /\ widx'[v] = widx[v] /\ wbody'[v] = wbody[v]
                                    /\ wcopied'[v] = wcopied[v] /\ wres'[v] = wres[v]
                                    /\ Copying(v)' => wpc'[v] = wpc[v]
        /\ \A t \in SlotIds \ {s} : slotState'[t] = slotState[t] /\ slotChunk'[t] = slotChunk[t]
    BY FinishData
  <1>2. ASSUME NEW v \in Writers, wpc'[v] = "copied", wcopied'[v], err' = NoErr
        PROVE  ring'[SlotOf(widx'[v])] = <<widx'[v], wbody'[v]>>
    <2>1. v # w
      BY <1>1, <1>2
    <2>2. wpc[v] = "copied" /\ wcopied[v]
      BY <1>1, <1>2, <2>1 DEF Copying
    <2> QED BY <1>1, <1>2, <2>1, <2>2 DEF StreamInv, RingData
  <1>3. \A v \in Writers : Copying(v)' => v # w /\ Copying(v) /\ widx'[v] = widx[v]
    BY <1>1 DEF Copying
  <1>4. CASE /\ slotState'[s] # "ready" \/ (slotState'[s] = slotState[s] /\ slotChunk'[s] = slotChunk[s])
             /\ ~ (err = NoErr /\ slotState'[s] = "ready")
             /\ wres'[w].idx = -1
             /\ UNCHANGED <<crcs, stored>>
    <2>1. RingData'
      <3>1. \A t \in SlotIds : slotState'[t] = "ready" =>
               slotState[t] = "ready" /\ slotChunk'[t] = slotChunk[t]
        BY <1>1, <1>4
      <3>2. \A t \in SlotIds : slotState'[t] = "ready" =>
               ring'[t] = <<slotChunk'[t], stored'[slotChunk'[t]]>>
        BY <1>1, <1>4, <3>1 DEF StreamInv, RingData
      <3>3. rpc' = "reading" =>
               /\ ring'[SlotOf(rcur')] = <<rcur', stored'[rcur']>> /\ stored'[rcur'] # Nil
               /\ \A v \in Writers : Copying(v)' => SlotOf(widx'[v]) # SlotOf(rcur')
        BY <1>1, <1>3, <1>4 DEF StreamInv, RingData
      <3> QED BY <1>2, <3>2, <3>3 DEF RingData
    <2>2. StoredExact'
      <3> SUFFICES ASSUME err = NoErr, NEW c \in Chunks
                   PROVE  stored[c] # Nil <=> c < Frontier \/ Holds(SlotOf(c), "ready", c)'
        BY <1>1, <1>4 DEF StoredExact, Frontier
      <3>1. SlotOf(c) \in SlotIds
        BY ChunkTypes
      <3>2. slotState[s] = "filling"
        BY <1>1 DEF NoRace, Holds, Copying
      <3>3. Holds(SlotOf(c), "ready", c)' <=> Holds(SlotOf(c), "ready", c)
        BY <1>1, <1>4, <3>1, <3>2 DEF Holds
      <3> QED BY <3>3 DEF StreamInv, StoredExact
    <2>3. ChecksumsExact' /\ DeliveredInOrder' /\ out' \in Seq(Bytes)
      BY <1>1, <1>4 DEF StreamInv, ChecksumsExact, DeliveredInOrder
    <2> QED BY <2>1, <2>2, <2>3 DEF StreamInv
  <1>5. CASE /\ slotState'[s] = "ready" /\ slotChunk'[s] = idx
             /\ err = NoErr /\ wcopied[w]
             /\ wres'[w].idx = idx /\ wres'[w].crc = CRC32[wbody[w]]
             /\ crcs' = [crcs EXCEPT ![idx] = CRC32[wbody[w]]]
             /\ stored' = [stored EXCEPT ![idx] = wbody[w]]
    <2>1. stored[idx] = Nil
      BY <1>1, <1>5, FinishStores
    <2>2. /\ stored'[idx] = wbody[w] /\ stored'[idx] # Nil /\ crcs'[idx] = CRC32[wbody[w]]
          /\ \A c \in Chunks \ {idx} : stored'[c] = stored[c] /\ crcs'[c] = crcs[c]
      BY <1>1, <1>5, MarkerAssumption DEF TypeOK
    <2>3. RingData'
      <3>1. ASSUME NEW t \in SlotIds, slotState'[t] = "ready"
            PROVE  ring'[t] = <<slotChunk'[t], stored'[slotChunk'[t]]>>
        <4>1. CASE t = s
          <5>1. ring[s] = <<idx, wbody[w]>>
            BY <1>1, <1>5 DEF StreamInv, RingData
          <5> QED BY <4>1, <5>1, <1>1, <1>5, <2>2
        <4>2. CASE t # s
          <5>1. slotState[t] = "ready" /\ slotChunk'[t] = slotChunk[t]
            BY <1>1, <3>1, <4>2
          <5>2. slotChunk[t] \in Chunks /\ slotChunk[t] # idx
            BY <4>2, <5>1 DEF SlotDiscipline, TypeOK
          <5> QED BY <5>1, <5>2, <1>1, <2>2 DEF StreamInv, RingData
        <4> QED BY <4>1, <4>2
      <3>2. rpc' = "reading" => /\ ring'[SlotOf(rcur')] = <<rcur', stored'[rcur']>> /\ stored'[rcur'] # Nil
                                /\ \A v \in Writers : Copying(v)' => SlotOf(widx'[v]) # SlotOf(rcur')
        <4> SUFFICES ASSUME rpc = "reading"
                     PROVE  /\ ring[SlotOf(rcur)] = <<rcur, stored'[rcur]>> /\ stored'[rcur] # Nil
                            /\ \A v \in Writers : Copying(v)' => SlotOf(widx'[v]) # SlotOf(rcur)
          BY <1>1
        <4>1. rcur \in Chunks /\ rcur # idx
          BY <1>1, CurFacts DEF StreamInv, RingData, Copying, ReaderLocals, Cur, TypeOK
        <4> QED BY <4>1, <1>1, <1>3, <2>2 DEF StreamInv, RingData
      <3> QED BY <1>2, <3>1, <3>2 DEF RingData
    <2>4. StoredExact'
      <3> SUFFICES ASSUME NEW c \in Chunks
                   PROVE  stored'[c] # Nil <=> c < Frontier \/ Holds(SlotOf(c), "ready", c)'
        BY <1>1 DEF StoredExact, Frontier
      <3>1. SlotOf(c) \in SlotIds
        BY ChunkTypes
      <3>2. CASE c = idx
        BY <3>2, <1>5, <2>2 DEF Holds
      <3>3. CASE c # idx
        <4>1. slotState[s] = "filling"
          BY <1>1, <1>5 DEF NoRace, Holds, Copying
        <4>2. Holds(SlotOf(c), "ready", c)' <=> Holds(SlotOf(c), "ready", c)
          BY <1>1, <1>5, <3>1, <3>3, <4>1 DEF Holds
        <4> QED BY <1>5, <2>2, <3>3, <4>2 DEF StreamInv, StoredExact
      <3> QED BY <3>2, <3>3
    <2>5. ChecksumsExact'
      <3>1. \A c \in Chunks : stored'[c] # Nil => crcs'[c] = CRC32[stored'[c]]
        BY <2>2 DEF StreamInv, ChecksumsExact
      <3>2. ASSUME NEW v \in Writers, wres'[v].idx # -1
            PROVE  stored'[wres'[v].idx] # Nil /\ wres'[v].crc = CRC32[stored'[wres'[v].idx]]
        <4>1. CASE v = w
          BY <4>1, <1>5, <2>2
        <4>2. CASE v # w
          <5>1. wres'[v] = wres[v] /\ wres[v].idx \in Chunks /\ stored[wres[v].idx] # Nil
                /\ wres[v].crc = CRC32[stored[wres[v].idx]]
            BY <1>1, <3>2, <4>2 DEF StreamInv, ChecksumsExact, TypeOK
          <5> QED BY <5>1, <2>1, <2>2
        <4> QED BY <4>1, <4>2
      <3> QED BY <3>1, <3>2 DEF ChecksumsExact
    <2>6. DeliveredInOrder'
      <3>1. Len(out') = readPos' + (IF rpc' = "read" THEN rgot' ELSE 0)
        BY <1>1 DEF StreamInv, DeliveredInOrder
      <3>2. ASSUME NEW p \in 0..(Len(out) - 1)
            PROVE  stored'[p \div ChunkSize] # Nil
                   /\ out[p + 1] = <<<<p \div ChunkSize, stored'[p \div ChunkSize]>>, p % ChunkSize>>
        <4> DEFINE c == p \div ChunkSize
        <4>1. stored[c] # Nil /\ out[p + 1] = <<<<c, stored[c]>>, p % ChunkSize>>
          BY DEF StreamInv, DeliveredInOrder
        <4> HIDE DEF c
        <4>2. stored'[c] = stored[c]
          BY <4>1, <2>1, <1>5 DEF TypeOK
        <4>3. stored'[c] # Nil /\ out[p + 1] = <<<<c, stored'[c]>>, p % ChunkSize>>
          BY <4>1, <4>2
        <4> QED BY <4>3 DEF c
      <3> QED BY <1>1, <3>1, <3>2 DEF DeliveredInOrder
    <2> QED BY <1>1, <2>3, <2>4, <2>5, <2>6 DEF StreamInv
  <1> QED BY <1>4, <1>5, FinishData

\* The bytes ReadAt hands over.
Handed(n) == [i \in 1..n |-> <<ring[SlotOf(rcur)], readPos - rcur * ChunkSize + i - 1>>]

\* A shorter read ends no later.
LEMMA AddBound ==
  ASSUME NEW a \in Nat, NEW n \in Nat, NEW l \in Nat, NEW e \in Nat, n <= l, a + l <= e
  PROVE  a + n <= e /\ a + n \in Nat
  OBVIOUS

\* Where a read stands in its chunk.
LEMMA ReadFacts ==
  ASSUME WindowInv, StreamInv, ReadAt
  PROVE  /\ rpc = "reading" /\ rcur \in Chunks /\ rcur \in Nat /\ rcur = readPos \div ChunkSize
         /\ readPos \in Nat /\ rgot' \in Nat /\ rcur * ChunkSize \in Nat
         /\ rcur * ChunkSize <= readPos
         /\ readPos + rgot' <= (rcur + 1) * ChunkSize
         /\ readPos + rgot' <= TotalSize
         /\ Len(out) = readPos
         /\ stored[rcur] # Nil /\ stored[rcur] \in Bodies
         /\ ring[SlotOf(rcur)] = <<rcur, stored[rcur]>>
         /\ out' = out \o Handed(rgot')
  <1> USE DEF WindowInv
  <1>1. /\ rpc = "reading" /\ readPos < TotalSize /\ rcur = readPos \div ChunkSize
        /\ readPos + rlen <= ChunkEnd(rcur) /\ readPos \in Nat /\ rlen \in Nat
    BY WindowParams DEF ReadAt, ReaderLocals, Cur, TypeOK
  <1>2. rcur \in Chunks /\ rcur * ChunkSize <= readPos
    BY <1>1, CurFacts
  <1>3. rcur \in Nat /\ rcur * ChunkSize \in Nat /\ ChunkEnd(rcur) <= (rcur + 1) * ChunkSize
        /\ ChunkEnd(rcur) <= TotalSize /\ ChunkEnd(rcur) \in Nat
    BY <1>2, ChunkFacts, WindowParams
  <1>4. rgot' \in Nat /\ rgot' <= rlen
    BY <1>1 DEF ReadAt
  <1>5. (rcur + 1) * ChunkSize \in Nat
    BY <1>3, WindowParams
  <1>6. stored[rcur] # Nil /\ ring[SlotOf(rcur)] = <<rcur, stored[rcur]>> /\ stored[rcur] \in Bodies
    BY <1>1, <1>2 DEF StreamInv, RingData, TypeOK
  <1>7. Len(out) = readPos
    BY <1>1 DEF StreamInv, DeliveredInOrder
  <1>8. out' = out \o Handed(rgot')
    BY DEF ReadAt, Handed
  <1>9. readPos + rgot' <= (rcur + 1) * ChunkSize /\ readPos + rgot' <= TotalSize
    <2> DEFINE e == ChunkEnd(rcur)
    <2>0. e \in Nat /\ e <= (rcur + 1) * ChunkSize /\ e <= TotalSize /\ readPos + rlen <= e
      BY <1>1, <1>3
    <2> HIDE DEF e
    <2>1. PICK n \in Nat : n = rgot' /\ n <= rlen
      BY <1>4
    <2>4. readPos \in Nat /\ rlen \in Nat
      BY <1>1
    <2>5. e \in Nat /\ readPos + rlen <= e
      BY <2>0
    <2>3. readPos + n <= e /\ readPos + n \in Nat
      BY <2>1, <2>4, <2>5, AddBound
    <2>2. TotalSize \in Nat
      BY WindowParams
    <2> QED BY <1>5, <2>0, <2>1, <2>2, <2>3
  <1> QED BY <1>1, <1>2, <1>3, <1>4, <1>6, <1>7, <1>8, <1>9

\* Every byte handed over is the byte of the file at its position.
LEMMA HandedFacts ==
  ASSUME WindowInv, StreamInv, ReadAt, NEW i \in 1..rgot'
  PROVE  LET p == readPos + i - 1 IN
         /\ p \div ChunkSize = rcur
         /\ Handed(rgot')[i] = <<<<rcur, stored[rcur]>>, p % ChunkSize>>
         /\ p % ChunkSize \in Nat
  <1> DEFINE p == readPos + i - 1
  <1>1. p \in Nat /\ rcur * ChunkSize <= p /\ p < (rcur + 1) * ChunkSize /\ i \in Nat
    <2>1. (rcur + 1) * ChunkSize \in Nat
      BY ReadFacts, WindowParams
    <2> QED BY ReadFacts, <2>1
  <1>2. p \div ChunkSize = rcur /\ p % ChunkSize = p - rcur * ChunkSize
    BY <1>1, ReadFacts, OffsetFacts
  <1>3. readPos - rcur * ChunkSize + i - 1 = p - rcur * ChunkSize /\ p - rcur * ChunkSize \in Nat
    BY <1>1, ReadFacts
  <1>4. Handed(rgot')[i] = <<ring[SlotOf(rcur)], readPos - rcur * ChunkSize + i - 1>>
    BY DEF Handed
  <1> QED BY <1>2, <1>3, <1>4, ReadFacts

LEMMA ReadAtStream ==
  ASSUME WindowInv, WindowInv', StreamInv, ReadAt
  PROVE  StreamInv'
  <1> DEFINE n == rgot'
             B == Handed(n)
  <1>1. /\ UNCHANGED <<slotState, slotChunk, readPos, crcs, err, ring, stored, rcur, wpc, widx,
                       wbody, wcopied, wres>>
        /\ rpc' = "read"
    BY DEF ReadAt, window, disk, request
  <1>2. n \in Nat /\ out \in Seq(Bytes)
    BY ReadFacts DEF StreamInv
  <1>3. B \in Seq(Bytes) /\ Len(B) = n
    <2>1. \A i \in 1..n : B[i] \in Bytes
      <3> TAKE i \in 1..n
      <3>1. B[i] = <<<<rcur, stored[rcur]>>, (readPos + i - 1) % ChunkSize>>
            /\ (readPos + i - 1) % ChunkSize \in Nat
        BY HandedFacts
      <3> QED BY <3>1, ReadFacts DEF Bytes
    <2>2. B = [i \in 1..n |-> B[i]]
      BY DEF Handed
    <2> HIDE DEF B
    <2> QED BY <1>2, <2>1, <2>2
  <1> HIDE DEF n, B
  <1>4. /\ out' \in Seq(Bytes) /\ Len(out') = readPos + n
        /\ \A i \in 1..(readPos + n) : out'[i] = IF i <= readPos THEN out[i] ELSE B[i - readPos]
    <2>1. out' = out \o B /\ Len(out) = readPos
      BY ReadFacts DEF n, B
    <2> QED BY <1>2, <1>3, <2>1, ConcatProperties
  <1>5. DeliveredInOrder'
    <2>1. Len(out') = readPos' + rgot'
      BY <1>1, <1>4 DEF n
    <2>2. ASSUME NEW p \in 0..(Len(out') - 1)
          PROVE  /\ stored'[p \div ChunkSize] # Nil
                 /\ out'[p + 1] = <<<<p \div ChunkSize, stored'[p \div ChunkSize]>>, p % ChunkSize>>
      <3>0. readPos \in Nat /\ Len(out) = readPos
        BY ReadFacts
      <3>1. CASE p < readPos
        <4>1. out'[p + 1] = out[p + 1]
          BY <1>2, <1>4, <3>0, <3>1
        <4>2. p \in 0..(Len(out) - 1)
          BY <1>2, <1>4, <3>0, <3>1
        <4> QED BY <4>1, <4>2, <1>1 DEF StreamInv, DeliveredInOrder
      <3>2. CASE p >= readPos
        <4> DEFINE i == p + 1 - readPos
        <4>1. i \in 1..n /\ out'[p + 1] = B[i] /\ readPos + i - 1 = p
          BY <1>2, <1>4, <3>0, <3>2
        <4>2. i \in 1..rgot' /\ B[i] = Handed(rgot')[i]
          BY <4>1 DEF n, B
        <4> HIDE DEF i
        <4>3. p \div ChunkSize = rcur /\ B[i] = <<<<rcur, stored[rcur]>>, p % ChunkSize>>
          BY <4>1, <4>2, HandedFacts
        <4> QED BY <4>1, <4>3, <1>1, ReadFacts
      <3> QED BY <1>2, <1>4, <3>0, <3>1, <3>2
    <2> QED BY <1>1, <2>1, <2>2 DEF DeliveredInOrder
  <1>6. RingData'
    <2>1. ASSUME NEW w \in Writers, wpc'[w] = "copied", wcopied'[w], err' = NoErr
          PROVE  ring'[SlotOf(widx'[w])] = <<widx'[w], wbody'[w]>>
      <3>1. wcopied[w]
        BY <1>1, <2>1
      <3> QED BY <1>1, <2>1, <3>1 DEF StreamInv, RingData
    <2> QED BY <1>1, <2>1 DEF StreamInv, RingData
  <1>7. StoredExact' /\ ChecksumsExact'
    BY <1>1 DEF StreamInv, StoredExact, ChecksumsExact, Holds, Frontier
  <1> QED BY <1>4, <1>5, <1>6, <1>7 DEF StreamInv

\* The reader's other steps before the position moves.
LEMMA ReadStream ==
  ASSUME WindowInv, WindowInv', StreamInv,
         ReadFails \/ ReadStarts \/ ReadParks \/ \E n \in 1..ChunkSize : Read(n)
  PROVE  StreamInv'
  <1> USE DEF WindowInv
  <1>1. /\ UNCHANGED <<slotState, slotChunk, readPos, crcs, err, ring, stored, out, rgot, wpc, widx,
                       wbody, wcopied, wres>>
        /\ rpc \in {"idle", "loop"} /\ rpc' # "read"
    BY DEF ReadFails, ReadStarts, ReadParks, Read, window, disk, request, reader, history
  <1>2. ASSUME NEW w \in Writers, wpc'[w] = "copied", wcopied'[w], err' = NoErr
        PROVE  ring'[SlotOf(widx'[w])] = <<widx'[w], wbody'[w]>>
    <2>1. wcopied[w]
      BY <1>1, <1>2
    <2> QED BY <1>1, <1>2, <2>1 DEF StreamInv, RingData
  <1>3. ASSUME rpc' = "reading"
        PROVE  /\ ring'[SlotOf(rcur')] = <<rcur', stored'[rcur']>> /\ stored'[rcur'] # Nil
               /\ \A w \in Writers : Copying(w)' => SlotOf(widx'[w]) # SlotOf(rcur')
    <2>1. rcur' = Cur /\ err = NoErr /\ Holds(SlotOf(Cur), "ready", Cur) /\ readPos < TotalSize
      BY <1>3 DEF ReadFails, ReadStarts, ReadParks, Read, Readable
    <2>2. Cur \in Chunks /\ SlotOf(Cur) \in SlotIds
      BY <2>1, CurFacts, ChunkTypes DEF Cur, TypeOK
    <2>3. ring[SlotOf(Cur)] = <<Cur, stored[Cur]>> /\ stored[Cur] # Nil
      BY <2>1, <2>2 DEF StreamInv, RingData, StoredExact, Holds
    <2>4. \A w \in Writers : Copying(w) => SlotOf(widx[w]) # SlotOf(Cur)
      BY <2>1 DEF NoRace, Holds
    <2> QED BY <1>1, <2>1, <2>3, <2>4 DEF Copying
  <1>4. RingData'
    BY <1>1, <1>2, <1>3 DEF StreamInv, RingData
  <1>5. StoredExact' /\ ChecksumsExact'
    BY <1>1 DEF StreamInv, StoredExact, ChecksumsExact, Holds, Frontier
  <1>6. DeliveredInOrder' /\ out' \in Seq(Bytes)
    BY <1>1 DEF StreamInv, DeliveredInOrder
  <1> QED BY <1>4, <1>5, <1>6 DEF StreamInv

\* The position moves; a chunk that was ready and is done stays stored.
LEMMA ReadFinishStream ==
  ASSUME WindowInv, WindowInv', StreamInv, ReadFinishes
  PROVE  StreamInv'
  <1> DEFINE s == SlotOf(rcur)
             q == readPos + rgot
  <1> USE DEF WindowInv
  <1>1. /\ readPos \in Nat /\ readPos < TotalSize /\ rcur = Cur /\ rcur \in Chunks
        /\ rcur \in Nat /\ s \in SlotIds /\ q \in Nat /\ readPos <= q /\ q <= ChunkEnd(rcur)
        /\ ChunkEnd(rcur) \in Nat /\ rgot \in Nat /\ rpc = "read"
    BY CurFacts, ChunkTypes, ChunkFacts DEF ReadFinishes, ReaderLocals, TypeOK, Cur
  <1>2. CrossesEnd <=> q = ChunkEnd(rcur)
    <2>1. readPos < ChunkEnd(rcur)
      BY <1>1, CurFacts DEF Cur
    <2>2. CrossesEnd <=> rgot > 0 /\ readPos + rgot >= ChunkEnd(rcur)
      BY DEF CrossesEnd, ChunkEnd
    <2> QED BY <1>1, <2>1, <2>2
  <1>3. /\ ~ CrossesEnd => FrontierAt(q) = Frontier
        /\ CrossesEnd => FrontierAt(q) = Frontier + 1
        /\ Frontier = rcur
    BY <1>1, <1>2, FrontierAdvance, CurFacts DEF Cur, Frontier
  <1>4. /\ UNCHANGED <<crcs, err, ring, stored, out, widx, wbody, wcopied, wres>>
        /\ readPos' = q /\ rpc' = "idle"
        /\ \A v \in Writers : wpc'[v] = "copied" => wpc[v] = "copied"
        /\ \A t \in SlotIds \ {s} : slotState'[t] = slotState[t] /\ slotChunk'[t] = slotChunk[t]
        /\ CrossesEnd => slotState'[s] = "free" /\ slotChunk'[s] = -1
        /\ ~ CrossesEnd => slotState'[s] = slotState[s] /\ slotChunk'[s] = slotChunk[s]
    BY <1>1 DEF ReadFinishes, TypeOK, disk, request, history, WokenWriters
  <1>5. RingData'
    <2>1. ASSUME NEW v \in Writers, wpc'[v] = "copied", wcopied'[v], err' = NoErr
          PROVE  ring'[SlotOf(widx'[v])] = <<widx'[v], wbody'[v]>>
      <3>1. wcopied[v]
        BY <1>4, <2>1
      <3> QED BY <1>4, <2>1, <3>1 DEF StreamInv, RingData
    <2>2. ASSUME NEW t \in SlotIds, slotState'[t] = "ready"
          PROVE  ring'[t] = <<slotChunk'[t], stored'[slotChunk'[t]]>>
      <3>1. slotState[t] = "ready" /\ slotChunk'[t] = slotChunk[t]
        BY <1>4, <2>2
      <3> QED BY <1>4, <3>1 DEF StreamInv, RingData
    <2> QED BY <1>4, <2>1, <2>2 DEF RingData
  <1>6. StoredExact'
    <2> SUFFICES ASSUME err = NoErr, NEW c \in Chunks
                 PROVE  stored[c] # Nil <=> c < FrontierAt(q) \/ Holds(SlotOf(c), "ready", c)'
      BY <1>4 DEF StoredExact, Frontier
    <2>1. /\ SlotOf(c) \in SlotIds /\ c \in Nat
          /\ stored[c] # Nil <=> c < rcur \/ Holds(SlotOf(c), "ready", c)
      BY <1>3, ChunkTypes DEF StreamInv, StoredExact
    <2>2. CASE ~ CrossesEnd
      BY <1>3, <1>4, <2>1, <2>2 DEF Holds
    <2>3. CASE CrossesEnd
      <3>1. Holds(s, "ready", rcur)
        BY <1>1 DEF NoRace
      <3>2. CASE c = rcur
        BY <1>1, <1>3, <2>1, <2>3, <3>1, <3>2
      <3>3. CASE c # rcur
        <4>1. Holds(SlotOf(c), "ready", c)' <=> Holds(SlotOf(c), "ready", c)
          BY <1>4, <2>1, <2>3, <3>1, <3>3, ChunkTypes DEF Holds
        <4> QED BY <1>1, <1>3, <2>1, <2>3, <3>3, <4>1
      <3> QED BY <3>2, <3>3
    <2> QED BY <2>2, <2>3
  <1>7. ChecksumsExact' /\ DeliveredInOrder' /\ out' \in Seq(Bytes)
    BY <1>1, <1>4 DEF StreamInv, ChecksumsExact, DeliveredInOrder
  <1> QED BY <1>5, <1>6, <1>7 DEF StreamInv

\* A close frees the slots and leaves the data of reads under way alone.
LEMMA CloseStream ==
  ASSUME WindowInv, WindowInv', StreamInv, NEW c \in Closers,
         RemoveRing(c) \/ \E e \in Errors : CloseWithError(c, e)
  PROVE  StreamInv'
  <1> USE DEF WindowInv
  <1>1. CASE RemoveRing(c)
    BY <1>1, QuietStream DEF RemoveRing, Undisturbed, window, request, reader, history, Copying
  <1>2. CASE \E e \in Errors : CloseWithError(c, e)
    <2>1. /\ err' # NoErr
          /\ slotState' = [s \in SlotIds |-> "free"]
          /\ UNCHANGED <<readPos, crcs, ring, stored, out, rcur, rgot, widx, wbody, wcopied, wres>>
          /\ rpc' = rpc \/ (rpc = "parked" /\ rpc' = "loop")
          /\ \A v \in Writers : Copying(v)' <=> Copying(v)
      BY <1>2, MarkerAssumption DEF CloseWithError, Sticky, Errors, TypeOK, WokenReader, WokenWriters,
            Copying, disk, request, timing, reader, history
    <2>2. RingData'
      BY <2>1 DEF StreamInv, RingData
    <2>3. StoredExact' /\ ChecksumsExact' /\ DeliveredInOrder' /\ out' \in Seq(Bytes)
      BY <2>1 DEF StreamInv, StoredExact, ChecksumsExact, DeliveredInOrder
    <2> QED BY <2>2, <2>3 DEF StreamInv
  <1> QED BY <1>1, <1>2

LEMMA NextStream == WindowInv /\ WindowInv' /\ StreamInv /\ [Next]_vars => StreamInv'
  <1> SUFFICES ASSUME WindowInv, WindowInv', StreamInv, [Next]_vars PROVE StreamInv'
    OBVIOUS
  <1>1. ASSUME NEW w \in Writers, NEW idx \in -1..Total, NEW body \in Bodies,
               Request(w, idx, body)
        PROVE  StreamInv'
    BY <1>1, RequestStream
  <1>2. ASSUME NEW w \in Writers, WriterStep(w) PROVE StreamInv'
    BY <1>2, ReturnStream, AdmitStream, WaitStream, CopyStream, FinishStream DEF WriterStep, WriterPass
  <1>3. ASSUME NEW w \in Writers, Deadline(w) \/ TimerFires(w) PROVE StreamInv'
    BY <1>3, WaitStream
  <1>4. CASE ReaderStep \/ \E n \in 1..ChunkSize : Read(n)
    BY <1>4, ReadStream, ReadAtStream, ReadFinishStream DEF ReaderStep
  <1>5. ASSUME NEW c \in Closers, NEW e \in {"closed", "aborted"}, CloseWithError(c, e)
        PROVE  StreamInv'
    BY <1>5, CloseStream DEF Errors
  <1>6. ASSUME NEW c \in Closers, RemoveRing(c) PROVE StreamInv'
    BY <1>6, CloseStream
  <1>7. CASE UNCHANGED vars
    BY <1>7, QuietStream DEF Undisturbed, vars, window, disk, request, reader, history, Copying
  <1> QED BY <1>1, <1>2, <1>3, <1>4, <1>5, <1>6, <1>7 DEF Next

LEMMA StreamInvHolds == Spec => [](WindowInv /\ StreamInv)
  <1>1. WindowInv /\ StreamInv /\ [Next]_vars => (WindowInv /\ StreamInv)'
    BY NextInv, NextStream
  <1> QED BY <1>1, InitInv, InitStream, PTL DEF Spec

\* The driver reads the file: every byte Read returns is the byte of its
\* position, from the payload stored for its chunk, whatever the order in which
\* the chunks arrive and across a close.
THEOREM ReadInOrder == Spec => []DeliveredInOrder
  <1>1. StreamInv => DeliveredInOrder
    BY DEF StreamInv
  <1> QED BY <1>1, StreamInvHolds, PTL

-----------------------------------------------------------------------------
(***************************************************************************)
(* The bytes Snapshot reports: sums over finite sets.                      *)
(***************************************************************************)
\* The library's choice of an element.
Pick(s) == CHOOSE x \in s : TRUE

\* The recursive function behind the library's sum over S.
IsFold(it, f, S) ==
    it = [s \in SUBSET S |-> IF s = {} THEN 0 ELSE f[Pick(s)] + it[s \ {Pick(s)}]]

\* H[T] is the sum of f over T, for every part T of D: any element may come first.
IsSum(H, f, D) ==
    /\ H \in [SUBSET D -> Int]
    /\ H[{}] = 0
    /\ \A T \in SUBSET D : \A x \in T : H[T] = f[x] + H[T \ {x}]

\* The element chosen is one of the set.
LEMMA PickIn == ASSUME NEW s, s # {} PROVE Pick(s) \in s
  BY DEF Pick

\* Induction on the parts of a finite set: the smallest exception would have none.
LEMMA PartInduction ==
  ASSUME NEW S, IsFiniteSet(S), NEW P, {} \in P,
         \A T \in SUBSET S : \A x \in S \ T : T \in P => T \cup {x} \in P
  PROVE  \A T \in SUBSET S : T \in P
  <1> DEFINE B == {T \in SUBSET S : T \notin P}
             R == StrictSubsetOrdering(S)
  <1>1. IsWellFoundedOn(R, SUBSET S)
    BY FS_StrictSubsetOrderingWellFounded, FS_FiniteSubsetsOfFinite
  <1> SUFFICES ASSUME B # {} PROVE FALSE
    OBVIOUS
  <1>2. PICK m \in B : \A y \in B : ~ (<<y, m>> \in R)
    <2>1. B \subseteq SUBSET S
      OBVIOUS
    <2> HIDE DEF B, R
    <2> QED BY <1>1, <2>1, WFMin
  <1>3. PICK x \in m : TRUE
    BY <1>2
  <1>4. m \ {x} \in SUBSET S /\ x \in S \ (m \ {x}) /\ m = (m \ {x}) \cup {x}
    BY <1>2, <1>3
  <1>5. <<m \ {x}, m>> \in R
    BY <1>2, <1>3, <1>4 DEF StrictSubsetOrdering
  <1>6. m \ {x} \in P
    BY <1>2, <1>4, <1>5
  <1> QED BY <1>2, <1>4, <1>6

\* Induction on the naturals, on the sizes of the parts of 1..n.
LEMMA CountInduction ==
  ASSUME NEW P, 0 \in P, \A n \in Nat : n \in P => n + 1 \in P
  PROVE  \A n \in Nat : n \in P
  <1> SUFFICES ASSUME NEW n \in Nat PROVE n \in P
    OBVIOUS
  <1> DEFINE Q == {T \in SUBSET (1..n) : Cardinality(T) \in P}
  <1>1. IsFiniteSet(1..n) /\ Cardinality(1..n) = n
    <2>1. 1 \in Int /\ n \in Int
      OBVIOUS
    <2> QED BY <2>1, FS_Interval
  <1>2. {} \in Q
    BY FS_EmptySet
  <1>3. ASSUME NEW T \in SUBSET (1..n), NEW x \in (1..n) \ T, T \in Q PROVE T \cup {x} \in Q
    <2>1. IsFiniteSet(T)
      BY <1>1, FS_Subset
    <2>2. Cardinality(T \cup {x}) = Cardinality(T) + 1 /\ Cardinality(T) \in Nat
      BY <1>3, <2>1, FS_AddElement, FS_CardinalityType
    <2> QED BY <1>3, <2>2
  <1>4. \A T \in SUBSET (1..n) : T \in Q
    <2> HIDE DEF Q
    <2> QED BY <1>1, <1>2, <1>3, PartInduction
  <1> QED BY <1>1, <1>4

\* The library's recursion has a solution: it only asks for smaller sets.
LEMMA FoldExists ==
  ASSUME NEW S, IsFiniteSet(S), NEW f, \A c \in S : f[c] \in Int
  PROVE  \E it : IsFold(it, f, S)
  <1> DEFINE Upto(n) == {T \in SUBSET S : Cardinality(T) <= n}
             Step(g) == [s \in SUBSET S |-> IF s = {} THEN 0 ELSE f[Pick(s)] + g[s \ {Pick(s)}]]
             Good(g, n) == \A s \in Upto(n) : g[s] = Step(g)[s]
             P == {n \in Nat : \E g : Good(g, n)}
  <1>1. ASSUME NEW s \in SUBSET S, s # {}
        PROVE  /\ Pick(s) \in s /\ s \ {Pick(s)} \in SUBSET S
               /\ Cardinality(s) \in Nat /\ Cardinality(s \ {Pick(s)}) = Cardinality(s) - 1
    BY <1>1, PickIn, FS_Subset, FS_CardinalityType, FS_RemoveElement
  <1>2. 0 \in P
    <2>1. \A s \in Upto(0) : s = {}
      BY FS_Subset, FS_CardinalityType, FS_EmptySet
    <2>2. Good([s \in SUBSET S |-> 0], 0)
      BY <2>1
    <2> QED BY <2>2
  <1>3. ASSUME NEW n \in Nat, n \in P PROVE n + 1 \in P
    <2>1. PICK g : Good(g, n)
      BY <1>3
    <2>2. Good(Step(g), n + 1)
      <3> SUFFICES ASSUME NEW s \in Upto(n + 1), s # {} PROVE Step(g)[s] = Step(Step(g))[s]
        OBVIOUS
      <3>1. s \ {Pick(s)} \in Upto(n)
        BY <1>1
      <3>2. Step(g)[s \ {Pick(s)}] = g[s \ {Pick(s)}]
        BY <2>1, <3>1
      <3> QED BY <3>2
    <2>3. n + 1 \in Nat
      OBVIOUS
    <2> HIDE DEF Good
    <2> QED BY <2>2, <2>3
  <1>4. \A n \in Nat : n \in P
    <2> HIDE DEF P
    <2> QED BY <1>2, <1>3, CountInduction
  <1>5. Cardinality(S) \in Nat /\ \A T \in SUBSET S : T \in Upto(Cardinality(S))
    BY FS_Subset, FS_CardinalityType
  <1>6. PICK g : Good(g, Cardinality(S))
    BY <1>4, <1>5
  <1>7. IsFold(Step(g), f, S)
    <2>1. \A s \in SUBSET S : g[s] = Step(g)[s]
      BY <1>5, <1>6
    <2>2. \A s \in SUBSET S : s # {} => g[s \ {Pick(s)}] = Step(g)[s \ {Pick(s)}]
      BY <2>1
    <2>3. Step(g) = Step(Step(g))
      BY <2>2
    <2> QED BY <2>3 DEF IsFold
  <1> QED BY <1>7

\* Whatever element the library takes first, the sum is the same.
LEMMA FoldIsSum ==
  ASSUME NEW S, IsFiniteSet(S), NEW f, \A c \in S : f[c] \in Int, NEW it, IsFold(it, f, S)
  PROVE  IsSum(it, f, S)
  <1> DEFINE P == {T \in SUBSET S : it[T] \in Int
                      /\ \A x \in T : it[T \ {x}] \in Int /\ it[T] = f[x] + it[T \ {x}]}
             N == {n \in Nat : \A T \in SUBSET S : Cardinality(T) <= n => T \in P}
  <1>1. \A s \in SUBSET S : s # {} => Pick(s) \in s /\ it[s] = f[Pick(s)] + it[s \ {Pick(s)}]
    BY PickIn DEF IsFold
  <1>2. it[{}] = 0
    BY DEF IsFold
  <1>3. \A T \in SUBSET S : Cardinality(T) \in Nat /\ \A x \in T : Cardinality(T \ {x}) = Cardinality(T) - 1
    BY FS_Subset, FS_CardinalityType, FS_RemoveElement
  <1>4. 0 \in N
    <2>1. \A T \in SUBSET S : Cardinality(T) <= 0 => T = {}
      BY FS_Subset, FS_CardinalityType, FS_EmptySet
    <2> QED BY <2>1, <1>2
  <1>5. ASSUME NEW n \in Nat, n \in N PROVE n + 1 \in N
    <2>0. {} \in P
      BY <1>2
    <2> SUFFICES ASSUME NEW T \in SUBSET S, Cardinality(T) <= n + 1 PROVE T \in P
      <3> HIDE DEF P
      <3> QED OBVIOUS
    <2> SUFFICES ASSUME T # {} PROVE T \in P
      BY <2>0
    <2> DEFINE c == Pick(T)
    <2>1. c \in T /\ it[T] = f[c] + it[T \ {c}] /\ f[c] \in Int
      BY <1>1
    <2> HIDE DEF c
    <2>2. \A x \in T : T \ {x} \in P
      BY <1>3, <1>5
    <2>3. it[T] \in Int
      BY <2>1, <2>2
    <2>4. ASSUME NEW x \in T, x # c PROVE it[T] = f[x] + it[T \ {x}]
      <3>1. it[T \ {c}] = f[x] + it[(T \ {c}) \ {x}] /\ it[(T \ {c}) \ {x}] \in Int
        BY <2>1, <2>2, <2>4
      <3>2. it[T \ {x}] = f[c] + it[(T \ {x}) \ {c}]
        BY <2>1, <2>2, <2>4
      <3>3. (T \ {x}) \ {c} = (T \ {c}) \ {x}
        OBVIOUS
      <3>4. f[x] \in Int
        OBVIOUS
      <3> DEFINE a == it[(T \ {c}) \ {x}]
      <3>5. it[T \ {x}] = f[c] + a
        BY <3>2, <3>3
      <3>6. it[T] = f[c] + (f[x] + a) /\ a \in Int
        BY <2>1, <3>1
      <3> HIDE DEF a
      <3> QED BY <2>1, <3>4, <3>5, <3>6
    <2> QED BY <2>1, <2>2, <2>3, <2>4
  <1>6. \A n \in Nat : n \in N
    <2> HIDE DEF N
    <2> QED BY <1>4, <1>5, CountInduction
  <1>7. \A T \in SUBSET S : T \in P
    BY <1>3, <1>6
  <1>8. it \in [SUBSET S -> Int]
    <2>1. \A T \in SUBSET S : it[T] \in Int
      BY <1>7
    <2>2. it = [T \in SUBSET S |-> it[T]]
      BY DEF IsFold
    <2> QED BY <2>1, <2>2
  <1> QED BY <1>2, <1>7, <1>8 DEF IsSum

\* Every finite family of numbers has a sum.
LEMMA SumExists ==
  ASSUME NEW D, IsFiniteSet(D), NEW f, \A c \in D : f[c] \in Int
  PROVE  \E H : IsSum(H, f, D)
  BY FoldExists, FoldIsSum

\* Two families that agree on T have the same sum over T.
LEMMA SameSum ==
  ASSUME NEW D, NEW E, NEW f, NEW g, NEW H, NEW G, IsSum(H, f, D), IsSum(G, g, E),
         NEW S \in SUBSET D, S \in SUBSET E, IsFiniteSet(S), \A c \in S : f[c] = g[c]
  PROVE  H[S] = G[S]
  <1> DEFINE P == {T \in SUBSET S : H[T] = G[T]}
  <1>1. {} \in P
    BY DEF IsSum
  <1>2. ASSUME NEW T \in SUBSET S, NEW x \in S \ T, T \in P PROVE T \cup {x} \in P
    <2>1. (T \cup {x}) \ {x} = T /\ x \in T \cup {x}
          /\ T \cup {x} \in SUBSET D /\ T \cup {x} \in SUBSET E
      OBVIOUS
    <2>2. H[T \cup {x}] = f[x] + H[T]
      BY <2>1 DEF IsSum
    <2>3. G[T \cup {x}] = g[x] + G[T]
      BY <2>1 DEF IsSum
    <2> QED BY <1>2, <2>2, <2>3
  <1>3. \A T \in SUBSET S : T \in P
    <2> HIDE DEF P
    <2> QED BY <1>1, <1>2, PartInduction
  <1> QED BY <1>3

\* The sum over two disjoint sets.
LEMMA SumUnion ==
  ASSUME NEW D, NEW f, NEW H, IsSum(H, f, D), \A c \in D : f[c] \in Int,
         NEW A \in SUBSET D, NEW B \in SUBSET D, IsFiniteSet(B), A \cap B = {}
  PROVE  H[A \cup B] = H[A] + H[B]
  <1> DEFINE P == {T \in SUBSET B : H[A \cup T] = H[A] + H[T]}
  <1>0. \A T \in SUBSET D : H[T] \in Int
    BY DEF IsSum
  <1>1. {} \in P
    <2>1. A \cup {} = A /\ H[{}] = 0
      BY DEF IsSum
    <2> QED BY <1>0, <2>1
  <1>2. ASSUME NEW T \in SUBSET B, NEW x \in B \ T, T \in P PROVE T \cup {x} \in P
    <2>1. (T \cup {x}) \ {x} = T /\ x \in T \cup {x} /\ T \cup {x} \in SUBSET D
      OBVIOUS
    <2>2. (A \cup (T \cup {x})) \ {x} = A \cup T /\ x \in A \cup (T \cup {x})
          /\ A \cup (T \cup {x}) \in SUBSET D
      OBVIOUS
    <2>3. H[T \cup {x}] = f[x] + H[T]
      BY <2>1 DEF IsSum
    <2>4. H[A \cup (T \cup {x})] = f[x] + H[A \cup T]
      BY <2>2 DEF IsSum
    <2>5. f[x] \in Int /\ H[T] \in Int /\ H[A] \in Int /\ H[A \cup T] = H[A] + H[T]
      BY <1>0, <1>2
    <2> QED BY <2>3, <2>4, <2>5
  <1>3. \A T \in SUBSET B : T \in P
    <2> HIDE DEF P
    <2> QED BY <1>1, <1>2, PartInduction
  <1> QED BY <1>3

\* There are finitely many chunks.
LEMMA ChunksFinite == IsFiniteSet(Chunks)
  <1>1. 0 \in Int /\ Total - 1 \in Int
    BY TotalFacts
  <1> QED BY <1>1, FS_Interval DEF Chunks

\* The library's sum of chunk lengths is the sum of the lengths.
LEMMA LengthSum ==
  ASSUME NEW S \in SUBSET Chunks, NEW H, IsSum(H, [c \in Chunks |-> ChunkLen(c)], Chunks)
  PROVE  MapThenSumSet(ChunkLen, S) = H[S]
  <1> DEFINE f == [c \in Chunks |-> ChunkLen(c)]
             Body(it) == [s \in SUBSET S |->
                 IF s = {} THEN 0
                 ELSE ChunkLen(CHOOSE x \in s : TRUE) + it[s \ {CHOOSE x \in s : TRUE}]]
             it == CHOOSE it : it = Body(it)
  <1>1. IsFiniteSet(S) /\ \A c \in S : f[c] \in Int
    BY ChunksFinite, FS_Subset, ChunkFacts, WindowParams
  <1>2. \A g : IsFold(g, f, S) <=> g = Body(g)
    <2>1. \A s \in SUBSET S : s # {} => f[Pick(s)] = ChunkLen(Pick(s))
      BY PickIn
    <2> HIDE DEF f
    <2> QED BY <2>1 DEF IsFold, Pick
  <1>3. \E g : g = Body(g)
    <2> HIDE DEF f, Body
    <2> QED BY <1>1, <1>2, FoldExists
  <1>4. it = Body(it)
    <2> HIDE DEF Body
    <2> QED BY <1>3, Zenon
  <1>5. MapThenSumSet(ChunkLen, S) = it[S]
    BY DEF MapThenSumSet, MapThenFoldSet
  <1>6. IsFold(it, f, S)
    BY <1>2, <1>4
  <1> HIDE DEF it, f, Body
  <1>7. IsSum(it, f, S) /\ IsSum(H, f, Chunks)
    BY <1>1, <1>6, FoldIsSum DEF f
  <1>8. S \in SUBSET S /\ \A c \in S : f[c] = f[c]
    OBVIOUS
  <1>9. it[S] = H[S]
    BY <1>1, <1>7, <1>8, SameSum
  <1> QED BY <1>5, <1>9

\* What is left of a chunk for the reader (window.go, Snapshot).
Unread(c) == ChunkLen(c) - (IF readPos > c * ChunkSize THEN readPos - c * ChunkSize ELSE 0)

\* The library's sum of what is left is the sum of what is left.
LEMMA UnreadSum ==
  ASSUME NEW S \in SUBSET Chunks, readPos \in Nat,
         NEW H, IsSum(H, [c \in Chunks |-> Unread(c)], Chunks)
  PROVE  MapThenSumSet(LAMBDA c : ChunkLen(c) -
              (IF readPos > c * ChunkSize THEN readPos - c * ChunkSize ELSE 0), S) = H[S]
  <1> DEFINE f == [c \in Chunks |-> Unread(c)]
             Body(it) == [s \in SUBSET S |->
                 IF s = {} THEN 0
                 ELSE Unread(CHOOSE x \in s : TRUE) + it[s \ {CHOOSE x \in s : TRUE}]]
             it == CHOOSE it : it = Body(it)
  <1>1. IsFiniteSet(S) /\ \A c \in S : f[c] \in Int
    BY ChunksFinite, FS_Subset, ChunkFacts, WindowParams DEF Unread
  <1>2. \A g : IsFold(g, f, S) <=> g = Body(g)
    <2>1. \A s \in SUBSET S : s # {} => f[Pick(s)] = Unread(Pick(s))
      BY PickIn
    <2> HIDE DEF f
    <2> QED BY <2>1 DEF IsFold, Pick
  <1>3. \E g : g = Body(g)
    <2> HIDE DEF f, Body
    <2> QED BY <1>1, <1>2, FoldExists
  <1>4. it = Body(it)
    <2> HIDE DEF Body
    <2> QED BY <1>3, Zenon
  <1>5. MapThenSumSet(LAMBDA c : ChunkLen(c) -
              (IF readPos > c * ChunkSize THEN readPos - c * ChunkSize ELSE 0), S) = it[S]
    BY DEF MapThenSumSet, MapThenFoldSet, Unread
  <1>6. IsFold(it, f, S)
    BY <1>2, <1>4
  <1> HIDE DEF it, f, Body
  <1>7. IsSum(it, f, S) /\ IsSum(H, f, Chunks)
    BY <1>1, <1>6, FoldIsSum DEF f
  <1>8. S \in SUBSET S /\ \A c \in S : f[c] = f[c]
    OBVIOUS
  <1>9. it[S] = H[S]
    BY <1>1, <1>7, <1>8, SameSum
  <1> QED BY <1>5, <1>9

\* The chunks before chunk k hold the bytes before it.
LEMMA PrefixSum ==
  ASSUME NEW H, IsSum(H, [c \in Chunks |-> ChunkLen(c)], Chunks), NEW k \in 0..Total
  PROVE  H[0..(k - 1)] = IF k = Total THEN TotalSize ELSE k * ChunkSize
  <1> DEFINE f == [c \in Chunks |-> ChunkLen(c)]
             End(n) == IF n = Total THEN TotalSize ELSE n * ChunkSize
             P == {n \in Nat : n <= Total => H[0..(n - 1)] = End(n)}
  <1>1. ChunkSize \in Nat \ {0} /\ TotalSize \in Nat \ {0} /\ Total \in Nat \ {0}
    BY WindowParams, TotalFacts
  <1>2. 0 \in P
    <2>1. 0..(0 - 1) = {} /\ H[{}] = 0 /\ End(0) = 0
      BY <1>1 DEF IsSum
    <2> QED BY <2>1
  <1>3. ASSUME NEW n \in Nat, n \in P PROVE n + 1 \in P
    <2> SUFFICES ASSUME n + 1 <= Total PROVE H[0..n] = End(n + 1)
      <3> HIDE DEF End
      <3>1. (n + 1) - 1 = n /\ n + 1 \in Nat
        OBVIOUS
      <3> QED BY <3>1
    <2>1. n \in Chunks /\ 0..n \in SUBSET Chunks /\ n \in 0..n /\ (0..n) \ {n} = 0..(n - 1)
      BY <1>1 DEF Chunks
    <2>2. H[0..n] = f[n] + H[(0..n) \ {n}]
      BY <2>1 DEF IsSum
    <2>3. H[0..n] = ChunkLen(n) + H[0..(n - 1)]
      BY <2>1, <2>2
    <2>4. H[0..(n - 1)] = n * ChunkSize
      BY <1>1, <1>3
    <2>5. ChunkEnd(n) = n * ChunkSize + ChunkLen(n) /\ n * ChunkSize \in Nat /\ ChunkLen(n) \in Nat
      BY <2>1, <1>1, ChunkFacts DEF ChunkEnd
    <2>6. ChunkEnd(n) = End(n + 1)
      BY <2>1, <1>1, ChunkFacts
    <2> QED BY <2>3, <2>4, <2>5, <2>6
  <1>4. \A n \in Nat : n \in P
    <2> HIDE DEF P
    <2> QED BY <1>2, <1>3, CountInduction
  <1> QED BY <1>1, <1>4

\* The bytes Snapshot reports are the bytes of the chunks it reports: what was
\* read counts once, whole chunks and the part of the current one alike.
LEMMA BytesExact ==
  ASSUME WindowInv, StreamInv, err = NoErr
  PROVE  SnapshotBytes = MapThenSumSet(ChunkLen, SnapshotReceived)
  <1> DEFINE len == [c \in Chunks |-> ChunkLen(c)]
             rest == [c \in Chunks |-> Unread(c)]
             F == Frontier
             B == Buffered
             A == 0..(F - 1)
  <1>1. ChunkSize \in Nat \ {0} /\ TotalSize \in Nat \ {0} /\ Total \in Nat \ {0}
        /\ readPos \in 0..TotalSize /\ readPos \in Nat
    BY WindowParams, TotalFacts DEF WindowInv, TypeOK
  <1>2. F \in 0..Total
    BY <1>1, FrontierType DEF Frontier
  <1>3. /\ B \in SUBSET Chunks /\ A \in SUBSET Chunks /\ A \cup B \in SUBSET Chunks
        /\ A \cap B = {} /\ \A c \in B : F <= c
    BY <1>1, <1>2 DEF Buffered, Chunks
  <1>4. IsFiniteSet(Chunks) /\ IsFiniteSet(A) /\ IsFiniteSet(B)
    BY <1>3, ChunksFinite, FS_Subset
  <1>5. \A c \in Chunks : /\ len[c] = ChunkLen(c) /\ rest[c] = Unread(c)
                          /\ len[c] \in Int /\ rest[c] \in Int
    BY <1>1, ChunkFacts DEF Unread
  <1>6. PICK H : IsSum(H, len, Chunks)
    <2> HIDE DEF len, rest
    <2> QED BY <1>4, <1>5, SumExists
  <1>7. PICK G : IsSum(G, rest, Chunks)
    <2> HIDE DEF len, rest
    <2> QED BY <1>4, <1>5, SumExists
  <1>8. SnapshotBytes = readPos + G[B]
    BY <1>1, <1>3, <1>7, UnreadSum DEF SnapshotBytes
  <1>9. MapThenSumSet(ChunkLen, SnapshotReceived) = H[A \cup B]
    BY <1>3, <1>6, LengthSum DEF SnapshotReceived
  <1>10. H[A] = IF F = Total THEN TotalSize ELSE F * ChunkSize
    BY <1>2, <1>6, PrefixSum
  <1> HIDE DEF len, rest, F, B, A
  <1>11. H[A \cup B] = H[A] + H[B] /\ H[A] \in Int /\ H[B] \in Int
    <2>1. H[A] \in Int /\ H[B] \in Int
      BY <1>3, <1>6 DEF IsSum
    <2> QED BY <1>3, <1>4, <1>5, <1>6, <2>1, SumUnion
  <1> SUFFICES readPos + G[B] = H[A] + H[B]
    BY <1>8, <1>9, <1>11
  <1>12. CASE readPos >= TotalSize
    <2>1. F = Total /\ readPos = TotalSize
      BY <1>1, <1>12 DEF F, Frontier, FrontierAt
    <2>2. B = {}
      BY <1>1, <1>3, <2>1 DEF Chunks
    <2>3. G[B] = 0 /\ H[B] = 0
      BY <1>6, <1>7, <2>2 DEF IsSum
    <2> QED BY <1>10, <2>1, <2>3
  <1>13. CASE readPos < TotalSize
    <2>1. F \in Chunks /\ F * ChunkSize <= readPos /\ readPos < ChunkEnd(F) /\ F = readPos \div ChunkSize
      BY <1>1, <1>13, CurFacts DEF F, Frontier
    <2>2. F \in Nat /\ F < Total /\ F * ChunkSize \in Nat /\ ChunkLen(F) \in Nat
          /\ readPos < (F + 1) * ChunkSize
      BY <1>1, <2>1, ChunkFacts DEF Chunks
    <2>3. H[A] = F * ChunkSize
      BY <1>1, <1>10, <2>2
    <2>4. \A c \in B \ {F} : rest[c] = len[c]
      <3> SUFFICES ASSUME NEW c \in B, c # F PROVE Unread(c) = ChunkLen(c)
        BY <1>3, <1>5
      <3>1. c \in Nat /\ F + 1 <= c /\ c * ChunkSize \in Nat /\ ChunkLen(c) \in Nat
        BY <1>1, <1>3, <2>2, ChunkFacts
      <3>2. (F + 1) * ChunkSize <= c * ChunkSize
        BY <1>1, <2>2, <3>1, MulMono
      <3>3. (F + 1) * ChunkSize \in Nat
        BY <1>1, <2>2
      <3>4. ~ (readPos > c * ChunkSize)
        BY <1>1, <2>2, <3>1, <3>2, <3>3
      <3> QED BY <3>1, <3>4 DEF Unread
    <2>5. G[B \ {F}] = H[B \ {F}] /\ G[B \ {F}] \in Int
      <3>1. B \ {F} \in SUBSET Chunks /\ IsFiniteSet(B \ {F})
        BY <1>3, <1>4, FS_Subset
      <3>2. G[B \ {F}] \in Int
        BY <1>7, <3>1 DEF IsSum
      <3> QED BY <1>6, <1>7, <2>4, <3>1, <3>2, SameSum
    <2>6. CASE F \in B
      <3>1. G[B] = rest[F] + G[B \ {F}] /\ H[B] = len[F] + H[B \ {F}]
        BY <1>3, <1>6, <1>7, <2>6 DEF IsSum
      <3>2. rest[F] = ChunkLen(F) - (readPos - F * ChunkSize) /\ len[F] = ChunkLen(F)
        BY <1>1, <1>5, <2>1, <2>2 DEF Unread
      <3> QED BY <1>1, <2>2, <2>3, <2>5, <3>1, <3>2
    <2>7. CASE F \notin B
      <3>1. B \ {F} = B
        BY <2>7
      <3>2. readPos = F * ChunkSize
        <4> SUFFICES ASSUME readPos # F * ChunkSize PROVE FALSE
          OBVIOUS
        <4> DEFINE p == readPos - 1
        <4>1. p \in Nat /\ F * ChunkSize <= p /\ p < (F + 1) * ChunkSize /\ p < readPos
              /\ (F + 1) * ChunkSize \in Nat
          BY <1>1, <2>1, <2>2
        <4> HIDE DEF p
        <4>2. p \div ChunkSize = F
          BY <1>1, <2>2, <4>1, DivUnique
        <4>3. Len(out) \in Nat /\ Len(out) >= readPos
          BY <1>1 DEF StreamInv, DeliveredInOrder, WindowInv, TypeOK
        <4>4. stored[F] # Nil
          <5>1. p \in 0..(Len(out) - 1)
            BY <1>1, <4>1, <4>3
          <5>2. stored[p \div ChunkSize] # Nil
            BY <5>1 DEF StreamInv, DeliveredInOrder
          <5> QED BY <5>2, <4>2
        <4>5. Holds(SlotOf(F), "ready", F)
          BY <2>1, <2>2, <4>4 DEF StreamInv, StoredExact, F
        <4>6. F \in Buffered
          BY <2>1, <2>2, <4>5, WindowParams DEF Buffered, F
        <4> QED BY <2>7, <4>6 DEF B
      <3> QED BY <2>3, <2>5, <3>1, <3>2
    <2> QED BY <2>6, <2>7
  <1> QED BY <1>1, <1>12, <1>13

\* What the window tells its clients is true: the chunks Snapshot reports are the
\* chunks stored, its byte count is theirs, and an answer of success carries the
\* checksum of the payload stored for its chunk.
THEOREM ReportsTrue == Spec => []ReportsExact
  <1>1. ASSUME WindowInv, StreamInv PROVE AnswersExact
    BY <1>1 DEF StreamInv, ChecksumsExact, AnswersExact
  <1>2. ASSUME WindowInv, StreamInv, err = NoErr
        PROVE  SnapshotReceived = {c \in Chunks : stored[c] # Nil}
    <2>1. Frontier \in 0..Total /\ Total \in Nat /\ Slots \in Nat
      BY <1>2, FrontierType, TotalFacts, WindowParams DEF Frontier, TypeOK, WindowInv
    <2>2. ASSUME NEW c \in Chunks, Holds(SlotOf(c), "ready", c)
          PROVE  Frontier <= c /\ c < Frontier + Slots
      BY <1>2, <2>2, ChunkTypes DEF WindowInv, SlotDiscipline, Holds
    <2>3. \A c \in Chunks : stored[c] # Nil <=> c < Frontier \/ Holds(SlotOf(c), "ready", c)
      BY <1>2 DEF StreamInv, StoredExact
    <2>4. 0..(Frontier - 1) = {c \in Chunks : c < Frontier}
      BY <2>1 DEF Chunks
    <2>5. Buffered = {c \in Chunks : Holds(SlotOf(c), "ready", c)}
      BY <2>2 DEF Buffered
    <2> QED BY <2>3, <2>4, <2>5 DEF SnapshotReceived
  <1>3. ASSUME WindowInv, StreamInv PROVE ReportsExact
    BY <1>1, <1>2, <1>3, BytesExact DEF ReportsExact, SnapshotExact
  <1> QED BY <1>3, StreamInvHolds, PTL

-----------------------------------------------------------------------------
LEMMA NextRing == WindowInv /\ RingReleasedOnce /\ [Next]_vars => RingReleasedOnce'
  <1> SUFFICES ASSUME WindowInv, RingReleasedOnce, [Next]_vars PROVE RingReleasedOnce'
    OBVIOUS
  <1>1. ASSUME NEW c \in Closers, NEW e \in {"closed", "aborted"}, CloseWithError(c, e)
        PROVE  RingReleasedOnce'
    <2>1. err' # NoErr /\ handle' = FALSE /\ UNCHANGED <<fdOpen, ringFile>> /\ cpc[c] = "idle"
      BY <1>1, MarkerAssumption DEF CloseWithError, Sticky, disk
    <2>2. cpc \in [Closers -> {"idle", "removing"}]
      BY DEF WindowInv, TypeOK
    <2>3. CASE handle
      <3>1. cpc' = [cpc EXCEPT ![c] = "removing"]
        BY <1>1, <2>3 DEF CloseWithError, TakesFile
      <3>2. \A d \in Closers : cpc[d] # "removing"
        BY <2>3 DEF RingReleasedOnce
      <3>3. \A d \in Closers : cpc'[d] = "removing" <=> d = c
        BY <2>2, <3>1, <3>2
      <3> QED BY <2>1, <2>3, <3>3 DEF RingReleasedOnce
    <2>4. CASE ~ handle
      <3>1. cpc' = cpc
        BY <1>1, <2>1, <2>2, <2>4 DEF CloseWithError, TakesFile
      <3> QED BY <2>1, <2>4, <3>1 DEF RingReleasedOnce
    <2> QED BY <2>3, <2>4
  <1>2. ASSUME NEW c \in Closers, RemoveRing(c) PROVE RingReleasedOnce'
    <2>1. /\ fdOpen' = FALSE /\ ringFile' = FALSE /\ UNCHANGED <<err, handle>>
          /\ cpc[c] = "removing" /\ cpc' = [cpc EXCEPT ![c] = "idle"]
      BY <1>2 DEF RemoveRing, window
    <2>2. ~ handle /\ \A d \in Closers : cpc[d] = "removing" => d = c
      BY <2>1 DEF RingReleasedOnce
    <2>3. \A d \in Closers : cpc'[d] # "removing"
      BY <2>1, <2>2 DEF WindowInv, TypeOK
    <2> QED BY <2>1, <2>2, <2>3 DEF RingReleasedOnce
  <1>3. ASSUME UNCHANGED <<handle, err, fdOpen, ringFile, cpc>> PROVE RingReleasedOnce'
    BY <1>3 DEF RingReleasedOnce
  <1>4. ASSUME NEW w \in Writers, WriterStep(w) \/ Deadline(w) \/ TimerFires(w)
        PROVE  UNCHANGED <<handle, err, fdOpen, ringFile, cpc>>
    BY <1>4 DEF WriterStep, WriterPass, ReturnEarly, Admit, Park, GiveUp, Deadline, TimerFires,
       CopyBody, FinishChunk, window, disk
  <1>5. ASSUME NEW w \in Writers, NEW idx \in -1..Total, NEW body \in Bodies,
               Request(w, idx, body)
        PROVE  UNCHANGED <<handle, err, fdOpen, ringFile, cpc>>
    BY <1>5 DEF Request, window, disk
  <1>6. ASSUME ReaderStep \/ \E n \in 1..ChunkSize : Read(n)
        PROVE  UNCHANGED <<handle, err, fdOpen, ringFile, cpc>>
    BY <1>6 DEF ReaderStep, ReadFails, ReadStarts, ReadParks, ReadAt, ReadFinishes, Read,
       window, disk
  <1>7. CASE UNCHANGED vars
    BY <1>3, <1>7 DEF vars, window, disk
  <1> QED BY <1>1, <1>2, <1>3, <1>4, <1>5, <1>6, <1>7 DEF Next

\* The descriptor is closed and the ring file removed by exactly one caller of
\* CloseWithError, however many callers there are.
THEOREM RingGoesOnce == Spec => []RingReleasedOnce
  <1>1. Init => RingReleasedOnce
    BY DEF Init, NewWindow, RingReleasedOnce
  <1> QED BY <1>1, NextRing, WindowInvHolds, PTL DEF Spec

-----------------------------------------------------------------------------
\* What a sleeping request may count on, and the sleeping reader.
SleepsWell(w) ==
    /\ err = NoErr
    /\ ~ Consumed(widx[w])
    /\ slotChunk[SlotOf(widx[w])] # widx[w]
    /\ ~ Admissible(widx[w])
    /\ w \in timer

ReaderSleepsWell == err = NoErr /\ readPos < TotalSize /\ ~ Readable

LEMMA SleepersForm ==
  NoLostWakeup <=> /\ \A w \in Writers : wpc[w] = "parked" => SleepsWell(w)
                   /\ rpc = "parked" => ReaderSleepsWell
  BY DEF NoLostWakeup, SleepsWell, ReaderSleepsWell

\* Steps that leave the window alone: whoever still sleeps slept before.
LEMMA QuietSleep ==
  ASSUME NoLostWakeup,
         UNCHANGED <<slotState, slotChunk, readPos, err>>,
         \A w \in Writers : wpc'[w] = "parked" =>
            wpc[w] = "parked" /\ widx'[w] = widx[w] /\ (w \in timer => w \in timer'),
         rpc' = "parked" => rpc = "parked"
  PROVE  NoLostWakeup'
  BY DEF NoLostWakeup, Consumed, Admissible, Readable, Cur, Holds, Frontier

\* Steps that wake everyone.
LEMMA WakeAll ==
  ASSUME \A w \in Writers : wpc'[w] # "parked", rpc' # "parked"
  PROVE  NoLostWakeup'
  BY DEF NoLostWakeup

\* A sleeper's chunk is not behind the frontier.
LEMMA SleeperAhead ==
  ASSUME WindowInv, NoLostWakeup, NEW w \in Writers, wpc[w] = "parked"
  PROVE  /\ widx[w] \in Chunks /\ widx[w] \in Nat /\ SlotOf(widx[w]) \in SlotIds
         /\ Frontier \in Nat /\ Frontier <= widx[w] /\ readPos < ChunkEnd(widx[w])
  <1>1. widx[w] \in Chunks /\ widx[w] \in Nat /\ SlotOf(widx[w]) \in SlotIds
    BY ChunkTypes DEF WindowInv, RequestLocals
  <1>2. ~ (ChunkEnd(widx[w]) <= readPos) /\ readPos \in Nat /\ ChunkEnd(widx[w]) \in Nat
    BY <1>1, WindowParams, ChunkFacts DEF NoLostWakeup, Consumed, ChunkEnd, WindowInv, TypeOK
  <1>3. readPos < ChunkEnd(widx[w])
    BY <1>2
  <1> QED BY <1>1, <1>2, <1>3, FrontierBefore, ChunkTypes DEF Frontier

\* A slot is taken: whoever sleeps for it lies beyond the window, and the slot is
\* not free any more.
LEMMA AdmitSleep ==
  ASSUME WindowInv, NoLostWakeup, NEW w \in Writers, Admit(w)
  PROVE  NoLostWakeup'
  <1> DEFINE s == SlotOf(widx[w])
  <1> USE DEF WindowInv
  <1>1. /\ widx[w] \in Chunks /\ s \in SlotIds /\ err = NoErr /\ wpc[w] = "loop"
        /\ slotState[s] = "free" /\ widx[w] < Frontier + Slots
        /\ slotState' = [slotState EXCEPT ![s] = "filling"]
        /\ slotChunk' = [slotChunk EXCEPT ![s] = widx[w]]
        /\ wpc' = [wpc EXCEPT ![w] = "copy"]
        /\ timer' = timer \ {w}
        /\ UNCHANGED <<readPos, err, widx, rpc>>
    BY ChunkTypes DEF Admit, Undecided, Admissible, request
  <1>2. ASSUME NEW v \in Writers, wpc'[v] = "parked" PROVE SleepsWell(v)'
    <2>1. wpc[v] = "parked" /\ v # w
      BY <1>1, <1>2 DEF TypeOK
    <2>2. SleepsWell(v) /\ SlotOf(widx[v]) \in SlotIds
      BY <2>1, SleepersForm, SleeperAhead
    <2>3. v \in timer' /\ err' = NoErr /\ ~ Consumed(widx[v])'
      BY <1>1, <2>1, <2>2 DEF SleepsWell, Consumed
    <2>4. CASE SlotOf(widx[v]) # s
      <3>1. slotState'[SlotOf(widx[v])] = slotState[SlotOf(widx[v])]
            /\ slotChunk'[SlotOf(widx[v])] = slotChunk[SlotOf(widx[v])]
        BY <1>1, <2>2, <2>4 DEF TypeOK
      <3> QED BY <1>1, <2>2, <2>3, <3>1 DEF SleepsWell, Admissible, Frontier
    <2>5. CASE SlotOf(widx[v]) = s
      <3>1. slotState'[s] = "filling" /\ slotChunk'[s] = widx[w]
        BY <1>1 DEF TypeOK
      <3>2. widx[v] # widx[w]
        BY <1>1, <2>2, <2>5 DEF SleepsWell, Admissible
      <3> QED BY <1>1, <2>3, <2>5, <3>1, <3>2 DEF SleepsWell, Admissible
    <2> QED BY <2>4, <2>5
  <1>3. ASSUME rpc' = "parked" PROVE ReaderSleepsWell'
    <2>1. ReaderSleepsWell
      BY <1>1, <1>3, SleepersForm
    <2>2. SlotOf(Cur) \in SlotIds
      <3>1. readPos \in Nat /\ readPos < TotalSize
        BY <2>1, WindowParams DEF ReaderSleepsWell, TypeOK
      <3> QED BY <3>1, CurFacts, ChunkTypes DEF Cur
    <2>3. slotState'[SlotOf(Cur)] = "ready" => SlotOf(Cur) # s
      BY <1>1, <2>2 DEF TypeOK
    <2> QED BY <1>1, <2>1, <2>2, <2>3 DEF ReaderSleepsWell, Readable, Holds, Cur, TypeOK
  <1> QED BY <1>2, <1>3 DEF NoLostWakeup, SleepsWell, ReaderSleepsWell

\* A failed body frees its slot and wakes nobody: the chunks of the window that
\* map to the slot are that chunk alone, and nobody sleeps over it.
LEMMA FinishSleep ==
  ASSUME WindowInv, NoLostWakeup, NEW w \in Writers, FinishChunk(w)
  PROVE  NoLostWakeup'
  <1> DEFINE idx == widx[w]
             s == SlotOf(idx)
  <1> USE DEF WindowInv
  <1>1. /\ wpc[w] = "copied" /\ idx \in Chunks /\ s \in SlotIds /\ idx \in Nat
        /\ timer' = timer /\ readPos' = readPos /\ err' = err
        /\ \A v \in Writers \ {w} : widx'[v] = widx[v]
    BY ChunkTypes DEF FinishChunk, RequestLocals, Copying, window, TypeOK
  <1>2. CASE ~ Holds(s, "filling", idx)
    <2>1. /\ UNCHANGED <<slotState, slotChunk, readPos, err, rpc>>
          /\ wpc' = [wpc EXCEPT ![w] = "idle"]
      BY <1>2 DEF FinishChunk, window
    <2> QED BY <1>1, <2>1, QuietSleep DEF TypeOK
  <1>3. CASE Holds(s, "filling", idx) /\ ~ CopyError(w)
    <2>1. rpc' # "parked" /\ \A v \in Writers : wpc'[v] # "parked"
      BY <1>3 DEF FinishChunk, WokenReader, WokenWriters
    <2> QED BY <2>1, WakeAll
  <1>4. CASE Holds(s, "filling", idx) /\ CopyError(w)
    <2>1. /\ slotState' = [slotState EXCEPT ![s] = "free"]
          /\ slotChunk' = [slotChunk EXCEPT ![s] = -1]
          /\ wpc' = [wpc EXCEPT ![w] = "idle"]
          /\ rpc' = rpc
      BY <1>4 DEF FinishChunk
    <2>2. ASSUME NEW v \in Writers, wpc'[v] = "parked" PROVE SleepsWell(v)'
      <3>1. wpc[v] = "parked" /\ v # w /\ widx'[v] = widx[v]
        BY <1>1, <2>1, <2>2 DEF TypeOK
      <3>2. SleepsWell(v) /\ SlotOf(widx[v]) \in SlotIds /\ widx[v] \in Nat /\ Frontier \in Nat
            /\ Frontier <= widx[v] /\ widx[v] # -1
        BY <3>1, SleepersForm, SleeperAhead
      <3>3. v \in timer' /\ err' = NoErr /\ ~ Consumed(widx[v])'
        BY <1>1, <3>1, <3>2 DEF SleepsWell, Consumed
      <3>4. CASE SlotOf(widx[v]) # s
        <4>1. slotState'[SlotOf(widx[v])] = slotState[SlotOf(widx[v])]
              /\ slotChunk'[SlotOf(widx[v])] = slotChunk[SlotOf(widx[v])]
          BY <2>1, <3>2, <3>4 DEF TypeOK
        <4> QED BY <1>1, <3>1, <3>2, <3>3, <4>1 DEF SleepsWell, Admissible, Frontier, Consumed
      <3>5. CASE SlotOf(widx[v]) = s
        <4>1. slotState'[s] = "free" /\ slotChunk'[s] = -1
          BY <1>1, <2>1 DEF TypeOK
        <4>2. Frontier <= idx /\ idx < Frontier + Slots /\ widx[v] # idx
          BY <1>1, <1>4, <3>2, <3>5 DEF SlotDiscipline, Holds, SleepsWell
        <4>3. ~ (widx[v] < Frontier + Slots)
          BY <1>1, <3>2, <3>5, <4>2, SameSlot
        <4>4. ~ Admissible(widx[v])'
          BY <1>1, <3>1, <4>3 DEF Admissible, Frontier
        <4> QED BY <1>1, <3>1, <3>2, <3>3, <3>5, <4>1, <4>4 DEF SleepsWell, Consumed
      <3> QED BY <3>4, <3>5
    <2>3. ASSUME rpc' = "parked" PROVE ReaderSleepsWell'
      <3>1. ReaderSleepsWell
        BY <2>1, <2>3, SleepersForm
      <3>2. SlotOf(Cur) \in SlotIds
        <4>1. readPos \in Nat /\ readPos < TotalSize
          BY <3>1, WindowParams DEF ReaderSleepsWell, TypeOK
        <4> QED BY <4>1, CurFacts, ChunkTypes DEF Cur
      <3>3. slotState'[SlotOf(Cur)] = "ready" => SlotOf(Cur) # s
        BY <1>1, <2>1, <3>2 DEF TypeOK
      <3> QED BY <1>1, <2>1, <3>1, <3>2, <3>3 DEF ReaderSleepsWell, Readable, Holds, Cur, TypeOK
    <2> QED BY <2>2, <2>3 DEF NoLostWakeup, SleepsWell, ReaderSleepsWell
  <1> QED BY <1>2, <1>3, <1>4

\* The position moves: inside a chunk no other chunk becomes consumed; at its
\* end everybody is woken.
LEMMA ReadFinishSleep ==
  ASSUME WindowInv, NoLostWakeup, ReadFinishes
  PROVE  NoLostWakeup'
  <1> DEFINE q == readPos + rgot
  <1> USE DEF WindowInv
  <1>1. rpc' = "idle" /\ readPos' = q /\ UNCHANGED <<err, widx, timer>>
    BY DEF ReadFinishes, request, timing
  <1>2. CASE CrossesEnd
    BY <1>1, <1>2, WakeAll DEF ReadFinishes, WokenWriters
  <1>3. CASE ~ CrossesEnd
    <2>1. UNCHANGED <<slotState, slotChunk, wpc>>
      BY <1>3 DEF ReadFinishes
    <2>2. /\ readPos \in Nat /\ readPos < TotalSize /\ q \in Nat /\ readPos <= q
          /\ q <= ChunkEnd(Cur) /\ q \in 0..TotalSize /\ FrontierAt(q) = Frontier
      <3>1. /\ readPos \in Nat /\ readPos < TotalSize /\ rcur = Cur /\ rcur \in Chunks
            /\ q \in Nat /\ readPos <= q /\ q <= ChunkEnd(rcur)
            /\ ChunkEnd(rcur) \in Nat /\ rgot \in Nat
        BY CurFacts, ChunkFacts DEF ReadFinishes, ReaderLocals, TypeOK, Cur
      <3>2. readPos < ChunkEnd(rcur)
        BY <3>1, CurFacts DEF Cur
      <3>3. ~ (rgot > 0 /\ q >= ChunkEnd(rcur))
        BY <1>3 DEF CrossesEnd, ChunkEnd
      <3>4. q < ChunkEnd(rcur)
        BY <3>1, <3>2, <3>3
      <3>5. q <= TotalSize /\ FrontierAt(q) = Cur /\ Frontier = Cur
        BY <3>1, <3>4, FrontierAdvance, CurFacts DEF Cur, Frontier
      <3> QED BY <3>1, <3>5, WindowParams
    <2>3. ASSUME NEW v \in Writers, wpc'[v] = "parked" PROVE SleepsWell(v)'
      <3>1. SleepsWell(v) /\ widx[v] \in Chunks /\ widx[v] \in Nat /\ Frontier \in Nat
            /\ Frontier <= widx[v]
        BY <2>1, <2>3, SleepersForm, SleeperAhead
      <3>2. ~ (ChunkEnd(widx[v]) <= q)
        BY <2>2, <3>1, ConsumedBefore
      <3>3. ~ Consumed(widx[v])'
        BY <1>1, <3>2 DEF Consumed, ChunkEnd
      <3> QED BY <1>1, <2>1, <2>2, <3>1, <3>3 DEF SleepsWell, Admissible, Frontier, Consumed
    <2> QED BY <1>1, <2>3 DEF NoLostWakeup, SleepsWell
  <1> QED BY <1>2, <1>3

\* The steps of a request that touch no slot.
LEMMA RequestSleep ==
  ASSUME WindowInv, NoLostWakeup, NEW w \in Writers,
         \/ \E idx \in -1..Total, body \in Bodies : Request(w, idx, body)
         \/ ReturnEarly(w) \/ GiveUp(w) \/ Deadline(w) \/ TimerFires(w) \/ CopyBody(w)
  PROVE  NoLostWakeup'
  <1> USE DEF WindowInv, window
  <1>1. CASE TimerFires(w)
    BY <1>1, WakeAll DEF TimerFires, WokenWriters, WokenReader
  <1>2. CASE Deadline(w)
    BY <1>2, QuietSleep DEF Deadline, request
  <1>3. CASE CopyBody(w)
    <2>1. /\ UNCHANGED <<slotState, slotChunk, readPos, err, widx, timer, rpc>>
          /\ wpc' = [wpc EXCEPT ![w] = "copied"]
      BY <1>3 DEF CopyBody, timing
    <2> QED BY <2>1, QuietSleep DEF TypeOK
  <1>4. CASE \E idx \in -1..Total, body \in Bodies : Request(w, idx, body)
    <2>1. /\ UNCHANGED <<slotState, slotChunk, readPos, err, timer, rpc>>
          /\ wpc' = [wpc EXCEPT ![w] = "loop"]
          /\ \A v \in Writers \ {w} : widx'[v] = widx[v]
      BY <1>4 DEF Request, timing, TypeOK
    <2> QED BY <2>1, QuietSleep DEF TypeOK
  <1>5. CASE ReturnEarly(w) \/ GiveUp(w)
    <2>1. PICK res : Return(w, res)
      BY <1>5 DEF ReturnEarly, GiveUp
    <2>2. UNCHANGED <<slotState, slotChunk, readPos, err, rpc>>
      BY <1>5 DEF ReturnEarly, GiveUp
    <2>3. /\ wpc' = [wpc EXCEPT ![w] = "idle"] /\ timer' = timer \ {w}
          /\ \A v \in Writers \ {w} : widx'[v] = widx[v]
      BY <2>1 DEF Return, TypeOK
    <2> QED BY <2>2, <2>3, QuietSleep DEF TypeOK
  <1> QED BY <1>1, <1>2, <1>3, <1>4, <1>5

LEMMA ParkSleep ==
  ASSUME WindowInv, NoLostWakeup, NEW w \in Writers, Park(w)
  PROVE  NoLostWakeup'
  <1> USE DEF WindowInv
  <1>1. /\ UNCHANGED <<slotState, slotChunk, readPos, err, widx, rpc>>
        /\ timer' = timer \cup {w} /\ wpc' = [wpc EXCEPT ![w] = "parked"]
        /\ err = NoErr /\ ~ Consumed(widx[w])
        /\ slotChunk[SlotOf(widx[w])] # widx[w] /\ ~ Admissible(widx[w])
    BY DEF Park, Undecided, window, request
  <1>2. ASSUME NEW v \in Writers, wpc'[v] = "parked" PROVE SleepsWell(v)'
    <2>1. SleepsWell(v) \/ v = w
      BY <1>1, <1>2, SleepersForm DEF TypeOK
    <2> QED BY <1>1, <2>1 DEF SleepsWell, Consumed, Admissible, Frontier
  <1>3. rpc' = "parked" => ReaderSleepsWell'
    BY <1>1, SleepersForm DEF ReaderSleepsWell, Readable, Cur, Holds
  <1> QED BY <1>2, <1>3 DEF NoLostWakeup, SleepsWell, ReaderSleepsWell

LEMMA ReadSleep ==
  ASSUME WindowInv, NoLostWakeup,
         ReadFails \/ ReadStarts \/ ReadParks \/ ReadAt \/ \E n \in 1..ChunkSize : Read(n)
  PROVE  NoLostWakeup'
  <1>1. /\ UNCHANGED <<slotState, slotChunk, readPos, err, widx, wpc, timer>>
        /\ rpc' = "parked" => ReaderSleepsWell
    BY DEF ReadFails, ReadStarts, ReadParks, ReadAt, Read, ReaderSleepsWell, window, request, timing
  <1>2. rpc' = "parked" => ReaderSleepsWell'
    BY <1>1 DEF ReaderSleepsWell, Readable, Cur, Holds
  <1>3. \A v \in Writers : wpc'[v] = "parked" => SleepsWell(v)'
    BY <1>1, SleepersForm DEF SleepsWell, Consumed, Admissible, Frontier
  <1> QED BY <1>2, <1>3 DEF NoLostWakeup, SleepsWell, ReaderSleepsWell

LEMMA NextSleep == WindowInv /\ NoLostWakeup /\ [Next]_vars => NoLostWakeup'
  <1> SUFFICES ASSUME WindowInv, NoLostWakeup, [Next]_vars PROVE NoLostWakeup'
    OBVIOUS
  <1>1. ASSUME NEW w \in Writers, NEW idx \in -1..Total, NEW body \in Bodies,
               Request(w, idx, body)
        PROVE  NoLostWakeup'
    BY <1>1, RequestSleep
  <1>2. ASSUME NEW w \in Writers, WriterStep(w) \/ Deadline(w) \/ TimerFires(w)
        PROVE  NoLostWakeup'
    BY <1>2, RequestSleep, ParkSleep, AdmitSleep, FinishSleep DEF WriterStep, WriterPass
  <1>3. CASE ReaderStep \/ \E n \in 1..ChunkSize : Read(n)
    BY <1>3, ReadSleep, ReadFinishSleep DEF ReaderStep
  <1>4. ASSUME NEW c \in Closers, NEW e \in {"closed", "aborted"}, CloseWithError(c, e)
        PROVE  NoLostWakeup'
    BY <1>4, WakeAll DEF CloseWithError, WokenWriters, WokenReader
  <1>5. ASSUME NEW c \in Closers, RemoveRing(c) PROVE NoLostWakeup'
    BY <1>5, QuietSleep DEF RemoveRing, window, request, timing
  <1>6. CASE UNCHANGED vars
    BY <1>6, QuietSleep DEF vars, window, request, timing
  <1> QED BY <1>1, <1>2, <1>3, <1>4, <1>5, <1>6 DEF Next

\* Nobody sleeps in cond.Wait while there is something to do, although a failed
\* body frees its slot without a Broadcast.
THEOREM SleepersHaveNothingToDo == Spec => []NoLostWakeup
  <1>1. Init => NoLostWakeup
    BY DEF Init, NoLostWakeup
  <1> QED BY <1>1, NextSleep, WindowInvHolds, PTL DEF Spec

-----------------------------------------------------------------------------
(***************************************************************************)
(* The refinement.  The end of a successful WriteChunk is Accept, a ReadAt *)
(* that returns bytes is Deliver, the first CloseWithError is Close; every *)
(* other step is invisible.                                                *)
(***************************************************************************)
\* The larger position lies in the later chunk.
LEMMA DivMono ==
  ASSUME NEW a \in Nat, NEW b \in Nat, NEW n \in Nat \ {0}, a <= b
  PROVE  a \div n <= b \div n /\ a \div n \in Nat /\ b \div n \in Nat
  <1> DEFINE qa == a \div n
             qb == b \div n
  <1>1. /\ qa \in Nat /\ n * qa <= a /\ qb \in Nat /\ b < n * qb + n
    BY DivBounds
  <1> HIDE DEF qa, qb
  <1>2. ~ (qb + 1 <= qa)
    <2> SUFFICES ASSUME qb + 1 <= qa PROVE FALSE
      OBVIOUS
    <2>1. (qb + 1) * n <= qa * n
      BY <1>1, MulMono
    <2> QED BY <1>1, <2>1
  <1>3. qa <= qb
    BY <1>1, <1>2
  <1> QED BY <1>1, <1>3 DEF qa, qb

\* The chunks of the window are the pieces of the stream.
LEMMA PiecesAreChunks == Stream!Pieces = Chunks
  <1>1. ChunkSize \in Nat \ {0} /\ TotalSize \in Nat \ {0} /\ Total \in Nat \ {0}
        /\ (Total - 1) * ChunkSize < TotalSize /\ TotalSize <= Total * ChunkSize
    BY WindowParams, TotalFacts
  <1> DEFINE q == Total - 1
             a == TotalSize - 1
  <1>2. q \in Nat /\ a \in Nat /\ q * ChunkSize < a + 1 /\ a + 1 <= (q + 1) * ChunkSize
    BY <1>1
  <1>3. q * ChunkSize \in Nat /\ (q + 1) * ChunkSize \in Nat
    BY <1>1, <1>2
  <1>4. q * ChunkSize <= a /\ a < (q + 1) * ChunkSize
    BY <1>2, <1>3
  <1>5. a \div ChunkSize = q
    BY <1>1, <1>2, <1>4, DivUnique
  <1> QED BY <1>5 DEF Chunks, Stream!Pieces

LEMMA InitRefines == Init => Stream!Init
  BY PiecesAreChunks DEF Init, NewWindow, Stream!Init

\* A body stored is a chunk accepted, inside the window seen from the bytes
\* delivered.
LEMMA FinishRefines ==
  ASSUME WindowInv, StreamInv, NEW w \in Writers, FinishChunk(w)
  PROVE  Stream!Next \/ UNCHANGED <<stored, out, err>>
  <1> USE DEF WindowInv
  <1> DEFINE idx == widx[w]
             s == SlotOf(idx)
  <1>1. idx \in Chunks /\ s \in SlotIds /\ wbody[w] \in Bodies /\ wpc[w] = "copied"
        /\ UNCHANGED <<err, out>> /\ idx \in Nat
    BY FinishData, ChunkTypes
  <1>2. CASE ~ (Holds(s, "filling", idx) /\ ~ CopyError(w))
    <2>1. UNCHANGED stored
      BY <1>2 DEF FinishChunk
    <2> QED BY <1>1, <2>1
  <1>3. CASE Holds(s, "filling", idx) /\ ~ CopyError(w)
    <2>1. stored' = [stored EXCEPT ![idx] = wbody[w]] /\ err = NoErr
      BY <1>3 DEF FinishChunk, CopyError
    <2>2. stored[idx] = Nil
      BY <1>1, <2>1, FinishStores
    <2>3. Frontier <= idx /\ idx < Frontier + Slots
      BY <1>1, <1>3, ChunkTypes DEF SlotDiscipline, Holds
    <2>4. readPos \in Nat /\ TotalSize \in Nat /\ Total \in Nat /\ idx <= Total - 1
          /\ ChunkSize \in Nat \ {0} /\ Slots \in Nat
      BY <1>1, WindowParams, TotalFacts DEF TypeOK, Chunks
    <2>5. readPos < TotalSize
      BY <1>1, <2>3, <2>4 DEF Frontier, FrontierAt
    <2>6. Frontier = readPos \div ChunkSize
      BY <2>4, <2>5, CurFacts DEF Frontier
    <2>7. Len(out) \in Nat /\ readPos <= Len(out)
      BY <2>4 DEF StreamInv, DeliveredInOrder, TypeOK
    <2>8. readPos \div ChunkSize <= Len(out) \div ChunkSize
          /\ readPos \div ChunkSize \in Nat /\ Len(out) \div ChunkSize \in Nat
      BY <2>4, <2>7, DivMono
    <2>9. idx < (Len(out) \div ChunkSize) + Slots
      <3> DEFINE f == Frontier
                 d == Len(out) \div ChunkSize
      <3>1. f \in Nat /\ d \in Nat /\ f <= d /\ idx < f + Slots
        BY <2>3, <2>6, <2>8
      <3> HIDE DEF f, d
      <3>2. idx < d + Slots
        BY <1>1, <2>4, <3>1
      <3> QED BY <3>2 DEF d
    <2>10. Stream!Accept(idx, wbody[w])
      BY <1>1, <2>1, <2>2, <2>9 DEF Stream!Accept
    <2> QED BY <1>1, <2>10, PiecesAreChunks DEF Stream!Next
  <1> QED BY <1>2, <1>3

\* The bytes of a read are delivered; an empty read is invisible.
LEMMA ReadAtRefines ==
  ASSUME WindowInv, StreamInv, ReadAt
  PROVE  Stream!Next \/ UNCHANGED <<stored, out, err>>
  <1> DEFINE n == rgot'
  <1>1. n \in Nat /\ UNCHANGED <<stored, err>> /\ out \in Seq(Bytes) /\ out' = out \o Handed(n)
        /\ Len(out) = readPos /\ readPos \in Nat
    BY ReadFacts DEF ReadAt, StreamInv, window
  <1>2. CASE n = 0
    <2>1. Handed(0) = <<>>
      BY DEF Handed
    <2> QED BY <1>1, <1>2, <2>1, ConcatEmptySeq
  <1>3. CASE n > 0
    <2>1. \A i \in 1..n : /\ (readPos + i - 1) \div ChunkSize = rcur
                          /\ Handed(n)[i] = Stream!ByteAt(readPos + i - 1)
      <3> TAKE i \in 1..n
      <3>1. /\ (readPos + i - 1) \div ChunkSize = rcur
            /\ Handed(n)[i] = <<<<rcur, stored[rcur]>>, (readPos + i - 1) % ChunkSize>>
        BY HandedFacts
      <3> QED BY <3>1 DEF Stream!ByteAt
    <2>2. Handed(n) = [i \in 1..n |-> Stream!ByteAt(readPos + i - 1)]
      BY <2>1 DEF Handed
    <2>3. (readPos + n - 1) \div ChunkSize = readPos \div ChunkSize
      BY <1>1, <1>3, <2>1, ReadFacts
    <2>4. readPos + n <= TotalSize /\ stored[readPos \div ChunkSize] # Nil
      BY ReadFacts
    <2>5. n \in 1..ChunkSize
      <3>1. (rcur + 1) * ChunkSize = rcur * ChunkSize + ChunkSize /\ ChunkSize \in Nat
        BY ReadFacts, WindowParams
      <3>2. rcur * ChunkSize \in Nat /\ rcur * ChunkSize <= readPos
            /\ readPos + n <= (rcur + 1) * ChunkSize
        BY ReadFacts
      <3> QED BY <1>1, <1>3, <3>1, <3>2
    <2>6. Stream!Deliver(n)
      BY <1>1, <2>2, <2>3, <2>4 DEF Stream!Deliver
    <2> QED BY <2>5, <2>6 DEF Stream!Next
  <1> QED BY <1>1, <1>2, <1>3

LEMMA StepRefines ==
  WindowInv /\ StreamInv /\ [Next]_vars => [Stream!Next]_<<stored, out, err = NoErr>>
  <1> SUFFICES ASSUME WindowInv, StreamInv, [Next]_vars
               PROVE  Stream!Next \/ UNCHANGED <<stored, out, err>>
    OBVIOUS
  <1>1. ASSUME NEW w \in Writers, FinishChunk(w)
        PROVE  Stream!Next \/ UNCHANGED <<stored, out, err>>
    BY <1>1, FinishRefines
  <1>2. CASE ReadAt
    BY <1>2, ReadAtRefines
  <1>3. ASSUME NEW c \in Closers, NEW e \in {"closed", "aborted"}, CloseWithError(c, e)
        PROVE  Stream!Next \/ UNCHANGED <<stored, out, err>>
    <2>1. UNCHANGED <<stored, out>> /\ err' = Sticky(e) /\ e # NoErr
      BY <1>3, MarkerAssumption DEF CloseWithError, history
    <2>2. CASE err = NoErr
      BY <2>1, <2>2 DEF Sticky, Stream!Next, Stream!Close
    <2> QED BY <2>1, <2>2 DEF Sticky
  <1>4. ASSUME NEW w \in Writers, WriterPass(w) \/ CopyBody(w) \/ Deadline(w) \/ TimerFires(w)
        PROVE  UNCHANGED <<stored, out, err>>
    BY <1>4 DEF WriterPass, ReturnEarly, Admit, Park, GiveUp, Deadline, TimerFires, CopyBody,
       window, history
  <1>5. ASSUME NEW w \in Writers, NEW idx \in -1..Total, NEW body \in Bodies,
               Request(w, idx, body)
        PROVE  UNCHANGED <<stored, out, err>>
    BY <1>5 DEF Request, window, history
  <1>6. ASSUME ReadFails \/ ReadStarts \/ ReadParks \/ ReadFinishes \/ \E n \in 1..ChunkSize : Read(n)
        PROVE  UNCHANGED <<stored, out, err>>
    BY <1>6 DEF ReadFails, ReadStarts, ReadParks, ReadFinishes, Read, window, history
  <1>7. ASSUME NEW c \in Closers, RemoveRing(c) PROVE UNCHANGED <<stored, out, err>>
    BY <1>7 DEF RemoveRing, window, history
  <1>8. CASE UNCHANGED vars
    BY <1>8 DEF vars, window, history
  <1> QED BY <1>1, <1>2, <1>3, <1>4, <1>5, <1>6, <1>7, <1>8 DEF Next, WriterStep, ReaderStep

\* The window implements the ordered stream: each chunk accepted once, at most
\* Slots ahead of the reader, and the file delivered in order.
THEOREM WindowIsStream == Spec => ImplementsStream
  <1>1. Spec => Stream!Spec
    BY InitRefines, StepRefines, StreamInvHolds, PTL DEF Spec, Stream!Spec
  <1> QED BY <1>1 DEF ImplementsStream
=============================================================================
