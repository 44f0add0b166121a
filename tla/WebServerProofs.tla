-------------------------- MODULE WebServerProofs --------------------------
(***************************************************************************)
(* What the web server does with a request and with its catalogs.          *)
(*                                                                         *)
(* For any number of chunks a StreamBridge carries: the coroutine never    *)
(* misses a signal and never spins, the client receives the chunks in      *)
(* order and all of them, a regular end joins a worker that has finished,  *)
(* and a buffered reply is the handler's or a 500.                         *)
(*                                                                         *)
(* For any books, threads, sources and threshold of CatalogStore: the      *)
(* connection is left in no transaction, and while the threads'            *)
(* transactions do not mix, a stored catalog is whole and changeBookSource *)
(* copies before it deletes.                                               *)
(***************************************************************************)
EXTENDS StreamBridge, CatalogStore, FiniteSetTheorems, TLAPS

-----------------------------------------------------------------------------
(* StreamBridge. *)

StreamPCs == {"takeHead", "sendHead", "joinHeadFailed", "take", "write", "joinWriteFailed",
              "streamFinished", "streamPending", "arm", "park", "joinStream", "lastChunk"}

\* The signal is given exactly when there is something to do.
Wakeups ==
    /\ NoLostWakeup
    /\ NoIdleWakeup
    /\ lpc = "parkFirst" /\ signal => finished \/ streaming
    /\ lpc = "isStreaming" => finished \/ streaming

\* What the bridge's flags say about where the worker is.
WorkerPhases ==
    /\ finished <=> wpc = "ended"
    /\ wpc \in {"handle", "begin", "buffer"} => ~streaming
    /\ wpc \in {"provide", "push"} => streaming
    /\ ~streaming => pushed = 0 /\ outbox = <<>>
    /\ wpc \in {"finish", "ended"} /\ ~streaming /\ lpc # "done" => head = "buffered"

\* What the coroutine has established where it is.
LoopPhases ==
    /\ lpc \in StreamPCs => streaming
    /\ lpc \in {"isFinished", "joinBuffered", "send"} => finished /\ ~streaming
    /\ lpc \in {"streamPending", "joinStream", "lastChunk"} => finished
    /\ lpc \in {"joinStream", "lastChunk"} => outbox = <<>>
    /\ lpc \notin {"write", "joinWriteFailed", "done"} => chunks = <<>>
    /\ lpc = "done" /\ ~streaming => finished

\* Every pushed chunk is at one place: written, taken or in the outbox, in order.
Numbering ==
    /\ \A i \in 1 .. Len(written) : written[i] = i
    /\ \A i \in 1 .. Len(chunks) : chunks[i] = Len(written) + i
    /\ \A i \in 1 .. Len(outbox) : outbox[i] = Len(written) + Len(chunks) + i
    /\ pushed = Len(written) + Len(chunks) + Len(outbox)

Replies ==
    /\ lpc = "done" /\ ~streaming => reply = IF failure THEN "500" ELSE "handler's"
    /\ reply = "chunked" => lpc = "done" /\ finished /\ chunks = <<>> /\ outbox = <<>>

BridgeInv == BridgeTypeOK /\ Wakeups /\ WorkerPhases /\ LoopPhases /\ Numbering /\ Replies

LEMMA BridgeStarts == BridgeInit => BridgeInv
<1> SUFFICES ASSUME BridgeInit PROVE BridgeInv
  OBVIOUS
<1>1. BridgeTypeOK
  <2>1. <<>> \in Seq(Chunks) /\ 0 \in 0 .. MaxChunks
    BY ChunkBound
  <2>2. wpc \in WorkerPCs /\ lpc \in LoopPCs
    BY DEF BridgeInit, WorkerPCs, LoopPCs
  <2>3. /\ failure \in BOOLEAN /\ streaming \in BOOLEAN /\ finished \in BOOLEAN
        /\ cancelled \in BOOLEAN /\ signal \in BOOLEAN /\ heeds \in BOOLEAN
    BY Zenon DEF BridgeInit
  <2> QED
    BY <2>1, <2>2, <2>3 DEF BridgeInit, BridgeTypeOK
<1>2. Numbering
  BY DEF BridgeInit, Numbering
<1>3. Wakeups /\ WorkerPhases /\ LoopPhases /\ Replies
  BY DEF BridgeInit, Wakeups, NoLostWakeup, NoIdleWakeup, WorkerPhases, LoopPhases, StreamPCs, Replies
<1> QED
  BY <1>1, <1>2, <1>3 DEF BridgeInv

LEMMA BridgeGoesOn == BridgeInv /\ [BridgeNext]_bridgeVars => BridgeInv'
<1> SUFFICES ASSUME BridgeInv, [BridgeNext]_bridgeVars PROVE BridgeInv'
  OBVIOUS
<1> USE ChunkBound DEF BridgeInv, worker, bridge, loop, NoLostWakeup, NoIdleWakeup
<1>1. CASE Handle
  <2>1. BridgeTypeOK'
    BY <1>1 DEF Handle, BridgeTypeOK, Chunks, WorkerPCs, LoopPCs
  <2>2. Wakeups'
    BY <1>1 DEF Handle, BridgeTypeOK, Wakeups, WorkerPhases, LoopPhases, StreamPCs
  <2>3. WorkerPhases'
    BY <1>1 DEF Handle, BridgeTypeOK, WorkerPhases, LoopPhases, StreamPCs
  <2>4. LoopPhases'
    BY <1>1 DEF Handle, BridgeTypeOK, Wakeups, WorkerPhases, LoopPhases, StreamPCs
  <2>5. Numbering'
    BY <1>1 DEF Handle, BridgeTypeOK, Chunks, LoopPhases, Numbering
  <2>6. Replies'
    BY <1>1 DEF Handle, BridgeTypeOK, WorkerPhases, LoopPhases, Numbering, Replies, StreamPCs
  <2> QED
    BY <2>1, <2>2, <2>3, <2>4, <2>5, <2>6
<1>2. CASE BeginStream
  <2>1. BridgeTypeOK'
    BY <1>2 DEF BeginStream, BridgeTypeOK, Chunks, WorkerPCs, LoopPCs
  <2>2. Wakeups'
    BY <1>2 DEF BeginStream, BridgeTypeOK, Wakeups, WorkerPhases, LoopPhases, StreamPCs
  <2>3. WorkerPhases'
    BY <1>2 DEF BeginStream, BridgeTypeOK, WorkerPhases, LoopPhases, StreamPCs
  <2>4. LoopPhases'
    BY <1>2 DEF BeginStream, BridgeTypeOK, Wakeups, WorkerPhases, LoopPhases, StreamPCs
  <2>5. Numbering'
    BY <1>2 DEF BeginStream, BridgeTypeOK, Chunks, LoopPhases, Numbering
  <2>6. Replies'
    BY <1>2 DEF BeginStream, BridgeTypeOK, WorkerPhases, LoopPhases, Numbering, Replies, StreamPCs
  <2> QED
    BY <2>1, <2>2, <2>3, <2>4, <2>5, <2>6
<1>3. CASE Provide
  BY <1>3 DEF Provide, BridgeTypeOK, Chunks, WorkerPCs, LoopPCs, Wakeups, WorkerPhases,
     LoopPhases, Numbering, Replies, StreamPCs
<1>4. CASE Push
  <2>1. BridgeTypeOK'
    BY <1>4 DEF Push, BridgeTypeOK, Chunks, WorkerPCs, LoopPCs
  <2>2. Wakeups'
    BY <1>4 DEF Push, BridgeTypeOK, Wakeups, WorkerPhases, LoopPhases, StreamPCs
  <2>3. WorkerPhases'
    BY <1>4 DEF Push, BridgeTypeOK, WorkerPhases, LoopPhases, StreamPCs
  <2>4. LoopPhases'
    BY <1>4 DEF Push, BridgeTypeOK, Wakeups, WorkerPhases, LoopPhases, StreamPCs
  <2>5. Numbering'
    <3>1. /\ Len(outbox') = Len(outbox) + 1
          /\ \A i \in 1 .. Len(outbox) : outbox'[i] = outbox[i]
          /\ outbox'[Len(outbox) + 1] = pushed + 1
      BY <1>4 DEF Push, BridgeTypeOK, Chunks
    <3>2. UNCHANGED <<written, chunks>> /\ pushed' = pushed + 1
      BY <1>4 DEF Push
    <3>3. Len(written) \in Nat /\ Len(chunks) \in Nat /\ Len(outbox) \in Nat
      BY DEF BridgeTypeOK
    <3>4. ASSUME NEW i \in 1 .. Len(outbox')
          PROVE  outbox'[i] = Len(written) + Len(chunks) + i
      <4>1. CASE i \in 1 .. Len(outbox)
        BY <3>1, <4>1 DEF Numbering
      <4>2. CASE i = Len(outbox) + 1
        BY <3>1, <3>3, <4>2 DEF Numbering
      <4> QED
        BY <3>1, <3>3, <4>1, <4>2
    <3> QED
      BY <3>1, <3>2, <3>3, <3>4 DEF Numbering
  <2>6. Replies'
    BY <1>4 DEF Push, BridgeTypeOK, WorkerPhases, LoopPhases, Numbering, Replies, StreamPCs
  <2> QED
    BY <2>1, <2>2, <2>3, <2>4, <2>5, <2>6
<1>5. CASE ProviderEnds
  BY <1>5 DEF ProviderEnds, BridgeTypeOK, Chunks, WorkerPCs, LoopPCs, Wakeups, WorkerPhases,
     LoopPhases, Numbering, Replies, StreamPCs
<1>6. CASE SetBuffered
  BY <1>6 DEF SetBuffered, BridgeTypeOK, Chunks, WorkerPCs, LoopPCs, Wakeups, WorkerPhases,
     LoopPhases, Numbering, Replies, StreamPCs
<1>7. CASE Finish
  BY <1>7 DEF Finish, BridgeTypeOK, Chunks, WorkerPCs, LoopPCs, Wakeups, WorkerPhases,
     LoopPhases, Numbering, Replies, StreamPCs
<1>8. CASE ArmFirst
  BY <1>8 DEF ArmFirst, Arm, BridgeTypeOK, Chunks, WorkerPCs, LoopPCs, Wakeups, WorkerPhases,
     LoopPhases, Numbering, Replies, StreamPCs
<1>9. CASE ParkFirst
  BY <1>9 DEF ParkFirst, BridgeTypeOK, Chunks, WorkerPCs, LoopPCs, Wakeups, WorkerPhases,
     LoopPhases, Numbering, Replies, StreamPCs
<1>10. CASE IsStreaming
  BY <1>10 DEF IsStreaming, BridgeTypeOK, Chunks, WorkerPCs, LoopPCs, Wakeups, WorkerPhases,
     LoopPhases, Numbering, Replies, StreamPCs
<1>11. CASE IsFinished
  BY <1>11 DEF IsFinished, BridgeTypeOK, Chunks, WorkerPCs, LoopPCs, Wakeups, WorkerPhases,
     LoopPhases, Numbering, Replies, StreamPCs
<1>12. CASE Join("joinBuffered", "send")
  BY <1>12 DEF Join, BridgeTypeOK, Chunks, WorkerPCs, LoopPCs, Wakeups, WorkerPhases,
     LoopPhases, Numbering, Replies, StreamPCs
<1>13. CASE Send
  <2>1. BridgeTypeOK'
    BY <1>13 DEF Send, BridgeTypeOK, Chunks, WorkerPCs, LoopPCs
  <2>2. Wakeups'
    BY <1>13 DEF Send, BridgeTypeOK, Wakeups, WorkerPhases, LoopPhases, StreamPCs
  <2>3. WorkerPhases'
    BY <1>13 DEF Send, BridgeTypeOK, WorkerPhases, LoopPhases, StreamPCs
  <2>4. LoopPhases'
    BY <1>13 DEF Send, BridgeTypeOK, Wakeups, WorkerPhases, LoopPhases, StreamPCs
  <2>5. Numbering'
    BY <1>13 DEF Send, BridgeTypeOK, Chunks, LoopPhases, Numbering
  <2>6. Replies'
    BY <1>13 DEF Send, BridgeTypeOK, WorkerPhases, LoopPhases, Numbering, Replies, StreamPCs
  <2> QED
    BY <2>1, <2>2, <2>3, <2>4, <2>5, <2>6
<1>14. CASE TakeHead
  BY <1>14 DEF TakeHead, BridgeTypeOK, Chunks, WorkerPCs, LoopPCs, Wakeups, WorkerPhases,
     LoopPhases, Numbering, Replies, StreamPCs
<1>15. CASE SendHead
  BY <1>15 DEF SendHead, BridgeTypeOK, Chunks, WorkerPCs, LoopPCs, Wakeups, WorkerPhases,
     LoopPhases, Numbering, Replies, StreamPCs
<1>16. CASE Join("joinHeadFailed", "done")
  BY <1>16 DEF Join, BridgeTypeOK, Chunks, WorkerPCs, LoopPCs, Wakeups, WorkerPhases,
     LoopPhases, Numbering, Replies, StreamPCs
<1>17. CASE Take
  <2>1. BridgeTypeOK'
    BY <1>17 DEF Take, BridgeTypeOK, Chunks, WorkerPCs, LoopPCs
  <2>2. Wakeups'
    BY <1>17 DEF Take, BridgeTypeOK, Wakeups, WorkerPhases, LoopPhases, StreamPCs
  <2>3. WorkerPhases'
    BY <1>17 DEF Take, BridgeTypeOK, WorkerPhases, LoopPhases, StreamPCs
  <2>4. LoopPhases'
    BY <1>17 DEF Take, BridgeTypeOK, Wakeups, WorkerPhases, LoopPhases, StreamPCs
  <2>5. Numbering'
    BY <1>17 DEF Take, BridgeTypeOK, Chunks, LoopPhases, Numbering
  <2>6. Replies'
    BY <1>17 DEF Take, BridgeTypeOK, WorkerPhases, LoopPhases, Numbering, Replies, StreamPCs
  <2> QED
    BY <2>1, <2>2, <2>3, <2>4, <2>5, <2>6
<1>18. CASE Write
  <2>1. BridgeTypeOK'
    BY <1>18 DEF Write, BridgeTypeOK, Chunks, WorkerPCs, LoopPCs
  <2>2. Wakeups'
    BY <1>18 DEF Write, BridgeTypeOK, Wakeups, WorkerPhases, LoopPhases, StreamPCs
  <2>3. WorkerPhases'
    BY <1>18 DEF Write, BridgeTypeOK, WorkerPhases, LoopPhases, StreamPCs
  <2>4. LoopPhases'
    BY <1>18 DEF Write, BridgeTypeOK, Wakeups, WorkerPhases, LoopPhases, StreamPCs
  <2>5. Numbering'
    BY <1>18 DEF Write, BridgeTypeOK, Chunks, LoopPhases, Numbering
  <2>6. Replies'
    BY <1>18 DEF Write, BridgeTypeOK, WorkerPhases, LoopPhases, Numbering, Replies, StreamPCs
  <2> QED
    BY <2>1, <2>2, <2>3, <2>4, <2>5, <2>6
<1>19. CASE WriteFails
  <2>1. BridgeTypeOK'
    BY <1>19 DEF WriteFails, BridgeTypeOK, Chunks, WorkerPCs, LoopPCs
  <2>2. Wakeups'
    BY <1>19 DEF WriteFails, BridgeTypeOK, Wakeups, WorkerPhases, LoopPhases, StreamPCs
  <2>3. WorkerPhases'
    BY <1>19 DEF WriteFails, BridgeTypeOK, WorkerPhases, LoopPhases, StreamPCs
  <2>4. LoopPhases'
    BY <1>19 DEF WriteFails, BridgeTypeOK, Wakeups, WorkerPhases, LoopPhases, StreamPCs
  <2>5. Numbering'
    BY <1>19 DEF WriteFails, BridgeTypeOK, Chunks, LoopPhases, Numbering
  <2>6. Replies'
    BY <1>19 DEF WriteFails, BridgeTypeOK, WorkerPhases, LoopPhases, Numbering, Replies, StreamPCs
  <2> QED
    BY <2>1, <2>2, <2>3, <2>4, <2>5, <2>6
<1>20. CASE AllWritten
  BY <1>20 DEF AllWritten, BridgeTypeOK, Chunks, WorkerPCs, LoopPCs, Wakeups, WorkerPhases,
     LoopPhases, Numbering, Replies, StreamPCs
<1>21. CASE Join("joinWriteFailed", "done")
  BY <1>21 DEF Join, BridgeTypeOK, Chunks, WorkerPCs, LoopPCs, Wakeups, WorkerPhases,
     LoopPhases, Numbering, Replies, StreamPCs
<1>22. CASE StreamFinished
  BY <1>22 DEF StreamFinished, BridgeTypeOK, Chunks, WorkerPCs, LoopPCs, Wakeups, WorkerPhases,
     LoopPhases, Numbering, Replies, StreamPCs
<1>23. CASE StreamPending
  BY <1>23 DEF StreamPending, BridgeTypeOK, Chunks, WorkerPCs, LoopPCs, Wakeups, WorkerPhases,
     LoopPhases, Numbering, Replies, StreamPCs
<1>24. CASE ArmStream
  <2>1. signal' <=> finished \/ outbox # <<>>
    BY <1>24 DEF ArmStream, Arm
  <2>2. BridgeTypeOK'
    BY <1>24 DEF ArmStream, Arm, BridgeTypeOK, LoopPCs
  <2>3. Wakeups'
    BY <1>24, <2>1 DEF ArmStream, Arm, Wakeups
  <2>4. WorkerPhases' /\ LoopPhases' /\ Replies'
    BY <1>24 DEF ArmStream, Arm, WorkerPhases, LoopPhases, Replies, StreamPCs
  <2>5. Numbering'
    BY <1>24 DEF ArmStream, Arm, Numbering
  <2> QED
    BY <2>2, <2>3, <2>4, <2>5
<1>25. CASE ParkStream
  BY <1>25 DEF ParkStream, BridgeTypeOK, Chunks, WorkerPCs, LoopPCs, Wakeups, WorkerPhases,
     LoopPhases, Numbering, Replies, StreamPCs
<1>26. CASE Join("joinStream", "lastChunk")
  BY <1>26 DEF Join, BridgeTypeOK, Chunks, WorkerPCs, LoopPCs, Wakeups, WorkerPhases,
     LoopPhases, Numbering, Replies, StreamPCs
<1>27. CASE FinishStream
  BY <1>27 DEF FinishStream, BridgeTypeOK, Chunks, WorkerPCs, LoopPCs, Wakeups, WorkerPhases,
     LoopPhases, Numbering, Replies, StreamPCs
<1>28. CASE UNCHANGED bridgeVars
  BY <1>28 DEF bridgeVars, BridgeTypeOK, Wakeups, WorkerPhases, LoopPhases, Numbering, Replies
<1> QED
  BY <1>1, <1>2, <1>3, <1>4, <1>5, <1>6, <1>7, <1>8, <1>9, <1>10, <1>11, <1>12, <1>13,
     <1>14, <1>15, <1>16, <1>17, <1>18, <1>19, <1>20, <1>21, <1>22, <1>23, <1>24,
     <1>25, <1>26, <1>27, <1>28
     DEF BridgeNext, WorkerThread, Coroutine, Over

LEMMA BridgeInvariant == BridgeSpec => []BridgeInv
<1> QED
  BY BridgeStarts, BridgeGoesOn, PTL DEF BridgeSpec

\* Every variable of the request stays in its range.
THEOREM BridgeTypeCorrect == BridgeSpec => []BridgeTypeOK
<1>1. BridgeInv => BridgeTypeOK
  BY DEF BridgeInv
<1> QED
  BY BridgeInvariant, <1>1, PTL

\* The coroutine never sleeps on a signal while there is something to do.
THEOREM WakeupsAreNotLost == BridgeSpec => []NoLostWakeup
<1>1. BridgeInv => NoLostWakeup
  BY DEF BridgeInv, Wakeups
<1> QED
  BY BridgeInvariant, <1>1, PTL

\* The streaming loop is only resumed for a chunk or for the end.
THEOREM WakeupsAreNotIdle == BridgeSpec => []NoIdleWakeup
<1>1. BridgeInv => NoIdleWakeup
  BY DEF BridgeInv, Wakeups
<1> QED
  BY BridgeInvariant, <1>1, PTL

\* The client gets every chunk once, in order, before the stream is closed.
THEOREM StreamIsComplete == BridgeSpec => []InOrderAndComplete
<1>1. BridgeInv => InOrderAndComplete
  <2> SUFFICES ASSUME BridgeInv PROVE InOrderAndComplete
    OBVIOUS
  <2>1. reply = "chunked" => Len(chunks) = 0 /\ Len(outbox) = 0
    BY DEF BridgeInv, Replies
  <2> QED
    BY <2>1 DEF BridgeInv, BridgeTypeOK, Numbering, InOrderAndComplete
<1> QED
  BY BridgeInvariant, <1>1, PTL

\* A request whose client stays never blocks the event loop on its handler.
THEOREM RegularJoinIsShort == BridgeSpec => []RegularJoinDoesNotBlock
<1>1. BridgeInv => RegularJoinDoesNotBlock
  BY DEF BridgeInv, LoopPhases, RegularJoinDoesNotBlock
<1> QED
  BY BridgeInvariant, <1>1, PTL

\* A buffered reply is the handler's own, or a 500 if the handler threw.
THEOREM BufferedReplies == BridgeSpec => []BufferedReplyIsRight
<1>1. BridgeInv => BufferedReplyIsRight
  BY DEF BridgeInv, Replies, BufferedReplyIsRight
<1> QED
  BY BridgeInvariant, <1>1, PTL

-----------------------------------------------------------------------------
(* CatalogStore. *)

Whole(r) == r = NoRows \/ \E c \in Catalogs : r = c

\* Before its first INSERT.
Early == {"readCache", "removeCached", "fetch", "count", "begin", "delete"}

\* The local state of a thread: an operation that updates the bookshelf has a
\* catalog in hand, and nothing is inserted yet before the first INSERT.
ThreadOK(t) ==
    /\ pc[t] \in Early => call[t].next = 1
    /\ pc[t] \in {"move", "erase"} => call[t].op = "change"
    /\ pc[t] \in {"readCache", "removeCached", "fetch", "count", "insert", "update"}
         => call[t].op # "change"
    /\ pc[t] \in {"count", "update"} => call[t].op # "open"
    /\ call[t].op \in {"refresh", "check", "worker"} /\ pc[t] \notin {"idle", "fetch"}
         => call[t].fetched # <<>>

\* The thread that began the transaction is in its middle, ...
OwnerWorks == tx # None => InTransaction(tx)

\* ... and unless the history is mixed it is the only one.
Isolation == ~mixed => \A t \in Threads : InTransaction(t) => tx = t

StoredWhole == ~mixed => \A b \in Books : Whole(Stored.rows[b])

\* The transaction's owner has disturbed its own book only, and has inserted
\* the first chapters of its catalog.
HalfWritten ==
    ~mixed /\ tx # None =>
        /\ \A b \in Books : b # call[tx].book => Whole(rows[b])
        /\ pc[tx] = "insert" =>
             /\ call[tx].next <= Len(call[tx].fetched) + 1
             /\ rows[call[tx].book] = [i \in 1 .. (call[tx].next - 1) |-> call[tx].fetched[i]]
        /\ pc[tx] \in {"move", "erase", "commit"} => Whole(rows[call[tx].book])

CatalogInv ==
    /\ TypeOK
    /\ \A t \in Threads : ThreadOK(t)
    /\ OwnerWorks
    /\ Isolation
    /\ StoredWhole
    /\ HalfWritten
    /\ UndisturbedCopyBeforeErase

LEMMA NoneIsNoThread == None \notin Threads
  BY CatalogBounds DEF Threads

LEMMA CatalogStarts == Init => CatalogInv
<1> SUFFICES ASSUME Init PROVE CatalogInv
  OBVIOUS
<1>1. call \in [Threads -> Calls] /\ \A t \in Threads : call[t].next = 1
  <2>1. PICK b \in Books :
          call = [t \in Threads |->
                     [op |-> "refresh", book |-> b, target |-> b, fetched |-> <<>>,
                      lastSeen |-> Blank, seen |-> 0, next |-> 1, replaced |-> FALSE]]
    BY DEF Init
  <2> QED
    BY <2>1, CatalogBounds DEF Calls, Operations
<1>2. TypeOK
  <2>1. pc \in [Threads -> Labels] /\ tx \in Threads \union {None} /\ ops \in 0 .. MaxOps
    BY CatalogBounds DEF Init, Labels
  <2>2. mixed \in BOOLEAN
    BY Zenon DEF Init
  <2>3. TablesOK(shelf, rows)
    <3>1. IsFiniteSet(DOMAIN NoRows) /\ \A i \in DOMAIN NoRows : FALSE
      BY FS_EmptySet DEF NoRows
    <3> QED
      BY <3>1 DEF Init, TablesOK, Off
  <2>4. saved.shelf = shelf /\ saved.rows = rows
    BY DEF Init
  <2>5. TablesOK(saved.shelf, saved.rows)
    BY <2>3, <2>4
  <2> QED
    BY <1>1, <2>1, <2>2, <2>3, <2>5 DEF TypeOK
<1>3. tx = None /\ \A t \in Threads : pc[t] = "idle"
  BY DEF Init
<1>4. StoredWhole
  BY <1>3 DEF Init, StoredWhole, Stored, Whole
<1>5. OwnerWorks /\ Isolation /\ HalfWritten /\ UndisturbedCopyBeforeErase
  BY <1>3 DEF OwnerWorks, Isolation, InTransaction, HalfWritten,
     UndisturbedCopyBeforeErase, CopyBeforeErase
<1>6. \A t \in Threads : ThreadOK(t)
  BY <1>3 DEF ThreadOK, Early
<1> QED
  BY <1>2, <1>4, <1>5, <1>6 DEF CatalogInv

\* The history says so when a statement falls into another's transaction.
LEMMA Mixing ==
  ASSUME mixed \in BOOLEAN, NEW t \in Threads, Executes(t)
  PROVE  /\ mixed' \in BOOLEAN
         /\ ~mixed' <=> ~mixed /\ (tx = None \/ tx = t)
<1>1. mixed' = (mixed \/ tx \notin {None, t})
  BY DEF Executes
<1> QED
  BY <1>1

\* The other threads are not concerned by a step of t.
LEMMA OtherThreads ==
  ASSUME NEW t \in Threads, \A u \in Threads : ThreadOK(u), ThreadOK(t)',
         \A u \in Threads \ {t} : pc'[u] = pc[u] /\ call'[u] = call[u]
  PROVE  \A u \in Threads : ThreadOK(u)'
  BY DEF ThreadOK

\* A step that a thread makes outside of its transactions: it leaves the
\* connection's transaction alone, and a statement of it keeps catalogs whole.
LEMMA OutsideStep ==
  ASSUME CatalogInv, NEW t \in Threads, ~InTransaction(t), ~InTransaction(t)',
         pc' \in [Threads -> Labels], call' \in [Threads -> Calls], ops' \in 0 .. MaxOps,
         \A u \in Threads \ {t} : pc'[u] = pc[u] /\ call'[u] = call[u],
         ThreadOK(t)',
         UNCHANGED <<tx, saved>>,
         \/ UNCHANGED <<shelf, rows, mixed>>
         \/ /\ Executes(t)
            /\ TablesOK(shelf', rows')
            /\ \A b \in Books : Whole(rows[b]) => Whole(rows'[b])
  PROVE  CatalogInv'
<1> USE DEF CatalogInv
<1>1. /\ mixed' \in BOOLEAN
      /\ ~mixed' => ~mixed
      /\ ~mixed' => UNCHANGED <<shelf, rows>> \/ tx = None \/ tx = t
  BY Mixing DEF TypeOK
<1>2. tx # t
  BY NoneIsNoThread DEF OwnerWorks
<1>3. TypeOK'
  <2>1. TablesOK(shelf', rows')
    BY DEF TypeOK
  <2>2. TablesOK(saved'.shelf, saved'.rows)
    BY DEF TypeOK
  <2> QED
    BY <1>1, <2>1, <2>2 DEF TypeOK
<1>4. \A u \in Threads : InTransaction(u)' => InTransaction(u) /\ u # t
  BY DEF InTransaction
<1>5. OwnerWorks'
  BY <1>2 DEF OwnerWorks, InTransaction, TypeOK
<1>6. Isolation'
  BY <1>1, <1>4 DEF Isolation
<1>7. StoredWhole'
  <2>1. ASSUME ~mixed', NEW b \in Books PROVE Whole(Stored'.rows[b])
    <3>1. CASE tx = None
      BY <1>1, <2>1, <3>1 DEF StoredWhole, Stored, Whole
    <3>2. CASE tx # None
      BY <1>1, <1>2, <2>1, <3>2 DEF StoredWhole, Stored, Whole
    <3> QED
      BY <3>1, <3>2
  <2> QED
    BY <2>1 DEF StoredWhole, Whole
<1>8. HalfWritten'
  <2>1. SUFFICES ASSUME ~mixed', tx' # None PROVE HalfWritten'
    BY DEF HalfWritten
  <2>2. UNCHANGED rows /\ tx \in Threads \ {t} /\ ~mixed
    BY <1>1, <1>2, <2>1 DEF TypeOK
  <2>3. pc'[tx] = pc[tx] /\ call'[tx] = call[tx] /\ tx' = tx
    BY <2>2
  <2> QED
    BY <2>1, <2>2, <2>3 DEF HalfWritten, Whole
<1>9. \A u \in Threads : ThreadOK(u)'
  BY OtherThreads
<1>10. UndisturbedCopyBeforeErase'
  <2>1. SUFFICES ASSUME ~mixed', NEW u \in Threads, pc'[u] = "erase", shelf'[call'[u].book].on
                 PROVE  shelf'[call'[u].target].on
    BY DEF UndisturbedCopyBeforeErase, CopyBeforeErase
  <2>2. u # t /\ pc[u] = "erase" /\ call'[u] = call[u]
    BY <2>1 DEF InTransaction
  <2>3. tx = u /\ ~mixed
    BY <1>1, <2>1, <2>2 DEF Isolation, InTransaction
  <2>4. UNCHANGED shelf
    BY <1>1, <1>2, <2>1, <2>3, NoneIsNoThread
  <2> QED
    BY <2>1, <2>2, <2>3, <2>4 DEF UndisturbedCopyBeforeErase, CopyBeforeErase
<1> QED
  BY <1>3, <1>5, <1>6, <1>7, <1>8, <1>9, <1>10

LEMMA StartStep ==
  ASSUME CatalogInv, NEW t \in Threads, NEW b \in Books, NEW n \in Books,
         NEW operation \in Operations, NEW last \in Titles \union {Blank},
         NEW label \in {"fetch", "readCache", "begin"},
         operation = "change" <=> label = "begin",
         operation = "open" <=> label = "readCache",
         Start(t, operation, b, n, last, label)
  PROVE  CatalogInv'
<1> DEFINE c == [op |-> operation, book |-> b, target |-> n, fetched |-> <<>>,
                 lastSeen |-> last, seen |-> 0, next |-> 1, replaced |-> FALSE]
<1>1. c \in Calls /\ c.next = 1 /\ c.op = operation
  BY CatalogBounds DEF Calls
<1>2. /\ pc[t] = "idle" /\ pc' = [pc EXCEPT ![t] = label]
      /\ call' = [call EXCEPT ![t] = c]
      /\ UNCHANGED <<shelf, rows, tx, saved, mixed>>
      /\ ops' \in 0 .. MaxOps
  BY CatalogBounds DEF Start, Goto, tables, CatalogInv, TypeOK
<1> HIDE DEF c
<1>3. /\ pc' \in [Threads -> Labels] /\ pc'[t] = label
      /\ call' \in [Threads -> Calls] /\ call'[t] = c
      /\ \A u \in Threads \ {t} : pc'[u] = pc[u] /\ call'[u] = call[u]
  BY <1>1, <1>2 DEF CatalogInv, TypeOK, Labels
<1>4. ~InTransaction(t) /\ ~InTransaction(t)'
  BY <1>2, <1>3 DEF InTransaction
<1>5. ThreadOK(t)'
  BY <1>1, <1>3 DEF ThreadOK, Early, Operations
<1> QED
  BY <1>2, <1>3, <1>4, <1>5, OutsideStep

\* Deleting the rows of a book keeps the tables' types and whole catalogs.
LEMMA DeletingRows ==
  ASSUME NEW s, NEW r, TablesOK(s, r), NEW b \in Books
  PROVE  /\ TablesOK(s, [r EXCEPT ![b] = NoRows])
         /\ [r EXCEPT ![b] = NoRows][b] = NoRows
         /\ \A c \in Books : Whole(r[c]) => Whole([r EXCEPT ![b] = NoRows][c])
         /\ \A c \in Books \ {b} : [r EXCEPT ![b] = NoRows][c] = r[c]
<1> DEFINE q == [r EXCEPT ![b] = NoRows]
<1>1. q = [c \in Books |-> IF c = b THEN NoRows ELSE r[c]]
  BY DEF TablesOK
<1> HIDE DEF q
<1>2. q[b] = NoRows /\ \A c \in Books \ {b} : q[c] = r[c]
  BY <1>1
<1>3. TablesOK(s, q)
  <2>1. IsFiniteSet(DOMAIN NoRows) /\ \A i \in DOMAIN NoRows : FALSE
    BY FS_EmptySet DEF NoRows
  <2> QED
    BY <1>1, <1>2, <2>1 DEF TablesOK
<1> QED
  BY <1>2, <1>3 DEF Whole, q

\* Deleting a row of the bookshelf with the catalog that hangs on it.
LEMMA DeletingBook ==
  ASSUME NEW s, NEW r, TablesOK(s, r), NEW b \in Books
  PROVE  TablesOK([s EXCEPT ![b] = Off], [r EXCEPT ![b] = NoRows])
<1> DEFINE q == [r EXCEPT ![b] = NoRows]
           z == [s EXCEPT ![b] = Off]
<1>1. TablesOK(s, q) /\ q[b] = NoRows
  BY DeletingRows
<1>2. z \in [Books -> [on : BOOLEAN, last : Titles \union {Blank}, total : Nat,
                       update : BOOLEAN]]
  BY DEF TablesOK, Off
<1>3. \A c \in Books : c # b => z[c] = s[c]
  BY DEF TablesOK
<1> HIDE DEF q, z
<1> QED
  BY <1>1, <1>2, <1>3 DEF TablesOK, q, z

\* A row that stays or comes, of the right type.
LEMMA PuttingBook ==
  ASSUME NEW s, NEW r, TablesOK(s, r), NEW b \in Books,
         NEW row \in [on : BOOLEAN, last : Titles \union {Blank}, total : Nat,
                      update : BOOLEAN],
         row.on
  PROVE  TablesOK([s EXCEPT ![b] = row], r)
<1> DEFINE z == [s EXCEPT ![b] = row]
<1>1. z \in [Books -> [on : BOOLEAN, last : Titles \union {Blank}, total : Nat,
                       update : BOOLEAN]]
  BY DEF TablesOK
<1>2. \A c \in Books : z[c].on = s[c].on \/ z[c].on
  BY DEF TablesOK
<1> HIDE DEF z
<1> QED
  BY <1>1, <1>2 DEF TablesOK, z

LEMMA NewIsARow ==
  /\ New \in [on : BOOLEAN, last : Titles \union {Blank}, total : Nat, update : BOOLEAN]
  /\ New.on
  BY DEF New

LEMMA StatementStep ==
  ASSUME CatalogInv, NEW t \in Threads, NEW b \in Books,
         AddToBookshelf(t, b) \/ RemoveFromBookshelf(t, b) \/ ClearBookCache(t, b)
  PROVE  CatalogInv'
<1>1. /\ pc[t] = "idle" /\ Executes(t) /\ ops' \in 0 .. MaxOps
      /\ UNCHANGED <<tx, saved, pc, call>>
  BY CatalogBounds DEF AddToBookshelf, RemoveFromBookshelf, ClearBookCache, Statement,
     CatalogInv, TypeOK
<1>2. ~InTransaction(t) /\ ~InTransaction(t)' /\ ThreadOK(t)'
  BY <1>1 DEF InTransaction, CatalogInv, ThreadOK
<1>3. TablesOK(shelf', rows') /\ \A c \in Books : Whole(rows[c]) => Whole(rows'[c])
  <2>0. TablesOK(shelf, rows)
    BY DEF CatalogInv, TypeOK
  <2>1. CASE AddToBookshelf(t, b)
    BY <2>0, <2>1, PuttingBook, NewIsARow DEF AddToBookshelf
  <2>2. CASE RemoveFromBookshelf(t, b)
    BY <2>0, <2>2, DeletingBook, DeletingRows DEF RemoveFromBookshelf, DeleteRows
  <2>3. CASE ClearBookCache(t, b)
    BY <2>0, <2>3, DeletingRows DEF ClearBookCache, DeleteRows
  <2> QED
    BY <2>1, <2>2, <2>3
<1> QED
  BY <1>1, <1>2, <1>3, OutsideStep DEF CatalogInv, TypeOK

\* Where a thread goes and what its call becomes, in every step of Continue.
LEMMA Moving ==
  ASSUME TypeOK, NEW t \in Threads, NEW label \in Labels, Goto(t, label)
  PROVE  /\ pc' \in [Threads -> Labels] /\ pc'[t] = label
         /\ \A u \in Threads \ {t} : pc'[u] = pc[u]
  BY DEF TypeOK, Goto

LEMMA ReadingStep ==
  ASSUME CatalogInv, NEW t \in Threads, ReadCache(t) \/ Fetch(t) \/ Count(t)
  PROVE  CatalogInv'
<1> USE DEF CatalogInv
<1>0. call[t] \in Calls /\ ThreadOK(t)
  BY DEF TypeOK
<1>1. CASE ReadCache(t)
  <2>1. PICK label \in {"fetch", "idle", "removeCached"} : Goto(t, label)
    BY <1>1 DEF ReadCache
  <2>2. pc[t] = "readCache" /\ UNCHANGED <<shelf, rows, tx, saved, call, ops, mixed>>
    BY <1>1 DEF ReadCache, tables
  <2>3. /\ pc' \in [Threads -> Labels] /\ pc'[t] = label
        /\ \A u \in Threads \ {t} : pc'[u] = pc[u]
    BY <2>1, Moving DEF Labels
  <2>4. ~InTransaction(t) /\ ~InTransaction(t)' /\ ThreadOK(t)'
    BY <1>0, <2>2, <2>3 DEF InTransaction, ThreadOK, Early
  <2> QED
    BY <2>2, <2>3, <2>4, OutsideStep DEF TypeOK
<1>2. CASE Fetch(t)
  <2>1. PICK c \in Catalogs :
          call' = [call EXCEPT ![t].fetched = c] /\ Goto(t, AfterFetch(call[t].op, c))
    BY <1>2 DEF Fetch
  <2>2. pc[t] = "fetch" /\ UNCHANGED <<shelf, rows, tx, saved, ops, mixed>>
    BY <1>2 DEF Fetch, tables
  <2>3. call[t].op \in Operations \ {"change"}
    BY <1>0, <2>2 DEF ThreadOK, Calls
  <2> DEFINE label == AfterFetch(call[t].op, c)
  <2>4. /\ label \in {"count", "idle", "begin", "update"}
        /\ label \in {"count", "update"} => call[t].op # "open" /\ c # <<>>
        /\ label = "begin" => call[t].op = "open"
    <3>1. Valid(c) => c # <<>>
      BY DEF Valid
    <3>2. CASE call[t].op = "refresh"
      BY <3>1, <3>2 DEF AfterFetch
    <3>3. CASE call[t].op = "open"
      BY <3>1, <3>3 DEF AfterFetch
    <3>4. CASE call[t].op = "check"
      BY <3>1, <3>4 DEF AfterFetch
    <3>5. CASE call[t].op = "worker"
      BY <3>1, <3>5 DEF AfterFetch
    <3> QED
      BY <2>3, <3>2, <3>3, <3>4, <3>5 DEF Operations
  <2>5. /\ call' \in [Threads -> Calls]
        /\ call'[t].op = call[t].op /\ call'[t].fetched = c /\ call'[t].next = call[t].next
        /\ \A u \in Threads \ {t} : call'[u] = call[u]
    BY <2>1 DEF TypeOK, Calls
  <2> HIDE DEF label
  <2>6. /\ pc' \in [Threads -> Labels] /\ pc'[t] = label
        /\ \A u \in Threads \ {t} : pc'[u] = pc[u]
    BY <2>1, <2>4, Moving DEF Labels, label
  <2>7. ~InTransaction(t) /\ ~InTransaction(t)'
    BY <2>2, <2>4, <2>6 DEF InTransaction
  <2>8. ThreadOK(t)'
    BY <1>0, <2>2, <2>3, <2>4, <2>5, <2>6 DEF ThreadOK, Early
  <2> QED
    BY <2>2, <2>5, <2>6, <2>7, <2>8, OutsideStep DEF TypeOK
<1>3. CASE Count(t)
  <2> DEFINE seen == Cardinality(DOMAIN rows[call[t].book])
  <2>1. PICK label \in {"begin", "update", "idle"} : Goto(t, label)
    BY <1>3 DEF Count
  <2>2. /\ pc[t] = "count" /\ call' = [call EXCEPT ![t].seen = seen]
        /\ UNCHANGED <<shelf, rows, tx, saved, ops, mixed>>
    BY <1>3 DEF Count, tables
  <2> HIDE DEF seen
  <2>3. seen \in Nat
    BY <1>0, FS_CardinalityType DEF TypeOK, TablesOK, Calls, seen
  <2>5. /\ call' \in [Threads -> Calls]
        /\ call'[t].op = call[t].op /\ call'[t].fetched = call[t].fetched
        /\ call'[t].next = call[t].next
        /\ \A u \in Threads \ {t} : call'[u] = call[u]
    BY <2>2, <2>3 DEF TypeOK, Calls
  <2>6. /\ pc' \in [Threads -> Labels] /\ pc'[t] = label
        /\ \A u \in Threads \ {t} : pc'[u] = pc[u]
    BY <2>1, Moving DEF Labels
  <2>7. ~InTransaction(t) /\ ~InTransaction(t)'
    BY <2>2, <2>6 DEF InTransaction
  <2>8. ThreadOK(t)'
    BY <1>0, <2>2, <2>5, <2>6 DEF ThreadOK, Early
  <2> QED
    BY <2>2, <2>5, <2>6, <2>7, <2>8, OutsideStep DEF TypeOK
<1> QED
  BY <1>1, <1>2, <1>3

LEMMA RemoveCachedStep ==
  ASSUME CatalogInv, NEW t \in Threads, RemoveCachedCatalog(t)
  PROVE  CatalogInv'
<1>1. /\ pc[t] = "removeCached" /\ Executes(t) /\ Goto(t, "fetch")
      /\ UNCHANGED <<shelf, tx, saved, call, ops>> /\ DeleteRows(call[t].book)
  BY DEF RemoveCachedCatalog
<1>2. call[t] \in Calls /\ ThreadOK(t) /\ TablesOK(shelf, rows)
  BY DEF CatalogInv, TypeOK
<1>3. /\ pc' \in [Threads -> Labels] /\ pc'[t] = "fetch"
      /\ \A u \in Threads \ {t} : pc'[u] = pc[u]
  BY <1>1, Moving DEF Labels, CatalogInv
<1>4. ~InTransaction(t) /\ ~InTransaction(t)' /\ ThreadOK(t)'
  BY <1>1, <1>2, <1>3 DEF InTransaction, ThreadOK, Early
<1>5. TablesOK(shelf', rows') /\ \A c \in Books : Whole(rows[c]) => Whole(rows'[c])
  <2>1. call[t].book \in Books /\ rows' = [rows EXCEPT ![call[t].book] = NoRows]
    BY <1>1, <1>2 DEF DeleteRows, Calls
  <2> QED
    BY <1>1, <1>2, <2>1, DeletingRows
<1> QED
  BY <1>1, <1>3, <1>4, <1>5, OutsideStep DEF CatalogInv, TypeOK

LEMMA UpdateStep ==
  ASSUME CatalogInv, NEW t \in Threads, UpdateBookshelfLastChapter(t)
  PROVE  CatalogInv'
<1> DEFINE c == call[t]
<1>1. /\ pc[t] = "update" /\ Executes(t) /\ Goto(t, "idle")
      /\ UNCHANGED <<rows, tx, saved, call, ops>>
  BY DEF UpdateBookshelfLastChapter
<1>2. c \in Calls /\ ThreadOK(t) /\ TablesOK(shelf, rows)
  BY DEF CatalogInv, TypeOK
<1>3. c.op \in {"refresh", "check", "worker"} /\ c.fetched \in Catalogs /\ c.fetched # <<>>
  BY <1>1, <1>2 DEF ThreadOK, Calls, Operations
<1>4. PICK flag \in UpdateFlags(c) :
        shelf' = IF shelf[c.book].on THEN [shelf EXCEPT ![c.book] = NewRow(c, flag)] ELSE shelf
  BY DEF UpdateBookshelfLastChapter
<1>5. flag \in BOOLEAN
  <2>1. CASE c.op = "refresh"
    BY <2>1 DEF UpdateFlags
  <2>2. CASE c.op = "check"
    BY <2>2 DEF UpdateFlags
  <2>3. CASE c.op = "worker"
    BY <2>3 DEF UpdateFlags
  <2> QED
    BY <1>3, <2>1, <2>2, <2>3
<1>6. Last(c.fetched) \in Titles \union {Blank} /\ Len(c.fetched) \in Nat /\ c.seen \in Nat
  <2>1. c.fetched \in Seq(Titles \union {Blank})
    BY <1>3, CatalogBounds
  <2> QED
    BY <1>2, <1>3, <2>1 DEF Last, Calls
<1>7. /\ NewRow(c, flag) \in [on : BOOLEAN, last : Titles \union {Blank}, total : Nat,
                              update : BOOLEAN]
      /\ NewRow(c, flag).on
  <2> DEFINE total == IF c.op = "check" /\ ~c.replaced /\ c.seen > Len(c.fetched)
                      THEN c.seen ELSE Len(c.fetched)
  <2>1. total \in Nat
    BY <1>6
  <2>2. NewRow(c, flag) = [on |-> TRUE, last |-> Last(c.fetched), total |-> total,
                           update |-> flag]
    BY DEF NewRow
  <2> HIDE DEF c, total
  <2> QED
    BY <1>5, <1>6, <2>1, <2>2
<1>8. TablesOK(shelf', rows')
  <2>1. c.book \in Books
    BY <1>2 DEF Calls
  <2> HIDE DEF c
  <2>2. CASE shelf[c.book].on
    BY <1>1, <1>2, <1>4, <1>7, <2>1, <2>2, PuttingBook
  <2>3. CASE ~shelf[c.book].on
    BY <1>1, <1>2, <1>4, <2>3
  <2> QED
    BY <2>2, <2>3
<1>9. /\ pc' \in [Threads -> Labels] /\ pc'[t] = "idle"
      /\ \A u \in Threads \ {t} : pc'[u] = pc[u]
  BY <1>1, Moving DEF Labels, CatalogInv
<1>10. ~InTransaction(t) /\ ~InTransaction(t)' /\ ThreadOK(t)'
  BY <1>1, <1>2, <1>9 DEF InTransaction, ThreadOK, Early
<1> QED
  BY <1>1, <1>8, <1>9, <1>10, OutsideStep DEF CatalogInv, TypeOK

\* A failed begin leads to a rollback and, the transaction being another's, to
\* a mixed history.
LEMMA BeginStep ==
  ASSUME CatalogInv, NEW t \in Threads, BeginTransaction(t)
  PROVE  CatalogInv'
<1> USE DEF CatalogInv
<1>1. /\ pc[t] = "begin" /\ Executes(t) /\ UNCHANGED <<shelf, rows, call, ops>>
  BY DEF BeginTransaction, tables
<1>2. call[t] \in Calls /\ ThreadOK(t) /\ TablesOK(shelf, rows) /\ t # None /\ tx # t
  BY <1>1, NoneIsNoThread DEF TypeOK, OwnerWorks, InTransaction
<1>3. /\ mixed' \in BOOLEAN
      /\ ~mixed' <=> ~mixed /\ tx = None
  BY <1>1, <1>2, Mixing DEF TypeOK
<1>4. CASE tx = None
  <2>1. tx' = t /\ saved' = [shelf |-> shelf, rows |-> rows] /\ Goto(t, "delete")
    BY <1>4 DEF BeginTransaction
  <2>2. /\ pc' \in [Threads -> Labels] /\ pc'[t] = "delete"
        /\ \A u \in Threads \ {t} : pc'[u] = pc[u]
    BY <2>1, Moving DEF Labels
  <2>3. TypeOK'
    <3>1. saved'.shelf = shelf /\ saved'.rows = rows
      BY <2>1
    <3>2. TablesOK(saved'.shelf, saved'.rows) /\ TablesOK(shelf', rows')
      BY <1>1, <1>2, <3>1
    <3> QED
      BY <1>1, <1>3, <2>1, <2>2, <3>2 DEF TypeOK
  <2>4. \A u \in Threads : ThreadOK(u)'
    <3>1. ThreadOK(t)'
      BY <1>1, <1>2, <2>2 DEF ThreadOK, Early
    <3> QED
      BY <1>1, <2>2, <3>1, OtherThreads
  <2>5. OwnerWorks'
    BY <2>1, <2>2 DEF OwnerWorks, InTransaction
  <2>6. Isolation'
    <3>1. SUFFICES ASSUME ~mixed', NEW u \in Threads, InTransaction(u)' PROVE u = t
      BY <2>1 DEF Isolation
    <3> QED
      <4>1. ~mixed /\ tx # u
        BY <1>2, <1>3, <1>4, <3>1, NoneIsNoThread
      <4>2. ~InTransaction(u)
        BY <4>1 DEF Isolation
      <4> QED
        BY <2>2, <3>1, <4>2 DEF InTransaction
  <2>7. \A b \in Books : ~mixed' => Whole(rows[b])
    BY <1>3, <1>4 DEF StoredWhole, Stored
  <2>8. StoredWhole'
    BY <1>2, <2>1, <2>7 DEF StoredWhole, Stored, Whole
  <2>9. HalfWritten'
    BY <1>1, <2>1, <2>2, <2>7 DEF HalfWritten, Whole
  <2>10. UndisturbedCopyBeforeErase'
    BY <1>1, <1>3, <2>2 DEF UndisturbedCopyBeforeErase, CopyBeforeErase
  <2> QED
    BY <2>3, <2>4, <2>5, <2>6, <2>8, <2>9, <2>10
<1>5. CASE tx # None
  <2>1. UNCHANGED <<tx, saved>> /\ Goto(t, "rollback")
    BY <1>5 DEF BeginTransaction
  <2>2. /\ pc' \in [Threads -> Labels] /\ pc'[t] = "rollback"
        /\ \A u \in Threads \ {t} : pc'[u] = pc[u]
    BY <2>1, Moving DEF Labels
  <2>3. TypeOK'
    BY <1>1, <1>3, <2>1, <2>2 DEF TypeOK, TablesOK
  <2>4. \A u \in Threads : ThreadOK(u)'
    <3>1. ThreadOK(t)'
      BY <1>1, <1>2, <2>2 DEF ThreadOK, Early
    <3> QED
      BY <1>1, <2>2, <3>1, OtherThreads
  <2>5. OwnerWorks'
    BY <1>2, <2>1, <2>2 DEF OwnerWorks, InTransaction, TypeOK
  <2>6. mixed'
    BY <1>3, <1>5
  <2>7. Isolation' /\ StoredWhole' /\ HalfWritten' /\ UndisturbedCopyBeforeErase'
    BY <2>6 DEF Isolation, StoredWhole, HalfWritten, UndisturbedCopyBeforeErase
  <2> QED
    BY <2>3, <2>4, <2>5, <2>7
<1> QED
  BY <1>4, <1>5

\* A thread in its transaction leaves it alone if it writes: when the history
\* stays unmixed, the transaction is its own.
LEMMA InsideStep ==
  ASSUME CatalogInv, NEW t \in Threads, InTransaction(t), InTransaction(t)',
         Executes(t) \/ UNCHANGED <<shelf, rows, mixed>>,
         pc' \in [Threads -> Labels], call' \in [Threads -> Calls],
         \A u \in Threads \ {t} : pc'[u] = pc[u] /\ call'[u] = call[u],
         ThreadOK(t)', TablesOK(shelf', rows'),
         UNCHANGED <<tx, saved, ops>>,
         call'[t].book = call[t].book,
         \A b \in Books \ {call[t].book} : Whole(rows[b]) => Whole(rows'[b]),
         ~mixed /\ ~mixed' =>
           /\ pc'[t] = "insert" =>
                /\ call'[t].next <= Len(call'[t].fetched) + 1
                /\ rows'[call'[t].book]
                     = [i \in 1 .. (call'[t].next - 1) |-> call'[t].fetched[i]]
           /\ pc'[t] \in {"move", "erase", "commit"} => Whole(rows'[call[t].book])
           /\ pc'[t] = "erase" =>
                (shelf'[call'[t].book].on => shelf'[call'[t].target].on)
  PROVE  CatalogInv'
<1> USE DEF CatalogInv
<1>1. /\ mixed' \in BOOLEAN
      /\ ~mixed' => ~mixed
  BY Mixing DEF TypeOK
<1>2. ~mixed => tx = t /\ t # None
  BY NoneIsNoThread DEF Isolation
<1>3. TypeOK'
  <2>1. TablesOK(saved'.shelf, saved'.rows)
    BY DEF TypeOK
  <2> QED
    BY <1>1, <2>1 DEF TypeOK
<1>4. \A u \in Threads : ThreadOK(u)'
  BY OtherThreads
<1>5. \A u \in Threads : InTransaction(u)' = InTransaction(u)
  BY DEF InTransaction
<1>6. OwnerWorks'
  BY <1>5 DEF OwnerWorks, TypeOK
<1>7. Isolation'
  BY <1>1, <1>5 DEF Isolation
<1>8. StoredWhole'
  BY <1>1, <1>2 DEF StoredWhole, Stored, Whole
<1>9. HalfWritten'
  BY <1>1, <1>2 DEF HalfWritten, Whole
<1>10. UndisturbedCopyBeforeErase'
  <2>1. SUFFICES ASSUME ~mixed', NEW u \in Threads, pc'[u] = "erase", shelf'[call'[u].book].on
                 PROVE  shelf'[call'[u].target].on
    BY DEF UndisturbedCopyBeforeErase, CopyBeforeErase
  <2>2. u = t
    BY <1>1, <1>2, <2>1 DEF Isolation, InTransaction
  <2> QED
    BY <1>1, <2>1, <2>2
<1> QED
  BY <1>3, <1>4, <1>6, <1>7, <1>8, <1>9, <1>10

LEMMA NoRowsIsWhole == Whole(NoRows) /\ \A f : NoRows = [i \in 1 .. 0 |-> f[i]]
<1>1. Whole(NoRows)
  BY DEF Whole
<1>2. ASSUME NEW f PROVE NoRows = [i \in 1 .. 0 |-> f[i]]
  BY DEF NoRows
<1> QED
  BY <1>1, <1>2

LEMMA RowsDeleted ==
  ASSUME TablesOK(shelf, rows), NEW d \in Books, rows' = [rows EXCEPT ![d] = NoRows]
  PROVE  /\ TablesOK(shelf, rows')
         /\ rows'[d] = NoRows
         /\ \A b \in Books : Whole(rows[b]) => Whole(rows'[b])
         /\ \A b \in Books \ {d} : rows'[b] = rows[b]
<1>1. TablesOK(shelf, rows')
  BY DeletingRows
<1>2. rows'[d] = NoRows
  BY DEF TablesOK
<1>3. \A b \in Books \ {d} : rows'[b] = rows[b]
  BY DEF TablesOK
<1> QED
  BY <1>1, <1>2, <1>3 DEF Whole

LEMMA DeleteStep ==
  ASSUME CatalogInv, NEW t \in Threads, Delete(t)
  PROVE  CatalogInv'
<1>1. /\ pc[t] = "delete" /\ Executes(t) /\ UNCHANGED <<shelf, tx, saved, call, ops>>
      /\ rows' = [rows EXCEPT ![call[t].book] = NoRows]
  BY DEF Delete, DeleteRows
<1>2. call[t] \in Calls /\ ThreadOK(t) /\ TablesOK(shelf, rows) /\ call[t].book \in Books
  BY DEF CatalogInv, TypeOK, Calls
<1>3. PICK label \in {"move", "insert"} :
        Goto(t, label) /\ (label = "move" <=> call[t].op = "change")
  BY DEF Delete
<1>4. /\ pc' \in [Threads -> Labels] /\ pc'[t] = label
      /\ \A u \in Threads \ {t} : pc'[u] = pc[u]
  BY <1>3, Moving DEF Labels, CatalogInv
<1>5. /\ TablesOK(shelf', rows') /\ rows'[call[t].book] = NoRows
      /\ \A b \in Books : Whole(rows[b]) => Whole(rows'[b])
  <2>1. /\ TablesOK(shelf, rows') /\ rows'[call[t].book] = NoRows
        /\ \A b \in Books : Whole(rows[b]) => Whole(rows'[b])
    BY <1>1, <1>2, RowsDeleted
  <2> QED
    BY <1>1, <2>1
<1>6. ThreadOK(t)' /\ InTransaction(t) /\ InTransaction(t)' /\ call[t].next = 1
  BY <1>1, <1>2, <1>3, <1>4 DEF ThreadOK, InTransaction, Early
<1>7. /\ call'[t].next <= Len(call'[t].fetched) + 1
      /\ rows'[call'[t].book] = [i \in 1 .. (call'[t].next - 1) |-> call'[t].fetched[i]]
      /\ Whole(rows'[call[t].book])
  <2>1. call[t].fetched \in Seq(Titles \union {Blank})
    BY <1>2, CatalogBounds DEF Calls
  <2>2. Len(call[t].fetched) \in Nat
    BY <2>1
  <2> QED
    BY <1>1, <1>5, <1>6, <2>2, NoRowsIsWhole
<1>8. pc'[t] # "erase" /\ call' \in [Threads -> Calls] /\ \A u \in Threads : call'[u] = call[u]
  BY <1>1, <1>4 DEF CatalogInv, TypeOK
<1>9. /\ \A u \in Threads \ {t} : pc'[u] = pc[u] /\ call'[u] = call[u]
      /\ \A b \in Books \ {call[t].book} : Whole(rows[b]) => Whole(rows'[b])
      /\ call'[t].book = call[t].book
  BY <1>1, <1>4, <1>5
<1> QED
  BY <1>1, <1>4, <1>5, <1>6, <1>7, <1>8, <1>9, InsideStep

\* The rows after an INSERT, of the next chapter of catalog c.
LEMMA AddingRow ==
  ASSUME TablesOK(shelf, rows), NEW b \in Books, shelf[b].on,
         NEW i \in Nat \ {0}, NEW title \in Titles \union {Blank},
         rows' = [rows EXCEPT ![b] = AddRow(@, i, title)]
  PROVE  /\ TablesOK(shelf, rows')
         /\ rows'[b] = AddRow(rows[b], i, title)
         /\ \A c \in Books \ {b} : rows'[c] = rows[c]
<1>1. /\ rows' = [c \in Books |-> IF c = b THEN AddRow(rows[b], i, title) ELSE rows[c]]
  BY DEF TablesOK
<1>2. /\ rows'[b] = AddRow(rows[b], i, title)
      /\ \A c \in Books \ {b} : rows'[c] = rows[c]
      /\ rows' = [c \in Books |-> rows'[c]]
  BY <1>1
<1>3. /\ IsFiniteSet(DOMAIN rows'[b])
      /\ \A j \in DOMAIN rows'[b] : j > 0 /\ rows'[b][j] \in Titles \union {Blank}
  <2>1. IsFiniteSet(DOMAIN rows[b] \union {i})
    BY FS_AddElement DEF TablesOK
  <2> QED
    BY <1>2, <2>1 DEF AddRow, TablesOK
<1> QED
  BY <1>2, <1>3 DEF TablesOK

LEMMA InsertStep ==
  ASSUME CatalogInv, NEW t \in Threads, Insert(t)
  PROVE  CatalogInv'
<1> DEFINE c == call[t]
<1>1. pc[t] = "insert" /\ UNCHANGED <<shelf, tx, saved, ops>>
  BY DEF Insert
<1>2. /\ c \in Calls /\ ThreadOK(t) /\ TablesOK(shelf, rows) /\ c.book \in Books
      /\ c.next \in Nat \ {0} /\ InTransaction(t)
  BY <1>1 DEF CatalogInv, TypeOK, Calls, InTransaction
<1>3. c.fetched \in Seq(Titles \union {Blank}) /\ c.fetched \in Catalogs
  BY <1>2, CatalogBounds DEF Calls
<1>4. ~mixed => /\ c.next <= Len(c.fetched) + 1
                /\ rows[c.book] = [i \in 1 .. (c.next - 1) |-> c.fetched[i]]
  BY <1>1, <1>2, NoneIsNoThread DEF CatalogInv, Isolation, HalfWritten
<1>5. CASE c.next > Len(c.fetched)
  <2>1. Goto(t, "commit") /\ UNCHANGED <<rows, call, mixed>>
    BY <1>1, <1>5 DEF Insert
  <2>2. /\ pc' \in [Threads -> Labels] /\ pc'[t] = "commit"
        /\ \A u \in Threads \ {t} : pc'[u] = pc[u]
    BY <2>1, Moving DEF Labels, CatalogInv
  <2>3. ~mixed => Whole(rows[c.book])
    <3>1. SUFFICES ASSUME ~mixed PROVE rows[c.book] = c.fetched
      BY <1>3 DEF Whole
    <3>2. c.next - 1 = Len(c.fetched) /\ Len(c.fetched) \in Nat
      BY <1>2, <1>3, <1>4, <1>5, <3>1
    <3>3. rows[c.book] = [i \in 1 .. Len(c.fetched) |-> c.fetched[i]]
      BY <1>4, <3>1, <3>2
    <3> QED
      BY <1>3, <3>3
  <2>4. ThreadOK(t)' /\ InTransaction(t)'
    BY <1>1, <1>2, <2>1, <2>2 DEF ThreadOK, InTransaction, Early
  <2> QED
    BY <1>1, <1>2, <2>1, <2>2, <2>3, <2>4, InsideStep DEF CatalogInv, TypeOK
<1>6. CASE c.next <= Len(c.fetched) /\ shelf[c.book].on /\ c.next \notin DOMAIN rows[c.book]
  <2>1. /\ Executes(t) /\ UNCHANGED pc /\ call' = [call EXCEPT ![t].next = @ + 1]
        /\ rows' = [rows EXCEPT ![c.book] = AddRow(@, c.next, c.fetched[c.next])]
    BY <1>1, <1>2, <1>3, <1>6 DEF Insert
  <2>2. /\ call' \in [Threads -> Calls] /\ call'[t].next = c.next + 1
        /\ call'[t].op = c.op /\ call'[t].book = c.book /\ call'[t].fetched = c.fetched
        /\ \A u \in Threads \ {t} : call'[u] = call[u]
    BY <1>2, <2>1 DEF CatalogInv, TypeOK, Calls
  <2>3. c.fetched[c.next] \in Titles \union {Blank} /\ Len(c.fetched) \in Nat
    BY <1>2, <1>3, <1>6
  <2>4. /\ TablesOK(shelf, rows')
        /\ rows'[c.book] = AddRow(rows[c.book], c.next, c.fetched[c.next])
        /\ \A b \in Books \ {c.book} : rows'[b] = rows[b]
    BY <1>2, <1>6, <2>1, <2>3, AddingRow
  <2>5. ThreadOK(t)' /\ InTransaction(t)'
    BY <1>1, <1>2, <2>1, <2>2 DEF ThreadOK, InTransaction, Early
  <2>6. ~mixed => /\ c.next + 1 <= Len(c.fetched) + 1
                  /\ rows'[c.book] = [i \in 1 .. c.next |-> c.fetched[i]]
    <3>1. SUFFICES ASSUME ~mixed PROVE rows'[c.book] = [i \in 1 .. c.next |-> c.fetched[i]]
      BY <1>2, <1>6, <2>3
    <3>2. DOMAIN rows[c.book] = 1 .. (c.next - 1)
      BY <1>4, <3>1
    <3>3. DOMAIN rows[c.book] \union {c.next} = 1 .. c.next
      BY <1>2, <3>2
    <3>4. \A i \in 1 .. c.next : i # c.next => rows[c.book][i] = c.fetched[i]
      BY <1>2, <1>4, <3>1
    <3> QED
      BY <2>4, <3>3, <3>4 DEF AddRow
  <2>7. pc'[t] = "insert" /\ c.next + 1 - 1 = c.next
    BY <1>1, <1>2, <2>1
  <2>8. TablesOK(shelf', rows')
    BY <1>1, <2>4
  <2>9. pc' \in [Threads -> Labels] /\ \A u \in Threads \ {t} : pc'[u] = pc[u]
    BY <2>1 DEF CatalogInv, TypeOK
  <2>11. \A b \in Books \ {call[t].book} : Whole(rows[b]) => Whole(rows'[b])
    BY <2>4
  <2>12. ~mixed => call'[t].next <= Len(call'[t].fetched) + 1
    BY <2>2, <2>6
  <2>13. pc'[t] \notin {"move", "erase", "commit"}
    BY <2>7
  <2>10. ~mixed =>
           rows'[call'[t].book] = [i \in 1 .. (call'[t].next - 1) |-> call'[t].fetched[i]]
    <3>1. call'[t].next - 1 = c.next /\ call'[t].fetched = c.fetched /\ call'[t].book = c.book
      BY <1>2, <2>2
    <3> QED
      BY <2>6, <3>1
  <2> QED
    <3>1. ~mixed /\ ~mixed' =>
           /\ pc'[t] = "insert" =>
                /\ call'[t].next <= Len(call'[t].fetched) + 1
                /\ rows'[call'[t].book]
                     = [i \in 1 .. (call'[t].next - 1) |-> call'[t].fetched[i]]
           /\ pc'[t] \in {"move", "erase", "commit"} => Whole(rows'[call[t].book])
           /\ pc'[t] = "erase" =>
                (shelf'[call'[t].book].on => shelf'[call'[t].target].on)
      BY <2>10, <2>12, <2>13
    <3>2. /\ call'[t].book = call[t].book /\ InTransaction(t)
          /\ UNCHANGED <<tx, saved, ops>>
          /\ \A u \in Threads \ {t} : pc'[u] = pc[u] /\ call'[u] = call[u]
      BY <1>1, <1>2, <2>2, <2>9
    <3> QED
      BY <2>1, <2>2, <2>5, <2>8, <2>9, <2>11, <3>1, <3>2, InsideStep, Zenon
<1>7. CASE c.next <= Len(c.fetched) /\ ~(shelf[c.book].on /\ c.next \notin DOMAIN rows[c.book])
  <2>1. Executes(t) /\ Goto(t, "rollback") /\ UNCHANGED <<rows, call>>
    BY <1>1, <1>2, <1>3, <1>7 DEF Insert
  <2>2. /\ pc' \in [Threads -> Labels] /\ pc'[t] = "rollback"
        /\ \A u \in Threads \ {t} : pc'[u] = pc[u]
    BY <2>1, Moving DEF Labels, CatalogInv
  <2>3. ThreadOK(t)' /\ InTransaction(t)'
    BY <1>1, <1>2, <2>1, <2>2 DEF ThreadOK, InTransaction, Early
  <2> QED
    BY <1>1, <1>2, <2>1, <2>2, <2>3, InsideStep DEF CatalogInv, TypeOK
<1>8. Len(c.fetched) \in Nat
  BY <1>3
<1> QED
  BY <1>2, <1>5, <1>6, <1>7, <1>8

\* Whichever row changeBookSource moves, its copy is there when it goes on to
\* delete the row.
LEMMA MoveStep ==
  ASSUME CatalogInv, NEW t \in Threads, Move(t)
  PROVE  CatalogInv'
<1> DEFINE b == call[t].book
           n == call[t].target
<1>1. pc[t] = "move" /\ Executes(t) /\ UNCHANGED <<tx, saved, call, ops>>
  BY DEF Move
<1>2. /\ call[t] \in Calls /\ ThreadOK(t) /\ TablesOK(shelf, rows) /\ InTransaction(t)
      /\ b \in Books /\ n \in Books
  BY <1>1 DEF CatalogInv, TypeOK, Calls, InTransaction
<1>3. ~mixed => Whole(rows[b])
  BY <1>1, <1>2, NoneIsNoThread DEF CatalogInv, Isolation, HalfWritten
<1>4. PICK label \in {"commit", "erase"} : Goto(t, label) /\ (label = "erase" => n # b)
  BY DEF Move
<1>5. /\ pc' \in [Threads -> Labels] /\ pc'[t] = label
      /\ \A u \in Threads \ {t} : pc'[u] = pc[u]
  BY <1>4, Moving DEF Labels, CatalogInv
<1>6. ThreadOK(t)' /\ InTransaction(t)'
  BY <1>1, <1>2, <1>5 DEF ThreadOK, InTransaction, Early
<1> HIDE DEF b, n
<1>7. /\ TablesOK(shelf', rows')
      /\ \A d \in Books : Whole(rows[d]) => Whole(rows'[d])
      /\ n # b => (shelf'[b].on => shelf'[n].on)
  <2>1. CASE n = b
    <3>1. UNCHANGED rows /\ shelf' = IF shelf[b].on THEN [shelf EXCEPT ![b] = New] ELSE shelf
      BY <2>1 DEF Move, b, n
    <3>2. TablesOK(shelf', rows)
      BY <1>2, <3>1, PuttingBook, NewIsARow
    <3> QED
      BY <2>1, <3>1, <3>2
  <2>2. CASE n # b /\ shelf[b].on
    <3>1. shelf' = [shelf EXCEPT ![n] = New] /\ rows' = [rows EXCEPT ![n] = NoRows]
      BY <2>2 DEF Move, b, n
    <3>2. TablesOK(shelf', rows)
      BY <1>2, <3>1, PuttingBook, NewIsARow
    <3>3. TablesOK(shelf', rows')
      BY <1>2, <3>1, <3>2, DeletingRows
    <3>4. \A d \in Books : Whole(rows[d]) => Whole(rows'[d])
      BY <1>2, <3>1, RowsDeleted
    <3>5. shelf'[n].on
      BY <1>2, <3>1, NewIsARow DEF TablesOK
    <3> QED
      BY <3>3, <3>4, <3>5
  <2>3. CASE n # b /\ ~shelf[b].on
    <3>1. UNCHANGED <<shelf, rows>>
      BY <2>3 DEF Move, b, n
    <3> QED
      BY <1>2, <2>3, <3>1
  <2> QED
    BY <2>1, <2>2, <2>3
<1>8. call'[t].book = b /\ call'[t].target = n /\ call[t].book = b
  BY <1>1 DEF b, n
<1>9. ~mixed => Whole(rows'[b])
  BY <1>2, <1>3, <1>7
<1>10. pc'[t] # "insert" /\ (pc'[t] = "erase" => n # b)
  BY <1>4, <1>5
<1>11. call' \in [Threads -> Calls] /\ \A u \in Threads : call'[u] = call[u]
  BY <1>1 DEF CatalogInv, TypeOK
<1>12. ~mixed /\ ~mixed' =>
         /\ pc'[t] = "insert" =>
              /\ call'[t].next <= Len(call'[t].fetched) + 1
              /\ rows'[call'[t].book]
                   = [i \in 1 .. (call'[t].next - 1) |-> call'[t].fetched[i]]
         /\ pc'[t] \in {"move", "erase", "commit"} => Whole(rows'[call[t].book])
         /\ pc'[t] = "erase" =>
              (shelf'[call'[t].book].on => shelf'[call'[t].target].on)
  BY <1>7, <1>8, <1>9, <1>10
<1>13. /\ \A u \in Threads \ {t} : pc'[u] = pc[u] /\ call'[u] = call[u]
       /\ \A d \in Books \ {call[t].book} : Whole(rows[d]) => Whole(rows'[d])
  BY <1>5, <1>7, <1>11
<1> QED
  BY <1>1, <1>2, <1>5, <1>6, <1>7, <1>8, <1>11, <1>12, <1>13, InsideStep, Zenon

LEMMA EraseStep ==
  ASSUME CatalogInv, NEW t \in Threads, Erase(t)
  PROVE  CatalogInv'
<1>1. /\ pc[t] = "erase" /\ Executes(t) /\ Goto(t, "commit")
      /\ UNCHANGED <<tx, saved, call, ops>>
      /\ shelf' = [shelf EXCEPT ![call[t].book] = Off]
      /\ rows' = [rows EXCEPT ![call[t].book] = NoRows]
  BY DEF Erase, DeleteRows
<1>2. /\ call[t] \in Calls /\ ThreadOK(t) /\ TablesOK(shelf, rows) /\ InTransaction(t)
      /\ call[t].book \in Books
  BY <1>1 DEF CatalogInv, TypeOK, Calls, InTransaction
<1>3. /\ pc' \in [Threads -> Labels] /\ pc'[t] = "commit"
      /\ \A u \in Threads \ {t} : pc'[u] = pc[u]
  BY <1>1, Moving DEF Labels, CatalogInv
<1>4. ThreadOK(t)' /\ InTransaction(t)'
  BY <1>1, <1>2, <1>3 DEF ThreadOK, InTransaction, Early
<1>5. TablesOK(shelf', rows')
  BY <1>1, <1>2, DeletingBook
<1>6. /\ rows'[call[t].book] = NoRows
      /\ \A b \in Books : Whole(rows[b]) => Whole(rows'[b])
  BY <1>1, <1>2, RowsDeleted
<1>7. call' \in [Threads -> Calls] /\ \A u \in Threads : call'[u] = call[u]
  BY <1>1 DEF CatalogInv, TypeOK
<1>8. ~mixed /\ ~mixed' =>
         /\ pc'[t] = "insert" =>
              /\ call'[t].next <= Len(call'[t].fetched) + 1
              /\ rows'[call'[t].book]
                   = [i \in 1 .. (call'[t].next - 1) |-> call'[t].fetched[i]]
         /\ pc'[t] \in {"move", "erase", "commit"} => Whole(rows'[call[t].book])
         /\ pc'[t] = "erase" =>
              (shelf'[call'[t].book].on => shelf'[call'[t].target].on)
  BY <1>3, <1>6, NoRowsIsWhole
<1>9. /\ \A u \in Threads \ {t} : pc'[u] = pc[u] /\ call'[u] = call[u]
      /\ \A d \in Books \ {call[t].book} : Whole(rows[d]) => Whole(rows'[d])
      /\ call'[t].book = call[t].book
  BY <1>3, <1>6, <1>7
<1> QED
  BY <1>1, <1>2, <1>3, <1>4, <1>5, <1>7, <1>8, <1>9, InsideStep, Zenon

\* A step of t that leaves the connection in no transaction.
LEMMA EndingStep ==
  ASSUME CatalogInv, NEW t \in Threads, InTransaction(t), Executes(t),
         pc' \in [Threads -> Labels], call' \in [Threads -> Calls],
         \A u \in Threads \ {t} : pc'[u] = pc[u] /\ call'[u] = call[u],
         ThreadOK(t)', TablesOK(shelf', rows'), tx' = None, UNCHANGED <<saved, ops>>,
         mixed \/ ~InTransaction(t)',
         ~mixed => \A b \in Books : Whole(rows'[b])
  PROVE  CatalogInv'
<1> USE DEF CatalogInv
<1>1. /\ mixed' \in BOOLEAN
      /\ ~mixed' => ~mixed /\ ~InTransaction(t)'
  BY Mixing DEF TypeOK
<1>2. TypeOK'
  <2>1. TablesOK(saved'.shelf, saved'.rows)
    BY DEF TypeOK
  <2> QED
    BY <1>1, <2>1 DEF TypeOK
<1>3. \A u \in Threads : ThreadOK(u)'
  BY OtherThreads
<1>4. OwnerWorks' /\ HalfWritten'
  BY DEF OwnerWorks, HalfWritten
<1>5. ~mixed' => \A u \in Threads : ~InTransaction(u)'
  <2>1. SUFFICES ASSUME ~mixed', NEW u \in Threads PROVE ~InTransaction(u)'
    OBVIOUS
  <2>2. u # t => ~InTransaction(u)
    BY <1>1, <2>1 DEF Isolation
  <2> QED
    BY <1>1, <2>1, <2>2 DEF InTransaction
<1>6. Isolation' /\ UndisturbedCopyBeforeErase'
  BY <1>5 DEF Isolation, UndisturbedCopyBeforeErase, CopyBeforeErase, InTransaction
<1>7. StoredWhole'
  BY <1>1 DEF StoredWhole, Stored, Whole
<1> QED
  BY <1>2, <1>3, <1>4, <1>6, <1>7

LEMMA AfterCachingIsOK ==
  ASSUME CatalogInv, NEW t \in Threads, InTransaction(t)
  PROVE  /\ AfterCaching(t) \in {"idle", "update"}
         /\ AfterCaching(t) = "update" => call[t].op # "open"
  BY DEF AfterCaching

\* A commit with no transaction to end finds the history mixed: another thread
\* ended it.
LEMMA CommitStep ==
  ASSUME CatalogInv, NEW t \in Threads, Commit(t)
  PROVE  CatalogInv'
<1>1. pc[t] = "commit" /\ Executes(t) /\ UNCHANGED <<shelf, rows, saved, ops>>
  BY DEF Commit, tables
<1>2. /\ call[t] \in Calls /\ ThreadOK(t) /\ TablesOK(shelf, rows) /\ InTransaction(t)
  BY <1>1 DEF CatalogInv, TypeOK, InTransaction
<1>3. ~mixed => tx = t /\ t # None
  BY <1>2, NoneIsNoThread DEF CatalogInv, Isolation
<1>4. CASE tx = None
  <2>1. mixed /\ Goto(t, "rollback") /\ UNCHANGED <<tx, call>>
    BY <1>3, <1>4 DEF Commit, CatalogInv, TypeOK
  <2>2. /\ pc' \in [Threads -> Labels] /\ pc'[t] = "rollback"
        /\ \A u \in Threads \ {t} : pc'[u] = pc[u]
    BY <2>1, Moving DEF Labels, CatalogInv
  <2>3. ThreadOK(t)'
    BY <1>1, <1>2, <2>1, <2>2 DEF ThreadOK, Early
  <2> QED
    BY <1>1, <1>2, <1>4, <2>1, <2>2, <2>3, EndingStep DEF CatalogInv, TypeOK
<1>5. CASE tx # None
  <2>1. tx' = None /\ call' = [call EXCEPT ![t].replaced = call[t].op # "change"]
    BY <1>5 DEF Commit
  <2>2. PICK label \in {"idle", "update"} :
          Goto(t, label) /\ (label = "update" => call[t].op \notin {"change", "open"})
    BY <1>2, <1>5, AfterCachingIsOK DEF Commit
  <2>3. /\ pc' \in [Threads -> Labels] /\ pc'[t] = label
        /\ \A u \in Threads \ {t} : pc'[u] = pc[u]
    BY <2>2, Moving DEF Labels, CatalogInv
  <2>4. /\ call' \in [Threads -> Calls]
        /\ call'[t].op = call[t].op /\ call'[t].fetched = call[t].fetched
        /\ \A u \in Threads \ {t} : call'[u] = call[u]
    BY <2>1 DEF CatalogInv, TypeOK, Calls
  <2>5. ThreadOK(t)' /\ ~InTransaction(t)'
    BY <1>1, <1>2, <2>2, <2>3, <2>4 DEF ThreadOK, Early, InTransaction
  <2>6. ~mixed => \A b \in Books : Whole(rows[b])
    BY <1>1, <1>3 DEF CatalogInv, HalfWritten
  <2>7. TablesOK(shelf', rows') /\ (~mixed => \A b \in Books : Whole(rows'[b]))
    BY <1>1, <1>2, <2>6
  <2> QED
    BY <1>1, <1>2, <2>1, <2>3, <2>4, <2>5, <2>7, EndingStep, Zenon
<1> QED
  BY <1>4, <1>5

LEMMA RollbackStep ==
  ASSUME CatalogInv, NEW t \in Threads, Rollback(t)
  PROVE  CatalogInv'
<1>1. /\ pc[t] = "rollback" /\ Executes(t) /\ UNCHANGED <<saved, call, ops>>
      /\ tx' = None
  BY DEF Rollback
<1>2. /\ call[t] \in Calls /\ ThreadOK(t) /\ InTransaction(t)
  BY <1>1 DEF CatalogInv, TypeOK, InTransaction
<1>3. ~mixed => tx = t /\ t # None
  BY <1>2, NoneIsNoThread DEF CatalogInv, Isolation
<1>4. PICK label \in {"idle", "update"} :
        Goto(t, label) /\ (label = "update" => call[t].op \notin {"change", "open"})
  BY <1>2, AfterCachingIsOK DEF Rollback
<1>5. /\ pc' \in [Threads -> Labels] /\ pc'[t] = label
      /\ \A u \in Threads \ {t} : pc'[u] = pc[u]
  BY <1>4, Moving DEF Labels, CatalogInv
<1>6. ThreadOK(t)' /\ ~InTransaction(t)'
  BY <1>1, <1>2, <1>4, <1>5 DEF ThreadOK, Early, InTransaction
<1>7. TablesOK(shelf', rows')
  <2>1. TablesOK(shelf, rows) /\ TablesOK(saved.shelf, saved.rows)
    BY DEF CatalogInv, TypeOK
  <2>2. \/ shelf' = shelf /\ rows' = rows
        \/ shelf' = saved.shelf /\ rows' = saved.rows
    BY DEF Rollback, tables
  <2> QED
    BY <2>1, <2>2
<1>8. ~mixed => \A b \in Books : Whole(rows'[b])
  <2>1. SUFFICES ASSUME ~mixed PROVE \A b \in Books : Whole(rows'[b])
    OBVIOUS
  <2>2. tx # None
    BY <1>3, <2>1
  <2>3. rows' = saved.rows /\ Stored.rows = saved.rows
    BY <2>2 DEF Rollback, Stored
  <2>4. \A b \in Books : Whole(Stored.rows[b])
    BY <2>1 DEF CatalogInv, StoredWhole
  <2> QED
    BY <2>3, <2>4
<1>9. call' \in [Threads -> Calls] /\ \A u \in Threads \ {t} : call'[u] = call[u]
  BY <1>1 DEF CatalogInv, TypeOK
<1> QED
  BY <1>1, <1>2, <1>5, <1>6, <1>7, <1>8, <1>9, EndingStep, Zenon

LEMMA RestartStep ==
  ASSUME CatalogInv, Restart
  PROVE  CatalogInv'
<1>1. /\ tx' = None /\ UNCHANGED <<saved, call, ops, mixed>>
      /\ shelf' = Stored.shelf /\ rows' = Stored.rows
      /\ pc' = [t \in Threads |-> "idle"]
  BY DEF Restart
<1>2. TablesOK(shelf', rows')
  <2>1. TablesOK(shelf, rows) /\ TablesOK(saved.shelf, saved.rows)
    BY DEF CatalogInv, TypeOK
  <2>2. \/ shelf' = shelf /\ rows' = rows
        \/ shelf' = saved.shelf /\ rows' = saved.rows
    BY <1>1 DEF Stored
  <2> QED
    BY <2>1, <2>2
<1>3. TypeOK'
  <2>1. TablesOK(saved'.shelf, saved'.rows)
    BY <1>1 DEF CatalogInv, TypeOK
  <2>2. pc' \in [Threads -> Labels]
    BY <1>1 DEF Labels
  <2> QED
    BY <1>1, <1>2, <2>1, <2>2 DEF CatalogInv, TypeOK
<1>4. StoredWhole'
  <2>1. SUFFICES ASSUME ~mixed', NEW b \in Books PROVE Whole(Stored'.rows[b])
    BY DEF StoredWhole, Whole
  <2>2. Stored'.rows = rows'
    BY <1>1 DEF Stored
  <2>3. Whole(Stored.rows[b])
    BY <1>1, <2>1 DEF CatalogInv, StoredWhole
  <2> QED
    BY <1>1, <2>2, <2>3
<1>5. \A t \in Threads : ThreadOK(t)' /\ ~InTransaction(t)' /\ pc'[t] # "erase"
  BY <1>1 DEF ThreadOK, Early, InTransaction
<1>6. OwnerWorks' /\ HalfWritten' /\ Isolation' /\ UndisturbedCopyBeforeErase'
  BY <1>1, <1>5 DEF OwnerWorks, HalfWritten, Isolation, UndisturbedCopyBeforeErase,
     CopyBeforeErase
<1> QED
  BY <1>3, <1>4, <1>5, <1>6 DEF CatalogInv

LEMMA BeginningStep ==
  ASSUME CatalogInv, NEW t \in Threads, Begin(t)
  PROVE  CatalogInv'
<1>1. PICK b \in Books :
        \/ RefreshCatalog(t, b) \/ GetCatalogWithCache(t, b) \/ CheckBookUpdate(t, b)
        \/ \E n \in Books : ChangeBookSource(t, b, n)
        \/ AddToBookshelf(t, b) \/ RemoveFromBookshelf(t, b) \/ ClearBookCache(t, b)
  BY DEF Begin
<1>2. CASE RefreshCatalog(t, b)
  BY <1>2, StartStep DEF RefreshCatalog, Operations
<1>3. CASE GetCatalogWithCache(t, b)
  BY <1>3, StartStep DEF GetCatalogWithCache, Operations
<1>4. CASE CheckBookUpdate(t, b)
  <2>1. shelf[b].last \in Titles \union {Blank}
    BY DEF CatalogInv, TypeOK, TablesOK
  <2> QED
    BY <1>4, <2>1, StartStep DEF CheckBookUpdate, Operations
<1>5. CASE \E n \in Books : ChangeBookSource(t, b, n)
  BY <1>5, StartStep DEF ChangeBookSource, Operations
<1>6. CASE AddToBookshelf(t, b) \/ RemoveFromBookshelf(t, b) \/ ClearBookCache(t, b)
  BY <1>6, StatementStep
<1> QED
  BY <1>1, <1>2, <1>3, <1>4, <1>5, <1>6

LEMMA CatalogGoesOn == CatalogInv /\ [Next]_vars => CatalogInv'
<1> SUFFICES ASSUME CatalogInv, [Next]_vars PROVE CatalogInv'
  OBVIOUS
<1>1. ASSUME NEW t \in Threads, Begin(t) PROVE CatalogInv'
  BY <1>1, BeginningStep
<1>2. ASSUME NEW t \in Threads, Continue(t) PROVE CatalogInv'
  BY <1>2, ReadingStep, RemoveCachedStep, BeginStep, DeleteStep, InsertStep, MoveStep,
     EraseStep, CommitStep, RollbackStep, UpdateStep DEF Continue
<1>3. ASSUME NEW b \in Books, RefreshJob(b) PROVE CatalogInv'
  BY <1>3, StartStep DEF RefreshJob, Operations, Threads
<1>4. CASE Restart
  BY <1>4, RestartStep
<1>5. CASE UNCHANGED vars
  BY <1>5 DEF vars, tables, CatalogInv, TypeOK, ThreadOK, Early, OwnerWorks, Isolation,
     InTransaction, StoredWhole, Stored, Whole, HalfWritten, UndisturbedCopyBeforeErase,
     CopyBeforeErase
<1> QED
  BY <1>1, <1>2, <1>3, <1>4, <1>5 DEF Next

\* The inductive invariant holds in every reachable state of the catalog cache.
THEOREM CatalogInvariant == Spec => []CatalogInv
  BY CatalogStarts, CatalogGoesOn, PTL DEF Spec

\* The tables have their types, the worker's and the request threads' local
\* variables theirs, and no chapter hangs on a book that is not on the shelf.
THEOREM TypeCorrect == Spec => []TypeOK
<1>1. CatalogInv => TypeOK
  BY DEF CatalogInv
<1> QED
  BY <1>1, CatalogInvariant, PTL

\* Whatever fails in cacheBookCatalog and updateBookshelfSource, of however many
\* threads, a transaction on the shared connection is some thread's work.
THEOREM TransactionsEnd == Spec => []NoTransactionLeftOpen
<1>1. CatalogInv => NoTransactionLeftOpen
  BY DEF CatalogInv, TypeOK, OwnerWorks, NoTransactionLeftOpen
<1> QED
  BY <1>1, CatalogInvariant, PTL

\* Unless the transactions of threads mixed, cacheBookCatalog stores all of a
\* catalog or nothing, through failures and restarts.
THEOREM CatalogsAreWhole == Spec => []WholeCatalogs
<1>1. CatalogInv => WholeCatalogs
  BY DEF CatalogInv, StoredWhole, Whole, WholeCatalogs
<1> QED
  BY <1>1, CatalogInvariant, PTL

\* Unless the transactions of threads mixed, changeBookSource deletes a book's
\* row only when the row under the new url is there.
THEOREM CopyComesFirst == Spec => []UndisturbedCopyBeforeErase
<1>1. CatalogInv => UndisturbedCopyBeforeErase
  BY DEF CatalogInv
<1> QED
  BY <1>1, CatalogInvariant, PTL
=============================================================================
