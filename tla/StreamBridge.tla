---------------------------- MODULE StreamBridge ----------------------------
(***************************************************************************)
(* One HTTP request in the web server (src/apps/web_server/mira_server.cpp,*)
(* class StreamBridge and dispatch()).  The route's handler runs on a      *)
(* worker thread of its own; the coroutine on the event loop waits for it  *)
(* through the bridge.  A handler either leaves a complete response or a   *)
(* content provider, which pushes chunks (server-sent events) while the    *)
(* coroutine writes them to the client.                                    *)
(*                                                                         *)
(* A step is one critical section of the bridge's mutex, or one co_await.  *)
(* The coroutine only ever waits on the stop token it armed last, so the   *)
(* std::stop_source is one flag, signal: arm() replaces it, request_stop() *)
(* sets it, park() returns when it is set.  The coroutine blocks the whole *)
(* event loop in worker.join(), every other wait of it is a co_await.      *)
(* Chunks are numbered in the order they are pushed.                       *)
(***************************************************************************)
EXTENDS Naturals, Sequences

CONSTANT MaxChunks      \* bound: chunks a provider pushes

ASSUME ChunkBound == MaxChunks \in Nat

VARIABLES
    wpc,         \* the worker thread: "handle", "begin", "provide", "push",
                 \* "buffer", "finish", "ended"
    heeds,       \* does the provider ask sink.is_writable() before it goes on?
    failure,     \* the exception_ptr is set
    pushed,      \* number of chunks pushed so far
    streaming, finished, cancelled,     \* the bridge's flags
    outbox,      \* the bridge's deque of chunks
    head,        \* the bridge's response head: "unset", "stream", "buffered", "moved"
    signal,      \* has the stop source of the last arm() been requested to stop?
    lpc,         \* the coroutine on the event loop
    chunks,      \* what take() returned and the coroutine has not written yet
    written,     \* chunks the client received
    reply        \* how the response ended

worker == <<wpc, heeds, failure, pushed>>
bridge == <<streaming, finished, cancelled, outbox, head, signal>>
loop == <<lpc, chunks, written, reply>>
bridgeVars == <<worker, bridge, loop>>

Chunks == 1 .. MaxChunks

WorkerPCs == {"handle", "begin", "provide", "push", "buffer", "finish", "ended"}

LoopPCs == {"armFirst", "parkFirst", "isStreaming", "isFinished", "joinBuffered", "send",
            "takeHead", "sendHead", "joinHeadFailed", "take", "write", "joinWriteFailed",
            "streamFinished", "streamPending", "arm", "park", "joinStream", "lastChunk",
            "done"}

\* The coroutine is inside worker.join(): the event loop runs nothing else.
Joining == {"joinBuffered", "joinHeadFailed", "joinWriteFailed", "joinStream"}

\* The range of every variable.
BridgeTypeOK ==
    /\ wpc \in WorkerPCs /\ heeds \in BOOLEAN /\ failure \in BOOLEAN
    /\ pushed \in 0 .. MaxChunks
    /\ streaming \in BOOLEAN /\ finished \in BOOLEAN /\ cancelled \in BOOLEAN
    /\ signal \in BOOLEAN
    /\ outbox \in Seq(Chunks)
    /\ head \in {"unset", "stream", "buffered", "moved"}
    /\ lpc \in LoopPCs
    /\ chunks \in Seq(Chunks) /\ written \in Seq(Chunks)
    /\ reply \in {"none", "handler's", "500", "chunked", "cut", "lost"}

BridgeInit ==
    /\ wpc = "handle" /\ heeds \in BOOLEAN /\ failure = FALSE /\ pushed = 0
    /\ streaming = FALSE /\ finished = FALSE /\ cancelled = FALSE
    /\ outbox = <<>> /\ head = "unset" /\ signal = FALSE
    /\ lpc = "armFirst" /\ chunks = <<>> /\ written = <<>> /\ reply = "none"

-----------------------------------------------------------------------------
(* Faulty variants of operations defined below; no specification uses them. *)

\* arm() that only replaces the stop source and does not look at the bridge.
ArmBlindly(forStream) ==
    /\ signal' = FALSE
    /\ UNCHANGED <<streaming, finished, cancelled, outbox, head>>

\* arm() as it was before for_stream: "streaming" always counts as a reason to go on.
ArmSpinning(forStream) ==
    /\ signal' = (finished \/ outbox # <<>> \/ streaming)
    /\ UNCHANGED <<streaming, finished, cancelled, outbox, head>>

\* The loop leaves without asking for the chunks queued since the last take().
JoinWithoutLooking ==
    /\ lpc = "streamPending"
    /\ lpc' = "joinStream"
    /\ UNCHANGED <<worker, bridge, chunks, written, reply>>

\* The loop takes an empty outbox for the end of the stream.
JoinWhenDrained ==
    /\ lpc = "streamFinished"
    /\ lpc' = IF outbox = <<>> THEN "streamPending" ELSE "arm"
    /\ UNCHANGED <<worker, bridge, chunks, written, reply>>

\* An event that is counted twice.
PushCountedTwice ==
    /\ wpc = "push" /\ pushed < MaxChunks
    /\ outbox' = Append(outbox, pushed + 1)
    /\ signal' = TRUE
    /\ pushed' = pushed + 2
    /\ wpc' = "provide"
    /\ UNCHANGED <<heeds, failure, streaming, finished, cancelled, head, loop>>

\* finish() that forgets request_stop().
FinishSilently ==
    /\ wpc = "finish"
    /\ finished' = TRUE
    /\ wpc' = "ended"
    /\ UNCHANGED <<heeds, failure, pushed, streaming, cancelled, outbox, head, signal, loop>>

\* An exception that is kept, but not turned into a status.
SendIgnoringFailure ==
    /\ lpc = "send"
    /\ head' = "moved"
    /\ reply' = IF head = "buffered" THEN "handler's" ELSE "none"
    /\ lpc' = "done"
    /\ UNCHANGED <<worker, streaming, finished, cancelled, outbox, signal, chunks, written>>

-----------------------------------------------------------------------------
(* The worker thread.                                                      *)

\* The handler (or the static file, or the 404) ends, with a provider or with
\* a complete response; it may throw at any time, also after it has set a provider.
Handle ==
    /\ wpc = "handle"
    /\ failure' \in BOOLEAN
    /\ wpc' \in {"begin", "buffer"}
    /\ UNCHANGED <<heeds, pushed, bridge, loop>>

\* bridge.begin_stream(...)
BeginStream ==
    /\ wpc = "begin"
    /\ streaming' = TRUE
    /\ head' = "stream"
    /\ signal' = TRUE
    /\ wpc' = "provide"
    /\ UNCHANGED <<heeds, failure, pushed, finished, cancelled, outbox, loop>>

\* The provider goes on to its next event.  The source debugger's provider asks
\* is_writable() first and gives up; the providers of search, download, source
\* validation and RSS check never ask.
Provide ==
    /\ wpc = "provide" /\ pushed < MaxChunks
    /\ wpc' = IF heeds /\ cancelled THEN "finish" ELSE "push"
    /\ UNCHANGED <<heeds, failure, pushed, bridge, loop>>

\* sink.write() -> bridge.push(chunk); cancelled or not, the chunk is queued
Push ==
    /\ wpc = "push" /\ pushed < MaxChunks
    /\ outbox' = Append(outbox, pushed + 1)
    /\ signal' = TRUE
    /\ pushed' = pushed + 1
    /\ wpc' = "provide"
    /\ UNCHANGED <<heeds, failure, streaming, finished, cancelled, head, loop>>

\* The provider returns or throws.
ProviderEnds ==
    /\ wpc = "provide"
    /\ \E thrown \in BOOLEAN : failure' = (failure \/ thrown)
    /\ wpc' = "finish"
    /\ UNCHANGED <<heeds, pushed, bridge, loop>>

\* bridge.set_buffered(...): no signal, finish() follows
SetBuffered ==
    /\ wpc = "buffer"
    /\ head' = "buffered"
    /\ wpc' = "finish"
    /\ UNCHANGED <<heeds, failure, pushed, streaming, finished, cancelled, outbox, signal, loop>>

\* bridge.finish(), the worker's last statement
Finish ==
    /\ wpc = "finish"
    /\ finished' = TRUE
    /\ signal' = TRUE
    /\ wpc' = "ended"
    /\ UNCHANGED <<heeds, failure, pushed, streaming, cancelled, outbox, head, loop>>

-----------------------------------------------------------------------------
(* The coroutine on the event loop.                                        *)

\* bridge.arm(for_stream)
Arm(forStream) ==
    /\ signal' = (finished \/ outbox # <<>> \/ (~forStream /\ streaming))
    /\ UNCHANGED <<streaming, finished, cancelled, outbox, head>>

ArmFirst ==
    /\ lpc = "armFirst"
    /\ Arm(FALSE)
    /\ lpc' = "parkFirst"
    /\ UNCHANGED <<worker, chunks, written, reply>>

\* co_await park(...): a sleep without a deadline that only the signal ends
ParkFirst ==
    /\ lpc = "parkFirst" /\ signal
    /\ lpc' = "isStreaming"
    /\ UNCHANGED <<worker, bridge, chunks, written, reply>>

IsStreaming ==
    /\ lpc = "isStreaming"
    /\ lpc' = IF streaming THEN "takeHead" ELSE "isFinished"
    /\ UNCHANGED <<worker, bridge, chunks, written, reply>>

\* while (!bridge.finished()) co_await park(loop, bridge.arm());
\* (The first signal means streaming or finished: the body is never run.)
IsFinished ==
    /\ lpc = "isFinished"
    /\ lpc' = IF finished THEN "joinBuffered" ELSE "armFirst"
    /\ UNCHANGED <<worker, bridge, chunks, written, reply>>

\* worker.join(): the loop's thread sleeps until the worker thread has ended
Join(from, to) ==
    /\ lpc = from /\ wpc = "ended"
    /\ lpc' = to
    /\ UNCHANGED <<worker, bridge, chunks, written, reply>>

\* take_head(), the failure turned into a 500, and writer.send()
Send ==
    /\ lpc = "send"
    /\ head' = "moved"
    /\ reply' = CASE failure -> "500"
                  [] ~failure /\ head = "buffered" -> "handler's"
                  [] OTHER -> "none"
    /\ lpc' = "done"
    /\ UNCHANGED <<worker, streaming, finished, cancelled, outbox, signal, chunks, written>>

TakeHead ==
    /\ lpc = "takeHead"
    /\ head' = "moved"
    /\ lpc' = "sendHead"
    /\ UNCHANGED <<worker, streaming, finished, cancelled, outbox, signal, chunks, written, reply>>

\* writer.send_head_chunked(); the client may be gone
SendHead ==
    /\ lpc = "sendHead"
    /\ \/ /\ lpc' = "take"
          /\ UNCHANGED reply
       \/ /\ lpc' = "joinHeadFailed"
          /\ reply' = "lost"
    /\ UNCHANGED <<worker, bridge, chunks, written>>

\* bridge.take()
Take ==
    /\ lpc = "take"
    /\ chunks' = outbox
    /\ outbox' = <<>>
    /\ lpc' = "write"
    /\ UNCHANGED <<worker, streaming, finished, cancelled, head, signal, written, reply>>

\* writer.write(chunk) for the next chunk
Write ==
    /\ lpc = "write" /\ chunks # <<>>
    /\ written' = Append(written, Head(chunks))
    /\ chunks' = Tail(chunks)
    /\ UNCHANGED <<worker, bridge, lpc, reply>>

\* writer.write() failed: bridge.cancel(), then join
WriteFails ==
    /\ lpc = "write" /\ chunks # <<>>
    /\ cancelled' = TRUE
    /\ reply' = "cut"
    /\ lpc' = "joinWriteFailed"
    /\ UNCHANGED <<worker, streaming, finished, outbox, head, signal, chunks, written>>

AllWritten ==
    /\ lpc = "write" /\ chunks = <<>>
    /\ lpc' = "streamFinished"
    /\ UNCHANGED <<worker, bridge, chunks, written, reply>>

\* if (bridge.finished() && !bridge.has_pending()) break;   first operand
StreamFinished ==
    /\ lpc = "streamFinished"
    /\ lpc' = IF finished THEN "streamPending" ELSE "arm"
    /\ UNCHANGED <<worker, bridge, chunks, written, reply>>

\* ... and second operand, a critical section of its own
StreamPending ==
    /\ lpc = "streamPending"
    /\ lpc' = IF outbox = <<>> THEN "joinStream" ELSE "arm"
    /\ UNCHANGED <<worker, bridge, chunks, written, reply>>

ArmStream ==
    /\ lpc = "arm"
    /\ Arm(TRUE)
    /\ lpc' = "park"
    /\ UNCHANGED <<worker, chunks, written, reply>>

ParkStream ==
    /\ lpc = "park" /\ signal
    /\ lpc' = "take"
    /\ UNCHANGED <<worker, bridge, chunks, written, reply>>

\* writer.finish(): the final chunk, also after a provider that threw
FinishStream ==
    /\ lpc = "lastChunk"
    /\ reply' = "chunked"
    /\ lpc' = "done"
    /\ UNCHANGED <<worker, bridge, chunks, written>>

-----------------------------------------------------------------------------

WorkerThread ==
    \/ Handle \/ BeginStream \/ Provide \/ Push \/ ProviderEnds
    \/ SetBuffered \/ Finish

Coroutine ==
    \/ ArmFirst \/ ParkFirst \/ IsStreaming \/ IsFinished
    \/ Join("joinBuffered", "send") \/ Send
    \/ TakeHead \/ SendHead \/ Join("joinHeadFailed", "done")
    \/ Take \/ Write \/ WriteFails \/ AllWritten \/ Join("joinWriteFailed", "done")
    \/ StreamFinished \/ StreamPending \/ ArmStream \/ ParkStream
    \/ Join("joinStream", "lastChunk") \/ FinishStream

\* The coroutine and the worker are gone.
Over == lpc = "done" /\ wpc = "ended" /\ UNCHANGED bridgeVars

BridgeNext == WorkerThread \/ Coroutine \/ Over

\* The operating system runs the worker, the event loop resumes what can be
\* resumed, and handlers and providers end: their waits have deadlines.
BridgeSpec ==
    BridgeInit /\ [][BridgeNext]_bridgeVars
    /\ WF_bridgeVars(WorkerThread) /\ WF_bridgeVars(Coroutine)

-----------------------------------------------------------------------------
(* Properties.                                                             *)

\* No lost wake-up: a coroutine that sleeps on a signal nobody has given has
\* nothing to do, whatever the worker did between the last take() and arm().
NoLostWakeup ==
    /\ lpc = "park" /\ ~signal => ~finished /\ outbox = <<>>
    /\ lpc = "parkFirst" /\ ~signal => ~finished /\ ~streaming /\ outbox = <<>>

\* No busy loop (mira_server.cpp:138, "2.35 million spins in 4 seconds"): when
\* park() lets the streaming loop go on, there is a chunk to write or the
\* stream is over.
NoIdleWakeup == lpc = "park" /\ signal => finished \/ outbox # <<>>

\* Chunks reach the client in the order the provider pushed them, none is
\* duplicated, and a response that ends regularly contains all of them.
InOrderAndComplete ==
    /\ \A i \in 1 .. Len(written) : written[i] = i
    /\ reply = "chunked" => Len(written) = pushed

\* As long as the client is there, the event loop joins only a worker that has
\* called finish(): no other request waits for this one.
RegularJoinDoesNotBlock == lpc \in {"joinBuffered", "joinStream"} => finished

\* A handler that threw before it streamed is answered with a 500, any other
\* with the response it left in the bridge, never with an empty head.
BufferedReplyIsRight ==
    lpc = "done" /\ ~streaming => reply = IF failure THEN "500" ELSE "handler's"

\* Every request ends: with a reply or with a client that has gone.
RequestEnds == <>(lpc = "done")

\* The comment on the worker thread (mira_server.cpp:346) says why it exists:
\* "occupying the loop would stall every request".  So the loop never sits in
\* a join() while the handler or the provider is still running.
LoopNeverWaitsForHandler == lpc \in Joining => wpc \notin {"handle", "begin", "provide", "push"}
=============================================================================
