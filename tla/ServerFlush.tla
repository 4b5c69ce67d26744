---------------------------- MODULE ServerFlush ----------------------------
(***************************************************************************)
(* Requests and Tflush on one server connection: dispatchInline            *)
(* (server/conn.go), handleFlush (server/dispatch.go), the table of        *)
(* InflightMap and the pooled request contexts of server/requestctx.go,    *)
(* driven by a client that follows flush(5): it reuses a tag only after    *)
(* the answer and, when it flushed the request, after every Rflush.        *)
(*                                                                         *)
(* A request or Tflush is processed by the worker goroutine that read it.  *)
(* The worker pool (recvMu, maxInflight) is the subject of ServerConn; here*)
(* every frame has a worker, so a frame is identified with its worker.     *)
(*                                                                         *)
(* Both directions of the stream are FIFO and are represented by frame     *)
(* numbers: the n-th frame one side writes is the n-th the other reads.    *)
(***************************************************************************)
EXTENDS InflightMap

CONSTANTS Req,     \* the requests the client issues
          None     \* no tag, no request

ASSUME NoneAssumption == None \notin Tag \cup Req

ASSUME FrameAssumption ==
    Req \cap Flush = {} /\ IsFiniteSet(Req) /\ IsFiniteSet(Flush)

VARIABLES
    stage,      \* stage[r]: where the worker of request r is in its code
    tag,        \* tag[r]: the tag r was sent with
    ctxOf,      \* ctxOf[r]: the *requestCtx held by r's worker
    closing,    \* closing[r]: the done channel r's worker is about to close
    fstage,     \* fstage[f]: where the worker of Tflush f is
    target,     \* target[f]: the request the client meant to flush
    overtook,   \* history: Tflushes that ran between the read of their request
                \* and its start
    released,   \* Tflush handlers whose done channel has been closed
    im,         \* the inflightMap
    cancelled,  \* contexts whose flush() has run
    sent,       \* sent[x]: number of x's frame from the client (0: none)
    reads,      \* number of frames the server has read
    ans,        \* ans[x]: number of x's response frame (0: none)
    writes,     \* number of frames the server has written
    seen,       \* number of responses the client has read
    closed      \* nc has been closed

server == <<stage, ctxOf, closing, fstage, overtook, released, im, cancelled>>
wire   == <<sent, reads, ans, writes, seen, closed>>
vars   == <<server, tag, target, wire>>

Frame == Req \cup Flush

Stages == {"unsent", "sent", "read", "running", "committed", "written",
           "panicking", "finishing", "closing", "recycling", "over", "rejected"}

FlushStages == {"unsent", "sent", "read", "waiting", "ready", "over"}

\* The shape of the connection: requests and flushes move through the stages of
\* handleRequest and handleFlush, contexts belong to the pool or to a request.
TypeOK ==
    /\ stage \in [Req -> Stages]
    /\ tag \in [Req -> Tag \cup {None}]
    /\ ctxOf \in [Req -> Ctx \cup {Nil}]
    /\ closing \in [Req -> SUBSET Flush]
    /\ fstage \in [Flush -> FlushStages]
    /\ target \in [Flush -> Req \cup {None}]
    /\ overtook \in SUBSET Flush
    /\ released \in SUBSET Flush
    /\ im \in InflightMaps
    /\ cancelled \in SUBSET Ctx
    /\ sent \in [Frame -> Nat]
    /\ ans \in [Frame -> Nat]
    /\ reads \in Nat /\ writes \in Nat /\ seen \in Nat
    /\ closed \in BOOLEAN

Init ==
    /\ stage = [r \in Req |-> "unsent"]
    /\ tag = [r \in Req |-> None]
    /\ ctxOf = [r \in Req |-> Nil]
    /\ closing = [r \in Req |-> {}]
    /\ fstage = [f \in Flush |-> "unsent"]
    /\ target = [f \in Flush |-> None]
    /\ overtook = {}
    /\ released = {}
    /\ im = newInflightMap
    /\ cancelled = {}
    /\ sent = [x \in Frame |-> 0]
    /\ ans = [x \in Frame |-> 0]
    /\ reads = 0 /\ writes = 0 /\ seen = 0
    /\ closed = FALSE

-----------------------------------------------------------------------------
(* The client. *)

SentCount == Cardinality({x \in Frame : sent[x] # 0})

Answered(x) == ans[x] # 0 /\ ans[x] <= seen

Flushes(r) == {f \in Flush : target[f] = r}

\* flush(5): a flushed request is settled by its Rflush, any other request by
\* its own answer.
Settled(r) == IF Flushes(r) = {} THEN Answered(r)
                                 ELSE \A f \in Flushes(r) : Answered(f)

ClientSend(r, t) ==
    /\ stage[r] = "unsent" /\ ~closed
    /\ \A q \in Req : tag[q] = t => Settled(q)
    /\ stage' = [stage EXCEPT ![r] = "sent"]
    /\ tag' = [tag EXCEPT ![r] = t]
    /\ sent' = [sent EXCEPT ![r] = SentCount + 1]
    /\ UNCHANGED <<ctxOf, closing, fstage, target, overtook, released, im, cancelled,
                   reads, ans, writes, seen, closed>>

ClientFlush(f, r) ==
    /\ fstage[f] = "unsent" /\ ~closed
    /\ stage[r] # "unsent" /\ ~Settled(r)
    /\ fstage' = [fstage EXCEPT ![f] = "sent"]
    /\ target' = [target EXCEPT ![f] = r]
    /\ sent' = [sent EXCEPT ![f] = SentCount + 1]
    /\ UNCHANGED <<stage, tag, ctxOf, closing, overtook, released, im, cancelled,
                   reads, ans, writes, seen, closed>>

ClientRead ==
    /\ seen < writes
    /\ seen' = seen + 1
    /\ UNCHANGED <<server, tag, target, sent, reads, ans, writes, closed>>

-----------------------------------------------------------------------------
(* The worker of a request: handleRequest from the unlock of recvMu on, and *)
(* dispatchInline.                                                          *)

\* One frame of the stream, read and decoded under recvMu.
ReadFrame(x) ==
    /\ ~closed
    /\ sent[x] = reads + 1
    /\ reads' = reads + 1
    /\ stage' = IF x \in Req THEN [stage EXCEPT ![x] = "read"] ELSE stage
    /\ fstage' = IF x \in Flush THEN [fstage EXCEPT ![x] = "read"] ELSE fstage
    /\ UNCHANGED <<tag, ctxOf, closing, target, overtook, released, im, cancelled,
                   sent, ans, writes, seen, closed>>

\* getRequestCtx hands out a context no worker holds.
FreeCtx == {c \in Ctx : \A r \in Req : ctxOf[r] # c}

StartRequest(r, c) ==
    /\ stage[r] = "read" /\ c \in FreeCtx
    /\ StartAllows(im, tag[r])
    /\ im' = Start(im, tag[r], c)
    /\ released' = released \cup StartReleases(im, tag[r])
    /\ ctxOf' = [ctxOf EXCEPT ![r] = c]
    /\ stage' = [stage EXCEPT ![r] = "running"]
    /\ UNCHANGED <<tag, closing, fstage, target, overtook, cancelled, wire>>

\* start returned false: "duplicate in-flight tag", the connection goes down.
RejectDuplicate(r) ==
    /\ stage[r] = "read"
    /\ ~StartAllows(im, tag[r])
    /\ stage' = [stage EXCEPT ![r] = "rejected"]
    /\ closed' = TRUE
    /\ UNCHANGED <<tag, ctxOf, closing, fstage, target, overtook, released, im,
                   cancelled, sent, reads, ans, writes, seen>>

\* The handler returned a response: commit the tag before the write.
HandlerReturns(r) ==
    /\ stage[r] = "running"
    /\ im' = Commit(im, tag[r])
    /\ stage' = [stage EXCEPT ![r] = "committed"]
    /\ UNCHANGED <<tag, ctxOf, closing, fstage, target, overtook, released, cancelled, wire>>

\* The handler returned nil: nothing is written.
HandlerReturnsNil(r) ==
    /\ stage[r] = "running"
    /\ stage' = [stage EXCEPT ![r] = "finishing"]
    /\ UNCHANGED <<tag, ctxOf, closing, fstage, target, overtook, released, im, cancelled, wire>>

HandlerPanics(r) ==
    /\ stage[r] = "running"
    /\ stage' = [stage EXCEPT ![r] = "panicking"]
    /\ UNCHANGED <<tag, ctxOf, closing, fstage, target, overtook, released, im, cancelled, wire>>

\* One frame under writeMu; a write to a closed nc fails and is only logged.
Respond(x) ==
    /\ ans' = IF closed THEN ans ELSE [ans EXCEPT ![x] = writes + 1]
    /\ writes' = IF closed THEN writes ELSE writes + 1
    /\ UNCHANGED <<sent, reads, seen, closed>>

WriteResponse(r) ==
    /\ stage[r] = "committed"
    /\ Respond(r)
    /\ stage' = [stage EXCEPT ![r] = "written"]
    /\ UNCHANGED <<tag, ctxOf, closing, fstage, target, overtook, released, im, cancelled>>

\* recover(): the client gets EIO, the entry is removed afterwards.
WritePanicError(r) ==
    /\ stage[r] = "panicking"
    /\ Respond(r)
    /\ stage' = [stage EXCEPT ![r] = "finishing"]
    /\ UNCHANGED <<tag, ctxOf, closing, fstage, target, overtook, released, im, cancelled>>

FinishRequest(r) ==
    /\ stage[r] = "finishing"
    /\ im' = Remove(im, tag[r])
    /\ closing' = [closing EXCEPT ![r] = DoneOf(im, tag[r])]
    /\ stage' = [stage EXCEPT ![r] = "closing"]
    /\ UNCHANGED <<tag, ctxOf, fstage, target, overtook, released, cancelled, wire>>

CompleteRequest(r) ==
    /\ stage[r] = "written"
    /\ im' = CompleteCommit(im, tag[r], ctxOf[r])
    /\ closing' = [closing EXCEPT ![r] = CompleteDone(im, tag[r], ctxOf[r])]
    /\ stage' = [stage EXCEPT ![r] = "closing"]
    /\ UNCHANGED <<tag, ctxOf, fstage, target, overtook, released, cancelled, wire>>

MutCloseDone(r) ==
    /\ stage[r] = "closing"
    /\ closing' = [closing EXCEPT ![r] = {}]
    /\ stage' = [stage EXCEPT ![r] = "recycling"]
    /\ UNCHANGED <<tag, ctxOf, fstage, target, overtook, released, im, cancelled, wire>>

CloseDone(r) ==
    /\ stage[r] = "closing"
    /\ released' = released \cup closing[r]
    /\ closing' = [closing EXCEPT ![r] = {}]
    /\ stage' = [stage EXCEPT ![r] = "recycling"]
    /\ UNCHANGED <<tag, ctxOf, fstage, target, overtook, im, cancelled, wire>>

\* putRequestCtx, the last deferred call: the context is reset and pooled.
MutRecycleCtx(r) ==
    /\ stage[r] = "recycling"
    /\ ctxOf' = [ctxOf EXCEPT ![r] = Nil]
    /\ stage' = [stage EXCEPT ![r] = "over"]
    /\ UNCHANGED <<tag, closing, fstage, target, overtook, released, im, cancelled, wire>>

RecycleCtx(r) ==
    /\ stage[r] = "recycling"
    /\ cancelled' = cancelled \ {ctxOf[r]}
    /\ ctxOf' = [ctxOf EXCEPT ![r] = Nil]
    /\ stage' = [stage EXCEPT ![r] = "over"]
    /\ UNCHANGED <<tag, closing, fstage, target, overtook, released, im, wire>>

-----------------------------------------------------------------------------
(* The worker of a Tflush: handleFlush and the write of Rflush. *)

BeginFlush(f) ==
    LET t == tag[target[f]] IN
    /\ fstage[f] = "read"
    /\ im' = FlushWait(im, t, f)
    /\ IF t \in im.tags
       THEN /\ cancelled' = cancelled \cup {im.entry[t].ctx}
            /\ fstage' = [fstage EXCEPT ![f] = "waiting"]
       ELSE /\ fstage' = [fstage EXCEPT ![f] = "ready"]
            /\ UNCHANGED cancelled
    /\ overtook' = IF stage[target[f]] = "read" THEN overtook \cup {f} ELSE overtook
    /\ UNCHANGED <<stage, tag, ctxOf, closing, target, released, wire>>

FlushReleased(f) ==
    /\ fstage[f] = "waiting" /\ f \in released
    /\ fstage' = [fstage EXCEPT ![f] = "ready"]
    /\ UNCHANGED <<stage, tag, ctxOf, closing, target, overtook, released, im, cancelled, wire>>

\* flushWaitDeadline: the connection is closed and no Rflush is sent.
FlushTimeout(f) ==
    /\ fstage[f] = "waiting"
    /\ fstage' = [fstage EXCEPT ![f] = "over"]
    /\ closed' = TRUE
    /\ UNCHANGED <<stage, tag, ctxOf, closing, target, overtook, released, im, cancelled,
                   sent, reads, ans, writes, seen>>

\* The connection's context is cancelled while the handler waits.
FlushAbandoned(f) ==
    /\ fstage[f] = "waiting" /\ closed
    /\ fstage' = [fstage EXCEPT ![f] = "over"]
    /\ UNCHANGED <<stage, tag, ctxOf, closing, target, overtook, released, im, cancelled, wire>>

WriteRflush(f) ==
    /\ fstage[f] = "ready"
    /\ Respond(f)
    /\ fstage' = [fstage EXCEPT ![f] = "over"]
    /\ UNCHANGED <<stage, tag, ctxOf, closing, target, overtook, released, im, cancelled>>

\* The peer hangs up, a write fails, or serve's context is cancelled.
Hangup ==
    /\ ~closed
    /\ closed' = TRUE
    /\ UNCHANGED <<server, tag, target, sent, reads, ans, writes, seen>>

-----------------------------------------------------------------------------
RequestStep(r) ==
    \/ \E c \in Ctx : StartRequest(r, c)
    \/ RejectDuplicate(r)
    \/ HandlerReturns(r) \/ HandlerReturnsNil(r) \/ HandlerPanics(r)
    \/ WriteResponse(r) \/ WritePanicError(r)
    \/ FinishRequest(r) \/ CompleteRequest(r) \/ CloseDone(r) \/ RecycleCtx(r)

FlushStep(f) == \/ BeginFlush(f) \/ FlushReleased(f) \/ FlushTimeout(f)
                \/ FlushAbandoned(f) \/ WriteRflush(f)

ClientStep == \/ \E r \in Req, t \in Tag : ClientSend(r, t)
              \/ \E f \in Flush, r \in Req : ClientFlush(f, r)
              \/ ClientRead

Next == \/ ClientStep
        \/ \E x \in Frame : ReadFrame(x)
        \/ \E r \in Req : RequestStep(r)
        \/ \E f \in Flush : FlushStep(f)
        \/ Hangup

Spec == Init /\ [][Next]_vars

(***************************************************************************)
(* Fairness: a goroutine that can run runs, and a handler whose context is *)
(* cancelled returns.  Neither the client, a handler that has not been     *)
(* cancelled, nor the flush deadline is assumed to make progress.          *)
(***************************************************************************)
CancelledHandlerReturns(r) == ctxOf[r] \in cancelled /\ HandlerReturns(r)

Fairness ==
    /\ \A x \in Frame : WF_vars(ReadFrame(x))
    /\ \A r \in Req :
         /\ WF_vars(\/ \E c \in Ctx : StartRequest(r, c)
                    \/ RejectDuplicate(r) \/ WriteResponse(r) \/ WritePanicError(r)
                    \/ FinishRequest(r) \/ CompleteRequest(r) \/ CloseDone(r)
                    \/ RecycleCtx(r))
         /\ WF_vars(CancelledHandlerReturns(r))
    /\ \A f \in Flush : WF_vars(BeginFlush(f) \/ FlushReleased(f) \/ WriteRflush(f))

FairSpec == Spec /\ Fairness

-----------------------------------------------------------------------------
(* Properties *)

Busy == {"running", "committed", "written", "panicking", "finishing"}

\* count is the number of entries of the map, whatever the interleaving of
\* start, replacement, finish and completeCommit (flush.go: im.count).
CountIsEntries == CountExact(im)

\* Every entry belongs to a live worker that still holds the entry's context
\* and carries the entry's tag, so a Tflush never cancels a context that went
\* back to the pool (the ordering dispatchInline's defers are built for).
EntryHasOwner ==
    \A t \in im.tags :
        \E r \in Req : /\ stage[r] \in Busy
                       /\ tag[r] = t
                       /\ ctxOf[r] = im.entry[t].ctx

\* A running handler is cancelled only if the client flushed that request,
\* although the table is searched by tag and contexts are recycled.
OnlyTargetCancelled ==
    \A r \in Req : stage[r] = "running" /\ ctxOf[r] \in cancelled =>
        \E f \in Flush : target[f] = r

\* A waiting Tflush that has not been released is still in some done channel
\* that is going to be closed: no wake-up is lost when the entry is replaced
\* by a reused tag or when it registers during the response write.
NoLostWaiter ==
    \A f \in Flush :
        fstage[f] = "waiting" /\ f \notin released =>
            \/ \E t \in im.tags : f \in im.entry[t].done
            \/ \E r \in Req : f \in closing[r]

\* A done channel is closed at most once: what is about to be closed, or can
\* still be, has not been closed before (a second close panics).
DoneClosedOnce ==
    /\ \A r \in Req : closing[r] \cap released = {}
    /\ \A t \in Tag : im.entry[t].done \cap released = {}
    /\ \A r \in Req, t \in Tag : closing[r] \cap im.entry[t].done = {}

\* A Tflush that waits is released, and released once.
WaiterReleasedOnce == NoLostWaiter /\ DoneClosedOnce

\* handleFlush's promise: Rflush only after the flushed request's handler has
\* written its response, so no response to the tag follows the Rflush.
RflushLast ==
    \A f \in Flush : ans[f] # 0 => ans[target[f]] < ans[f]

\* The same promise, as long as no Tflush has run in the gap between the read
\* of its request and inflight.start, where the table does not know the tag:
\* commit, completeCommit and the replacement in start keep the order.
RflushLastOnceStarted == overtook = {} => RflushLast

\* Every Tflush the server reads is answered, or the connection goes down:
\* no waiter is forgotten while handlers honour their cancelled context.
FlushAnswered ==
    \A f \in Flush : fstage[f] = "read" ~> (ans[f] # 0 \/ closed)

-----------------------------------------------------------------------------
(* Inductive strengthenings of the safety properties, proved in             *)
(* ServerFlushProofs.                                                       *)

\* What has been sent has a tag or a target; a frame not yet read is untouched.
Addressed ==
    /\ \A r \in Req : stage[r] # "unsent" => tag[r] \in Tag
    /\ \A f \in Flush : fstage[f] # "unsent" => target[f] \in Req /\ stage[target[f]] # "unsent"
    /\ \A r \in Req : sent[r] > reads => stage[r] = "sent"
    /\ \A f \in Flush : sent[f] > reads => fstage[f] = "sent"

\* Contexts are held by one worker each, and a worker that has not committed
\* owns the uncommitted entry of its tag.
Uncommitted == {"running", "panicking", "finishing"}

Ownership ==
    /\ \A r \in Req : stage[r] \in Busy => ctxOf[r] \in Ctx
    /\ \A r, q \in Req : ctxOf[r] = ctxOf[q] /\ ctxOf[r] # Nil => r = q
    /\ \A r \in Req : stage[r] \in Uncommitted =>
         OwnsEntry(im, tag[r], ctxOf[r]) /\ ~im.entry[tag[r]].committed
    /\ EntryHasOwner
    /\ CountIsEntries

\* Every Tflush handler is in at most one channel, and in none before it waits.
Channels ==
    /\ \A t \in Tag : t \notin im.tags => im.entry[t].done = {}
    /\ \A r \in Req : stage[r] # "closing" => closing[r] = {}
    /\ \A t, u \in Tag : t # u => im.entry[t].done \cap im.entry[u].done = {}
    /\ \A r, q \in Req : r # q => closing[r] \cap closing[q] = {}
    /\ \A f \in Flush : fstage[f] \in {"unsent", "sent", "read"} =>
         /\ f \notin released
         /\ \A r \in Req : f \notin closing[r]
         /\ \A t \in Tag : f \notin im.entry[t].done
    /\ DoneClosedOnce
    /\ NoLostWaiter

\* The stream is FIFO: frames are read in the order of their numbers, and a
\* Tflush is sent after the request it names.
Stream ==
    /\ reads <= SentCount
    /\ \A x \in Frame : sent[x] <= SentCount
    /\ \A x, y \in Frame : sent[x] = sent[y] /\ sent[x] # 0 => x = y
    /\ \A r \in Req : /\ stage[r] = "unsent" <=> sent[r] = 0
                      /\ stage[r] = "sent" => sent[r] > reads
    /\ \A f \in Flush : /\ fstage[f] = "unsent" <=> sent[f] = 0
                        /\ fstage[f] = "unsent" => target[f] = None
                        /\ fstage[f] # "unsent" => sent[target[f]] < sent[f]

\* A response is written once, by a worker that has not written it before.
MayWrite == {"unsent", "sent", "read", "running", "committed", "panicking"}

Answers ==
    /\ \A x \in Frame : ans[x] <= writes
    /\ \A r \in Req : stage[r] \in MayWrite => ans[r] = 0
    /\ \A f \in Flush : fstage[f] # "over" => ans[f] = 0

\* flush(5) on the client's side: of two requests with one tag, one is settled.
Reuse ==
    /\ \A r \in Req : stage[r] = "unsent" => tag[r] = None
    /\ \A q, r \in Req : q # r /\ tag[q] = tag[r] /\ tag[q] # None => Settled(q) \/ Settled(r)

\* A cancelled context is in use, and a request that has not started has none.
Cancels ==
    /\ \A c \in cancelled : \E r \in Req : ctxOf[r] = c
    /\ \A r \in Req : stage[r] \in {"unsent", "sent", "read"} => ctxOf[r] = Nil
    /\ OnlyTargetCancelled

\* A Tflush that has its Rflush to send or sent finds no response outstanding;
\* one that waits for a request that can still respond is in that request's channel.
Serving == {"running", "committed", "panicking"}

Waits ==
    /\ \A f \in Flush : fstage[f] = "ready" \/ ans[f] # 0 => stage[target[f]] \notin MayWrite
    /\ \A f \in Flush : fstage[f] = "waiting" /\ stage[target[f]] \in MayWrite =>
         /\ stage[target[f]] \in Serving
         /\ OwnsEntry(im, tag[target[f]], ctxOf[target[f]])
         /\ f \in im.entry[tag[target[f]]].done
    /\ \A r \in Req : stage[r] = "committed" => OwnsEntry(im, tag[r], ctxOf[r])

Order == overtook = {} => RflushLast /\ (closed \/ Waits)
=============================================================================
