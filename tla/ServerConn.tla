----------------------------- MODULE ServerConn -----------------------------
(***************************************************************************)
(* The life of one server connection (server/conn.go, server/cleanup.go):  *)
(* the pool of handleRequest goroutines that take turns reading under      *)
(* recvMu, mid-session version negotiation, and shutdown.                  *)
(*                                                                         *)
(* Each action is the code between two points where another goroutine can  *)
(* interfere: a lock, an atomic or a channel operation.  A worker's        *)
(* request context is identified with the worker, which holds at most one; *)
(* the recycling of contexts is the subject of ServerFlush.  The fid table *)
(* is reduced to whether its handles have been released; FidTable has the  *)
(* rest.                                                                   *)
(***************************************************************************)
EXTENDS InflightMap

CONSTANTS Worker,       \* handleRequest goroutines that may be started
          MaxInflight,  \* the cap WithMaxInflight sets on them
          MaxFrames,    \* bound: frames the peer sends
          Free          \* recvMu is not held

ASSUME MaxInflightAssumption == MaxInflight \in Nat \ {0}

ASSUME WorkerAssumption ==
    /\ IsFiniteSet(Worker) /\ Free \notin Worker
    /\ Ctx = Worker /\ Flush = Worker /\ Drainer = Worker \cup {Free}

VARIABLES
    pc,            \* pc[w]: where goroutine w is in handleRequest
    wtag,          \* wtag[w]: the tag of the frame w has read (Nil: none)
    recvMu,        \* the holder of recvMu
    recvIdle,      \* goroutines parked in recvMu.Lock
    workerCount,   \* live goroutines; recvWG counts the same goroutines
    recvShutdown,  \* set under recvMu by the first goroutine that cannot read
    shutdownCh,    \* recvShutdownCh has been closed
    ncClosed,      \* nc has been closed
    im,            \* the inflightMap
    cancelled,     \* workers whose request context has been cancelled
    closing,       \* closing[w]: the done channel w is about to close
    woken,         \* Tflush handlers whose done channel has been closed
    main,          \* where the serve goroutine is
    drained,       \* cleanup's local: did the in-flight requests drain?
    handles,       \* "held", "released" or "leaked" by cleanup
    nframes,       \* frames read so far
    swept,         \* history: workers with an entry when cancelAll ran, per sweep
    clash          \* history: workers whose handler was running when the fids
                   \* were released, in the last sweep of each kind

pool == <<recvIdle, workerCount, recvShutdown, shutdownCh, ncClosed>>
srv  == <<main, drained, handles>>
vars == <<pc, wtag, recvMu, pool, im, cancelled, closing, woken, srv,
          nframes, swept, clash>>

\* Who cancels all requests and releases the fids: handleReVersion or cleanup.
Sweeps == {"version", "cleanup"}

\* The code position each kind of frame leads to: Tversion renegotiates with
\* recvMu held; an unknown type is answered ENOSYS; a body that does not
\* decode is fatal; a Tflush is not tracked in the table.
After == [request |-> "decoded", flush |-> "flushing", version |-> "cancelling",
          unknown |-> "replying", garbled |-> "failing"]

Kinds == DOMAIN After

\* Code positions of a worker.
Receiving    == {"loop", "parked", "reading"}
Renegotiating == {"cancelling", "cancelled", "draining", "clunking"}
Dispatching  == {"running", "committed", "written", "panicking", "finishing", "closing"}
PCs == Receiving \cup Renegotiating \cup Dispatching
         \cup {"unborn", "decoded", "replying", "flushing", "waiting", "failing", "gone"}

Live == {w \in Worker : pc[w] \notin {"unborn", "gone"}}

InHandler == {w \in Worker : pc[w] = "running"}

\* The shape of the connection: workers are at a point of workerLoop,
\* handleReVersion or a handler, serve at a point of cleanup.
TypeOK ==
    /\ pc \in [Worker -> PCs]
    /\ wtag \in [Worker -> Tag \cup {Nil}]
    /\ recvMu \in Worker \cup {Free}
    /\ recvIdle \in Nat /\ workerCount \in Nat
    /\ recvShutdown \in BOOLEAN /\ shutdownCh \in BOOLEAN /\ ncClosed \in BOOLEAN
    /\ im \in InflightMaps
    /\ cancelled \in SUBSET Worker
    /\ closing \in [Worker -> SUBSET Worker]
    /\ woken \in SUBSET Worker
    /\ main \in {"serving", "cancelling", "cancelled", "draining", "closing",
                 "joining", "clunking", "done"}
    /\ drained \in BOOLEAN
    /\ handles \in {"held", "released", "leaked"}
    /\ nframes \in Nat
    /\ swept \in [Sweeps -> SUBSET Worker]
    /\ clash \in [Sweeps -> SUBSET Worker]

\* serve has negotiated the version and started the first worker.
Init ==
    /\ \E w \in Worker : pc = [v \in Worker |-> IF v = w THEN "loop" ELSE "unborn"]
    /\ wtag = [w \in Worker |-> Nil]
    /\ recvMu = Free /\ recvIdle = 0 /\ workerCount = 1
    /\ recvShutdown = FALSE /\ shutdownCh = FALSE /\ ncClosed = FALSE
    /\ im = newInflightMap
    /\ cancelled = {} /\ woken = {}
    /\ swept = [s \in Sweeps |-> {}] /\ clash = [s \in Sweeps |-> {}]
    /\ closing = [w \in Worker |-> {}]
    /\ main = "serving" /\ drained = FALSE /\ handles = "held"
    /\ nframes = 0

Goto(w, l) == pc' = [pc EXCEPT ![w] = l]

\* The end of an iteration of handleRequest's loop.
Loop(w) == /\ Goto(w, "loop")
           /\ wtag' = [wtag EXCEPT ![w] = Nil]

-----------------------------------------------------------------------------
(* Receiving: handleRequest up to the unlock of recvMu. *)

\* recvIdle.Add(1), before recvMu.Lock.
Park(w) ==
    /\ pc[w] = "loop"
    /\ recvIdle' = recvIdle + 1
    /\ Goto(w, "parked")
    /\ UNCHANGED <<wtag, recvMu, workerCount, recvShutdown, shutdownCh, ncClosed,
                   im, cancelled, closing, woken, srv, nframes, swept, clash>>

\* The lock is granted; recvIdle drops before anybody else can look at it.
MutAcquire(w) ==
    /\ pc[w] = "parked" /\ recvMu = Free
    /\ recvMu' = w
    /\ Goto(w, "reading")
    /\ UNCHANGED <<wtag, recvIdle, workerCount, recvShutdown, shutdownCh,
                   ncClosed, im, cancelled, closing, woken, srv, nframes, swept, clash>>

Acquire(w) ==
    /\ pc[w] = "parked" /\ recvMu = Free
    /\ recvMu' = w /\ recvIdle' = recvIdle - 1
    /\ Goto(w, "reading")
    /\ UNCHANGED <<wtag, workerCount, recvShutdown, shutdownCh, ncClosed,
                   im, cancelled, closing, woken, srv, nframes, swept, clash>>

Exit(w) == /\ Goto(w, "gone")
           /\ workerCount' = workerCount - 1

\* A sibling has already shut the receive path down.
ReadNothing(w) ==
    /\ pc[w] = "reading" /\ recvShutdown
    /\ recvMu' = Free
    /\ Exit(w)
    /\ UNCHANGED <<wtag, recvIdle, recvShutdown, shutdownCh, ncClosed, im,
                   cancelled, closing, woken, srv, nframes, swept, clash>>

\* The read fails (peer gone, nc closed, idle timeout, frame above msize):
\* shutdownRecvLocked.
ReadError(w) ==
    /\ pc[w] = "reading" /\ ~recvShutdown
    /\ recvShutdown' = TRUE /\ shutdownCh' = TRUE
    /\ recvMu' = Free
    /\ Exit(w)
    /\ UNCHANGED <<wtag, recvIdle, ncClosed, im, cancelled, closing, woken,
                   srv, nframes, swept, clash>>

\* The spawn-replacement decision of readFrameLocked.
MutNeedsSuccessor(k) == k # "version" /\ recvIdle = 0 /\ workerCount <= MaxInflight
NeedsSuccessor(k) == k # "version" /\ recvIdle = 0 /\ workerCount < MaxInflight

\* recvMu is kept for Tversion, which handleReVersion handles under it.
MutKeepsLock(k) == FALSE
KeepsLock(k) == k = "version"

\* A frame arrives.
ReadFrame(w, k, t) ==
    /\ pc[w] = "reading" /\ ~recvShutdown /\ ~ncClosed /\ nframes < MaxFrames
    /\ nframes' = nframes + 1
    /\ wtag' = [wtag EXCEPT ![w] = t]
    /\ IF NeedsSuccessor(k)
       THEN /\ workerCount' = workerCount + 1
            /\ \E v \in Worker : pc[v] = "unborn"
                                 /\ pc' = [pc EXCEPT ![w] = After[k], ![v] = "loop"]
       ELSE Goto(w, After[k]) /\ UNCHANGED workerCount
    /\ recvMu' = IF KeepsLock(k) THEN w ELSE Free
    /\ UNCHANGED <<recvIdle, recvShutdown, shutdownCh, ncClosed, im, cancelled,
                   closing, woken, srv, swept, clash>>

-----------------------------------------------------------------------------
(* Outside recvMu: routing, dispatchInline and handleFlush. *)

Unlocked == <<recvMu, recvIdle, workerCount, recvShutdown, nframes, srv>>

StartRequest(w) ==
    /\ pc[w] = "decoded"
    /\ IF StartAllows(im, wtag[w])
       THEN /\ im' = Start(im, wtag[w], w)
            /\ woken' = woken \cup StartReleases(im, wtag[w])
            /\ Goto(w, "running")
       ELSE Goto(w, "failing") /\ UNCHANGED <<im, woken>>
    /\ UNCHANGED <<Unlocked, wtag, shutdownCh, ncClosed, cancelled, closing, swept, clash>>

\* shutdownRecv: mark under recvMu, signal, close nc, leave.
ShutdownRecv(w) ==
    /\ pc[w] = "failing" /\ recvMu = Free
    /\ recvShutdown' = TRUE /\ shutdownCh' = TRUE /\ ncClosed' = TRUE
    /\ Exit(w)
    /\ UNCHANGED <<wtag, recvMu, recvIdle, im, cancelled, closing, woken, srv,
                   nframes, swept, clash>>

HandlerReturns(w) ==
    /\ pc[w] = "running"
    /\ im' = Commit(im, wtag[w])
    /\ Goto(w, "committed")
    /\ UNCHANGED <<Unlocked, wtag, shutdownCh, ncClosed, cancelled, closing, woken, swept, clash>>

HandlerPanics(w) ==
    /\ pc[w] = "running"
    /\ Goto(w, "panicking")
    /\ UNCHANGED <<Unlocked, wtag, shutdownCh, ncClosed, im, cancelled, closing, woken, swept, clash>>

HandlerReturnsNil(w) ==
    /\ pc[w] = "running"
    /\ Goto(w, "finishing")
    /\ UNCHANGED <<Unlocked, wtag, shutdownCh, ncClosed, im, cancelled, closing, woken, swept, clash>>

\* sendResponseInline: a write error only signals shutdown.
Respond ==
    /\ shutdownCh' \in IF ncClosed THEN {TRUE} ELSE {shutdownCh, TRUE}
    /\ UNCHANGED <<Unlocked, ncClosed, im, cancelled, closing, woken, swept, clash>>

WriteResponse(w) ==
    /\ pc[w] = "committed"
    /\ Goto(w, "written") /\ UNCHANGED wtag
    /\ Respond

WritePanicError(w) ==
    /\ pc[w] = "panicking"
    /\ Goto(w, "finishing") /\ UNCHANGED wtag
    /\ Respond

\* ENOSYS for an unknown type, or Rflush.
WriteUntracked(w) ==
    /\ pc[w] = "replying"
    /\ Loop(w)
    /\ Respond

RemoveEntry(w) ==
    /\ \/ /\ pc[w] = "written"
          /\ im' = CompleteCommit(im, wtag[w], w)
          /\ closing' = [closing EXCEPT ![w] = CompleteDone(im, wtag[w], w)]
       \/ /\ pc[w] = "finishing"
          /\ im' = Remove(im, wtag[w])
          /\ closing' = [closing EXCEPT ![w] = DoneOf(im, wtag[w])]
    /\ Goto(w, "closing")
    /\ UNCHANGED <<Unlocked, wtag, shutdownCh, ncClosed, cancelled, woken, swept, clash>>

\* close(done), putRequestCtx, and back to the top of the loop.
EndRequest(w) ==
    /\ pc[w] = "closing"
    /\ woken' = woken \cup closing[w]
    /\ closing' = [closing EXCEPT ![w] = {}]
    /\ cancelled' = cancelled \ {w}
    /\ swept' = [s \in Sweeps |-> swept[s] \ {w}]
    /\ clash' = [s \in Sweeps |-> clash[s] \ {w}]
    /\ Loop(w)
    /\ UNCHANGED <<Unlocked, shutdownCh, ncClosed, im>>

BeginFlush(w) ==
    /\ pc[w] = "flushing"
    /\ im' = FlushWait(im, wtag[w], w)
    /\ IF wtag[w] \in im.tags
       THEN /\ cancelled' = cancelled \cup {im.entry[wtag[w]].ctx}
            /\ Goto(w, "waiting")
       ELSE Goto(w, "replying") /\ UNCHANGED cancelled
    /\ UNCHANGED <<Unlocked, wtag, shutdownCh, ncClosed, closing, woken, swept, clash>>

FlushReleased(w) ==
    /\ pc[w] = "waiting" /\ w \in woken
    /\ woken' = woken \ {w}
    /\ Goto(w, "replying")
    /\ UNCHANGED <<Unlocked, wtag, shutdownCh, ncClosed, im, cancelled, closing, swept, clash>>

\* flushWaitDeadline: signal shutdown, close nc, send nothing.
FlushTimeout(w) ==
    /\ pc[w] = "waiting"
    /\ shutdownCh' = TRUE /\ ncClosed' = TRUE
    /\ Loop(w)
    /\ UNCHANGED <<Unlocked, im, cancelled, closing, woken, swept, clash>>

-----------------------------------------------------------------------------
(* handleReVersion, with recvMu held throughout. *)

Locked == <<recvIdle, workerCount, recvShutdown, shutdownCh, closing,
            woken, nframes, srv>>

\* Rate-limited attempts are dropped; otherwise every request is cancelled.
RateLimited(w) ==
    /\ pc[w] = "cancelling"
    /\ recvMu' = Free /\ Loop(w)
    /\ UNCHANGED <<Locked, ncClosed, im, cancelled, swept, clash>>

CancelRequests(w) ==
    /\ pc[w] = "cancelling"
    /\ cancelled' = cancelled \cup CancelAll(im)
    /\ swept' = [swept EXCEPT !["version"] = CancelAll(im)]
    /\ clash' = [clash EXCEPT !["version"] = {}]
    /\ Goto(w, "cancelled")
    /\ UNCHANGED <<Locked, wtag, recvMu, ncClosed, im>>

\* waitWithDeadline: with nothing in flight it does not wait at all.
AwaitDrain(w) ==
    /\ pc[w] = "cancelled"
    /\ im' = DrainChan(im, w)
    /\ Goto(w, IF im.count = 0 THEN "clunking" ELSE "draining")
    /\ UNCHANGED <<Locked, wtag, recvMu, ncClosed, cancelled, swept, clash>>

MutDrainTimeout(w) ==
    /\ pc[w] = "draining"
    /\ Goto(w, "clunking")
    /\ UNCHANGED <<Locked, wtag, recvMu, ncClosed, im, cancelled, swept, clash>>

DrainTimeout(w) ==
    /\ pc[w] = "draining"
    /\ ncClosed' = TRUE
    /\ recvMu' = Free /\ Loop(w)
    /\ UNCHANGED <<Locked, im, cancelled, swept, clash>>

Drained(w) ==
    /\ pc[w] = "draining" /\ w \in im.woken
    /\ Goto(w, "clunking")
    /\ UNCHANGED <<Locked, wtag, recvMu, ncClosed, im, cancelled, swept, clash>>

\* clunkAll and release, Rversion, and the new msize and protocol.  A body that
\* does not decode, an msize below the minimum or a failed write closes nc.
Renegotiate(w) ==
    /\ pc[w] = "clunking"
    /\ clash' = [clash EXCEPT !["version"] = @ \cup InHandler]
    /\ ncClosed' \in {ncClosed, TRUE}
    /\ recvMu' = Free /\ Loop(w)
    /\ UNCHANGED <<Locked, im, cancelled, swept>>

-----------------------------------------------------------------------------
(* The serve goroutine: wait for the end, then cleanup. *)

NotMain == <<pc, wtag, recvMu, recvIdle, workerCount, recvShutdown, closing,
             woken, nframes>>

\* The context given to ServeConn is cancelled: serve goes on to cleanup and
\* the watcher goroutine closes nc, sooner or later.
CancelServe ==
    /\ main = "serving"
    /\ main' = "cancelling" /\ ncClosed' \in {ncClosed, TRUE}
    /\ UNCHANGED <<NotMain, shutdownCh, im, cancelled, drained, handles, swept, clash>>

Notice ==
    /\ main = "serving" /\ shutdownCh
    /\ main' = "cancelling"
    /\ UNCHANGED <<NotMain, shutdownCh, ncClosed, im, cancelled, drained, handles, swept, clash>>

CleanupCancel ==
    /\ main = "cancelling"
    /\ cancelled' = cancelled \cup CancelAll(im)
    /\ swept' = [swept EXCEPT !["cleanup"] = CancelAll(im)]
    /\ main' = "cancelled"
    /\ UNCHANGED <<NotMain, shutdownCh, ncClosed, im, drained, handles, clash>>

CleanupAwaitDrain ==
    /\ main = "cancelled"
    /\ im' = DrainChan(im, Free)
    /\ drained' = (im.count = 0)
    /\ main' = IF im.count = 0 THEN "closing" ELSE "draining"
    /\ UNCHANGED <<NotMain, shutdownCh, ncClosed, cancelled, handles, swept, clash>>

\* The wait ends; at the deadline the select may report a timeout although the
\* last request has just left.
MutCleanupDrain ==
    /\ main = "draining" /\ Free \in im.woken
    /\ drained' = TRUE
    /\ main' = "closing"
    /\ UNCHANGED <<NotMain, shutdownCh, ncClosed, im, cancelled, handles, swept, clash>>

CleanupDrain ==
    /\ main = "draining"
    /\ drained' \in IF Free \in im.woken THEN BOOLEAN ELSE {FALSE}
    /\ main' = "closing"
    /\ UNCHANGED <<NotMain, shutdownCh, ncClosed, im, cancelled, handles, swept, clash>>

MutCleanupClose ==
    /\ main = "closing"
    /\ main' = IF drained THEN "joining" ELSE "clunking"
    /\ UNCHANGED <<NotMain, shutdownCh, ncClosed, im, cancelled, drained, handles, swept, clash>>

CleanupClose ==
    /\ main = "closing"
    /\ ncClosed' = TRUE
    /\ main' = IF drained THEN "joining" ELSE "clunking"
    /\ UNCHANGED <<NotMain, shutdownCh, im, cancelled, drained, handles, swept, clash>>

\* recvWG.Wait, given up at the same deadline.
CleanupJoin ==
    /\ main = "joining"
    /\ main' = "clunking"
    /\ UNCHANGED <<NotMain, shutdownCh, ncClosed, im, cancelled, drained, handles, swept, clash>>

CleanupClunk ==
    /\ main = "clunking"
    /\ handles' = IF drained THEN "released" ELSE "leaked"
    /\ clash' = IF drained THEN [clash EXCEPT !["cleanup"] = @ \cup InHandler] ELSE clash
    /\ main' = "done"
    /\ UNCHANGED <<NotMain, shutdownCh, ncClosed, im, cancelled, drained, swept>>

\* serve returned: its context is cancelled, so waiting Tflush handlers leave.
FlushAbandoned(w) ==
    /\ pc[w] = "waiting" /\ main = "done"
    /\ Loop(w)
    /\ UNCHANGED <<Unlocked, shutdownCh, ncClosed, im, cancelled, closing, woken, swept, clash>>

\* serve has returned and every goroutine has ended.
Returned == main = "done" /\ Live = {} /\ UNCHANGED vars

-----------------------------------------------------------------------------
WorkerStep(w) ==
    \/ Park(w) \/ Acquire(w) \/ ReadNothing(w) \/ ReadError(w)
    \/ StartRequest(w) \/ ShutdownRecv(w)
    \/ WriteResponse(w) \/ WritePanicError(w) \/ WriteUntracked(w)
    \/ RemoveEntry(w) \/ EndRequest(w)
    \/ BeginFlush(w) \/ FlushReleased(w) \/ FlushAbandoned(w)
    \/ RateLimited(w) \/ CancelRequests(w) \/ AwaitDrain(w) \/ Drained(w) \/ Renegotiate(w)

HandlerStep(w) == HandlerReturns(w) \/ HandlerPanics(w) \/ HandlerReturnsNil(w)

TimerStep(w) == FlushTimeout(w) \/ DrainTimeout(w)

CleanupStep == Notice \/ CleanupCancel \/ CleanupAwaitDrain \/ CleanupDrain \/ CleanupClose
                 \/ CleanupJoin \/ CleanupClunk

Next ==
    \/ \E w \in Worker : \/ WorkerStep(w) \/ HandlerStep(w) \/ TimerStep(w)
                         \/ \E k \in Kinds, t \in Tag : ReadFrame(w, k, t)
    \/ CancelServe
    \/ CleanupStep
    \/ Returned

Spec == Init /\ [][Next]_vars

(***************************************************************************)
(* Fairness: goroutines that can run do; a read on a closed nc fails; the  *)
(* drain deadlines expire; recvMu starves nobody (strong fairness).        *)
(* Neither the peer nor any handler owes anything.                         *)
(***************************************************************************)
SchedulerFairness ==
    /\ \A w \in Worker :
         /\ WF_vars(\/ Park(w) \/ ReadNothing(w) \/ StartRequest(w)
                    \/ WriteResponse(w) \/ WritePanicError(w) \/ WriteUntracked(w)
                    \/ RemoveEntry(w) \/ EndRequest(w) \/ BeginFlush(w)
                    \/ FlushReleased(w) \/ FlushAbandoned(w) \/ CancelRequests(w)
                    \/ AwaitDrain(w) \/ Drained(w) \/ DrainTimeout(w)
                    \/ Renegotiate(w) \/ (ncClosed /\ ReadError(w)))
         /\ SF_vars(Acquire(w) \/ ShutdownRecv(w))
    /\ WF_vars(CleanupStep)

FairSpec == Spec /\ SchedulerFairness

-----------------------------------------------------------------------------
(* Properties *)

\* At most maxInflight goroutines serve a connection, and workerCount is their
\* number (the decision is taken under recvMu, exits happen outside it).
WorkerCap == workerCount = Cardinality(Live) /\ workerCount <= MaxInflight

\* The receive pipeline self-perpetuates: until the receive path is shut down
\* some goroutine is on its way to the wire, unless all maxInflight are busy.
ReaderOrCap ==
    ~recvShutdown => \/ \E w \in Worker : pc[w] \in Receiving \cup Renegotiating
                     \/ workerCount = MaxInflight

\* While handleReVersion drains and renegotiates, nobody else is between the
\* acquisition of recvMu and the end of its read.
RenegotiatorIsSoleReader ==
    \A w, v \in Worker : pc[w] \in Renegotiating /\ pc[v] \in {"reading"} \cup Renegotiating
                            => v = w

\* The receive path: the pool is counted and bounded, keeps reading, and leaves the
\* wire to a re-negotiation.
ReceivePath == WorkerCap /\ ReaderOrCap /\ RenegotiatorIsSoleReader

\* The drain accounting survives starts, replacements and removals: count is
\* the number of entries, and a parked drainer has something to wait for.
DrainAccounting == CountExact(im) /\ DrainersHaveWork(im)

\* A request that was in the table when cancelAll ran is no longer in its
\* handler when handleReVersion or cleanup releases the fids.
SweptAreDrained == \A s \in Sweeps : swept[s] \cap clash[s] = {}

\* A shutdown signal or a cancelled context leads to a completed cleanup, stuck handlers or not.
CleanupCompletes == (shutdownCh \/ main # "serving") ~> main = "done"

\* After cleanup every goroutine of the pool ends, but for those stuck in a
\* handler: none is left parked on recvMu, in a read or waiting for a flush.
WorkersExit == main = "done" ~> Live \subseteq InHandler

\* A connection that is told to end comes to its end: cleanup completes, stuck
\* handlers or not, and the other goroutines exit.
ShutsDown == CleanupCompletes /\ WorkersExit
=============================================================================
