----------------------------- MODULE ClientConn -----------------------------
(***************************************************************************)
(* One client connection: concurrent calls of exchangeWithFlush            *)
(* (client/ops.go) with the tag allocator (tags.go), the in-flight map     *)
(* (inflight.go), flushAndWait (flush.go), the read loop (read_loop.go),   *)
(* and shutdown (close.go), against a peer that follows the 9P rules.      *)
(*                                                                         *)
(* The mirror tag oldTag|0x8000 of a Tflush is represented by keeping the  *)
(* registrations of request tags (reg) and of their mirrors (freg) apart.  *)
(* A registration is named by the call that made it, since every register  *)
(* makes a fresh channel; the channel's cap-1 buffer is resp or fresp.     *)
(***************************************************************************)
EXTENDS Integers, Sequences, FiniteSets, Functions

CONSTANTS Call,       \* the calls made on the connection
          MaxTag,     \* WithMaxInflight: the tags are 1..MaxTag
          None        \* nothing: no tag, no message

ASSUME MaxTagAssumption == MaxTag \in Nat \ {0}

Tag == 1..MaxTag

\* What a call returns when it has no response.
Errors == {"ErrClosed", "ctx", "flushed", "write"}

ASSUME CallAssumption ==
    IsFiniteSet(Call) /\ None \notin Call \cup Tag /\ Call \cap Errors = {}

VARIABLES
    pc,        \* pc[c]: where call c is in exchangeWithFlush or flushAndWait
    tag,       \* tag[c]: the tag c has acquired
    noFlush,   \* calls made with flushOnCancel = false (cleanupFid)
    expired,   \* calls whose context is done
    result,    \* result[c]: what c returns
    resp,      \* resp[c]: buffer of the channel c registered for its request
    fresp,     \* fresp[c]: buffer of the channel c registered for its Tflush
    dead,      \* calls whose channels cancelAll has closed
    free,      \* the allocator's free list
    reg,       \* reg[t]: the call registered under request tag t
    freg,      \* freg[t]: the call registered under the mirror of t
    c2s, s2c,  \* the stream in each direction
    reader,    \* the read loop: what it does and the frame it has read
    shut,      \* progress of signalShutdown
    closer,    \* the goroutine in Close
    pending,   \* peer: requests read and not answered
    flushing,  \* peer: Tflushes read and not answered
    stale      \* history: calls handed the Rflush of another call's Tflush

client == <<pc, tag, noFlush, expired, result, resp, fresp, dead, free, reg, freg, reader,
            shut, closer>>
peer   == <<pending, flushing>>
vars   == <<client, c2s, s2c, peer, stale>>

PCs == {"idle", "acquiring", "registering", "writing", "waiting", "unregister",
        "release", "fregister", "fwriting", "fwaiting", "funregister", "returned",
        "wshutdown", "fshutdown"}   \* inside signalShutdown

\* signalShutdown's steps, in order, inside closeOnce.
Shuts == <<"open", "admission", "closeCh", "nc", "over">>
ShutAt(s) == \E i \in 1..5 : Shuts[i] = shut /\ \E j \in 1..i : Shuts[j] = s

closing  == ShutAt("admission")   \* admission gate closed
closeCh  == ShutAt("closeCh")     \* closeCh closed
ncClosed == ShutAt("nc")          \* nc closed

\* A response names the call whose T-message it answers, which the wire does not.
Msg == [kind : {"R", "Rflush"}, tag : Tag, of : Call]

\* A call's result is the call whose response it got, or an error.
Results == {None} \cup Errors \cup Call

\* The shape of a Conn: tags are free, held by calls or on the wire, and each
\* call is somewhere between exchange and its return.
TypeOK ==
    /\ pc \in [Call -> PCs]
    /\ tag \in [Call -> Tag \cup {None}]
    /\ expired \in SUBSET Call /\ noFlush \in SUBSET Call
    /\ result \in [Call -> Results]
    /\ resp \in [Call -> Call \cup {None}] /\ fresp \in [Call -> Call \cup {None}]
    /\ dead \in SUBSET Call
    /\ free \in Seq(Tag) /\ Len(free) <= MaxTag
    /\ reg \in [Tag -> Call \cup {None}] /\ freg \in [Tag -> Call \cup {None}]
    /\ \A i \in DOMAIN s2c : s2c[i] \in Msg
    /\ reader.at \in {"read", "deliver", "stopping", "gone"}
    /\ reader.frame \in Msg \cup {None}
    /\ shut \in Range(Shuts)
    /\ closer \in {"none", "draining", "joining", "returned"}
    /\ \A p \in pending : p.tag \in Tag /\ p.of \in Call
    /\ \A x \in flushing : x.tag \in Tag /\ x.of \in Call
    /\ stale \in SUBSET Call

Init ==
    /\ pc = [c \in Call |-> "idle"] /\ tag = [c \in Call |-> None]
    /\ noFlush \in SUBSET Call
    /\ expired = {} /\ dead = {}
    /\ result = [c \in Call |-> None]
    /\ resp = [c \in Call |-> None] /\ fresp = [c \in Call |-> None]
    /\ free = [i \in Tag |-> i]
    /\ reg = [t \in Tag |-> None] /\ freg = [t \in Tag |-> None]
    /\ c2s = <<>> /\ s2c = <<>>
    /\ reader = [at |-> "read", frame |-> None] /\ shut = "open" /\ closer = "none"
    /\ pending = {} /\ flushing = {} /\ stale = {}

Goto(c, l) == pc' = [pc EXCEPT ![c] = l]
Return(c, r) == Goto(c, "returned") /\ result' = [result EXCEPT ![c] = r]
Leave(c, r) == Goto(c, "unregister") /\ result' = [result EXCEPT ![c] = r]
FLeave(c, r) == Goto(c, "funregister") /\ result' = [result EXCEPT ![c] = r]

\* signalShutdown: the first caller runs the steps; closeOnce makes every
\* caller wait until they have been run.
BeginShutdown == shut' = IF shut = "open" THEN "admission" ELSE shut

-----------------------------------------------------------------------------
(* exchangeWithFlush *)

\* beginCall: admission is refused once closing is set.
BeginCall(c) ==
    /\ pc[c] = "idle"
    /\ IF closing THEN Return(c, "ErrClosed")
                  ELSE Goto(c, "acquiring") /\ UNCHANGED result
    /\ UNCHANGED <<tag, noFlush, expired, resp, fresp, dead, free, reg, freg, reader, shut,
                   closer, c2s, s2c, peer, stale>>

\* tagAllocator.acquire: a tag, a done context or a closed connection.
MutAcquire(c) ==
    /\ pc[c] = "acquiring"
    /\ \/ /\ free # <<>>
          /\ tag' = [tag EXCEPT ![c] = Head(free)]
          /\ free' = Tail(free)
          /\ Goto(c, "registering") /\ UNCHANGED result
       \/ /\ c \in expired /\ Return(c, "ctx") /\ UNCHANGED <<tag, free>>
    /\ UNCHANGED <<noFlush, expired, resp, fresp, dead, reg, freg, reader, shut, closer, c2s,
                   s2c, peer, stale>>

Acquire(c) ==
    /\ pc[c] = "acquiring"
    /\ \/ /\ free # <<>>
          /\ tag' = [tag EXCEPT ![c] = Head(free)]
          /\ free' = Tail(free)
          /\ Goto(c, "registering") /\ UNCHANGED result
       \/ /\ c \in expired /\ Return(c, "ctx") /\ UNCHANGED <<tag, free>>
       \/ /\ closeCh /\ Return(c, "ErrClosed") /\ UNCHANGED <<tag, free>>
    /\ UNCHANGED <<noFlush, expired, resp, fresp, dead, reg, freg, reader, shut, closer, c2s,
                   s2c, peer, stale>>

Register(c) ==
    /\ pc[c] = "registering"
    /\ reg' = [reg EXCEPT ![tag[c]] = c]
    /\ Goto(c, "writing")
    /\ UNCHANGED <<tag, noFlush, expired, result, resp, fresp, dead, free, freg, reader, shut,
                   closer, c2s, s2c, peer, stale>>

\* writeT succeeds while closeCh is open and nc accepts the frame.
WriteRequest(c) ==
    /\ pc[c] = "writing" /\ ~closeCh
    /\ c2s' = Append(c2s, [kind |-> "T", tag |-> tag[c], of |-> c])
    /\ Goto(c, "waiting")
    /\ UNCHANGED <<tag, noFlush, expired, result, resp, fresp, dead, free, reg, freg, reader,
                   shut, closer, s2c, peer, stale>>

\* writeT fails: closed, the frame does not encode or exceeds msize, or the
\* write fails, which shuts the connection down.
WriteRequestFails(c) ==
    /\ pc[c] = "writing"
    /\ \/ /\ closeCh /\ Leave(c, "ErrClosed") /\ UNCHANGED shut
       \/ /\ ~closeCh /\ Leave(c, "write") /\ UNCHANGED shut
       \/ /\ Goto(c, "wshutdown") /\ result' = [result EXCEPT ![c] = "ErrClosed"]
          /\ BeginShutdown
    /\ UNCHANGED <<tag, noFlush, expired, resp, fresp, dead, free, reg, freg, reader, closer,
                   c2s, s2c, peer, stale>>

ReceiveAnswer(c) ==
    /\ pc[c] = "waiting"
    /\ \/ /\ resp[c] # None /\ Leave(c, resp[c])
          /\ resp' = [resp EXCEPT ![c] = None]
       \/ /\ \/ closeCh
             \/ c \in dead /\ resp[c] = None
          /\ Leave(c, "ErrClosed") /\ UNCHANGED resp
    /\ UNCHANGED <<tag, noFlush, expired, fresp, dead, free, reg, freg, reader, shut, closer,
                   c2s, s2c, peer, stale>>

\* The context of call c is cancelled or its deadline passes.  Only the two
\* selects on ctx.Done can tell, so it happens there.
Expire(c) ==
    /\ pc[c] \in {"acquiring", "waiting"} /\ c \notin expired
    /\ expired' = expired \cup {c}
    /\ UNCHANGED <<noFlush, pc, tag, result, resp, fresp, dead, free, reg, freg, reader, shut,
                   closer, c2s, s2c, peer, stale>>

\* ctx.Done with flushOnCancel: flushAndWait takes over.
Cancel(c) ==
    /\ pc[c] = "waiting" /\ c \in expired /\ c \notin noFlush
    /\ Goto(c, "fregister")
    /\ UNCHANGED <<tag, noFlush, expired, result, resp, fresp, dead, free, reg, freg, reader,
                   shut, closer, c2s, s2c, peer, stale>>

\* ctx.Done without: the entry goes, the tag is deliberately never released.
MutAbandonReleases(c) ==
    /\ pc[c] = "waiting" /\ c \in expired /\ c \in noFlush
    /\ Leave(c, "ctx")
    /\ UNCHANGED <<tag, noFlush, expired, resp, fresp, dead, free, reg, freg, reader, shut,
                   closer, c2s, s2c, peer, stale>>

MutAbandonKeepsEntry(c) ==
    /\ pc[c] = "waiting" /\ c \in expired /\ c \in noFlush
    /\ Return(c, "ctx")
    /\ UNCHANGED <<tag, noFlush, expired, resp, fresp, dead, free, reg, freg, reader, shut, closer,
                   c2s, s2c, peer, stale>>

Abandon(c) ==
    /\ pc[c] = "waiting" /\ c \in expired /\ c \in noFlush
    /\ reg' = [reg EXCEPT ![tag[c]] = None]
    /\ Return(c, "ctx")
    /\ UNCHANGED <<tag, noFlush, expired, resp, fresp, dead, free, freg, reader, shut, closer,
                   c2s, s2c, peer, stale>>

Unregister(c) ==
    /\ pc[c] = "unregister"
    /\ reg' = [reg EXCEPT ![tag[c]] = None]
    /\ Goto(c, "release")
    /\ UNCHANGED <<tag, noFlush, expired, result, resp, fresp, dead, free, freg, reader, shut,
                   closer, c2s, s2c, peer, stale>>

MutRelease(c) ==
    /\ pc[c] = "release"
    /\ free' = free \o <<tag[c], tag[c]>>
    /\ tag' = [tag EXCEPT ![c] = None]
    /\ Goto(c, "returned")
    /\ UNCHANGED <<noFlush, expired, result, resp, fresp, dead, reg, freg, reader, shut,
                   closer, c2s, s2c, peer, stale>>

Release(c) ==
    /\ pc[c] = "release"
    /\ free' = IF Len(free) < MaxTag THEN Append(free, tag[c]) ELSE free
    /\ tag' = [tag EXCEPT ![c] = None]
    /\ Goto(c, "returned")
    /\ UNCHANGED <<noFlush, expired, result, resp, fresp, dead, reg, freg, reader, shut,
                   closer, c2s, s2c, peer, stale>>

-----------------------------------------------------------------------------
(* flushAndWait: Tflush under the mirror tag, then the first of answer,     *)
(* Rflush, shutdown or the grace timer.                                     *)

MutRegisterFlush(c) ==
    /\ pc[c] = "fregister" /\ free # <<>>
    /\ freg' = [freg EXCEPT ![tag[c]] = c]
    /\ Goto(c, "fwriting")
    /\ UNCHANGED <<tag, noFlush, expired, result, resp, fresp, dead, free, reg, reader, shut,
                   closer, c2s, s2c, peer, stale>>

RegisterFlush(c) ==
    /\ pc[c] = "fregister"
    /\ freg' = [freg EXCEPT ![tag[c]] = c]
    /\ Goto(c, "fwriting")
    /\ UNCHANGED <<tag, noFlush, expired, result, resp, fresp, dead, free, reg, reader, shut,
                   closer, c2s, s2c, peer, stale>>

WriteFlush(c) ==
    /\ pc[c] = "fwriting"
    /\ \/ /\ ~closeCh
          /\ c2s' = Append(c2s, [kind |-> "Tflush", tag |-> tag[c], of |-> c])
          /\ Goto(c, "fwaiting") /\ UNCHANGED <<result, shut>>
       \/ /\ closeCh /\ FLeave(c, "ErrClosed") /\ UNCHANGED <<c2s, shut>>
       \/ /\ Goto(c, "fshutdown") /\ result' = [result EXCEPT ![c] = "ErrClosed"]
          /\ BeginShutdown /\ UNCHANGED c2s
    /\ UNCHANGED <<tag, noFlush, expired, resp, fresp, dead, free, reg, freg, reader, closer,
                   s2c, peer, stale>>

\* Each arm drains the other channel, so both buffers end up empty.
FlushSettled(c) ==
    /\ pc[c] = "fwaiting"
    /\ \/ resp[c] # None /\ FLeave(c, "ctx")
       \/ fresp[c] # None /\ FLeave(c, "flushed")
       \/ (c \in dead \/ closeCh) /\ FLeave(c, "ErrClosed")
    /\ resp' = [resp EXCEPT ![c] = None] /\ fresp' = [fresp EXCEPT ![c] = None]
    /\ UNCHANGED <<tag, noFlush, expired, dead, free, reg, freg, reader, shut, closer, c2s,
                   s2c, peer, stale>>

\* The grace timer: the peer is taken for dead.
FlushGrace(c) ==
    /\ pc[c] = "fwaiting"
    /\ Goto(c, "fshutdown") /\ result' = [result EXCEPT ![c] = "ctx"]
    /\ BeginShutdown
    /\ UNCHANGED <<tag, noFlush, expired, resp, fresp, dead, free, reg, freg, reader, closer,
                   c2s, s2c, peer, stale>>

\* signalShutdown returns to the call.
ShutdownSignalled(c) ==
    /\ pc[c] \in {"wshutdown", "fshutdown"} /\ shut = "over"
    /\ Goto(c, IF pc[c] = "wshutdown" THEN "unregister" ELSE "funregister")
    /\ UNCHANGED <<tag, noFlush, expired, result, resp, fresp, dead, free, reg, freg, reader,
                   shut, closer, c2s, s2c, peer, stale>>

\* Deferred: the mirror leaves the map before the tag can be recycled.
UnregisterFlush(c) ==
    /\ pc[c] = "funregister"
    /\ freg' = [freg EXCEPT ![tag[c]] = None]
    /\ Goto(c, "unregister")
    /\ UNCHANGED <<tag, noFlush, expired, result, resp, fresp, dead, free, reg, reader, shut,
                   closer, c2s, s2c, peer, stale>>

-----------------------------------------------------------------------------
(* The read loop, shutdown and Close. *)

ReadFrame ==
    /\ reader.at = "read" /\ ~ncClosed /\ s2c # <<>>
    /\ reader' = [at |-> "deliver", frame |-> Head(s2c)]
    /\ s2c' = Tail(s2c)
    /\ UNCHANGED <<pc, tag, noFlush, expired, result, resp, fresp, dead, free, reg, freg, shut,
                   closer, c2s, peer, stale>>

\* Lookup and send under the map's read lock; an unknown tag or a full buffer
\* drops the frame.  For a zero-copy Rread the copy into dst is in this step.
Deliver ==
    LET m == reader.frame
        c == IF m.kind = "R" THEN reg[m.tag] ELSE freg[m.tag]
    IN
    /\ reader.at = "deliver"
    /\ reader' = [at |-> "read", frame |-> None]
    /\ resp' = IF c # None /\ m.kind = "R" /\ resp[c] = None
               THEN [resp EXCEPT ![c] = m.of] ELSE resp
    /\ fresp' = IF c # None /\ m.kind = "Rflush" /\ fresp[c] = None
                THEN [fresp EXCEPT ![c] = m.of] ELSE fresp
    /\ stale' = IF c # None /\ m.kind = "Rflush" /\ m.of # c THEN stale \cup {c} ELSE stale
    /\ UNCHANGED <<pc, tag, noFlush, expired, result, dead, free, reg, freg, shut, closer, c2s,
                   s2c, peer>>

\* The read fails, or the frame is oversize, short, unknown or does not decode.
ReaderStops ==
    /\ reader.at \in {"read", "deliver"}
    /\ reader' = [at |-> "stopping", frame |-> None]
    /\ BeginShutdown
    /\ UNCHANGED <<pc, tag, noFlush, expired, result, resp, fresp, dead, free, reg, freg,
                   closer, c2s, s2c, peer, stale>>

ReaderGone ==
    /\ reader.at = "stopping" /\ shut = "over"
    /\ reader' = [reader EXCEPT !.at = "gone"]
    /\ UNCHANGED <<pc, tag, noFlush, expired, result, resp, fresp, dead, free, reg, freg, shut,
                   closer, c2s, s2c, peer, stale>>

\* inflightMap.cancelAll closes every registered channel and empties the map.
CancelAll ==
    /\ dead' = dead \cup {c \in Call : \E t \in Tag : c \in {reg[t], freg[t]}}
    /\ reg' = [t \in Tag |-> None]
    /\ freg' = [t \in Tag |-> None]

\* closeAdmission, close(closeCh), nc.Close, cancelAll.
ShutdownStep ==
    /\ shut \notin {"open", "over"}
    /\ shut' = CASE shut = "admission" -> "closeCh"
                 [] shut = "closeCh" -> "nc"
                 [] shut = "nc" -> "over"
    /\ IF shut = "nc" THEN CancelAll ELSE UNCHANGED <<dead, reg, freg>>
    /\ UNCHANGED <<pc, tag, noFlush, expired, result, resp, fresp, free, reader, closer, c2s,
                   s2c, peer, stale>>

StartClose ==
    /\ closer = "none"
    /\ closer' = "draining"
    /\ BeginShutdown
    /\ UNCHANGED <<pc, tag, noFlush, expired, result, resp, fresp, dead, free, reg, freg,
                   reader, c2s, s2c, peer, stale>>

InCall == {c \in Call : pc[c] \notin {"idle", "returned"}}

\* callerWG.Wait, or the drain deadline; then readerWG.Wait.
DrainCallers ==
    /\ closer = "draining" /\ shut = "over"
    /\ closer' = "joining"
    /\ UNCHANGED <<pc, tag, noFlush, expired, result, resp, fresp, dead, free, reg, freg,
                   reader, shut, c2s, s2c, peer, stale>>

MutFinishClose ==
    /\ closer = "joining"
    /\ closer' = "returned"
    /\ UNCHANGED <<pc, tag, noFlush, expired, result, resp, fresp, dead, free, reg, freg,
                   reader, shut, c2s, s2c, peer, stale>>

FinishClose ==
    /\ closer = "joining" /\ reader.at = "gone"
    /\ closer' = "returned"
    /\ UNCHANGED <<pc, tag, noFlush, expired, result, resp, fresp, dead, free, reg, freg,
                   reader, shut, c2s, s2c, peer, stale>>

-----------------------------------------------------------------------------
(* The peer (external): it answers every request it reads, or drops one     *)
(* that has been flushed, and sends Rflush after that.                      *)

PeerRead ==
    LET m == Head(c2s) IN
    /\ c2s # <<>> /\ ~ncClosed
    /\ c2s' = Tail(c2s)
    /\ IF m.kind = "T"
       THEN pending' = pending \cup {m} /\ UNCHANGED flushing
       ELSE /\ flushing' = flushing \cup
                 {[of |-> m.of, tag |-> m.tag, waits |-> {p \in pending : p.tag = m.tag}]}
            /\ UNCHANGED pending
    /\ UNCHANGED <<client, s2c, stale>>

PeerAnswer(p) ==
    /\ p \in pending /\ ~ncClosed
    /\ pending' = pending \ {p}
    /\ s2c' = Append(s2c, [kind |-> "R", tag |-> p.tag, of |-> p.of])
    /\ UNCHANGED <<client, c2s, flushing, stale>>

PeerDrop(p) ==
    /\ p \in pending /\ \E x \in flushing : p \in x.waits
    /\ pending' = pending \ {p}
    /\ UNCHANGED <<client, c2s, s2c, flushing, stale>>

PeerRflush(x) ==
    /\ x \in flushing /\ x.waits \cap pending = {} /\ ~ncClosed
    /\ flushing' = flushing \ {x}
    /\ s2c' = Append(s2c, [kind |-> "Rflush", tag |-> x.tag, of |-> x.of])
    /\ UNCHANGED <<client, c2s, pending, stale>>

-----------------------------------------------------------------------------
CallStep(c) ==
    \/ BeginCall(c) \/ Acquire(c) \/ Register(c) \/ WriteRequest(c)
    \/ WriteRequestFails(c) \/ ReceiveAnswer(c) \/ Cancel(c) \/ Abandon(c)
    \/ Unregister(c) \/ Release(c) \/ RegisterFlush(c) \/ WriteFlush(c)
    \/ FlushSettled(c) \/ ShutdownSignalled(c) \/ UnregisterFlush(c)

CloseStep == StartClose \/ DrainCallers \/ FinishClose

PeerStep == \/ PeerRead
            \/ \E p \in pending : PeerAnswer(p) \/ PeerDrop(p)
            \/ \E x \in flushing : PeerRflush(x)

Next == \/ \E c \in Call : CallStep(c) \/ Expire(c) \/ FlushGrace(c)
        \/ ReadFrame \/ Deliver \/ ReaderStops \/ ReaderGone \/ ShutdownStep \/ CloseStep
        \/ PeerStep

Spec == Init /\ [][Next]_vars

(***************************************************************************)
(* Fairness: goroutines that can run do, a read on a closed nc fails, the  *)
(* grace timer fires, and the peer may do nothing at all.                  *)
(***************************************************************************)
Progress(c) ==
    \/ Acquire(c) \/ Register(c) \/ WriteRequest(c) \/ WriteRequestFails(c)
    \/ ReceiveAnswer(c) \/ Cancel(c) \/ Abandon(c) \/ Unregister(c) \/ Release(c)
    \/ RegisterFlush(c) \/ WriteFlush(c) \/ FlushSettled(c) \/ ShutdownSignalled(c)
    \/ UnregisterFlush(c)

Fairness ==
    /\ \A c \in Call : WF_vars(Progress(c)) /\ WF_vars(FlushGrace(c))
    /\ WF_vars(ShutdownStep) /\ WF_vars(ReadFrame \/ Deliver)
    /\ WF_vars(ncClosed /\ ReaderStops) /\ WF_vars(ReaderGone)
    /\ WF_vars(DrainCallers \/ FinishClose)

FairSpec == Spec /\ Fairness

-----------------------------------------------------------------------------
(* Properties *)

\* A tag belongs to one owner: it is free once, or held by one call (for good
\* by a call that abandoned it), never both and never lost otherwise.
TagsConserved ==
    /\ \A i, j \in DOMAIN free : free[i] = free[j] => i = j
    /\ \A c \in Call : tag[c] # None => tag[c] \notin Range(free)
    /\ \A c, d \in Call : tag[c] # None /\ tag[c] = tag[d] => c = d
    /\ Len(free) + Cardinality({c \in Call : tag[c] # None}) = MaxTag
    /\ \A c \in Call : pc[c] = "returned" /\ tag[c] # None => c \in noFlush

\* Whoever is registered under a tag, or under its mirror, is still inside its
\* call and holds the tag: an entry never outlives its call, so the read loop
\* cannot copy into the buffer of a call that has returned.
EntryInsideCall ==
    \A t \in Tag : /\ reg[t] # None => reg[t] \in InCall /\ tag[reg[t]] = t
                   /\ freg[t] # None => freg[t] \in InCall /\ tag[freg[t]] = t

\* A tag and the entry under it have one owner, a call in progress.
TagsOwned == TagsConserved /\ EntryInsideCall

\* After Close has returned no call is admitted and the read loop delivers
\* nothing more, not even a frame it had read before nc was closed.
CloseIsFinal ==
    [][closer = "returned" => InCall' \subseteq InCall /\ UNCHANGED reader]_vars

\* A call that returns a response returns the response to its own request.
OwnAnswer == \A c \in Call : result[c] \in Call => result[c] = c

\* As long as no call has been handed the Rflush of an earlier Tflush, a call
\* that returns a response returns the response to its own request, and the
\* peer never sees a tag it has not answered yet reused.
OwnAnswerUnlessStale ==
    stale = {} => /\ OwnAnswer
                  /\ \A p, q \in pending : p.tag = q.tag => p = q

\* Once shutdown has begun every call in progress returns, also one that
\* registered after cancelAll emptied the map, and so does Close.
ShutdownReleasesCalls ==
    /\ (shut # "open") ~> (InCall = {})
    /\ (closer = "draining") ~> (closer = "returned")

\* A call whose context is done returns even if the peer never answers and all
\* tags are taken: no flush waits for a tag.
ExpiredCallReturns == \A c \in Call : c \in expired ~> pc[c] = "returned"

\* No call hangs: a shutdown, or the end of its context, makes it return.
CallsReturn == ShutdownReleasesCalls /\ ExpiredCallReturns
=============================================================================
