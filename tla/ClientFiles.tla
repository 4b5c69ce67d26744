---------------------------- MODULE ClientFiles -----------------------------
(***************************************************************************)
(* The client's Files and fids (client/file.go, fidalloc.go, session.go,   *)
(* walknew.go, cleanupFid and the advanced_*.go operations): goroutines    *)
(* sharing a Conn walk, open, create, use, lock and close Files while the  *)
(* allocator recycles fid numbers.                                         *)
(*                                                                         *)
(* Every operation of the package follows one of a few scripts, a sequence *)
(* of steps:                                                               *)
(*   begin, end    beginOp and endOp on the File the operation starts from *)
(*   walk          acquire a number, Twalk (Tattach, Txattrwalk) onto it   *)
(*   walkOn        the same from the operation's first own fid             *)
(*   use, more     a request on the own fids, or on the File's fid if      *)
(*                 there is none; "more" is a round of a chunk loop        *)
(*   clean, clean1 cleanupFid of the last, of the first own fid            *)
(*   keep          newFile: the own fid becomes a File                     *)
(*   lock, backoff, unlck   Lock's poll, its timer, and unlockCleanup      *)
(*   close, clunk, unlock   Close under the lifecycle lock                 *)
(* A failing step abandons the script for the cleanup its code prescribes. *)
(*                                                                         *)
(* ClientConn models how a call waits, is flushed and returns; here a call *)
(* is answered, or is cancelled before or after the server ran it.         *)
(***************************************************************************)
EXTENDS Integers, Sequences, FiniteSets, Functions

CONSTANTS Caller,     \* goroutines using the Conn
          File,       \* File slots
          MaxFid,     \* proto.NoFid - 1: numbers run from 1 to MaxFid
          ReuseCap,   \* reuseCacheSize
          None

VARIABLES next,       \* fidAllocator.next
          reuse,      \* fidAllocator.reuse, a stack
          file,       \* per File: its fid, 0 for a File that is gone, and closed
          readers,    \* lifecycleMu: callers between beginOp and endOp
          writer,     \* lifecycleMu: the caller in Close
          pending,    \* lifecycleMu: callers waiting in Close
          root,       \* Conn.root
          op,         \* per caller: todo (the rest of its script), base, own
          call,       \* per caller: the request it waits for
          bound,      \* server: per fid None, its owner, or how it was lost
          late,       \* fids of Tclunks that nobody waits for any more
          down        \* the connection has shut down

vars == <<next, reuse, file, readers, writer, pending, root, op, call, bound,
          late, down>>

Fid == 1 .. MaxFid

ASSUME ClientFilesAssumption ==
  /\ MaxFid \in Nat \ {0} /\ ReuseCap \in Nat
  /\ {None, "cancelled", "quarantined"} \cap (Caller \cup File) = {} /\ Caller \cap File = {}

-----------------------------------------------------------------------------
\* Scripts of the operations.

Attach   == <<"walk", "keep">>
Walk     == <<"begin", "walk", "keep", "end">>
Clone    == <<"begin", "walk", "keep", "end">>
OpenFile == <<"begin", "walk", "use", "keep", "end">>
Create   == <<"begin", "walk", "use", "keep", "end">>
Mkdir    == <<"begin", "walk", "use", "walkOn", "clean1", "keep", "end">>
Symlink  == <<"begin", "walk", "use", "walkOn", "clean1", "keep", "end">>
Mknod    == <<"begin", "walk", "use", "walkOn", "clean1", "keep", "end">>
Rename   == <<"begin", "walk", "walk", "use", "clean", "clean", "end">>
Link     == <<"begin", "walk", "walk", "use", "clean", "clean", "end">>
RemovePath == <<"begin", "walk", "use", "more", "clean", "end">>
XattrGet == <<"begin", "walk", "more", "more", "clean", "end">>
XattrSet == <<"begin", "walk", "end", "use", "more", "clean">>
FileIO   == <<"begin", "use", "more", "end">>
FileCall == <<"begin", "use", "end">>
Lock     == <<"begin", "lock", "end">>
Close    == <<"close", "clunk", "unlock">>

\* Those of a Conn start from Conn.root, those of a File from any File.
ConnScripts == {OpenFile, Create, Mkdir, Symlink, Mknod, Rename, Link, RemovePath}
FileScripts == {Walk, Clone, XattrGet, XattrSet, FileIO, FileCall, Lock, Close}

-----------------------------------------------------------------------------
\* Both stacks of fids end with the newest.
Last(s) == s[Len(s)]
Front(s) == SubSeq(s, 1, Len(s) - 1)

Idle == [todo |-> <<>>, base |-> None, own |-> <<>>]
NoCall == [st |-> "none", fids |-> {}, new |-> 0]
NoFile == [fid |-> 0, closed |-> TRUE]

Step(g) == IF op[g].todo = <<>> THEN "idle" ELSE Head(op[g].todo)
At(g, steps) == Step(g) \in steps /\ call[g] = NoCall
Walking == {"walk", "walkOn"}
Using == {"use", "more", "lock", "unlck"}
Cleaning == {"clean", "clean1", "clunk"}

MutRetired(g) ==
  IF op[g].base = None \/ Step(g) = "clean1" THEN Head(op[g].own)
                                             ELSE file[op[g].base].fid

\* The fid a cleaning step retires.
Retired(g) ==
  CASE Step(g) = "clean"  -> Last(op[g].own)
    [] Step(g) = "clean1" -> Head(op[g].own)
    [] Step(g) = "clunk"  -> file[op[g].base].fid

Free == {f \in File : /\ file[f].closed /\ root # f
                      /\ \A g \in Caller : op[g].base # f}
Keepers == {g \in Caller : "keep" \in Range(op[g].todo)}

\* The shape of the client: fid numbers are below NoFid, the reuse stack keeps
\* within its cap, every operation is at a step of its script.
TypeOK ==
  /\ next \in 1 .. MaxFid + 1
  /\ reuse \in Seq(Fid) /\ Len(reuse) <= ReuseCap
  /\ file \in [File -> [fid : 0 .. MaxFid, closed : BOOLEAN]]
  /\ readers \in [File -> SUBSET Caller]
  /\ writer \in [File -> Caller \cup {None}]
  /\ pending \in [File -> SUBSET Caller]
  /\ root \in File \cup {None}
  /\ DOMAIN op = Caller /\ DOMAIN call = Caller
  /\ \A g \in Caller :
       /\ op[g].base \in File \cup {None}
       /\ op[g].own \in Seq(Fid)
       /\ call[g].st \in {"none", "sent", "ok", "err", "blocked"}
       /\ call[g].fids \subseteq Fid /\ call[g].new \in 0 .. MaxFid
  /\ bound \in [Fid -> {None, "cancelled", "quarantined"} \cup Caller \cup File]
  /\ late \subseteq Fid
  /\ down \in BOOLEAN

Init ==
  /\ next = 1 /\ reuse = <<>>
  /\ file = [f \in File |-> NoFile]
  /\ readers = [f \in File |-> {}] /\ pending = [f \in File |-> {}]
  /\ writer = [f \in File |-> None]
  /\ root = None
  /\ op = [g \in Caller |-> Idle] /\ call = [g \in Caller |-> NoCall]
  /\ bound = [i \in Fid |-> None]
  /\ late = {} /\ down = FALSE

Locks == <<readers, writer, pending>>
Numbers == <<next, reuse>>
Server == <<bound, late, down>>

-----------------------------------------------------------------------------
\* The allocator.

Exhausted == reuse = <<>> /\ next > MaxFid

\* acquire's number, and the allocator after it.
Acquired == IF reuse # <<>> THEN Last(reuse) ELSE next
MutAfterAcquire ==
  IF reuse # <<>> THEN reuse' = reuse /\ next' = next
                  ELSE next' = next + 1 /\ reuse' = reuse

AfterAcquire ==
  IF reuse # <<>> THEN reuse' = Front(reuse) /\ next' = next
                  ELSE next' = next + 1 /\ reuse' = reuse

Release(i) ==
  /\ reuse' = IF Len(reuse) < ReuseCap THEN Append(reuse, i) ELSE reuse
  /\ next' = next

-----------------------------------------------------------------------------
\* Moving through a script.

Goto(g, todo, own) ==
  op' = [op EXCEPT ![g] = IF todo = <<>> THEN Idle
                          ELSE [todo |-> todo, base |-> @.base, own |-> own]]
Advance(g, own) == Goto(g, Tail(op[g].todo), own)
Waiting(g) == call[g] # NoCall
Send(g, fids, new) ==
  call' = [call EXCEPT ![g] = [st |-> "sent", fids |-> fids, new |-> new]]
Done(g) == call' = [call EXCEPT ![g] = NoCall]

\* The calls deferred or made on an error path: cleanupFid of what the
\* operation has walked, then endOp if it still holds the lock.
MutUnwind(g) ==
  Goto(g, IF op[g].base # None /\ g \in readers[op[g].base] THEN <<"end">> ELSE <<>>,
       op[g].own)

Unwind(g) ==
  Goto(g, [i \in 1 .. Len(op[g].own) |-> "clean"]
            \o (IF op[g].base # None /\ g \in readers[op[g].base]
                  THEN <<"end">> ELSE <<>>),
       op[g].own)

\* A caller starts an operation.
Start(g, script, f) ==
  /\ op[g] = Idle
  /\ \/ script = Attach /\ f = None
     \/ script \in ConnScripts /\ f = root /\ f # None
     \/ script \in FileScripts /\ f # None
  /\ "keep" \in Range(script) => Cardinality(Keepers) < Cardinality(Free \ {f})
  /\ op' = [op EXCEPT ![g] = [todo |-> script, base |-> f, own |-> <<>>]]
  /\ pending' = IF script = Close THEN [pending EXCEPT ![f] = @ \cup {g}] ELSE pending
  /\ UNCHANGED <<Numbers, file, readers, writer, root, call, Server>>

MutBeginOp(g) ==
  LET f == op[g].base IN
  /\ At(g, {"begin"}) /\ writer[f] = None /\ pending[f] = {}
  /\ IF file[f].closed THEN Goto(g, <<>>, <<>>) ELSE Advance(g, op[g].own)
  /\ UNCHANGED <<Numbers, file, Locks, root, call, Server>>

\* beginOp: the RWMutex lets a waiting Close go first.
BeginOp(g) ==
  LET f == op[g].base IN
  /\ At(g, {"begin"}) /\ writer[f] = None /\ pending[f] = {}
  /\ IF file[f].closed
       THEN Goto(g, <<>>, <<>>) /\ UNCHANGED readers
       ELSE /\ readers' = [readers EXCEPT ![f] = @ \cup {g}]
            /\ Advance(g, op[g].own)
  /\ UNCHANGED <<Numbers, file, writer, pending, root, call, Server>>

EndOp(g) ==
  /\ At(g, {"end"})
  /\ readers' = [readers EXCEPT ![op[g].base] = @ \ {g}]
  /\ Advance(g, op[g].own)
  /\ UNCHANGED <<Numbers, file, writer, pending, root, call, Server>>

BaseFid(g) == IF op[g].base = None THEN {} ELSE {file[op[g].base].fid}

SendWalk(g) ==
  /\ At(g, Walking)
  /\ IF Exhausted
       THEN Unwind(g) /\ UNCHANGED <<Numbers, call>>
       ELSE /\ AfterAcquire
            /\ Send(g, IF Step(g) = "walk" THEN BaseFid(g) ELSE {Head(op[g].own)},
                    Acquired)
            /\ UNCHANGED op
  /\ UNCHANGED <<file, Locks, root, Server>>

SendUse(g) ==
  /\ At(g, Using)
  /\ Send(g, IF op[g].own = <<>> THEN BaseFid(g) ELSE Range(op[g].own), 0)
  /\ UNCHANGED <<Numbers, file, Locks, root, op, Server>>

\* A chunk loop ends.
SkipMore(g) ==
  /\ At(g, {"more"})
  /\ Advance(g, op[g].own)
  /\ UNCHANGED <<Numbers, file, Locks, root, call, Server>>

\* cleanupFid sends its Tclunk.
SendClean(g) ==
  /\ At(g, Cleaning)
  /\ Send(g, {Retired(g)}, 0)
  /\ UNCHANGED <<Numbers, file, Locks, root, op, Server>>

-----------------------------------------------------------------------------
\* The server, as the client sees it: it refuses a request on an unbound fid
\* and a walk onto a bound one, and a Tclunk unbinds its fid even if it fails.

Known(fids) == \A i \in fids : bound[i] # None

Outcome(g, r) == call' = [call EXCEPT ![g].st = r]

Serve(g) ==
  /\ call[g].st = "sent" /\ ~down
  /\ CASE Step(g) \in Walking ->
            \/ Outcome(g, "err") /\ UNCHANGED bound
            \/ /\ Known(call[g].fids) /\ bound[call[g].new] = None
               /\ Outcome(g, "ok") /\ bound' = [bound EXCEPT ![call[g].new] = g]
       [] Step(g) \in Using ->
            /\ \/ Outcome(g, "err")
               \/ Known(call[g].fids) /\ Outcome(g, "ok")
               \/ Step(g) = "lock" /\ Known(call[g].fids) /\ Outcome(g, "blocked")
            /\ UNCHANGED bound
       [] Step(g) \in Cleaning ->
            /\ \/ Outcome(g, "err")
               \/ Known(call[g].fids) /\ Outcome(g, "ok")
            /\ bound' = [bound EXCEPT ![Retired(g)] = None]
  /\ UNCHANGED <<Numbers, file, Locks, root, op, late, down>>

\* A Tclunk whose caller has given up reaches the server.
ServeLate(i) ==
  /\ i \in late /\ ~down
  /\ bound' = [bound EXCEPT ![i] = None]
  /\ late' = late \ {i}
  /\ UNCHANGED <<Numbers, file, Locks, root, op, call, down>>

\* The connection shuts down: the server drops its fids, calls get ErrClosed.
Shutdown ==
  /\ ~down /\ down' = TRUE
  /\ bound' = [i \in Fid |-> None] /\ late' = {}
  /\ UNCHANGED <<Numbers, file, Locks, root, op, call>>

-----------------------------------------------------------------------------
\* Calls return.

Succeeds(g) == call[g].st = "ok"
Fails(g) == Waiting(g) /\ (call[g].st = "err" \/ down)

WalkReturns(g) ==
  /\ Step(g) \in Walking /\ Succeeds(g)
  /\ Advance(g, Append(op[g].own, call[g].new))
  /\ Done(g)
  /\ UNCHANGED <<Numbers, file, Locks, root, Server>>

\* A server error, a partial walk or ErrClosed: the new fid is not bound.
WalkFails(g) ==
  /\ Step(g) \in Walking /\ Fails(g)
  /\ Release(call[g].new)
  /\ Unwind(g) /\ Done(g)
  /\ UNCHANGED <<file, Locks, root, Server>>

UseReturns(g) ==
  /\ Step(g) \in Using /\ Succeeds(g)
  /\ Advance(g, op[g].own)
  /\ Done(g)
  /\ UNCHANGED <<Numbers, file, Locks, root, Server>>

UseFails(g) ==
  /\ Step(g) \in Using /\ Fails(g)
  /\ Unwind(g) /\ Done(g)
  /\ UNCHANGED <<Numbers, file, Locks, root, Server>>

\* The caller's context is done: exchange flushes the request and returns an
\* error, whether the server has run it or not.
CancelWalk(g) ==
  /\ Step(g) \in Walking /\ Waiting(g)
  /\ Release(call[g].new)
  /\ bound' = IF Succeeds(g) /\ bound[call[g].new] = g
                THEN [bound EXCEPT ![call[g].new] = "cancelled"] ELSE bound
  /\ Unwind(g) /\ Done(g)
  /\ UNCHANGED <<file, Locks, root, late, down>>

CancelUse(g) ==
  /\ Step(g) \in Using /\ Waiting(g)
  /\ IF Step(g) = "lock" THEN Goto(g, <<"unlck", "end">>, <<>>) ELSE Unwind(g)
  /\ Done(g)
  /\ UNCHANGED <<Numbers, file, Locks, root, Server>>

\* Lock was refused for now: it polls again after a pause, or gives up.
LockBlocked(g) ==
  /\ Step(g) = "lock" /\ call[g].st = "blocked"
  /\ Goto(g, <<"backoff">> \o op[g].todo, <<>>)
  /\ Done(g)
  /\ UNCHANGED <<Numbers, file, Locks, root, Server>>

Backoff(g) ==
  /\ At(g, {"backoff"})
  /\ Advance(g, <<>>) \/ Goto(g, <<"unlck", "end">>, <<>>)
  /\ UNCHANGED <<Numbers, file, Locks, root, call, Server>>

OwnAfterClean(g) ==
  CASE Step(g) = "clean"  -> Front(op[g].own)
    [] Step(g) = "clean1" -> Tail(op[g].own)
    [] Step(g) = "clunk"  -> <<>>

\* cleanupFid: an answer, good or bad, or ErrClosed frees the number.
CleanReturns(g) ==
  /\ Step(g) \in Cleaning /\ (Succeeds(g) \/ Fails(g))
  /\ Release(Retired(g))
  /\ Advance(g, OwnAfterClean(g)) /\ Done(g)
  /\ UNCHANGED <<file, Locks, root, Server>>

MutCleanTimeout(g) ==
  LET i == Retired(g) IN
  /\ Step(g) \in Cleaning /\ Waiting(g)
  /\ late' = IF call[g].st = "sent" THEN late \cup {i} ELSE late
  /\ bound' = [bound EXCEPT ![i] = IF @ = None THEN None ELSE "quarantined"]
  /\ Release(i)
  /\ Advance(g, OwnAfterClean(g)) /\ Done(g)
  /\ UNCHANGED <<file, Locks, root, down>>

\* cleanupTimeout: the number is given up, and the Tclunk, if it was sent,
\* may still arrive.
CleanTimeout(g) ==
  LET i == Retired(g) IN
  /\ Step(g) \in Cleaning /\ Waiting(g)
  /\ \/ late' = late
     \/ call[g].st = "sent" /\ ~down /\ late' = late \cup {i}
  /\ bound' = [bound EXCEPT ![i] = IF @ = None THEN None ELSE "quarantined"]
  /\ Advance(g, OwnAfterClean(g)) /\ Done(g)
  /\ UNCHANGED <<Numbers, file, Locks, root, down>>

-----------------------------------------------------------------------------
\* newFile; Attach also makes the File the Conn's root.
Keep(g) ==
  LET f == CHOOSE f \in Free : TRUE
      i == Head(op[g].own) IN
  /\ At(g, {"keep"}) /\ Free # {}
  /\ file' = [file EXCEPT ![f] = [fid |-> i, closed |-> FALSE]]
  /\ bound' = IF bound[i] = g THEN [bound EXCEPT ![i] = f] ELSE bound
  /\ root' = IF op[g].base = None THEN f ELSE root
  /\ Advance(g, <<>>)
  /\ UNCHANGED <<Numbers, Locks, call, late, down>>

\* Close takes the lifecycle lock; only the first one clunks.
CloseLock(g) ==
  LET f == op[g].base IN
  /\ At(g, {"close"}) /\ readers[f] = {} /\ writer[f] = None
  /\ writer' = [writer EXCEPT ![f] = g]
  /\ pending' = [pending EXCEPT ![f] = @ \ {g}]
  /\ file' = [file EXCEPT ![f].closed = TRUE]
  /\ Goto(g, IF file[f].closed THEN <<"unlock">> ELSE <<"clunk", "unlock">>, <<>>)
  /\ UNCHANGED <<Numbers, readers, root, call, Server>>

CloseUnlock(g) ==
  /\ At(g, {"unlock"})
  /\ writer' = [writer EXCEPT ![op[g].base] = None]
  /\ file' = [file EXCEPT ![op[g].base] = NoFile]
  /\ Advance(g, <<>>)
  /\ UNCHANGED <<Numbers, readers, pending, root, call, Server>>

-----------------------------------------------------------------------------
CallerStep(g) ==
  \/ BeginOp(g) \/ EndOp(g) \/ SendWalk(g) \/ SendUse(g) \/ SkipMore(g)
  \/ SendClean(g) \/ WalkReturns(g) \/ WalkFails(g) \/ UseReturns(g)
  \/ UseFails(g) \/ LockBlocked(g) \/ Backoff(g) \/ CleanReturns(g) \/ Keep(g)
  \/ CloseLock(g) \/ CloseUnlock(g)

CallEnds(g) == Serve(g) \/ CancelWalk(g) \/ CancelUse(g) \/ CleanTimeout(g)

Next ==
  \/ \E g \in Caller : CallerStep(g) \/ CallEnds(g)
  \/ \E g \in Caller, script \in {Attach} \cup ConnScripts \cup FileScripts,
        f \in File \cup {None} : Start(g, script, f)
  \/ \E i \in Fid : ServeLate(i)
  \/ Shutdown

Spec == Init /\ [][Next]_vars

-----------------------------------------------------------------------------
(* Properties *)

\* Numbers an operation holds: its walked fids and the one being walked onto.
Held(g) == Range(op[g].own) \cup ({call[g].new} \ {0})
Open(f) == ~file[f].closed
Closing(f) == writer[f] # None /\ Step(writer[f]) = "clunk"

\* A fid number has one user: an entry of the reuse stack, an operation, a File
\* not yet clunked; fresh numbers have none.
FidOwnedOnce ==
  /\ IsInjective(reuse)
  /\ \A g \in Caller :
       /\ IsInjective(op[g].own) /\ call[g].new \notin Range(op[g].own)
       /\ Held(g) \cap Range(reuse) = {}
       /\ \A h \in Caller \ {g} : Held(g) \cap Held(h) = {}
  /\ \A f \in File : Open(f) \/ Closing(f) =>
       /\ file[f].fid \notin Range(reuse)
       /\ \A g \in Caller : file[f].fid \notin Held(g)
       /\ \A e \in File \ {f} : Open(e) \/ Closing(e) => file[e].fid # file[f].fid
  /\ \A i \in next .. MaxFid : i \notin Range(reuse) /\ \A g \in Caller : i \notin Held(g)

\* No request in flight names a number that the allocator may hand out: Close
\* waits for the operations using the File (Lock's poll and its unlockCleanup
\* included), and an unconfirmed Tclunk keeps its number out of the pool.
NoUseAfterRelease ==
  /\ \A g \in Caller : Waiting(g) => call[g].fids \cap Range(reuse) = {}
  /\ late \cap Range(reuse) = {}

\* A File stays bound to what its own walk reached, and an operation's fids to
\* what it walked: nobody else's walk, clunk or late Tclunk touches them.
OwnBinding ==
  ~down =>
    /\ \A f \in File : Open(f) => bound[file[f].fid] = f
    /\ \A g \in Caller : \A i \in Range(op[g].own) :
         bound[i] = g \/ (Step(g) \in Cleaning /\ i \in call[g].fids)

\* A fid has one user, and at the server it is what that user walked to.
FidOwned == FidOwnedOnce /\ OwnBinding

\* Every fid the server holds has a user that will clunk it, unless its walk
\* was cancelled or its clunk went unconfirmed: no error path forgets a fid.
NoFidLeakUnlessUnconfirmed ==
  \A i \in Fid :
    /\ bound[i] \in Caller => i \in Held(bound[i])
    /\ bound[i] \in File => /\ file[bound[i]].fid = i
                            /\ Open(bound[i]) \/ Closing(bound[i])

\* A number in the pool is unbound at the server, unless the walk that bound it
\* was cancelled.
ReleasedMeansUnboundUnlessCancelled ==
  \A i \in Range(reuse) : bound[i] \in {None, "cancelled"}

\* "callers MUST release AFTER the server-side Tclunk response is received,
\* never before" (fidAllocator): what may be handed out is not in use any more.
ReleasedIsIdleUnlessCancelled == NoUseAfterRelease /\ ReleasedMeansUnboundUnlessCancelled
=============================================================================
