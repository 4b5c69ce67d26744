---------------------------- MODULE InflightMap ----------------------------
(***************************************************************************)
(* The server's table of in-flight requests (server/flush.go).  Each       *)
(* operator below is one method of inflightMap, which runs under im.mu and *)
(* is therefore atomic: it maps the table before the call to the table     *)
(* after it.                                                               *)
(*                                                                         *)
(* An entry's done channel is represented by the set of Tflush handlers    *)
(* that were handed it; {} is the nil channel.  The drained channel is the *)
(* set of callers of waitWithDeadline parked on it, and woken collects the *)
(* callers whose channel has been closed.                                  *)
(***************************************************************************)
EXTENDS Integers, FiniteSets

CONSTANTS Tag,      \* request tags
          Ctx,      \* *requestCtx pointers
          Nil,      \* the nil *requestCtx
          Flush,    \* handleFlush calls, the possible waiters on a done channel
          Drainer   \* callers of waitWithDeadline

ASSUME NilAssumption == Nil \notin Ctx

ASSUME FiniteTags == IsFiniteSet(Tag)

Entry == [ctx : Ctx \cup {Nil}, done : SUBSET Flush, committed : BOOLEAN]

\* What a Go map yields for an absent key.
ZeroEntry == [ctx |-> Nil, done |-> {}, committed |-> FALSE]

InflightMaps == [tags    : SUBSET Tag,
                 entry   : [Tag -> Entry],
                 count   : Int,
                 drained : SUBSET Drainer,
                 woken   : SUBSET Drainer]

newInflightMap == [tags |-> {}, entry |-> [t \in Tag |-> ZeroEntry],
                   count |-> 0, drained |-> {}, woken |-> {}]

(***************************************************************************)
(* start: refused for a tag whose request has not committed; a committed   *)
(* entry is replaced and the waiters of its done channel are released.     *)
(***************************************************************************)
StartAllows(im, t) == t \in im.tags => im.entry[t].committed

MutStartLosesWaiters(im, t) == {}
StartReleases(im, t) == im.entry[t].done

MutStartKeepsDone(im, t, c) ==
    [tags    |-> im.tags \cup {t},
     entry   |-> [im.entry EXCEPT ![t] = [ctx |-> c, done |-> im.entry[t].done,
                                          committed |-> FALSE]],
     count   |-> IF t \in im.tags THEN im.count ELSE im.count + 1,
     drained |-> im.drained, woken |-> im.woken]
MutStartCountsTwice(im, t, c) ==
    [tags    |-> im.tags \cup {t},
     entry   |-> [im.entry EXCEPT ![t] = [ctx |-> c, done |-> {}, committed |-> FALSE]],
     count   |-> im.count + 1,
     drained |-> im.drained, woken |-> im.woken]
Start(im, t, c) ==
    [tags    |-> im.tags \cup {t},
     entry   |-> [im.entry EXCEPT ![t] = [ctx |-> c, done |-> {}, committed |-> FALSE]],
     count   |-> IF t \in im.tags THEN im.count ELSE im.count + 1,
     drained |-> im.drained, woken |-> im.woken]

(***************************************************************************)
(* remove (called by finish) and completeCommit delete the entry and       *)
(* signal the drain channel when the last request leaves.  Each returns    *)
(* the done channel for its caller to close outside the lock.              *)
(***************************************************************************)
Remove(im, t) ==
    [tags    |-> im.tags \ {t},
     entry   |-> [im.entry EXCEPT ![t] = ZeroEntry],
     count   |-> im.count - 1,
     drained |-> IF im.count = 1 THEN {} ELSE im.drained,
     woken   |-> IF im.count = 1 THEN im.woken \cup im.drained ELSE im.woken]

DoneOf(im, t) == im.entry[t].done

MutCommitRemoves(im, t) == Remove(im, t)
Commit(im, t) ==
    [tags    |-> im.tags \cup {t},
     entry   |-> [im.entry EXCEPT ![t] = [ctx |-> im.entry[t].ctx, done |-> im.entry[t].done,
                                          committed |-> TRUE]],
     count   |-> im.count,
     drained |-> im.drained, woken |-> im.woken]

MutOwnsEntry(im, t, c) == t \in im.tags
OwnsEntry(im, t, c) == t \in im.tags /\ im.entry[t].ctx = c

CompleteCommit(im, t, c) == IF OwnsEntry(im, t, c) THEN Remove(im, t) ELSE im

CompleteDone(im, t, c) == IF OwnsEntry(im, t, c) THEN DoneOf(im, t) ELSE {}

(***************************************************************************)
(* flushWait: nil for an unknown tag; otherwise the caller joins the       *)
(* entry's done channel.  The request's context is cancelled by the caller *)
(* of this operator, which owns the contexts.                              *)
(***************************************************************************)
FlushWait(im, t, f) ==
    IF t \notin im.tags
    THEN im
    ELSE [tags    |-> im.tags,
          entry   |-> [im.entry EXCEPT ![t] = [ctx       |-> im.entry[t].ctx,
                                               done      |-> im.entry[t].done \cup {f},
                                               committed |-> im.entry[t].committed]],
          count   |-> im.count,
          drained |-> im.drained, woken |-> im.woken]

\* cancelAll: the contexts it cancels.
CancelAll(im) == {im.entry[t].ctx : t \in im.tags}

(***************************************************************************)
(* waitWithDeadline: a caller that finds requests in flight parks on the   *)
(* drained channel, otherwise it returns at once.                          *)
(***************************************************************************)
DrainChan(im, d) ==
    IF im.count = 0 THEN [im EXCEPT !.woken = @ \cup {d}]
                    ELSE [im EXCEPT !.drained = @ \cup {d}, !.woken = @ \ {d}]

\* The bookkeeping that drain and cleanup rely on: count is the number of
\* entries of the map.
CountExact(im) == im.count = Cardinality(im.tags)

\* A caller parked on the drained channel is never left behind: while it is
\* parked, requests are in flight.
DrainersHaveWork(im) == im.drained # {} => im.tags # {}
=============================================================================
