-------------------------- MODULE ServerConnProofs --------------------------
(***************************************************************************)
(* Proofs about ServerConn for any number of goroutines, tags and frames   *)
(* and every cap.  Three inductive invariants: of the pool of goroutines,  *)
(* of the table, which is independent of it, and of the sweeps of          *)
(* handleReVersion and cleanup, which rest on both.                        *)
(***************************************************************************)
EXTENDS ServerConn, FiniteSetTheorems, TLAPS

USE Zenon   \* a leaf that needs arithmetic or long case splits names SMT

-----------------------------------------------------------------------------
(* What each method of inflightMap preserves *)

\* start maps a table to a table.
LEMMA StartType ==
    ASSUME NEW m \in InflightMaps, NEW t \in Tag, NEW c \in Ctx
    PROVE  Start(m, t, c) \in InflightMaps
BY SMT DEF Start, InflightMaps, Entry

\* remove maps a table to a table.
LEMMA RemoveType ==
    ASSUME NEW m \in InflightMaps, NEW t \in Tag
    PROVE  Remove(m, t) \in InflightMaps
BY SMT DEF Remove, InflightMaps, Entry, ZeroEntry

\* commit maps a table to a table.
LEMMA CommitType ==
    ASSUME NEW m \in InflightMaps, NEW t \in Tag
    PROVE  Commit(m, t) \in InflightMaps
BY DEF Commit, InflightMaps, Entry

\* flushWait maps a table to a table.
LEMMA FlushWaitType ==
    ASSUME NEW m \in InflightMaps, NEW t \in Tag, NEW f \in Flush
    PROVE  FlushWait(m, t, f) \in InflightMaps
BY DEF FlushWait, InflightMaps, Entry

\* The set of tags of a table is finite.
LEMMA TagsFinite ==
    ASSUME NEW m \in InflightMaps
    PROVE  IsFiniteSet(m.tags) /\ Cardinality(m.tags) \in Nat
BY FiniteTags, FS_Subset, FS_CardinalityType DEF InflightMaps

\* start counts a new tag once and a replaced one not at all.
LEMMA StartCount ==
    ASSUME NEW m \in InflightMaps, NEW t \in Tag, NEW c \in Ctx, CountExact(m)
    PROVE  CountExact(Start(m, t, c))
<1>1. Start(m, t, c).tags = m.tags \cup {t}
  BY DEF Start, InflightMaps
<1>2. Start(m, t, c).count = IF t \in m.tags THEN m.count ELSE m.count + 1
  BY DEF Start, InflightMaps
<1>3. CASE t \in m.tags
  <2>1. m.tags \cup {t} = m.tags
    BY <1>3
  <2> QED
    BY <1>1, <1>2, <1>3, <2>1 DEF CountExact
<1>4. CASE t \notin m.tags
  <2>1. Cardinality(m.tags \cup {t}) = Cardinality(m.tags) + 1
    BY <1>4, TagsFinite, FS_AddElement
  <2> QED
    BY <1>1, <1>2, <1>4, <2>1 DEF CountExact
<1> QED
  BY <1>3, <1>4

\* Removing an entry that is there keeps the count exact.
LEMMA RemoveCount ==
    ASSUME NEW m \in InflightMaps, NEW t \in m.tags, CountExact(m)
    PROVE  CountExact(Remove(m, t))
<1>1. /\ Remove(m, t).tags = m.tags \ {t}
      /\ Remove(m, t).count = m.count - 1
  BY DEF Remove, InflightMaps
<1>2. Cardinality(m.tags \ {t}) = Cardinality(m.tags) - 1
  BY TagsFinite, FS_RemoveElement
<1> QED
  BY <1>1, <1>2 DEF CountExact

\* The table after start, entry by entry.
LEMMA StartFields ==
    ASSUME NEW m \in InflightMaps, NEW t \in Tag, NEW c \in Ctx
    PROVE  /\ Start(m, t, c).tags = m.tags \cup {t}
           /\ \A u \in Tag : Start(m, t, c).entry[u] =
                IF u = t THEN [ctx |-> c, done |-> {}, committed |-> FALSE] ELSE m.entry[u]
BY DEF Start, InflightMaps

\* The table after remove, entry by entry.
LEMMA RemoveFields ==
    ASSUME NEW m \in InflightMaps, NEW t \in Tag
    PROVE  /\ Remove(m, t).tags = m.tags \ {t}
           /\ \A u \in Tag : Remove(m, t).entry[u] =
                IF u = t THEN ZeroEntry ELSE m.entry[u]
BY DEF Remove, InflightMaps

\* The table after commit, entry by entry.
LEMMA CommitFields ==
    ASSUME NEW m \in InflightMaps, NEW t \in Tag
    PROVE  /\ Commit(m, t).tags = m.tags \cup {t}
           /\ Commit(m, t).count = m.count
           /\ \A u \in Tag : /\ Commit(m, t).entry[u].ctx = m.entry[u].ctx
                             /\ Commit(m, t).entry[u].done = m.entry[u].done
                             /\ u # t => Commit(m, t).entry[u] = m.entry[u]
BY DEF Commit, InflightMaps

\* The table after flushWait, entry by entry.
LEMMA FlushWaitFields ==
    ASSUME NEW m \in InflightMaps, NEW t \in Tag, NEW f \in Flush
    PROVE  /\ FlushWait(m, t, f).tags = m.tags
           /\ FlushWait(m, t, f).count = m.count
           /\ \A u \in Tag :
                /\ FlushWait(m, t, f).entry[u].ctx = m.entry[u].ctx
                /\ FlushWait(m, t, f).entry[u].committed = m.entry[u].committed
                /\ FlushWait(m, t, f).entry[u].done =
                     IF u = t /\ t \in m.tags THEN m.entry[u].done \cup {f}
                                              ELSE m.entry[u].done
BY DEF FlushWait, InflightMaps

\* The last removal releases the parked drainers, and only the last one may.
LEMMA RemoveDrain ==
    ASSUME NEW m \in InflightMaps, NEW t \in m.tags, CountExact(m), DrainersHaveWork(m)
    PROVE  DrainersHaveWork(Remove(m, t))
<1>1. /\ Remove(m, t).tags = m.tags \ {t}
      /\ Remove(m, t).drained = IF m.count = 1 THEN {} ELSE m.drained
  BY DEF Remove, InflightMaps
<1>2. m.tags \ {t} = {} => m.count = 1
  <2>1. Cardinality(m.tags \ {t}) = Cardinality(m.tags) - 1
    BY TagsFinite, FS_RemoveElement
  <2>2. m.tags \ {t} = {} => Cardinality(m.tags \ {t}) = 0
    BY FS_EmptySet
  <2>3. Cardinality(m.tags) \in Nat /\ m.count = Cardinality(m.tags)
    BY TagsFinite DEF CountExact
  <2> QED
    BY <2>1, <2>2, <2>3, SMT
<1> QED
  BY <1>1, <1>2 DEF DrainersHaveWork

\* A caller of waitWithDeadline parks only where something is left to drain.
LEMMA DrainChanFields ==
    ASSUME NEW m \in InflightMaps, NEW d \in Drainer, CountExact(m), DrainersHaveWork(m)
    PROVE  /\ DrainChan(m, d) \in InflightMaps
           /\ DrainChan(m, d).tags = m.tags
           /\ DrainChan(m, d).entry = m.entry
           /\ DrainChan(m, d).count = m.count
           /\ DrainersHaveWork(DrainChan(m, d))
           /\ \A e \in Drainer \ {d} : e \in DrainChan(m, d).woken <=> e \in m.woken
           /\ d \in DrainChan(m, d).woken <=> m.count = 0
           /\ m.count = 0 => m.tags = {}
<1>1. /\ DrainChan(m, d) \in InflightMaps
      /\ DrainChan(m, d).tags = m.tags
      /\ DrainChan(m, d).entry = m.entry
      /\ DrainChan(m, d).count = m.count
      /\ DrainChan(m, d).drained = IF m.count = 0 THEN m.drained ELSE m.drained \cup {d}
      /\ \A e \in Drainer \ {d} : e \in DrainChan(m, d).woken <=> e \in m.woken
      /\ d \in DrainChan(m, d).woken <=> m.count = 0
  BY DEF DrainChan, InflightMaps
<1>2. m.count = 0 <=> m.tags = {}
  BY TagsFinite, FS_EmptySet DEF CountExact
<1> QED
  BY <1>1, <1>2 DEF DrainersHaveWork

-----------------------------------------------------------------------------
(* The pool *)

\* The positions of the goroutine that has recvMu.
Holding == {"reading"} \cup Renegotiating

Parked == {w \in Worker : pc[w] = "parked"}

\* recvMu is held by the goroutine that reads or renegotiates, recvIdle and
\* workerCount are exact, and the pipeline does not run dry.
PoolInv ==
  /\ pc \in [Worker -> PCs] /\ recvMu \in Worker \cup {Free}
  /\ \A w \in Worker : recvMu = w <=> pc[w] \in Holding
  /\ recvIdle = Cardinality(Parked)
  /\ WorkerCap /\ ReaderOrCap

\* Sets of goroutines can be counted.
LEMMA WorkersFinite ==
  /\ IsFiniteSet(Live) /\ Cardinality(Live) \in Nat
  /\ IsFiniteSet(Parked) /\ Cardinality(Parked) \in Nat
BY WorkerAssumption, FS_Subset, FS_CardinalityType DEF Live, Parked

\* The goroutine that serve starts is the pool.
LEMMA PoolInit == Init => PoolInv
<1> SUFFICES ASSUME Init PROVE PoolInv
  OBVIOUS
<1>1. PICK w \in Worker : pc = [v \in Worker |-> IF v = w THEN "loop" ELSE "unborn"]
  BY DEF Init
<1>2. Live = {w} /\ Parked = {}
  BY <1>1 DEF Live, Parked
<1>3. Cardinality(Live) = 1 /\ Cardinality(Parked) = 0
  BY <1>2, FS_Singleton, FS_EmptySet
<1>4. WorkerCap /\ recvIdle = Cardinality(Parked)
  BY <1>3, MaxInflightAssumption, SMT DEF Init, WorkerCap
<1>5. ReaderOrCap
  BY <1>1 DEF ReaderOrCap, Receiving
<1>6. /\ pc \in [Worker -> PCs] /\ recvMu \in Worker \cup {Free}
      /\ \A v \in Worker : recvMu = v <=> pc[v] \in Holding
  BY <1>1, WorkerAssumption DEF Init, PCs, Receiving, Holding, Renegotiating
<1> QED
  BY <1>4, <1>5, <1>6 DEF PoolInv

\* A goroutine goes on without joining, leaving or parking; it gives recvMu back if
\* it goes on without it.
LEMMA PoolMove ==
  ASSUME PoolInv, NEW w \in Worker, NEW l \in PCs, pc' = [pc EXCEPT ![w] = l],
         UNCHANGED <<recvIdle, workerCount, recvShutdown>>,
         pc[w] \notin {"unborn", "gone", "parked"}, l \notin {"unborn", "gone", "parked"},
         l \in Holding => pc[w] \in Holding,
         recvMu' = IF pc[w] \in Holding /\ l \notin Holding THEN Free ELSE recvMu,
         pc[w] \in Receiving \cup Renegotiating => l \in Receiving \cup Renegotiating
  PROVE  PoolInv'
<1>1. Live' = Live /\ Parked' = Parked
  BY DEF Live, Parked, PoolInv
<1>2. WorkerCap' /\ recvIdle' = Cardinality(Parked')
  BY <1>1 DEF PoolInv, WorkerCap
<1>3. ReaderOrCap'
  BY DEF PoolInv, ReaderOrCap
<1>4. /\ pc' \in [Worker -> PCs] /\ recvMu' \in Worker \cup {Free}
      /\ \A v \in Worker : recvMu' = v <=> pc'[v] \in Holding
  BY WorkerAssumption DEF PoolInv
<1> QED
  BY <1>2, <1>3, <1>4 DEF PoolInv

\* A goroutine leaves, when the receive path is shut down.
LEMMA PoolExit ==
  ASSUME PoolInv, NEW w \in Worker, Exit(w), recvShutdown', UNCHANGED recvIdle,
         pc[w] \notin {"unborn", "gone", "parked"},
         recvMu' = IF pc[w] \in Holding THEN Free ELSE recvMu
  PROVE  PoolInv'
<1>1. w \in Live /\ Live' = Live \ {w} /\ Parked' = Parked
  BY DEF Live, Parked, PoolInv, Exit, Goto
<1>2. Cardinality(Live') = Cardinality(Live) - 1
  BY <1>1, WorkersFinite, FS_RemoveElement
<1>3. WorkerCap' /\ recvIdle' = Cardinality(Parked')
  BY <1>1, <1>2, WorkersFinite, MaxInflightAssumption, SMT DEF PoolInv, WorkerCap, Exit
<1>4. /\ pc' \in [Worker -> PCs] /\ recvMu' \in Worker \cup {Free}
      /\ \A v \in Worker : recvMu' = v <=> pc'[v] \in Holding
  BY WorkerAssumption DEF PoolInv, Exit, Goto, PCs, Holding, Renegotiating
<1> QED
  BY <1>3, <1>4 DEF PoolInv, ReaderOrCap

\* A goroutine parks, or gets recvMu.
LEMMA PoolPark ==
  ASSUME PoolInv, NEW w \in Worker, Park(w) \/ Acquire(w)
  PROVE  PoolInv'
<1>1. CASE Park(w)
  <2>1. w \notin Parked /\ Parked' = Parked \cup {w} /\ Live' = Live
    BY <1>1 DEF Live, Parked, PoolInv, Park, Goto
  <2>2. Cardinality(Parked') = Cardinality(Parked) + 1
    BY <2>1, WorkersFinite, FS_AddElement
  <2>3. WorkerCap' /\ recvIdle' = Cardinality(Parked')
    BY <1>1, <2>1, <2>2 DEF PoolInv, WorkerCap, Park
  <2>4. ReaderOrCap'
    BY <1>1 DEF PoolInv, ReaderOrCap, Park, Goto, Receiving
  <2> QED
    BY <1>1, <2>3, <2>4 DEF PoolInv, Park, Goto, PCs, Receiving, Holding, Renegotiating
<1>2. CASE Acquire(w)
  <2>1. w \in Parked /\ Parked' = Parked \ {w} /\ Live' = Live
    BY <1>2 DEF Live, Parked, PoolInv, Acquire, Goto
  <2>2. Cardinality(Parked') = Cardinality(Parked) - 1
    BY <2>1, WorkersFinite, FS_RemoveElement
  <2>3. WorkerCap' /\ recvIdle' = Cardinality(Parked')
    BY <1>2, <2>1, <2>2 DEF PoolInv, WorkerCap, Acquire
  <2>4. ReaderOrCap'
    BY <1>2 DEF PoolInv, ReaderOrCap, Acquire, Goto, Receiving
  <2> QED
    BY <1>2, <2>3, <2>4, WorkerAssumption
    DEF PoolInv, Acquire, Goto, PCs, Receiving, Holding, Renegotiating
<1> QED
  BY <1>1, <1>2

\* Where a frame leads to.
LEMMA AfterType ==
  \A k \in Kinds : /\ After[k] \in {"decoded", "flushing", "cancelling", "replying", "failing"}
                   /\ After[k] = "cancelling" <=> k = "version"
                   /\ k \in {"request", "flush", "version", "unknown", "garbled"}
BY SMT DEF Kinds, After

\* A frame: the reader hands on, to a goroutine that is parked or to a new one, or
\* the cap is reached; a Tversion keeps recvMu.
LEMMA PoolRead ==
  ASSUME PoolInv, NEW w \in Worker, NEW k \in Kinds, NEW t \in Tag, ReadFrame(w, k, t)
  PROVE  PoolInv'
<1> USE WorkerAssumption, MaxInflightAssumption
<1>0. /\ After[k] \in PCs /\ After[k] \notin {"unborn", "gone", "parked", "loop", "reading"}
      /\ After[k] \in Holding <=> k = "version"
      /\ k = "version" => After[k] \in Renegotiating
  BY AfterType DEF PCs, Receiving, Holding, Renegotiating
<1>1. /\ pc[w] = "reading" /\ UNCHANGED <<recvIdle, recvShutdown>>
      /\ recvMu' = IF k = "version" THEN w ELSE Free
  BY DEF ReadFrame, KeepsLock
<1>2. pc[w] \in Holding /\ recvMu = w
  BY <1>1 DEF PoolInv, Holding
<1>3. CASE NeedsSuccessor(k)
  <2>1. PICK v \in Worker : pc[v] = "unborn" /\ pc' = [pc EXCEPT ![w] = After[k], ![v] = "loop"]
    BY <1>3 DEF ReadFrame
  <2>2. workerCount' = workerCount + 1 /\ k # "version" /\ workerCount < MaxInflight
    BY <1>3 DEF ReadFrame, NeedsSuccessor
  <2>3. \A u \in Worker : pc'[u] = IF u = v THEN "loop" ELSE IF u = w THEN After[k] ELSE pc[u]
    BY <1>1, <2>1 DEF PoolInv
  <2>4. v \notin Live /\ Live' = Live \cup {v} /\ Parked' = Parked
    <3>1. ASSUME NEW u \in Worker \ {v}
          PROVE  /\ pc'[u] \in {"unborn", "gone"} <=> pc[u] \in {"unborn", "gone"}
                 /\ pc'[u] = "parked" <=> pc[u] = "parked"
      <4>1. CASE u = w
        BY <1>0, <1>1, <2>3, <4>1
      <4>2. CASE u # w
        BY <2>3, <4>2
      <4> QED
        BY <4>1, <4>2
    <3>2. pc'[v] = "loop"
      BY <2>3
    <3> QED
      BY <2>1, <2>3, <3>1, <3>2 DEF Live, Parked
  <2>5. Cardinality(Live') = Cardinality(Live) + 1
    BY <2>4, WorkersFinite, FS_AddElement
  <2>6. WorkerCap' /\ recvIdle' = Cardinality(Parked')
    BY <1>1, <2>2, <2>4, <2>5, WorkersFinite, SMT DEF PoolInv, WorkerCap
  <2>7. ReaderOrCap'
    BY <2>3 DEF ReaderOrCap, Receiving
  <2>8. /\ pc' \in [Worker -> PCs] /\ recvMu' \in Worker \cup {Free}
        /\ \A u \in Worker : recvMu' = u <=> pc'[u] \in Holding
    <3>1. "loop" \in PCs /\ "loop" \notin Holding
      BY DEF PCs, Receiving, Holding, Renegotiating
    <3> QED
      BY <1>0, <1>1, <1>2, <2>1, <2>2, <2>3, <3>1 DEF PoolInv
  <2> QED
    BY <2>6, <2>7, <2>8 DEF PoolInv
<1>4. CASE ~NeedsSuccessor(k)
  <2>1. pc' = [pc EXCEPT ![w] = After[k]] /\ UNCHANGED workerCount
    BY <1>4 DEF ReadFrame, Goto
  <2>2. Live' = Live /\ Parked' = Parked
    BY <1>0, <1>1, <2>1 DEF Live, Parked, PoolInv
  <2>3. WorkerCap' /\ recvIdle' = Cardinality(Parked')
    BY <1>1, <2>1, <2>2 DEF PoolInv, WorkerCap
  <2>4. ReaderOrCap'
    <3>1. CASE k = "version"
      BY <1>0, <2>1, <3>1 DEF ReaderOrCap, PoolInv
    <3>2. CASE recvIdle # 0
      <4>1. Parked' # {}
        BY <2>2, <3>2, FS_EmptySet DEF PoolInv
      <4> QED
        BY <4>1 DEF Parked, ReaderOrCap, Receiving
    <3>3. CASE ~(workerCount < MaxInflight)
      BY <2>1, <3>3, WorkersFinite, SMT DEF PoolInv, WorkerCap, ReaderOrCap
    <3> QED
      BY <1>4, <3>1, <3>2, <3>3 DEF NeedsSuccessor
  <2>5. /\ pc' \in [Worker -> PCs] /\ recvMu' \in Worker \cup {Free}
        /\ \A u \in Worker : recvMu' = u <=> pc'[u] \in Holding
    BY <1>0, <1>1, <1>2, <2>1 DEF PoolInv
  <2> QED
    BY <2>3, <2>4, <2>5 DEF PoolInv
<1> QED
  BY <1>3, <1>4

\* One step of any goroutine or of serve keeps the pool's invariant.
LEMMA PoolStep == PoolInv /\ [Next]_vars => PoolInv'
<1> SUFFICES ASSUME PoolInv, [Next]_vars PROVE PoolInv'
  OBVIOUS
<1> USE DEF Receiving, Renegotiating, Holding, PCs, Dispatching
<1>1. CASE UNCHANGED vars
  BY <1>1 DEF vars, pool, PoolInv, WorkerCap, ReaderOrCap, Live, Parked
<1>2. ASSUME NEW w \in Worker,
             \/ StartRequest(w) \/ WriteResponse(w) \/ WritePanicError(w) \/ WriteUntracked(w)
             \/ RemoveEntry(w) \/ EndRequest(w) \/ BeginFlush(w) \/ FlushReleased(w)
             \/ FlushAbandoned(w) \/ HandlerStep(w) \/ FlushTimeout(w)
      PROVE  PoolInv'
  <2>1. /\ UNCHANGED <<recvMu, recvIdle, workerCount, recvShutdown>>
        /\ pc[w] \notin {"unborn", "gone", "parked", "loop", "reading"} \cup Renegotiating
        /\ \E l \in PCs \ ({"unborn", "gone", "parked", "reading"} \cup Renegotiating) :
             pc' = [pc EXCEPT ![w] = l]
    BY <1>2 DEF StartRequest, WriteResponse, WritePanicError, WriteUntracked, RemoveEntry,
                EndRequest, BeginFlush, FlushReleased, FlushAbandoned, HandlerStep,
                HandlerReturns, HandlerPanics, HandlerReturnsNil, FlushTimeout, Respond,
                Unlocked, Loop, Goto
  <2> QED
    BY <2>1, PoolMove
<1>3. ASSUME NEW w \in Worker,
             \/ RateLimited(w) \/ CancelRequests(w) \/ AwaitDrain(w) \/ Drained(w)
             \/ Renegotiate(w) \/ DrainTimeout(w)
      PROVE  PoolInv'
  <2>1. /\ UNCHANGED <<recvIdle, workerCount, recvShutdown>> /\ pc[w] \in Renegotiating
        /\ \E l \in {"loop"} \cup Renegotiating :
             /\ pc' = [pc EXCEPT ![w] = l]
             /\ recvMu' = IF l = "loop" THEN Free ELSE recvMu
    BY <1>3 DEF RateLimited, CancelRequests, AwaitDrain, Drained, Renegotiate, DrainTimeout,
                Locked, Loop, Goto
  <2> QED
    BY <2>1, PoolMove
<1>4. ASSUME NEW w \in Worker, ReadNothing(w) \/ ReadError(w) \/ ShutdownRecv(w)
      PROVE  PoolInv'
  BY <1>4, PoolExit, SMT DEF ReadNothing, ReadError, ShutdownRecv
<1>5. CASE CancelServe \/ CleanupStep \/ Returned
  <2>1. UNCHANGED <<pc, recvMu, recvIdle, workerCount, recvShutdown>>
    BY <1>5 DEF CancelServe, CleanupStep, Returned, Notice, CleanupCancel, CleanupAwaitDrain,
                CleanupDrain, CleanupClose, CleanupJoin, CleanupClunk, NotMain, vars, pool
  <2> QED
    BY <2>1 DEF PoolInv, WorkerCap, ReaderOrCap, Live, Parked
<1> QED
  BY <1>1, <1>2, <1>3, <1>4, <1>5, PoolPark, PoolRead DEF Next, WorkerStep, TimerStep

-----------------------------------------------------------------------------
(* The table *)

\* The positions of a goroutine whose request is in the table and has not been
\* committed, of one whose request may still be there, and of one that read a tag.
Owning  == {"running", "panicking", "finishing"}
Entered == Owning \cup {"committed", "written"}
Tagged  == Entered \cup {"decoded", "flushing"}

\* A goroutine that will commit or remove an entry finds its own entry; an entry
\* belongs to the goroutine that entered it.
TableInv ==
  /\ pc \in [Worker -> PCs] /\ wtag \in [Worker -> Tag \cup {Nil}] /\ im \in InflightMaps
  /\ \A w \in Worker : pc[w] \in Tagged => wtag[w] \in Tag
  /\ \A w \in Worker : pc[w] \in Owning =>
       /\ wtag[w] \in im.tags
       /\ im.entry[wtag[w]].ctx = w /\ ~im.entry[wtag[w]].committed
  /\ \A t \in im.tags :
       /\ im.entry[t].ctx \in Worker
       /\ pc[im.entry[t].ctx] \in Entered /\ wtag[im.entry[t].ctx] = t
  /\ DrainAccounting

\* A new connection's table is empty.
LEMMA TableInit == Init => TableInv
<1> SUFFICES ASSUME Init PROVE TableInv
  OBVIOUS
<1>1. im \in InflightMaps /\ im.tags = {} /\ im.drained = {} /\ im.count = 0
  BY SMT DEF Init, newInflightMap, InflightMaps, Entry, ZeroEntry
<1>2. DrainAccounting
  BY <1>1, FS_EmptySet DEF DrainAccounting, CountExact, DrainersHaveWork
<1>3. /\ pc \in [Worker -> PCs] /\ wtag \in [Worker -> Tag \cup {Nil}]
      /\ \A w \in Worker : pc[w] \notin Tagged
  BY DEF Init, PCs, Receiving, Tagged, Entered, Owning
<1> QED
  BY <1>1, <1>2, <1>3 DEF TableInv, Tagged, Entered

\* A step that neither enters nor removes a request.
LEMMA TableKeep ==
  ASSUME TableInv, pc' \in [Worker -> PCs], wtag' \in [Worker -> Tag \cup {Nil}],
         im' \in InflightMaps, im'.tags = im.tags, im'.count = im.count, DrainersHaveWork(im'),
         \A t \in Tag : /\ im'.entry[t].ctx = im.entry[t].ctx
                        /\ im'.entry[t].committed = im.entry[t].committed,
         \A w \in Worker :
           /\ pc'[w] \in Tagged => wtag'[w] \in Tag
           /\ pc'[w] \in Owning => pc[w] \in Owning /\ wtag'[w] = wtag[w]
           /\ pc[w] \in Entered => pc'[w] \in Entered /\ wtag'[w] = wtag[w]
  PROVE  TableInv'
<1>1. im.tags \subseteq Tag
  BY DEF TableInv, InflightMaps
<1>2. DrainAccounting'
  BY DEF TableInv, DrainAccounting, CountExact
<1>3. \A w \in Worker : pc'[w] \in Owning =>
       /\ wtag'[w] \in im'.tags
       /\ im'.entry[wtag'[w]].ctx = w /\ ~im'.entry[wtag'[w]].committed
  BY <1>1, SMT DEF TableInv
<1>4. \A t \in im'.tags :
       /\ im'.entry[t].ctx \in Worker
       /\ pc'[im'.entry[t].ctx] \in Entered /\ wtag'[im'.entry[t].ctx] = t
  BY <1>1, SMT DEF TableInv
<1> QED
  BY <1>2, <1>3, <1>4 DEF TableInv

\* start enters a request whose tag is new, or whose last request is committed.
LEMMA TableStart ==
  ASSUME TableInv, NEW w \in Worker, StartRequest(w), StartAllows(im, wtag[w])
  PROVE  TableInv'
<1> DEFINE t == wtag[w]
<1>1. /\ pc[w] = "decoded" /\ pc' = [pc EXCEPT ![w] = "running"] /\ wtag' = wtag
      /\ im' = Start(im, t, w) /\ t \in Tag /\ w \in Ctx
  BY WorkerAssumption DEF StartRequest, Goto, TableInv, Tagged
<1>2. /\ im \in InflightMaps /\ im.tags \subseteq Tag /\ CountExact(im) /\ DrainersHaveWork(im)
      /\ t \in im.tags => im.entry[t].committed
  BY DEF TableInv, InflightMaps, DrainAccounting, StartAllows
<1> HIDE DEF t
<1>3. /\ im' \in InflightMaps /\ im'.tags = im.tags \cup {t} /\ CountExact(im')
      /\ \A u \in Tag : im'.entry[u] =
           IF u = t THEN [ctx |-> w, done |-> {}, committed |-> FALSE] ELSE im.entry[u]
  BY <1>1, <1>2, StartType, StartFields, StartCount, SMT
<1>4. im'.drained = im.drained
  BY <1>1, <1>2 DEF Start
<1>5. DrainAccounting'
  BY <1>2, <1>3, <1>4 DEF DrainAccounting, DrainersHaveWork
<1>6. /\ pc' \in [Worker -> PCs] /\ wtag' \in [Worker -> Tag \cup {Nil}]
      /\ \A v \in Worker : pc'[v] = IF v = w THEN "running" ELSE pc[v]
      /\ \A v \in Worker : pc'[v] \in Tagged => wtag'[v] \in Tag
  BY <1>1 DEF TableInv, PCs, Dispatching, t
<1>7. \A v \in Worker : pc'[v] \in Owning =>
       /\ wtag'[v] \in im'.tags
       /\ im'.entry[wtag'[v]].ctx = v /\ ~im'.entry[wtag'[v]].committed
  <2> SUFFICES ASSUME NEW v \in Worker, pc'[v] \in Owning
               PROVE  /\ wtag'[v] \in im'.tags
                      /\ im'.entry[wtag'[v]].ctx = v /\ ~im'.entry[wtag'[v]].committed
    OBVIOUS
  <2>1. CASE v = w
    BY <1>1, <1>3, <2>1, SMT DEF t
  <2>2. CASE v # w
    <3>1. /\ wtag[v] \in im.tags /\ im.entry[wtag[v]].ctx = v /\ ~im.entry[wtag[v]].committed
      BY <1>6, <2>2 DEF TableInv
    <3>2. wtag[v] # t
      BY <1>2, <3>1
    <3> QED
      BY <1>1, <1>2, <1>3, <3>1, <3>2
  <2> QED
    BY <2>1, <2>2
<1>8. \A u \in im'.tags :
       /\ im'.entry[u].ctx \in Worker
       /\ pc'[im'.entry[u].ctx] \in Entered /\ wtag'[im'.entry[u].ctx] = u
  <2> SUFFICES ASSUME NEW u \in im'.tags
               PROVE  /\ im'.entry[u].ctx \in Worker
                      /\ pc'[im'.entry[u].ctx] \in Entered /\ wtag'[im'.entry[u].ctx] = u
    OBVIOUS
  <2>1. CASE u = t
    BY <1>1, <1>3, <1>6, <2>1, SMT DEF Entered, Owning, t
  <2>2. CASE u # t
    <3>1. /\ u \in im.tags /\ im'.entry[u] = im.entry[u]
      BY <1>2, <1>3, <2>2
    <3>2. /\ im.entry[u].ctx \in Worker /\ pc[im.entry[u].ctx] \in Entered
          /\ wtag[im.entry[u].ctx] = u
      BY <3>1 DEF TableInv
    <3>3. im.entry[u].ctx # w
      BY <1>1, <3>2 DEF Entered, Owning
    <3> QED
      BY <1>1, <1>6, <3>1, <3>2, <3>3
  <2> QED
    BY <2>1, <2>2
<1> QED
  BY <1>3, <1>5, <1>6, <1>7, <1>8 DEF TableInv

\* commit finds the entry of the goroutine that commits.
LEMMA TableCommit ==
  ASSUME TableInv, NEW w \in Worker, HandlerReturns(w)
  PROVE  TableInv'
<1> DEFINE t == wtag[w]
<1>1. /\ pc[w] = "running" /\ pc' = [pc EXCEPT ![w] = "committed"] /\ wtag' = wtag
      /\ im' = Commit(im, t)
  BY DEF HandlerReturns, Goto
<1>2. /\ im \in InflightMaps /\ im.tags \subseteq Tag /\ t \in im.tags
      /\ im.entry[t].ctx = w
  BY <1>1 DEF TableInv, InflightMaps, Owning
<1> HIDE DEF t
<1>3. /\ im' \in InflightMaps /\ im'.tags = im.tags /\ im'.count = im.count
      /\ \A u \in Tag : /\ im'.entry[u].ctx = im.entry[u].ctx
                        /\ u # t => im'.entry[u] = im.entry[u]
  <2>1. t \in Tag /\ im.tags \cup {t} = im.tags
    BY <1>2
  <2> QED
    BY <1>1, <1>2, <2>1, CommitType, CommitFields, ZenonT(40)
<1>4. im'.drained = im.drained
  BY <1>1, <1>2 DEF Commit
<1>5. DrainAccounting'
  BY <1>3, <1>4 DEF TableInv, DrainAccounting, DrainersHaveWork, CountExact
<1>6. /\ pc' \in [Worker -> PCs] /\ wtag' \in [Worker -> Tag \cup {Nil}]
      /\ \A v \in Worker : pc'[v] = IF v = w THEN "committed" ELSE pc[v]
      /\ \A v \in Worker : pc'[v] \in Tagged => wtag'[v] \in Tag
  BY <1>1, <1>2 DEF TableInv, PCs, Dispatching, t
<1>7. \A v \in Worker : pc'[v] \in Owning =>
       /\ wtag'[v] \in im'.tags
       /\ im'.entry[wtag'[v]].ctx = v /\ ~im'.entry[wtag'[v]].committed
  <2> SUFFICES ASSUME NEW v \in Worker, pc'[v] \in Owning
               PROVE  /\ wtag'[v] \in im'.tags
                      /\ im'.entry[wtag'[v]].ctx = v /\ ~im'.entry[wtag'[v]].committed
    OBVIOUS
  <2>1. v # w
    BY <1>6 DEF Owning
  <2>2. /\ wtag[v] \in im.tags /\ im.entry[wtag[v]].ctx = v /\ ~im.entry[wtag[v]].committed
    BY <1>6, <2>1 DEF TableInv
  <2> QED
    BY <1>1, <1>2, <1>3, <2>1, <2>2
<1>8. \A u \in im'.tags :
       /\ im'.entry[u].ctx \in Worker
       /\ pc'[im'.entry[u].ctx] \in Entered /\ wtag'[im'.entry[u].ctx] = u
  <2>1. /\ \A u \in im.tags : /\ im.entry[u].ctx \in Worker /\ pc[im.entry[u].ctx] \in Entered
                              /\ wtag[im.entry[u].ctx] = u
        /\ "committed" \in Entered
    BY DEF TableInv, Entered
  <2> QED
    BY <1>1, <1>2, <1>3, <1>6, <2>1, SMT
<1> QED
  BY <1>3, <1>5, <1>6, <1>7, <1>8 DEF TableInv

\* remove, and completeCommit where the entry is still its own, take out the entry
\* of the goroutine itself; otherwise completeCommit leaves another's alone.
LEMMA TableRemove ==
  ASSUME TableInv, NEW w \in Worker, RemoveEntry(w)
  PROVE  TableInv'
<1> DEFINE t == wtag[w]
<1>1. /\ pc[w] \in {"written", "finishing"} /\ pc' = [pc EXCEPT ![w] = "closing"]
      /\ wtag' = wtag
      /\ im' = IF pc[w] = "finishing" \/ OwnsEntry(im, t, w) THEN Remove(im, t) ELSE im
  BY DEF RemoveEntry, Goto, CompleteCommit
<1>2. /\ im \in InflightMaps /\ im.tags \subseteq Tag /\ t \in Tag
      /\ CountExact(im) /\ DrainersHaveWork(im)
      /\ pc[w] = "finishing" => OwnsEntry(im, t, w)
  BY <1>1 DEF TableInv, InflightMaps, Owning, Tagged, Entered, DrainAccounting, OwnsEntry
<1> HIDE DEF t
<1>3. im' = IF OwnsEntry(im, t, w) THEN Remove(im, t) ELSE im
  BY <1>1, <1>2
<1>4. /\ im' \in InflightMaps /\ CountExact(im') /\ DrainersHaveWork(im')
      /\ im'.tags = IF OwnsEntry(im, t, w) THEN im.tags \ {t} ELSE im.tags
      /\ \A u \in im'.tags : im'.entry[u] = im.entry[u] /\ im.entry[u].ctx # w
  <2>0. \A u \in im.tags \ {t} : im.entry[u].ctx # w
    BY DEF TableInv, t
  <2>1. CASE OwnsEntry(im, t, w)
    <3>1. t \in im.tags /\ im' = Remove(im, t)
      BY <1>3, <2>1 DEF OwnsEntry
    <3> QED
      BY <1>2, <2>0, <2>1, <3>1, RemoveType, RemoveFields, RemoveCount, RemoveDrain, SMT
  <2>2. CASE ~OwnsEntry(im, t, w)
    BY <1>2, <1>3, <2>0, <2>2 DEF OwnsEntry
  <2> QED
    BY <2>1, <2>2
<1>5. /\ pc' \in [Worker -> PCs] /\ wtag' \in [Worker -> Tag \cup {Nil}]
      /\ \A v \in Worker : pc'[v] = IF v = w THEN "closing" ELSE pc[v]
      /\ \A v \in Worker : pc'[v] \in Tagged => wtag'[v] \in Tag
  BY <1>1, <1>2, SMT DEF TableInv, PCs, Dispatching, t, Tagged, Entered, Owning
<1>6. \A v \in Worker : pc'[v] \in Owning =>
       /\ wtag'[v] \in im'.tags
       /\ im'.entry[wtag'[v]].ctx = v /\ ~im'.entry[wtag'[v]].committed
  <2> SUFFICES ASSUME NEW v \in Worker, pc'[v] \in Owning
               PROVE  /\ wtag'[v] \in im'.tags
                      /\ im'.entry[wtag'[v]].ctx = v /\ ~im'.entry[wtag'[v]].committed
    OBVIOUS
  <2>1. v # w
    BY <1>5 DEF Owning
  <2>2. /\ wtag[v] \in im.tags /\ im.entry[wtag[v]].ctx = v /\ ~im.entry[wtag[v]].committed
    BY <1>5, <2>1 DEF TableInv
  <2>3. wtag[v] \in im'.tags
    BY <1>4, <2>1, <2>2 DEF OwnsEntry
  <2> QED
    BY <1>1, <1>4, <2>2, <2>3
<1>7. \A u \in im'.tags :
       /\ im'.entry[u].ctx \in Worker
       /\ pc'[im'.entry[u].ctx] \in Entered /\ wtag'[im'.entry[u].ctx] = u
  BY <1>1, <1>4, <1>5, SMT DEF TableInv
<1> QED
  BY <1>4, <1>5, <1>6, <1>7 DEF TableInv, DrainAccounting

\* One step of any goroutine or of serve keeps the table's invariant.
LEMMA TableStep == TableInv /\ [Next]_vars => TableInv'
<1> SUFFICES ASSUME TableInv, [Next]_vars PROVE TableInv'
  OBVIOUS
<1>0. /\ im \in InflightMaps /\ CountExact(im) /\ DrainersHaveWork(im)
      /\ pc \in [Worker -> PCs] /\ wtag \in [Worker -> Tag \cup {Nil}]
      /\ \A v \in Worker : pc[v] \in Tagged => wtag[v] \in Tag
  BY DEF TableInv, DrainAccounting
<1>a. /\ Owning \subseteq Entered /\ Entered \subseteq Tagged
      /\ \A l : l \in Tagged <=> l \in Entered \cup {"decoded", "flushing"}
      /\ \A l : l \in Entered <=> l \in Owning \cup {"committed", "written"}
      /\ \A l : l \in Owning <=> l \in {"running", "panicking", "finishing"}
  BY DEF Owning, Entered, Tagged
<1>1. CASE UNCHANGED <<im, pc, wtag>>
  BY <1>0, <1>1, <1>a, TableKeep
<1>2. ASSUME NEW w \in Worker, NEW l \in PCs, UNCHANGED im,
             pc' = [pc EXCEPT ![w] = l], wtag' \in {wtag, [wtag EXCEPT ![w] = Nil]},
             l \in Tagged => wtag' = wtag /\ pc[w] \in Tagged,
             l \in Owning => pc[w] \in Owning,
             pc[w] \in Entered => l \in Entered
      PROVE  TableInv'
  BY <1>0, <1>2, <1>a, TableKeep
<1>3. ASSUME NEW w \in Worker,
             \/ Park(w) \/ Acquire(w) \/ ReadNothing(w) \/ ReadError(w) \/ ShutdownRecv(w)
             \/ WriteResponse(w) \/ WritePanicError(w) \/ WriteUntracked(w)
             \/ EndRequest(w) \/ FlushReleased(w) \/ FlushAbandoned(w) \/ TimerStep(w)
             \/ HandlerPanics(w) \/ HandlerReturnsNil(w)
             \/ RateLimited(w) \/ CancelRequests(w) \/ Drained(w) \/ Renegotiate(w)
      PROVE  TableInv'
  <2>1. \E l \in PCs :
          /\ UNCHANGED im /\ pc' = [pc EXCEPT ![w] = l]
          /\ wtag' \in {wtag, [wtag EXCEPT ![w] = Nil]}
          /\ l \in Tagged => wtag' = wtag /\ pc[w] \in Tagged
          /\ l \in Owning => pc[w] \in Owning
          /\ pc[w] \in Entered => l \in Entered
    BY <1>3, <1>a, ZenonT(40)
    DEF Park, Acquire, ReadNothing, ReadError, ShutdownRecv, Exit, WriteResponse,
        WritePanicError, WriteUntracked, EndRequest, FlushReleased, FlushAbandoned, TimerStep,
        FlushTimeout, DrainTimeout, HandlerPanics, HandlerReturnsNil, RateLimited,
        CancelRequests, Drained, Renegotiate, Respond, Unlocked, Locked, Loop, Goto,
        PCs, Receiving, Renegotiating, Dispatching
  <2> QED
    BY <1>2, <2>1
<1>4. ASSUME NEW w \in Worker, NEW k \in Kinds, NEW t \in Tag, ReadFrame(w, k, t)
      PROVE  TableInv'
  <2>1. /\ pc[w] = "reading" /\ UNCHANGED im /\ wtag' = [wtag EXCEPT ![w] = t]
        /\ \/ pc' = [pc EXCEPT ![w] = After[k]]
           \/ \E v \in Worker : /\ pc[v] = "unborn"
                                /\ pc' = [pc EXCEPT ![w] = After[k], ![v] = "loop"]
    BY <1>4 DEF ReadFrame, Goto
  <2>2. /\ After[k] \in PCs /\ After[k] \notin Entered /\ "loop" \in PCs
    BY AfterType, <1>a DEF PCs, Receiving, Renegotiating
  <2>3. \A u \in Worker : \/ pc'[u] = pc[u] /\ u # w
                          \/ pc'[u] = After[k] /\ u = w
                          \/ pc'[u] = "loop" /\ pc[u] = "unborn"
    BY <1>0, <2>1
  <2>4. pc' \in [Worker -> PCs]
    BY <1>0, <2>1, <2>2
  <2>5. \A u \in Worker : wtag'[u] = IF u = w THEN t ELSE wtag[u]
    BY <1>0, <2>1
  <2>6. wtag' \in [Worker -> Tag \cup {Nil}]
    BY <1>0, <2>1
  <2>7. ASSUME NEW u \in Worker
        PROVE  /\ pc'[u] \in Tagged => wtag'[u] \in Tag
               /\ pc'[u] \in Owning => pc[u] \in Owning /\ wtag'[u] = wtag[u]
               /\ pc[u] \in Entered => pc'[u] \in Entered /\ wtag'[u] = wtag[u]
    BY <1>0, <1>a, <2>1, <2>2, <2>3, <2>5
  <2> QED
    BY <1>0, <2>1, <2>4, <2>6, <2>7, TableKeep
<1>5. ASSUME NEW w \in Worker, StartRequest(w)
      PROVE  TableInv'
  <2>1. CASE StartAllows(im, wtag[w])
    BY <1>5, <2>1, TableStart
  <2>2. CASE ~StartAllows(im, wtag[w])
    BY <1>2, <1>5, <1>a, <2>2, SMT DEF StartRequest, Goto, PCs
  <2> QED
    BY <2>1, <2>2
<1>6. ASSUME NEW w \in Worker, BeginFlush(w)
      PROVE  TableInv'
  <2>1. /\ pc[w] = "flushing" /\ wtag' = wtag /\ im' = FlushWait(im, wtag[w], w)
        /\ wtag[w] \in Tag /\ w \in Flush
        /\ \E l \in {"waiting", "replying"} : pc' = [pc EXCEPT ![w] = l]
    BY <1>0, <1>6, <1>a, WorkerAssumption DEF BeginFlush, Goto
  <2>2. /\ im' \in InflightMaps /\ im'.tags = im.tags /\ im'.count = im.count
        /\ \A t \in Tag : /\ im'.entry[t].ctx = im.entry[t].ctx
                          /\ im'.entry[t].committed = im.entry[t].committed
    BY <1>0, <2>1, FlushWaitType, FlushWaitFields, ZenonT(40)
  <2>3. im'.drained = im.drained
    BY <1>0, <2>1 DEF FlushWait
  <2>4. pc' \in [Worker -> PCs]
    BY <1>0, <2>1 DEF PCs
  <2> QED
    BY <1>0, <1>a, <2>1, <2>2, <2>3, <2>4, TableKeep, SMT DEF DrainersHaveWork
<1>7. ASSUME NEW d \in Drainer, im' = DrainChan(im, d), wtag' = wtag,
             \/ pc' = pc
             \/ \E w \in Worker, l \in Renegotiating :
                  pc[w] \in Renegotiating /\ pc' = [pc EXCEPT ![w] = l]
      PROVE  TableInv'
  <2>1. /\ im' \in InflightMaps /\ im'.tags = im.tags /\ im'.count = im.count
        /\ im'.entry = im.entry /\ DrainersHaveWork(im')
    BY <1>0, <1>7, DrainChanFields
  <2>2. /\ pc' \in [Worker -> PCs]
        /\ \A u \in Worker : pc'[u] = pc[u] \/ (pc[u] \notin Tagged /\ pc'[u] \notin Tagged)
    BY <1>0, <1>7, <1>a, SMT DEF PCs, Renegotiating
  <2> QED
    BY <1>0, <1>7, <1>a, <2>1, <2>2, TableKeep
<1>8. ASSUME NEW w \in Worker, AwaitDrain(w)
      PROVE  TableInv'
  BY <1>7, <1>8, WorkerAssumption DEF AwaitDrain, Goto, Renegotiating
<1>9. CASE CancelServe \/ CleanupStep \/ Returned \/ UNCHANGED vars
  <2>1. CASE CleanupAwaitDrain
    BY <1>7, <2>1, WorkerAssumption DEF CleanupAwaitDrain, NotMain
  <2>2. CASE ~CleanupAwaitDrain
    BY <1>1, <1>9, <2>2 DEF CancelServe, CleanupStep, Returned, Notice, CleanupCancel,
                CleanupDrain, CleanupClose, CleanupJoin, CleanupClunk, NotMain, vars
  <2> QED
    BY <2>1, <2>2
<1> QED
  BY <1>3, <1>4, <1>5, <1>6, <1>8, <1>9, TableCommit, TableRemove
  DEF Next, WorkerStep, HandlerStep

-----------------------------------------------------------------------------
(* The sweeps *)

\* handleReVersion, or cleanup, has learned that the requests drained.
VersionPast == \E w \in Worker : \/ pc[w] = "clunking"
                                 \/ pc[w] = "draining" /\ w \in im.woken
CleanupPast == \/ main \in {"closing", "joining", "clunking"} /\ drained
               \/ main = "draining" /\ Free \in im.woken

\* Whoever was swept has not begun another request, and is out of its handler once
\* the sweep has learned that the requests drained.
SweepInv ==
  /\ swept \in [Sweeps -> SUBSET Worker] /\ clash \in [Sweeps -> SUBSET Worker]
  /\ \A s \in Sweeps : \A w \in swept[s] : pc[w] \in Dispatching
  /\ VersionPast => swept["version"] \cap InHandler = {}
  /\ CleanupPast => swept["cleanup"] \cap InHandler = {}
  /\ main # "done" => clash["cleanup"] = {}
  /\ SweptAreDrained

\* Nobody has been swept when the connection begins.
LEMMA SweepInit == Init => SweepInv
BY DEF Init, SweepInv, VersionPast, CleanupPast, SweptAreDrained, Sweeps

\* A step that sweeps nobody, and learns of the end of a drain from a table that is
\* empty.
LEMMA SweepKeep ==
  ASSUME TableInv', SweepInv,
         swept' \in [Sweeps -> SUBSET Worker], clash' \in [Sweeps -> SUBSET Worker],
         \A s \in Sweeps : swept'[s] \subseteq swept[s] /\ clash'[s] \cap swept'[s] = {},
         \A s \in Sweeps : \A w \in swept'[s] : pc'[w] \in Dispatching,
         main' # "done" => clash'["cleanup"] = {},
         \A w \in Worker : pc'[w] = "running" => pc[w] \in {"running", "decoded"},
         VersionPast' => VersionPast \/ im'.tags = {},
         CleanupPast' => CleanupPast \/ im'.tags = {}
  PROVE  SweepInv'
<1>1. im'.tags = {} => InHandler' = {}
  BY SMT DEF TableInv, InHandler, Owning
<1>2. \A s \in Sweeps : swept'[s] \cap InHandler' \subseteq swept[s] \cap InHandler
  BY DEF InHandler, SweepInv, Dispatching
<1>3. VersionPast' => swept'["version"] \cap InHandler' = {}
  BY <1>1, <1>2 DEF SweepInv, Sweeps
<1>4. CleanupPast' => swept'["cleanup"] \cap InHandler' = {}
  BY <1>1, <1>2 DEF SweepInv, Sweeps
<1>5. SweptAreDrained'
  BY DEF SweptAreDrained
<1> QED
  BY <1>3, <1>4, <1>5 DEF SweepInv

\* A goroutine goes on, and cleanup does not.
LEMMA SweepMove ==
  ASSUME TableInv, TableInv', SweepInv, NEW w \in Worker, NEW l \in PCs,
         pc' = [pc EXCEPT ![w] = l], UNCHANGED <<swept, clash, main, drained>>,
         im'.woken = im.woken \/ im'.tags = {},
         pc[w] \in Dispatching => l \in Dispatching,
         l = "running" => pc[w] = "decoded",
         l # "draining", l = "clunking" => pc[w] = "draining" /\ w \in im.woken
  PROVE  SweepInv'
<1>1. \A v \in Worker : pc'[v] = IF v = w THEN l ELSE pc[v]
  BY SMT DEF TableInv
<1>2. VersionPast' => VersionPast \/ im'.tags = {}
  BY <1>1 DEF VersionPast
<1>3. CleanupPast' => CleanupPast \/ im'.tags = {}
  BY DEF CleanupPast
<1>4. \A s \in Sweeps : \A v \in swept[s] : v \in Worker /\ pc'[v] \in Dispatching
  BY <1>1 DEF SweepInv
<1>5. \A v \in Worker : pc'[v] = "running" => pc[v] \in {"running", "decoded"}
  BY <1>1
<1>6. /\ \A s \in Sweeps : clash[s] \cap swept[s] = {}
      /\ main # "done" => clash["cleanup"] = {}
      /\ swept \in [Sweeps -> SUBSET Worker] /\ clash \in [Sweeps -> SUBSET Worker]
  BY DEF SweepInv, SweptAreDrained
<1> QED
  BY <1>2, <1>3, <1>4, <1>5, <1>6, SweepKeep

\* handleReVersion: it alone renegotiates, so its sweep is the last of its kind.
LEMMA SweepVersion ==
  ASSUME PoolInv, TableInv, TableInv', SweepInv, NEW w \in Worker,
         CancelRequests(w) \/ AwaitDrain(w) \/ Renegotiate(w)
  PROVE  SweepInv'
<1> USE DEF Sweeps
<1>0. /\ swept \in [Sweeps -> SUBSET Worker] /\ clash \in [Sweeps -> SUBSET Worker]
      /\ \A s \in Sweeps : \A v \in swept[s] : v \in Worker /\ pc[v] \in Dispatching
      /\ \A s \in Sweeps : clash[s] \cap swept[s] = {}
      /\ main # "done" => clash["cleanup"] = {}
  BY DEF SweepInv, SweptAreDrained
<1>1. CASE CancelRequests(w)
  <2>1. /\ pc[w] = "cancelling" /\ pc' = [pc EXCEPT ![w] = "cancelled"]
        /\ UNCHANGED <<im, main, drained>>
        /\ swept' = [swept EXCEPT !["version"] = CancelAll(im)]
        /\ clash' = [clash EXCEPT !["version"] = {}]
    BY <1>1 DEF CancelRequests, Goto, Locked, srv
  <2>2. \A v \in Worker : pc'[v] = IF v = w THEN "cancelled" ELSE pc[v]
    BY <2>1, SMT DEF TableInv
  <2>3. ~VersionPast'
    <3>1. \A v \in Worker \ {w} : pc[v] \notin Holding
      BY <2>1 DEF PoolInv, Holding, Renegotiating
    <3> QED
      BY <2>2, <3>1 DEF VersionPast, Holding, Renegotiating
  <2>4. \A v \in CancelAll(im) : v \in Worker /\ pc[v] \in Dispatching
    BY SMT DEF CancelAll, TableInv, Entered, Owning, Dispatching
  <2>5. /\ swept' \in [Sweeps -> SUBSET Worker] /\ clash' \in [Sweeps -> SUBSET Worker]
        /\ \A s \in Sweeps : \A v \in swept'[s] : v \in Worker /\ pc[v] \in Dispatching
        /\ SweptAreDrained' /\ (main' # "done" => clash'["cleanup"] = {})
        /\ swept'["cleanup"] = swept["cleanup"]
    <3>1. /\ swept' \in [Sweeps -> SUBSET Worker] /\ clash' \in [Sweeps -> SUBSET Worker]
          /\ swept'["version"] = CancelAll(im) /\ swept'["cleanup"] = swept["cleanup"]
          /\ clash'["version"] = {} /\ clash'["cleanup"] = clash["cleanup"]
      BY <1>0, <2>1, <2>4
    <3>2. \A s \in Sweeps : \A v \in swept'[s] : v \in Worker /\ pc[v] \in Dispatching
      BY <1>0, <2>4, <3>1
    <3>3. SweptAreDrained'
      BY <1>0, <3>1 DEF SweptAreDrained
    <3> QED
      BY <1>0, <2>1, <3>1, <3>2, <3>3
  <2>6. \A s \in Sweeps : \A v \in swept'[s] : pc'[v] \in Dispatching
    BY <2>1, <2>2, <2>5, SMT DEF Dispatching
  <2>7. CleanupPast' => swept'["cleanup"] \cap InHandler' = {}
    <3>1. InHandler' = InHandler /\ CleanupPast' = CleanupPast
      BY <2>1, <2>2, SMT DEF InHandler, CleanupPast
    <3> QED
      BY <2>5, <3>1 DEF SweepInv
  <2> QED
    BY <2>3, <2>5, <2>6, <2>7 DEF SweepInv
<1>2. CASE AwaitDrain(w)
  <2>1. /\ pc[w] = "cancelled" /\ im' = DrainChan(im, w) /\ w \in Drainer /\ w # Free
        /\ pc' = [pc EXCEPT ![w] = IF im.count = 0 THEN "clunking" ELSE "draining"]
        /\ UNCHANGED <<swept, clash, main, drained>>
    BY <1>2, WorkerAssumption DEF AwaitDrain, Goto, Locked, srv
  <2>2. \A v \in Worker : pc'[v] = IF v # w THEN pc[v]
                                   ELSE IF im.count = 0 THEN "clunking" ELSE "draining"
    BY <2>1, SMT DEF TableInv
  <2>3. /\ \A e \in Drainer \ {w} : e \in im'.woken <=> e \in im.woken
        /\ w \in im'.woken <=> im.count = 0
        /\ im.count = 0 => im'.tags = {}
    BY <2>1, DrainChanFields, SMT DEF TableInv, DrainAccounting
  <2>4. VersionPast' => VersionPast \/ im'.tags = {}
    BY <2>2, <2>3, WorkerAssumption DEF VersionPast
  <2>5. CleanupPast' => CleanupPast
    BY <2>1, <2>3, WorkerAssumption DEF CleanupPast
  <2>6. \A s \in Sweeps : \A v \in swept[s] : pc'[v] \in Dispatching
    BY <1>0, <2>1, <2>2, SMT DEF Dispatching
  <2> QED
    BY <1>0, <2>1, <2>2, <2>4, <2>5, <2>6, SweepKeep, SMT
<1>3. CASE Renegotiate(w)
  <2>1. /\ pc[w] = "clunking" /\ pc' = [pc EXCEPT ![w] = "loop"]
        /\ UNCHANGED <<im, swept, main, drained>>
        /\ clash' = [clash EXCEPT !["version"] = @ \cup InHandler]
    BY <1>3 DEF Renegotiate, Loop, Goto, Locked, srv
  <2>2. \A v \in Worker : pc'[v] = IF v = w THEN "loop" ELSE pc[v]
    BY <2>1, SMT DEF TableInv
  <2>3. swept["version"] \cap InHandler = {} /\ VersionPast
    <3>1. VersionPast
      <4>1. pc[w] = "clunking"
        BY <2>1
      <4> QED
        BY <4>1 DEF VersionPast
    <3> QED
      BY <3>1 DEF SweepInv
  <2>4. /\ clash' \in [Sweeps -> SUBSET Worker]
        /\ \A s \in Sweeps : clash'[s] \cap swept[s] = {}
        /\ clash'["cleanup"] = clash["cleanup"]
    <3>1. /\ clash' \in [Sweeps -> SUBSET Worker]
          /\ clash'["version"] = clash["version"] \cup InHandler
          /\ clash'["cleanup"] = clash["cleanup"]
      BY <1>0, <2>1 DEF InHandler
    <3> QED
      BY <1>0, <2>3, <3>1
  <2>5. CleanupPast' => CleanupPast
    BY <2>1 DEF CleanupPast
  <2>6. \A s \in Sweeps : \A v \in swept[s] : pc'[v] \in Dispatching
    BY <1>0, <2>1, <2>2 DEF Dispatching
  <2> QED
    BY <1>0, <2>1, <2>2, <2>3, <2>4, <2>5, <2>6, SweepKeep, SMT
<1> QED
  BY <1>1, <1>2, <1>3

\* cleanup, which sweeps once.
LEMMA SweepCleanup ==
  ASSUME TableInv, TableInv', SweepInv, CancelServe \/ CleanupStep
  PROVE  SweepInv'
<1> USE DEF Sweeps
<1>0. /\ swept \in [Sweeps -> SUBSET Worker] /\ clash \in [Sweeps -> SUBSET Worker]
      /\ \A s \in Sweeps : \A v \in swept[s] : v \in Worker /\ pc[v] \in Dispatching
      /\ \A s \in Sweeps : clash[s] \cap swept[s] = {}
      /\ main # "done" => clash["cleanup"] = {}
      /\ UNCHANGED pc
  BY DEF SweepInv, SweptAreDrained, CancelServe, CleanupStep, Notice, CleanupCancel,
         CleanupAwaitDrain, CleanupDrain, CleanupClose, CleanupJoin, CleanupClunk, NotMain
<1>1. CASE CancelServe \/ Notice \/ CleanupDrain \/ CleanupClose \/ CleanupJoin
  <2>1. /\ UNCHANGED <<im, swept, clash>> /\ main # "done"
    BY <1>1 DEF CancelServe, Notice, CleanupDrain, CleanupClose, CleanupJoin, NotMain
  <2>a. CleanupPast' => CleanupPast
    <3>1. CASE CancelServe \/ Notice
      BY <3>1 DEF CancelServe, Notice, CleanupPast
    <3>2. CASE CleanupDrain
      <4>1. main = "draining" /\ main' = "closing" /\ (drained' => Free \in im.woken)
        BY <3>2 DEF CleanupDrain
      <4> QED
        BY <4>1 DEF CleanupPast
    <3>3. CASE CleanupClose \/ CleanupJoin
      BY <3>3 DEF CleanupClose, CleanupJoin, CleanupPast
    <3> QED
      BY <1>1, <3>1, <3>2, <3>3
  <2>2. VersionPast' => VersionPast
    BY <1>0, <2>1 DEF VersionPast
  <2> QED
    BY <1>0, <2>1, <2>a, <2>2, SweepKeep
<1>2. CASE CleanupCancel
  <2>1. /\ UNCHANGED <<im, clash>> /\ main # "done" /\ main' = "cancelled"
        /\ swept' = [swept EXCEPT !["cleanup"] = CancelAll(im)]
    BY <1>2 DEF CleanupCancel
  <2>2. \A v \in CancelAll(im) : v \in Worker /\ pc[v] \in Dispatching
    BY SMT DEF CancelAll, TableInv, Entered, Owning, Dispatching
  <2>3. /\ swept' \in [Sweeps -> SUBSET Worker]
        /\ swept'["cleanup"] = CancelAll(im) /\ swept'["version"] = swept["version"]
    BY <1>0, <2>1, <2>2
  <2>4. \A s \in Sweeps : \A v \in swept'[s] : pc'[v] \in Dispatching
    BY <1>0, <2>2, <2>3
  <2>5. SweptAreDrained' /\ (main' # "done" => clash'["cleanup"] = {})
    BY <1>0, <2>1, <2>3 DEF SweptAreDrained
  <2>6. ~CleanupPast'
    BY <2>1 DEF CleanupPast
  <2>7. VersionPast' => swept'["version"] \cap InHandler' = {}
    BY <1>0, <2>1, <2>3 DEF VersionPast, InHandler, SweepInv
  <2> QED
    BY <1>0, <2>1, <2>3, <2>4, <2>5, <2>6, <2>7 DEF SweepInv
<1>3. CASE CleanupAwaitDrain
  <2>1. /\ im' = DrainChan(im, Free) /\ Free \in Drainer /\ main # "done"
        /\ UNCHANGED <<swept, clash>>
        /\ main' = IF im.count = 0 THEN "closing" ELSE "draining"
        /\ drained' = (im.count = 0)
    BY <1>3, WorkerAssumption DEF CleanupAwaitDrain
  <2>2. /\ \A e \in Drainer \ {Free} : e \in im'.woken <=> e \in im.woken
        /\ Free \in im'.woken <=> im.count = 0
        /\ im.count = 0 => im'.tags = {}
    BY <2>1, DrainChanFields, SMT DEF TableInv, DrainAccounting
  <2>3. VersionPast' => VersionPast
    BY <1>0, <2>2, WorkerAssumption DEF VersionPast
  <2>4. CleanupPast' => im'.tags = {}
    BY <2>1, <2>2 DEF CleanupPast
  <2> QED
    BY <1>0, <2>1, <2>3, <2>4, SweepKeep
<1>4. CASE CleanupClunk
  <2>1. /\ main = "clunking" /\ main' = "done" /\ UNCHANGED <<im, swept>>
        /\ clash' = IF drained THEN [clash EXCEPT !["cleanup"] = @ \cup InHandler] ELSE clash
    BY <1>4 DEF CleanupClunk
  <2>2. drained => swept["cleanup"] \cap InHandler = {}
    BY <2>1 DEF SweepInv, CleanupPast
  <2>3. /\ clash' \in [Sweeps -> SUBSET Worker]
        /\ \A s \in Sweeps : clash'[s] \cap swept[s] = {}
    <3>1. CASE drained
      <4>1. /\ clash' \in [Sweeps -> SUBSET Worker]
            /\ clash'["version"] = clash["version"]
            /\ clash'["cleanup"] = clash["cleanup"] \cup InHandler
        BY <1>0, <2>1, <3>1 DEF InHandler
      <4> QED
        BY <1>0, <2>2, <3>1, <4>1
    <3>2. CASE ~drained
      BY <1>0, <2>1, <3>2
    <3> QED
      BY <3>1, <3>2
  <2>4. (VersionPast' => VersionPast) /\ ~CleanupPast'
    BY <1>0, <2>1 DEF VersionPast, CleanupPast
  <2> QED
    BY <1>0, <2>1, <2>3, <2>4, SweepKeep
<1> QED
  BY <1>1, <1>2, <1>3, <1>4 DEF CleanupStep

\* One step of any goroutine or of serve keeps the sweeps' invariant.
LEMMA SweepStep == PoolInv /\ TableInv /\ TableInv' /\ SweepInv /\ [Next]_vars => SweepInv'
<1> SUFFICES ASSUME PoolInv, TableInv, TableInv', SweepInv, [Next]_vars PROVE SweepInv'
  OBVIOUS
<1>0. /\ swept \in [Sweeps -> SUBSET Worker] /\ clash \in [Sweeps -> SUBSET Worker]
      /\ \A s \in Sweeps : \A v \in swept[s] : v \in Worker /\ pc[v] \in Dispatching
      /\ \A s \in Sweeps : clash[s] \cap swept[s] = {}
      /\ main # "done" => clash["cleanup"] = {}
      /\ im \in InflightMaps
  BY DEF SweepInv, SweptAreDrained, TableInv
<1>1. CASE UNCHANGED vars \/ Returned
  BY <1>1, SMT DEF Returned, vars, srv, SweepInv, VersionPast, CleanupPast, SweptAreDrained, InHandler
<1>2. ASSUME NEW w \in Worker,
             \/ Park(w) \/ Acquire(w) \/ ReadNothing(w) \/ ReadError(w) \/ ShutdownRecv(w)
             \/ WriteResponse(w) \/ WritePanicError(w) \/ WriteUntracked(w)
             \/ FlushReleased(w) \/ FlushAbandoned(w) \/ TimerStep(w)
             \/ HandlerPanics(w) \/ HandlerReturnsNil(w) \/ RateLimited(w) \/ Drained(w)
      PROVE  SweepInv'
  <2> USE DEF Goto, PCs, Receiving, Renegotiating, Dispatching, srv
  <2> DEFINE Moved(l) ==
          /\ UNCHANGED <<im, swept, clash, main, drained>> /\ pc' = [pc EXCEPT ![w] = l]
          /\ pc[w] \in Dispatching => l \in Dispatching
          /\ l \notin {"running", "draining"}
          /\ l = "clunking" => pc[w] = "draining" /\ w \in im.woken
  <2>1. CASE Park(w) \/ Acquire(w) \/ ReadNothing(w) \/ ReadError(w) \/ ShutdownRecv(w)
    <3>1. \E l \in {"parked", "reading", "gone"} : Moved(l)
      BY <2>1 DEF Park, Acquire, ReadNothing, ReadError, ShutdownRecv, Exit
    <3> QED
      BY <3>1, SweepMove
  <2>2. CASE WriteResponse(w) \/ WritePanicError(w) \/ WriteUntracked(w)
    <3>1. \E l \in {"written", "finishing", "loop"} : Moved(l)
      BY <2>2 DEF WriteResponse, WritePanicError, WriteUntracked, Respond, Unlocked, Loop
    <3> QED
      BY <3>1, SweepMove
  <2>3. CASE \/ FlushReleased(w) \/ FlushAbandoned(w) \/ FlushTimeout(w)
             \/ HandlerPanics(w) \/ HandlerReturnsNil(w)
    <3>1. \E l \in {"replying", "loop", "panicking", "finishing"} : Moved(l)
      BY <2>3 DEF FlushReleased, FlushAbandoned, FlushTimeout, HandlerPanics,
                  HandlerReturnsNil, Unlocked, Loop
    <3> QED
      BY <3>1, SweepMove
  <2>4. CASE DrainTimeout(w) \/ RateLimited(w) \/ Drained(w)
    <3>1. \E l \in {"loop", "clunking"} : Moved(l)
      BY <2>4 DEF DrainTimeout, RateLimited, Drained, Locked, Loop
    <3> QED
      BY <3>1, SweepMove
  <2> QED
    BY <1>2, <2>1, <2>2, <2>3, <2>4 DEF TimerStep
<1>3. ASSUME NEW w \in Worker,
             StartRequest(w) \/ HandlerReturns(w) \/ BeginFlush(w) \/ RemoveEntry(w)
      PROVE  SweepInv'
  <2>1. \E l \in PCs :
          /\ UNCHANGED <<swept, clash, main, drained>> /\ pc' = [pc EXCEPT ![w] = l]
          /\ pc[w] \in Dispatching => l \in Dispatching
          /\ l = "running" => pc[w] = "decoded"
          /\ l \notin {"draining", "clunking"}
    BY <1>3, SMT DEF StartRequest, HandlerReturns, BeginFlush, RemoveEntry, Unlocked, srv, Goto,
                PCs, Dispatching
  <2>2. im'.woken = im.woken \/ im'.tags = {}
    <3>1. CASE StartRequest(w) \/ HandlerReturns(w) \/ BeginFlush(w)
      BY <1>0, <3>1, SMT DEF StartRequest, HandlerReturns, BeginFlush, Start, Commit, FlushWait
    <3>2. CASE RemoveEntry(w)
      <4>1. im' = im \/ \E t : im' = Remove(im, t)
        BY <3>2 DEF RemoveEntry, CompleteCommit
      <4>2. im'.woken = im.woken \/ im'.count = 0
        BY <1>0, <4>1, SMT DEF Remove, InflightMaps
      <4>3. im'.count = 0 => im'.tags = {}
        <5>1. /\ im'.count = Cardinality(im'.tags) /\ IsFiniteSet(im'.tags)
          BY TagsFinite DEF TableInv, DrainAccounting, CountExact
        <5> QED
          BY <5>1, FS_EmptySet
      <4> QED
        BY <4>2, <4>3
    <3> QED
      BY <1>3, <3>1, <3>2
  <2> QED
    BY <2>1, <2>2, SweepMove
<1>4. ASSUME NEW w \in Worker, NEW k \in Kinds, NEW t \in Tag, ReadFrame(w, k, t)
      PROVE  SweepInv'
  <2>1. /\ pc[w] = "reading" /\ UNCHANGED <<im, swept, clash, main, drained>>
        /\ \/ pc' = [pc EXCEPT ![w] = After[k]]
           \/ \E v \in Worker : /\ pc[v] = "unborn"
                                /\ pc' = [pc EXCEPT ![w] = After[k], ![v] = "loop"]
    BY <1>4 DEF ReadFrame, Goto, srv
  <2>2. After[k] \notin {"running", "draining", "clunking"}
    BY AfterType
  <2>3. \A u \in Worker : \/ pc'[u] = pc[u]
                          \/ /\ pc'[u] \notin {"running", "draining", "clunking"}
                             /\ pc[u] \in {"reading", "unborn"}
    BY <2>1, <2>2, SMT DEF TableInv
  <2>4. (VersionPast' => VersionPast) /\ (CleanupPast' => CleanupPast)
    BY <2>1, <2>3 DEF VersionPast, CleanupPast
  <2>5. \A s \in Sweeps : \A v \in swept[s] : pc'[v] \in Dispatching
    BY <1>0, <2>3 DEF Dispatching
  <2> QED
    BY <1>0, <2>1, <2>3, <2>4, <2>5, SweepKeep
<1>5. ASSUME NEW w \in Worker, EndRequest(w)
      PROVE  SweepInv'
  <2>1. /\ pc[w] = "closing" /\ pc' = [pc EXCEPT ![w] = "loop"]
        /\ UNCHANGED <<im, main, drained>>
        /\ swept' = [s \in Sweeps |-> swept[s] \ {w}]
        /\ clash' = [s \in Sweeps |-> clash[s] \ {w}]
    BY <1>5 DEF EndRequest, Loop, Goto, Unlocked, srv
  <2>2. \A v \in Worker : pc'[v] = IF v = w THEN "loop" ELSE pc[v]
    BY <2>1, SMT DEF TableInv
  <2>3. (VersionPast' => VersionPast) /\ (CleanupPast' => CleanupPast)
    BY <2>1, <2>2, SMT DEF VersionPast, CleanupPast
  <2>4. /\ swept' \in [Sweeps -> SUBSET Worker] /\ clash' \in [Sweeps -> SUBSET Worker]
        /\ \A s \in Sweeps : /\ swept'[s] = swept[s] \ {w} /\ clash'[s] = clash[s] \ {w}
    BY <1>0, <2>1
  <2>5. \A s \in Sweeps : \A v \in swept'[s] : pc'[v] \in Dispatching
    BY <1>0, <2>2, <2>4
  <2>6. main' # "done" => clash'["cleanup"] = {}
    BY <1>0, <2>1, <2>4 DEF Sweeps
  <2> QED
    BY <1>0, <2>2, <2>3, <2>4, <2>5, <2>6, SweepKeep
<1> QED
  BY <1>1, <1>2, <1>3, <1>4, <1>5, SweepVersion, SweepCleanup
  DEF Next, WorkerStep, HandlerStep

-----------------------------------------------------------------------------
\* At most maxInflight goroutines serve a connection, somebody is on its way to the
\* wire unless all of them are busy, and a re-negotiation reads alone, for every
\* number of goroutines and every cap.
THEOREM ReceivePathKept == Spec => []ReceivePath
<1>1. PoolInv => ReceivePath
  BY DEF PoolInv, ReceivePath, RenegotiatorIsSoleReader, Holding, Renegotiating
<1> QED
  BY <1>1, PoolInit, PoolStep, PTL DEF Spec

\* waitWithDeadline counts exactly the requests in flight and is released by the last
\* of them, whatever is started, replaced, committed or removed meanwhile.
THEOREM DrainAccounted == Spec => []DrainAccounting
<1>1. TableInv => DrainAccounting
  BY DEF TableInv
<1> QED
  BY <1>1, TableInit, TableStep, PTL DEF Spec

\* No request that cancelAll saw is in its handler when handleReVersion or cleanup
\* releases the fids.
THEOREM SweepsDrained == Spec => []SweptAreDrained
<1>1. SweepInv => SweptAreDrained
  BY DEF SweepInv
<1> QED
  BY <1>1, PoolInit, PoolStep, TableInit, TableStep, SweepInit, SweepStep, PTL DEF Spec
=============================================================================
