------------------------- MODULE ServerFlushProofs -------------------------
(***************************************************************************)
(* Proofs about ServerFlush for any numbers of tags, requests, Tflushes    *)
(* and pooled contexts.  Inductive invariants, each using some of the ones *)
(* before it: TypeOK with Addressed, Ownership, Channels (the table and    *)
(* its channels), Stream, Answers, Reuse (the wire and the client's tags), *)
(* Cancels and Order.                                                      *)
(***************************************************************************)
EXTENDS ServerFlush, FiniteSetTheorems, TLAPS

USE Zenon   \* a leaf that needs arithmetic or long case splits names SMT

-----------------------------------------------------------------------------
(* What each method of inflightMap preserves *)

\* start maps a table to a table.
LEMMA StartType ==
    ASSUME NEW m \in InflightMaps, NEW t \in Tag, NEW c \in Ctx
    PROVE  Start(m, t, c) \in InflightMaps
BY SMT DEF Start, InflightMaps, Entry

\* remove maps a table to a table.
LEMMA RemoveType ==
    ASSUME NEW m \in InflightMaps, NEW t \in Tag
    PROVE  Remove(m, t) \in InflightMaps
BY SMT DEF Remove, InflightMaps, Entry, ZeroEntry

\* commit maps a table to a table.
LEMMA CommitType ==
    ASSUME NEW m \in InflightMaps, NEW t \in Tag
    PROVE  Commit(m, t) \in InflightMaps
BY DEF Commit, InflightMaps, Entry

\* flushWait maps a table to a table.
LEMMA FlushWaitType ==
    ASSUME NEW m \in InflightMaps, NEW t \in Tag, NEW f \in Flush
    PROVE  FlushWait(m, t, f) \in InflightMaps
BY DEF FlushWait, InflightMaps, Entry

\* The set of tags of a table is finite.
LEMMA TagsFinite ==
    ASSUME NEW m \in InflightMaps
    PROVE  IsFiniteSet(m.tags) /\ Cardinality(m.tags) \in Nat
BY FiniteTags, FS_Subset, FS_CardinalityType DEF InflightMaps

\* start counts a new tag once and a replaced one not at all.
LEMMA StartCount ==
    ASSUME NEW m \in InflightMaps, NEW t \in Tag, NEW c \in Ctx, CountExact(m)
    PROVE  CountExact(Start(m, t, c))
<1>1. Start(m, t, c).tags = m.tags \cup {t}
  BY DEF Start, InflightMaps
<1>2. Start(m, t, c).count = IF t \in m.tags THEN m.count ELSE m.count + 1
  BY DEF Start, InflightMaps
<1>3. CASE t \in m.tags
  <2>1. m.tags \cup {t} = m.tags
    BY <1>3
  <2> QED
    BY <1>1, <1>2, <1>3, <2>1 DEF CountExact
<1>4. CASE t \notin m.tags
  <2>1. Cardinality(m.tags \cup {t}) = Cardinality(m.tags) + 1
    BY <1>4, TagsFinite, FS_AddElement
  <2> QED
    BY <1>1, <1>2, <1>4, <2>1 DEF CountExact
<1> QED
  BY <1>3, <1>4

\* Removing an entry that is there keeps the count exact.
LEMMA RemoveCount ==
    ASSUME NEW m \in InflightMaps, NEW t \in m.tags, CountExact(m)
    PROVE  CountExact(Remove(m, t))
<1>1. /\ Remove(m, t).tags = m.tags \ {t}
      /\ Remove(m, t).count = m.count - 1
  BY DEF Remove, InflightMaps
<1>2. Cardinality(m.tags \ {t}) = Cardinality(m.tags) - 1
  BY TagsFinite, FS_RemoveElement
<1> QED
  BY <1>1, <1>2 DEF CountExact

\* The table after start, entry by entry.
LEMMA StartFields ==
    ASSUME NEW m \in InflightMaps, NEW t \in Tag, NEW c \in Ctx
    PROVE  /\ Start(m, t, c).tags = m.tags \cup {t}
           /\ \A u \in Tag : Start(m, t, c).entry[u] =
                IF u = t THEN [ctx |-> c, done |-> {}, committed |-> FALSE] ELSE m.entry[u]
BY DEF Start, InflightMaps

\* The table after remove, entry by entry.
LEMMA RemoveFields ==
    ASSUME NEW m \in InflightMaps, NEW t \in Tag
    PROVE  /\ Remove(m, t).tags = m.tags \ {t}
           /\ \A u \in Tag : Remove(m, t).entry[u] =
                IF u = t THEN ZeroEntry ELSE m.entry[u]
BY DEF Remove, InflightMaps

\* The table after commit, entry by entry.
LEMMA CommitFields ==
    ASSUME NEW m \in InflightMaps, NEW t \in Tag
    PROVE  /\ Commit(m, t).tags = m.tags \cup {t}
           /\ Commit(m, t).count = m.count
           /\ \A u \in Tag : /\ Commit(m, t).entry[u].ctx = m.entry[u].ctx
                             /\ Commit(m, t).entry[u].done = m.entry[u].done
                             /\ u # t => Commit(m, t).entry[u] = m.entry[u]
BY DEF Commit, InflightMaps

\* The table after flushWait, entry by entry.
LEMMA FlushWaitFields ==
    ASSUME NEW m \in InflightMaps, NEW t \in Tag, NEW f \in Flush
    PROVE  /\ FlushWait(m, t, f).tags = m.tags
           /\ FlushWait(m, t, f).count = m.count
           /\ \A u \in Tag :
                /\ FlushWait(m, t, f).entry[u].ctx = m.entry[u].ctx
                /\ FlushWait(m, t, f).entry[u].committed = m.entry[u].committed
                /\ FlushWait(m, t, f).entry[u].done =
                     IF u = t /\ t \in m.tags THEN m.entry[u].done \cup {f}
                                              ELSE m.entry[u].done
BY DEF FlushWait, InflightMaps

-----------------------------------------------------------------------------
(* The table and its channels *)

Inv1 == TypeOK /\ Addressed

\* The number of frames sent is a natural number.
LEMMA SentCountNat == SentCount \in Nat
<1>1. IsFiniteSet(Frame)
  BY FrameAssumption, FS_Union DEF Frame
<1>2. IsFiniteSet({x \in Frame : sent[x] # 0})
  BY <1>1, FS_Subset
<1> QED
  BY <1>2, FS_CardinalityType DEF SentCount

\* The initial state is well typed and nothing has been sent.
LEMMA InitInv1 == Init => Inv1
<1> SUFFICES ASSUME Init PROVE Inv1
  OBVIOUS
<1>1. im \in InflightMaps
  BY SMT DEF Init, InflightMaps, newInflightMap, Entry, ZeroEntry
<1>2. TypeOK
  BY <1>1 DEF Init, TypeOK, Stages, FlushStages
<1>3. Addressed
  BY SMT DEF Init, Addressed, Frame
<1> QED
  BY <1>2, <1>3 DEF Inv1

\* Every step keeps the types, and what has been sent keeps its address.
LEMMA NextInv1 == Inv1 /\ Ownership /\ [Next]_vars => Inv1'
<1> SUFFICES ASSUME Inv1, Ownership, [Next]_vars PROVE Inv1'
  OBVIOUS
<1> USE DEF Inv1, TypeOK, Addressed, Stages, FlushStages, Frame, wire
<1>1. ASSUME NEW r \in Req, NEW t \in Tag, ClientSend(r, t) PROVE Inv1'
  BY <1>1, SentCountNat, FrameAssumption, SMT DEF ClientSend
<1>2. ASSUME NEW f \in Flush, NEW r \in Req, ClientFlush(f, r) PROVE Inv1'
  BY <1>2, SentCountNat, FrameAssumption, SMT DEF ClientFlush
<1>3. CASE ClientRead
  BY <1>3, SMT DEF ClientRead, server
<1>4. ASSUME NEW x \in Frame, ReadFrame(x) PROVE Inv1'
  BY <1>4, FrameAssumption, SMT DEF ReadFrame
<1>5. ASSUME NEW r \in Req, RequestStep(r) PROVE Inv1'
  <2>1. ASSUME NEW c \in Ctx, StartRequest(r, c) PROVE Inv1'
    <3>1. tag[r] \in Tag
      BY <2>1 DEF StartRequest
    <3>2. im' \in InflightMaps
      BY <2>1, <3>1, StartType DEF StartRequest
    <3>3. StartReleases(im, tag[r]) \in SUBSET Flush
      BY <3>1 DEF StartReleases, InflightMaps, Entry
    <3> QED
      BY <2>1, <3>2, <3>3 DEF StartRequest
  <2>2. CASE RejectDuplicate(r)
    BY <2>2 DEF RejectDuplicate
  <2>3. CASE HandlerReturns(r)
    <3>1. tag[r] \in Tag
      BY <2>3 DEF HandlerReturns
    <3>2. im' \in InflightMaps
      BY <2>3, <3>1, CommitType DEF HandlerReturns
    <3> QED
      BY <2>3, <3>2 DEF HandlerReturns
  <2>4. CASE HandlerReturnsNil(r)
    BY <2>4 DEF HandlerReturnsNil
  <2>5. CASE HandlerPanics(r)
    BY <2>5 DEF HandlerPanics
  <2>6. CASE WriteResponse(r)
    BY <2>6, SMT DEF WriteResponse, Respond
  <2>7. CASE WritePanicError(r)
    BY <2>7, SMT DEF WritePanicError, Respond
  <2>8. CASE FinishRequest(r)
    <3>1. tag[r] \in Tag
      BY <2>8 DEF FinishRequest
    <3>2. im' \in InflightMaps
      BY <2>8, <3>1, RemoveType DEF FinishRequest
    <3>3. DoneOf(im, tag[r]) \in SUBSET Flush
      BY <3>1 DEF DoneOf, InflightMaps, Entry
    <3> QED
      BY <2>8, <3>2, <3>3 DEF FinishRequest
  <2>9. CASE CompleteRequest(r)
    <3>1. tag[r] \in Tag
      BY <2>9 DEF CompleteRequest
    <3>2. im' \in InflightMaps
      BY <2>9, <3>1, RemoveType DEF CompleteRequest, CompleteCommit
    <3>3. CompleteDone(im, tag[r], ctxOf[r]) \in SUBSET Flush
      BY <3>1 DEF CompleteDone, DoneOf, InflightMaps, Entry
    <3> QED
      BY <2>9, <3>2, <3>3 DEF CompleteRequest
  <2>10. CASE CloseDone(r)
    BY <2>10 DEF CloseDone
  <2>11. CASE RecycleCtx(r)
    BY <2>11 DEF RecycleCtx
  <2> QED
    BY <1>5, <2>1, <2>2, <2>3, <2>4, <2>5, <2>6, <2>7, <2>8, <2>9, <2>10, <2>11
    DEF RequestStep
<1>6. ASSUME NEW f \in Flush, FlushStep(f) PROVE Inv1'
  <2>1. CASE BeginFlush(f)
    <3>1. tag[target[f]] \in Tag
      BY <2>1 DEF BeginFlush
    <3>2. im' \in InflightMaps
      BY <2>1, <3>1, FlushWaitType DEF BeginFlush
    <3>3. cancelled' \in SUBSET Ctx
      BY <2>1, <3>1, SMT DEF BeginFlush, Ownership, EntryHasOwner
    <3> QED
      BY <2>1, <3>2, <3>3 DEF BeginFlush
  <2>2. CASE FlushReleased(f)
    BY <2>2 DEF FlushReleased
  <2>3. CASE FlushTimeout(f)
    BY <2>3 DEF FlushTimeout
  <2>4. CASE FlushAbandoned(f)
    BY <2>4 DEF FlushAbandoned
  <2>5. CASE WriteRflush(f)
    BY <2>5, SMT DEF WriteRflush, Respond
  <2> QED
    BY <1>6, <2>1, <2>2, <2>3, <2>4, <2>5 DEF FlushStep
<1>7. CASE Hangup
  BY <1>7 DEF Hangup, server
<1>8. CASE UNCHANGED vars
  BY <1>8 DEF vars, server
<1> QED
  BY <1>1, <1>2, <1>3, <1>4, <1>5, <1>6, <1>7, <1>8 DEF Next, ClientStep

-----------------------------------------------------------------------------
\* The table is empty at first.
LEMMA InitOwnership == Init => Ownership
<1> SUFFICES ASSUME Init PROVE Ownership
  OBVIOUS
<1>1. Cardinality({}) = 0
  BY FS_EmptySet
<1> QED
  BY <1>1 DEF Init, Ownership, Busy, Uncommitted, EntryHasOwner, CountIsEntries, CountExact,
              newInflightMap

\* Steps that leave requests, contexts and the table alone.
LEMMA OwnershipStable ==
    Ownership /\ UNCHANGED <<stage, tag, ctxOf, im>> => Ownership'
BY SMT DEF Ownership, EntryHasOwner, CountIsEntries

\* A worker that moves on without touching the table keeps what it owns.
LEMMA OwnershipMove ==
    ASSUME Inv1, Ownership, NEW r \in Req, NEW s \in Stages,
           stage' = [stage EXCEPT ![r] = s], UNCHANGED <<tag, ctxOf, im>>,
           \/ stage[r] \in Busy /\ s \in Busy /\ (s \in Uncommitted => stage[r] \in Uncommitted)
           \/ stage[r] \notin Busy /\ s \notin Busy \cup Uncommitted
    PROVE  Ownership'
<1> USE DEF Inv1, TypeOK
<1>1. /\ (\A q \in Req : stage[q] \in Busy => ctxOf[q] \in Ctx)'
      /\ (\A p, q \in Req : ctxOf[p] = ctxOf[q] /\ ctxOf[p] # Nil => p = q)'
      /\ (\A q \in Req : stage[q] \in Uncommitted =>
            OwnsEntry(im, tag[q], ctxOf[q]) /\ ~im.entry[tag[q]].committed)'
  BY DEF Ownership
<1>2. EntryHasOwner'
  BY DEF Ownership, EntryHasOwner
<1>3. CountIsEntries'
  BY DEF Ownership, CountIsEntries
<1> QED
  BY <1>1, <1>2, <1>3 DEF Ownership

\* A worker that takes its own entry out of the table (finish, or completeCommit
\* when the entry has not been replaced) disturbs nobody else's.
LEMMA OwnershipRemove ==
    ASSUME Inv1, Ownership, NEW r \in Req, stage[r] \in Busy, tag[r] \in Tag,
           OwnsEntry(im, tag[r], ctxOf[r]), im' = Remove(im, tag[r]),
           stage' = [stage EXCEPT ![r] = "closing"], UNCHANGED <<tag, ctxOf>>
    PROVE  Ownership'
<1> USE DEF Inv1, TypeOK
<1>1. /\ im'.tags = im.tags \ {tag[r]}
      /\ \A u \in Tag : u # tag[r] => im'.entry[u] = im.entry[u]
  BY RemoveFields, SMT
<1>2. (\A q \in Req : stage[q] \in Busy => ctxOf[q] \in Ctx)'
  BY DEF Ownership, Busy
<1>3. (\A q \in Req : stage[q] \in Uncommitted =>
         OwnsEntry(im, tag[q], ctxOf[q]) /\ ~im.entry[tag[q]].committed)'
  <2> SUFFICES ASSUME NEW q \in Req, stage'[q] \in Uncommitted
               PROVE  OwnsEntry(im', tag[q], ctxOf[q]) /\ ~im'.entry[tag[q]].committed
    OBVIOUS
  <2>1. q # r /\ stage[q] \in Uncommitted
    BY DEF Uncommitted
  <2>2. OwnsEntry(im, tag[q], ctxOf[q]) /\ ~im.entry[tag[q]].committed /\ ctxOf[q] \in Ctx
    BY <2>1 DEF Ownership, Uncommitted, Busy
  <2>3. tag[q] # tag[r] /\ tag[q] \in Tag
    BY <2>1, <2>2, NilAssumption DEF Ownership, OwnsEntry, InflightMaps
  <2> QED
    BY <1>1, <2>2, <2>3 DEF OwnsEntry
<1>4. EntryHasOwner'
  <2> SUFFICES ASSUME NEW t \in im'.tags
               PROVE  \E q \in Req : stage'[q] \in Busy /\ tag[q] = t
                                      /\ ctxOf[q] = im'.entry[t].ctx
    BY DEF EntryHasOwner
  <2>1. t \in im.tags /\ t # tag[r] /\ t \in Tag
    BY <1>1 DEF InflightMaps
  <2>2. PICK q \in Req : stage[q] \in Busy /\ tag[q] = t /\ ctxOf[q] = im.entry[t].ctx
    BY <2>1 DEF Ownership, EntryHasOwner
  <2> QED
    BY <1>1, <2>1, <2>2
<1>5. CountIsEntries'
  BY RemoveCount DEF Ownership, CountIsEntries, OwnsEntry
<1> QED
  BY <1>2, <1>3, <1>4, <1>5 DEF Ownership

\* Every step keeps each entry with the worker that owns it.
LEMMA NextOwnership == Inv1 /\ Ownership /\ [Next]_vars => Ownership'
<1> SUFFICES ASSUME Inv1, Ownership, [Next]_vars PROVE Ownership'
  OBVIOUS
<1> USE DEF Inv1, TypeOK, wire
<1>1. ASSUME NEW r \in Req, NEW t \in Tag, ClientSend(r, t) PROVE Ownership'
  <2>1. stage[r] = "unsent" /\ stage' = [stage EXCEPT ![r] = "sent"]
        /\ tag' = [tag EXCEPT ![r] = t] /\ UNCHANGED <<ctxOf, im>>
    BY <1>1 DEF ClientSend
  <2>2. (\A q \in Req : stage[q] \in Busy => ctxOf[q] \in Ctx)'
    BY <2>1 DEF Ownership, Busy
  <2>3. (\A q \in Req : stage[q] \in Uncommitted =>
           OwnsEntry(im, tag[q], ctxOf[q]) /\ ~im.entry[tag[q]].committed)'
    BY <2>1 DEF Ownership, Uncommitted
  <2>4. EntryHasOwner'
    BY <2>1 DEF Ownership, EntryHasOwner, Busy
  <2> QED
    BY <2>1, <2>2, <2>3, <2>4 DEF Ownership, CountIsEntries
<1>2. ASSUME NEW f \in Flush, NEW r \in Req, ClientFlush(f, r) PROVE Ownership'
  BY <1>2, OwnershipStable DEF ClientFlush
<1>3. CASE ClientRead
  BY <1>3, OwnershipStable DEF ClientRead, server
<1>4. ASSUME NEW x \in Frame, ReadFrame(x) PROVE Ownership'
  <2>1. CASE x \in Req
    <3>1. stage[x] = "sent"
      BY <1>4, <2>1, SMT DEF ReadFrame, Addressed
    <3> QED
      BY <1>4, <2>1, <3>1, OwnershipMove DEF ReadFrame, Stages, Busy, Uncommitted
  <2>2. CASE x \notin Req
    BY <1>4, <2>2, OwnershipStable DEF ReadFrame
  <2> QED
    BY <2>1, <2>2
<1>5. ASSUME NEW r \in Req, RequestStep(r) PROVE Ownership'
  <2>1. ASSUME NEW c \in Ctx, StartRequest(r, c) PROVE Ownership'
    <3>1. /\ stage[r] = "read" /\ stage' = [stage EXCEPT ![r] = "running"]
          /\ c \in FreeCtx /\ StartAllows(im, tag[r]) /\ im' = Start(im, tag[r], c)
          /\ ctxOf' = [ctxOf EXCEPT ![r] = c] /\ UNCHANGED tag
      BY <2>1 DEF StartRequest
    <3>2. tag[r] \in Tag
      BY <3>1 DEF Addressed
    <3>3. /\ im'.tags = im.tags \cup {tag[r]}
          /\ \A u \in Tag : im'.entry[u] =
               IF u = tag[r] THEN [ctx |-> c, done |-> {}, committed |-> FALSE] ELSE im.entry[u]
      BY <3>1, <3>2, StartFields, SMT
    <3>4. c # Nil
      BY NilAssumption
    <3>5. (\A q \in Req : stage[q] \in Busy => ctxOf[q] \in Ctx)'
      BY <3>1 DEF Ownership, Busy
    <3>6. (\A p, q \in Req : ctxOf[p] = ctxOf[q] /\ ctxOf[p] # Nil => p = q)'
      BY <3>1 DEF Ownership, FreeCtx
    <3>7. (\A q \in Req : stage[q] \in Uncommitted =>
             OwnsEntry(im, tag[q], ctxOf[q]) /\ ~im.entry[tag[q]].committed)'
      <4> SUFFICES ASSUME NEW q \in Req, stage'[q] \in Uncommitted
                   PROVE  OwnsEntry(im', tag[q], ctxOf'[q]) /\ ~im'.entry[tag[q]].committed
        BY <3>1
      <4>1. CASE q = r
        BY <3>1, <3>2, <3>3, <4>1, SMT DEF OwnsEntry
      <4>2. CASE q # r
        <5>1. stage[q] \in Uncommitted
          BY <3>1, <4>2
        <5>2. OwnsEntry(im, tag[q], ctxOf[q]) /\ ~im.entry[tag[q]].committed
          BY <5>1 DEF Ownership
        <5>3. tag[q] # tag[r] /\ tag[q] \in Tag
          BY <3>1, <5>2 DEF OwnsEntry, StartAllows, InflightMaps
        <5> QED
          BY <3>1, <3>3, <4>2, <5>2, <5>3 DEF OwnsEntry
      <4> QED
        BY <4>1, <4>2
    <3>8. EntryHasOwner'
      <4> SUFFICES ASSUME NEW t \in im'.tags
                   PROVE  \E q \in Req : stage'[q] \in Busy /\ tag[q] = t
                                          /\ ctxOf'[q] = im'.entry[t].ctx
        BY <3>1 DEF EntryHasOwner
      <4>1. CASE t = tag[r]
        BY <3>1, <3>2, <3>3, <4>1, SMT DEF Busy
      <4>2. CASE t # tag[r]
        <5>1. t \in im.tags /\ t \in Tag
          BY <3>3, <4>2 DEF InflightMaps
        <5>2. PICK q \in Req : stage[q] \in Busy /\ tag[q] = t /\ ctxOf[q] = im.entry[t].ctx
          BY <5>1 DEF Ownership, EntryHasOwner
        <5> QED
          BY <3>1, <3>3, <4>2, <5>1, <5>2
      <4> QED
        BY <4>1, <4>2
    <3>9. CountIsEntries'
      BY <3>1, <3>2, StartCount DEF Ownership, CountIsEntries
    <3> QED
      BY <3>5, <3>6, <3>7, <3>8, <3>9 DEF Ownership
  <2>2. CASE RejectDuplicate(r)
    BY <2>2, OwnershipMove DEF RejectDuplicate, Stages, Busy, Uncommitted
  <2>3. CASE HandlerReturns(r)
    <3>1. /\ stage[r] = "running" /\ stage' = [stage EXCEPT ![r] = "committed"]
          /\ im' = Commit(im, tag[r]) /\ UNCHANGED <<tag, ctxOf>>
      BY <2>3 DEF HandlerReturns
    <3>2. tag[r] \in im.tags /\ tag[r] \in Tag /\ im.entry[tag[r]].ctx = ctxOf[r]
      BY <3>1 DEF Ownership, Uncommitted, OwnsEntry, Addressed
    <3>3. /\ im'.tags = im.tags
          /\ im'.count = im.count
          /\ \A u \in Tag : /\ im'.entry[u].ctx = im.entry[u].ctx
                            /\ u # tag[r] => im'.entry[u] = im.entry[u]
      <4>1. /\ Commit(im, tag[r]).tags = im.tags \cup {tag[r]}
            /\ Commit(im, tag[r]).count = im.count
            /\ \A u \in Tag : /\ Commit(im, tag[r]).entry[u].ctx = im.entry[u].ctx
                              /\ u # tag[r] => Commit(im, tag[r]).entry[u] = im.entry[u]
        BY <3>2, CommitFields, SMT
      <4> QED
        BY <3>1, <3>2, <4>1
    <3>4. (\A q \in Req : stage[q] \in Busy => ctxOf[q] \in Ctx)'
      BY <3>1 DEF Ownership, Busy
    <3>5. (\A q \in Req : stage[q] \in Uncommitted =>
             OwnsEntry(im, tag[q], ctxOf[q]) /\ ~im.entry[tag[q]].committed)'
      <4> SUFFICES ASSUME NEW q \in Req, stage'[q] \in Uncommitted
                   PROVE  OwnsEntry(im', tag[q], ctxOf[q]) /\ ~im'.entry[tag[q]].committed
        BY <3>1
      <4>1. q # r /\ stage[q] \in Uncommitted
        BY <3>1 DEF Uncommitted
      <4>2. OwnsEntry(im, tag[q], ctxOf[q]) /\ ~im.entry[tag[q]].committed /\ ctxOf[q] \in Ctx
        BY <4>1 DEF Ownership, Uncommitted, Busy
      <4>3. tag[q] # tag[r] /\ tag[q] \in Tag
        BY <3>2, <4>1, <4>2, NilAssumption DEF Ownership, OwnsEntry, InflightMaps
      <4> QED
        BY <3>3, <4>2, <4>3 DEF OwnsEntry
    <3>6. EntryHasOwner'
      <4> SUFFICES ASSUME NEW t \in im.tags
                   PROVE  \E q \in Req : stage'[q] \in Busy /\ tag[q] = t
                                          /\ ctxOf[q] = im'.entry[t].ctx
        BY <3>1, <3>3 DEF EntryHasOwner
      <4>1. PICK q \in Req : stage[q] \in Busy /\ tag[q] = t /\ ctxOf[q] = im.entry[t].ctx
        BY DEF Ownership, EntryHasOwner
      <4>2. t \in Tag
        BY DEF InflightMaps
      <4> QED
        BY <3>1, <3>3, <4>1, <4>2 DEF Busy
    <3> QED
      BY <3>1, <3>3, <3>4, <3>5, <3>6 DEF Ownership, CountIsEntries, CountExact
  <2>4. CASE HandlerReturnsNil(r)
    BY <2>4, OwnershipMove DEF HandlerReturnsNil, Stages, Busy, Uncommitted
  <2>5. CASE HandlerPanics(r)
    BY <2>5, OwnershipMove DEF HandlerPanics, Stages, Busy, Uncommitted
  <2>6. CASE WriteResponse(r)
    BY <2>6, OwnershipMove DEF WriteResponse, Stages, Busy, Uncommitted
  <2>7. CASE WritePanicError(r)
    BY <2>7, OwnershipMove DEF WritePanicError, Stages, Busy, Uncommitted
  <2>8. CASE FinishRequest(r)
    <3>1. /\ stage[r] = "finishing" /\ stage' = [stage EXCEPT ![r] = "closing"]
          /\ im' = Remove(im, tag[r]) /\ UNCHANGED <<tag, ctxOf>>
      BY <2>8 DEF FinishRequest
    <3>2. OwnsEntry(im, tag[r], ctxOf[r]) /\ tag[r] \in Tag
      BY <3>1 DEF Ownership, Uncommitted, Addressed
    <3>3. stage[r] \in Busy
      BY <3>1 DEF Busy
    <3> QED
      BY <3>1, <3>2, <3>3, OwnershipRemove
  <2>9. CASE CompleteRequest(r)
    <3>1. /\ stage[r] = "written" /\ stage' = [stage EXCEPT ![r] = "closing"]
          /\ im' = CompleteCommit(im, tag[r], ctxOf[r]) /\ UNCHANGED <<tag, ctxOf>>
      BY <2>9 DEF CompleteRequest
    <3>2. CASE OwnsEntry(im, tag[r], ctxOf[r])
      <4>1. stage[r] \in Busy /\ tag[r] \in Tag
        BY <3>1 DEF Busy, Addressed
      <4>2. im' = Remove(im, tag[r])
        BY <3>1, <3>2 DEF CompleteCommit
      <4> QED
        BY <3>1, <3>2, <4>1, <4>2, OwnershipRemove
    <3>3. CASE ~OwnsEntry(im, tag[r], ctxOf[r])
      <4>1. im' = im
        BY <3>1, <3>3 DEF CompleteCommit
      <4>2. EntryHasOwner'
        <5> SUFFICES ASSUME NEW t \in im.tags
                     PROVE  \E q \in Req : stage'[q] \in Busy /\ tag[q] = t
                                            /\ ctxOf[q] = im.entry[t].ctx
          BY <3>1, <4>1 DEF EntryHasOwner
        <5>1. PICK q \in Req : stage[q] \in Busy /\ tag[q] = t /\ ctxOf[q] = im.entry[t].ctx
          BY DEF Ownership, EntryHasOwner
        <5>2. q # r
          BY <3>3, <5>1 DEF OwnsEntry
        <5> QED
          BY <3>1, <5>1, <5>2
      <4>3. (\A q \in Req : stage[q] \in Busy => ctxOf[q] \in Ctx)'
        BY <3>1 DEF Ownership, Busy
      <4>4. (\A q \in Req : stage[q] \in Uncommitted =>
               OwnsEntry(im, tag[q], ctxOf[q]) /\ ~im.entry[tag[q]].committed)'
        BY <3>1, <4>1 DEF Ownership, Uncommitted
      <4> QED
        BY <3>1, <4>1, <4>2, <4>3, <4>4 DEF Ownership, CountIsEntries
    <3> QED
      BY <3>2, <3>3
  <2>10. CASE CloseDone(r)
    BY <2>10, OwnershipMove DEF CloseDone, Stages, Busy, Uncommitted
  <2>11. CASE RecycleCtx(r)
    <3>1. /\ stage[r] = "recycling" /\ stage' = [stage EXCEPT ![r] = "over"]
          /\ ctxOf' = [ctxOf EXCEPT ![r] = Nil] /\ UNCHANGED <<tag, im>>
      BY <2>11 DEF RecycleCtx
    <3>2. /\ (\A q \in Req : stage[q] \in Busy => ctxOf[q] \in Ctx)'
          /\ (\A p, q \in Req : ctxOf[p] = ctxOf[q] /\ ctxOf[p] # Nil => p = q)'
          /\ (\A q \in Req : stage[q] \in Uncommitted =>
                OwnsEntry(im, tag[q], ctxOf[q]) /\ ~im.entry[tag[q]].committed)'
      BY <3>1 DEF Ownership, Busy, Uncommitted
    <3>3. EntryHasOwner'
      BY <3>1 DEF Ownership, EntryHasOwner, Busy
    <3> QED
      BY <3>1, <3>2, <3>3 DEF Ownership, CountIsEntries
  <2> QED
    BY <1>5, <2>1, <2>2, <2>3, <2>4, <2>5, <2>6, <2>7, <2>8, <2>9, <2>10, <2>11
    DEF RequestStep
<1>6. ASSUME NEW f \in Flush, FlushStep(f) PROVE Ownership'
  <2>1. CASE BeginFlush(f)
    <3>1. tag[target[f]] \in Tag
      BY <2>1 DEF BeginFlush, Addressed
    <3>2. /\ im'.tags = im.tags /\ im'.count = im.count
          /\ \A u \in Tag : /\ im'.entry[u].ctx = im.entry[u].ctx
                            /\ im'.entry[u].committed = im.entry[u].committed
      <4>1. im' = FlushWait(im, tag[target[f]], f)
        BY <2>1 DEF BeginFlush
      <4>2. im \in InflightMaps
        OBVIOUS
      <4> HIDE DEF Inv1, TypeOK
      <4>3. /\ FlushWait(im, tag[target[f]], f).tags = im.tags
            /\ FlushWait(im, tag[target[f]], f).count = im.count
            /\ \A u \in Tag :
                 /\ FlushWait(im, tag[target[f]], f).entry[u].ctx = im.entry[u].ctx
                 /\ FlushWait(im, tag[target[f]], f).entry[u].committed =
                      im.entry[u].committed
        BY ONLY <3>1, <4>2, FlushWaitFields, f \in Flush, ZenonT(40)
      <4> QED
        BY ONLY <4>1, <4>3, Zenon
    <3>3. UNCHANGED <<stage, tag, ctxOf>> /\ im.tags \subseteq Tag
      BY <2>1 DEF BeginFlush, InflightMaps
    <3>4. (\A q \in Req : stage[q] \in Uncommitted =>
             OwnsEntry(im, tag[q], ctxOf[q]) /\ ~im.entry[tag[q]].committed)'
      BY <3>2, <3>3 DEF Ownership, OwnsEntry
    <3>5. EntryHasOwner'
      BY <3>2, <3>3, SMT DEF Ownership, EntryHasOwner
    <3> QED
      BY <3>2, <3>3, <3>4, <3>5 DEF Ownership, CountIsEntries, CountExact
  <2>2. CASE FlushReleased(f)
    BY <2>2, OwnershipStable DEF FlushReleased
  <2>3. CASE FlushTimeout(f)
    BY <2>3, OwnershipStable DEF FlushTimeout
  <2>4. CASE FlushAbandoned(f)
    BY <2>4, OwnershipStable DEF FlushAbandoned
  <2>5. CASE WriteRflush(f)
    BY <2>5, OwnershipStable DEF WriteRflush
  <2> QED
    BY <1>6, <2>1, <2>2, <2>3, <2>4, <2>5 DEF FlushStep
<1>7. CASE Hangup
  BY <1>7, OwnershipStable DEF Hangup, server
<1>8. CASE UNCHANGED vars
  BY <1>8, OwnershipStable DEF vars, server
<1> QED
  BY <1>1, <1>2, <1>3, <1>4, <1>5, <1>6, <1>7, <1>8 DEF Next, ClientStep
-----------------------------------------------------------------------------
(* The done channels. *)

Early == {"unsent", "sent", "read"}

\* No channel exists in the initial state.
LEMMA InitChannels == Init => Channels
BY SMT DEF Init, Channels, DoneClosedOnce, NoLostWaiter, newInflightMap, ZeroEntry

\* Steps that neither register, move nor release a waiter.
LEMMA ChannelsStable ==
    ASSUME Channels, im \in InflightMaps, UNCHANGED <<closing, released>>,
           im'.tags = im.tags, \A t \in Tag : im'.entry[t].done = im.entry[t].done,
           \A r \in Req : stage[r] = "closing" => stage'[r] = "closing",
           \A f \in Flush : fstage'[f] \in Early => fstage[f] \in Early,
           \A f \in Flush : fstage'[f] = "waiting" => fstage[f] = "waiting"
    PROVE  Channels'
<1>1. im.tags \subseteq Tag
  BY DEF InflightMaps
<1>2. DoneClosedOnce'
  BY DEF Channels, DoneClosedOnce
<1>3. NoLostWaiter'
  BY <1>1 DEF Channels, NoLostWaiter
<1> QED
  BY <1>1, <1>2, <1>3 DEF Channels, Early

\* A worker takes an entry out of the table and is to close its channel.
LEMMA ChannelsRemove ==
    ASSUME Channels, TypeOK, NEW r \in Req, NEW t \in Tag, stage[r] # "closing",
           im' = Remove(im, t), stage' = [stage EXCEPT ![r] = "closing"],
           closing' = [closing EXCEPT ![r] = im.entry[t].done],
           UNCHANGED <<released, fstage>>
    PROVE  Channels'
<1>1. /\ im'.tags = im.tags \ {t}
      /\ \A u \in Tag : im'.entry[u].done = IF u = t THEN {} ELSE im.entry[u].done
  <2>1. im \in InflightMaps
    BY DEF TypeOK
  <2>2. ZeroEntry.done = {}
    BY DEF ZeroEntry
  <2>3. /\ Remove(im, t).tags = im.tags \ {t}
        /\ \A u \in Tag : Remove(im, t).entry[u] = IF u = t THEN ZeroEntry ELSE im.entry[u]
    BY ONLY <2>1, t \in Tag, RemoveFields, Zenon
  <2> QED
    BY ONLY <2>2, <2>3, im' = Remove(im, t), Zenon
<1>2. \A q \in Req : closing'[q] = IF q = r THEN im.entry[t].done ELSE closing[q]
  BY DEF TypeOK
<1>3. im.tags \subseteq Tag
  BY DEF TypeOK, InflightMaps
<1>4. \A q \in Req : stage'[q] # "closing" => closing'[q] = {}
  BY <1>2 DEF Channels, TypeOK
<1>5. \A p, q \in Req : p # q => closing'[p] \cap closing'[q] = {}
  BY <1>2, SMT DEF Channels, DoneClosedOnce
<1>6. DoneClosedOnce'
  BY <1>1, <1>2, SMT DEF Channels, DoneClosedOnce
<1>7. NoLostWaiter'
  <2> SUFFICES ASSUME NEW f \in Flush, fstage[f] = "waiting", f \notin released
               PROVE  \/ \E u \in im'.tags : f \in im'.entry[u].done
                      \/ \E q \in Req : f \in closing'[q]
    BY DEF NoLostWaiter
  <2>1. CASE \E u \in im.tags : f \in im.entry[u].done
    BY <1>1, <1>2, <1>3, <2>1, SMT
  <2>2. CASE \E q \in Req : f \in closing[q]
    BY <1>2, <2>2 DEF Channels
  <2> QED
    BY <2>1, <2>2 DEF Channels, NoLostWaiter
<1> QED
  BY <1>1, <1>2, <1>4, <1>5, <1>6, <1>7, SMT DEF Channels

\* start replaces the entry of a committed request and closes its channel.
LEMMA ChannelsStart ==
    ASSUME Channels, TypeOK, NEW t \in Tag, NEW c \in Ctx,
           im' = Start(im, t, c), released' = released \cup im.entry[t].done,
           \A r \in Req : stage[r] = "closing" => stage'[r] = "closing",
           UNCHANGED <<closing, fstage>>
    PROVE  Channels'
<1>1. /\ im'.tags = im.tags \cup {t}
      /\ \A u \in Tag : im'.entry[u].done = IF u = t THEN {} ELSE im.entry[u].done
  <2>1. im \in InflightMaps
    BY DEF TypeOK
  <2>2. /\ Start(im, t, c).tags = im.tags \cup {t}
        /\ \A u \in Tag : Start(im, t, c).entry[u] =
             IF u = t THEN [ctx |-> c, done |-> {}, committed |-> FALSE] ELSE im.entry[u]
    BY ONLY <2>1, t \in Tag, c \in Ctx, StartFields, SMT
  <2> QED
    BY ONLY <2>2, im' = Start(im, t, c), SMT
<1>2. im.tags \subseteq Tag
  BY DEF TypeOK, InflightMaps
<1>3. DoneClosedOnce'
  BY <1>1 DEF Channels, DoneClosedOnce
<1>4. NoLostWaiter'
  BY <1>1, <1>2 DEF Channels, NoLostWaiter
<1> QED
  BY <1>1, <1>3, <1>4 DEF Channels

\* flushWait registers a Tflush in the channel of a live entry.
LEMMA ChannelsWait ==
    ASSUME Channels, TypeOK, NEW f \in Flush, NEW t \in Tag, fstage[f] = "read",
           t \in im.tags, im' = FlushWait(im, t, f),
           fstage' = [fstage EXCEPT ![f] = "waiting"],
           UNCHANGED <<stage, closing, released>>
    PROVE  Channels'
<1>1. /\ im'.tags = im.tags
      /\ \A u \in Tag : im'.entry[u].done =
           IF u = t THEN im.entry[u].done \cup {f} ELSE im.entry[u].done
  <2>1. im \in InflightMaps
    BY DEF TypeOK
  <2>2. /\ FlushWait(im, t, f).tags = im.tags
        /\ \A u \in Tag : FlushWait(im, t, f).entry[u].done =
             IF u = t /\ t \in im.tags THEN im.entry[u].done \cup {f}
                                       ELSE im.entry[u].done
    BY ONLY <2>1, t \in Tag, f \in Flush, FlushWaitFields, Zenon
  <2> QED
    BY ONLY <2>2, t \in im.tags, im' = FlushWait(im, t, f), Zenon
<1>2. /\ f \notin released
      /\ \A r \in Req : f \notin closing[r]
      /\ \A u \in Tag : f \notin im.entry[u].done
  BY DEF Channels
<1>3. \A g \in Flush : fstage'[g] = IF g = f THEN "waiting" ELSE fstage[g]
  BY DEF TypeOK
<1>4. im.tags \subseteq Tag
  BY DEF TypeOK, InflightMaps
<1>5. \A u \in Tag : \A g : g \in im'.entry[u].done <=>
        (u = t /\ g = f) \/ g \in im.entry[u].done
  BY <1>1
<1>6. DoneClosedOnce'
  <2>1. \A u \in Tag : im'.entry[u].done \cap released = {}
    BY <1>2, <1>5, SMT DEF Channels, DoneClosedOnce
  <2>2. \A r \in Req, u \in Tag : closing[r] \cap im'.entry[u].done = {}
    BY <1>2, <1>5, SMT DEF Channels, DoneClosedOnce
  <2> QED
    BY <2>1, <2>2 DEF Channels, DoneClosedOnce
<1>7. NoLostWaiter'
  <2> SUFFICES ASSUME NEW g \in Flush, fstage'[g] = "waiting", g \notin released
               PROVE  \/ \E u \in im.tags : g \in im'.entry[u].done
                      \/ \E r \in Req : g \in closing[r]
    BY <1>1 DEF NoLostWaiter
  <2>1. CASE g = f
    BY <1>5, <2>1
  <2>2. CASE g # f
    BY <1>3, <1>4, <1>5, <2>2, SMT DEF Channels, NoLostWaiter
  <2> QED
    BY <2>1, <2>2
<1>8. \A u, v \in Tag : u # v => im'.entry[u].done \cap im'.entry[v].done = {}
  BY <1>2, <1>5, SMT DEF Channels
<1>9. \A g \in Flush : fstage'[g] \in {"unsent", "sent", "read"} =>
        \A u \in Tag : g \notin im'.entry[u].done
  BY <1>3, <1>5, SMT DEF Channels
<1>10. \A u \in Tag : u \notin im'.tags => im'.entry[u].done = {}
  BY <1>1 DEF Channels
<1>11. \A g \in Flush : fstage'[g] \in {"unsent", "sent", "read"} =>
         /\ g \notin released
         /\ \A r \in Req : g \notin closing[r]
         /\ \A u \in Tag : g \notin im'.entry[u].done
  BY <1>3, <1>9 DEF Channels
<1> QED
  BY <1>6, <1>7, <1>8, <1>10, <1>11 DEF Channels

\* Every step keeps each waiter in exactly one channel until it is released.
LEMMA NextChannels == Inv1 /\ Ownership /\ Channels /\ [Next]_vars => Channels'
<1> SUFFICES ASSUME Inv1, Ownership, Channels, [Next]_vars PROVE Channels'
  OBVIOUS
<1>0. TypeOK /\ Addressed /\ im \in InflightMaps
  BY DEF Inv1, TypeOK
<1>1. ASSUME NEW r \in Req, NEW t \in Tag, ClientSend(r, t) PROVE Channels'
  BY <1>0, <1>1, ChannelsStable DEF ClientSend, TypeOK, Early
<1>2. ASSUME NEW f \in Flush, NEW r \in Req, ClientFlush(f, r) PROVE Channels'
  BY <1>0, <1>2, ChannelsStable DEF ClientFlush, TypeOK, Early
<1>3. CASE ClientRead
  BY <1>0, <1>3, ChannelsStable DEF ClientRead, server, Early
<1>4. ASSUME NEW x \in Frame, ReadFrame(x) PROVE Channels'
  <2>1. \A r \in Req : stage[r] = "closing" => stage'[r] = "closing"
    <3>1. x \in Req => stage[x] = "sent"
      BY <1>0, <1>4, SMT DEF ReadFrame, Addressed, TypeOK
    <3> QED
      BY <1>0, <1>4, <3>1 DEF ReadFrame, TypeOK
  <2>2. x \in Flush => fstage[x] = "sent"
    BY <1>0, <1>4, SMT DEF ReadFrame, Addressed, TypeOK
  <2>3. /\ \A f \in Flush : fstage'[f] \in Early => fstage[f] \in Early
        /\ \A f \in Flush : fstage'[f] = "waiting" => fstage[f] = "waiting"
    BY <1>0, <1>4, <2>2 DEF ReadFrame, TypeOK, Early
  <2> QED
    BY <1>0, <1>4, <2>1, <2>3, ChannelsStable DEF ReadFrame
<1>5. ASSUME NEW r \in Req, RequestStep(r) PROVE Channels'
  <2>1. ASSUME NEW c \in Ctx, StartRequest(r, c) PROVE Channels'
    <3>1. tag[r] \in Tag
      BY <1>0, <2>1 DEF StartRequest, Addressed
    <3>2. \A q \in Req : stage[q] = "closing" => stage'[q] = "closing"
      BY <1>0, <2>1 DEF StartRequest, TypeOK
    <3> QED
      BY <1>0, <2>1, <3>1, <3>2, ChannelsStart DEF StartRequest, StartReleases
  <2>2. CASE RejectDuplicate(r)
    BY <1>0, <2>2, ChannelsStable DEF RejectDuplicate, TypeOK
  <2>3. CASE HandlerReturns(r)
    <3>1. tag[r] \in Tag /\ tag[r] \in im.tags
      BY <1>0, <2>3 DEF HandlerReturns, Addressed, Ownership, Uncommitted, OwnsEntry
    <3>2. im' = Commit(im, tag[r])
      BY <2>3 DEF HandlerReturns
    <3>3. im'.tags = im.tags /\ \A t \in Tag : im'.entry[t].done = im.entry[t].done
      <4>1. /\ Commit(im, tag[r]).tags = im.tags \cup {tag[r]}
            /\ \A t \in Tag : Commit(im, tag[r]).entry[t].done = im.entry[t].done
        BY ONLY <1>0, <3>1, CommitFields, Zenon
      <4> QED
        BY ONLY <3>1, <3>2, <4>1, Zenon
    <3>4. \A q \in Req : stage[q] = "closing" => stage'[q] = "closing"
      BY <1>0, <2>3 DEF HandlerReturns, TypeOK
    <3> QED
      BY <1>0, <2>3, <3>3, <3>4, ChannelsStable DEF HandlerReturns
  <2>4. CASE HandlerReturnsNil(r)
    BY <1>0, <2>4, ChannelsStable DEF HandlerReturnsNil, TypeOK
  <2>5. CASE HandlerPanics(r)
    BY <1>0, <2>5, ChannelsStable DEF HandlerPanics, TypeOK
  <2>6. CASE WriteResponse(r)
    BY <1>0, <2>6, ChannelsStable DEF WriteResponse, TypeOK
  <2>7. CASE WritePanicError(r)
    BY <1>0, <2>7, ChannelsStable DEF WritePanicError, TypeOK
  <2>8. CASE FinishRequest(r)
    <3>1. tag[r] \in Tag
      BY <1>0, <2>8 DEF FinishRequest, Addressed
    <3> QED
      BY <1>0, <2>8, <3>1, ChannelsRemove DEF FinishRequest, DoneOf
  <2>9. CASE CompleteRequest(r)
    <3>1. tag[r] \in Tag /\ stage[r] # "closing"
      BY <1>0, <2>9 DEF CompleteRequest, Addressed
    <3>2. CASE OwnsEntry(im, tag[r], ctxOf[r])
      BY <1>0, <2>9, <3>1, <3>2, ChannelsRemove
      DEF CompleteRequest, CompleteCommit, CompleteDone, DoneOf
    <3>3. CASE ~OwnsEntry(im, tag[r], ctxOf[r])
      <4>1. im' = im /\ closing' = [closing EXCEPT ![r] = {}]
        BY <2>9, <3>3 DEF CompleteRequest, CompleteCommit, CompleteDone
      <4>2. closing[r] = {}
        BY <3>1 DEF Channels
      <4>3. closing' = closing
        BY <1>0, <4>1, <4>2 DEF TypeOK
      <4>4. \A q \in Req : stage[q] = "closing" => stage'[q] = "closing"
        BY <1>0, <2>9 DEF CompleteRequest, TypeOK
      <4> QED
        BY <1>0, <2>9, <4>1, <4>3, <4>4, ChannelsStable DEF CompleteRequest
    <3> QED
      BY <3>2, <3>3
  <2>10. CASE CloseDone(r)
    <3>1. UNCHANGED <<im, fstage>> /\ released' = released \cup closing[r]
      BY <2>10 DEF CloseDone
    <3>2. \A q \in Req : closing'[q] = IF q = r THEN {} ELSE closing[q]
      BY <1>0, <2>10 DEF CloseDone, TypeOK
    <3>3. \A q \in Req : q # r => stage'[q] = stage[q]
      BY <1>0, <2>10 DEF CloseDone, TypeOK
    <3>4. DoneClosedOnce'
      BY <3>1, <3>2 DEF Channels, DoneClosedOnce
    <3>5. NoLostWaiter'
      BY <3>1, <3>2 DEF Channels, NoLostWaiter
    <3>6. (\A q \in Req : stage[q] # "closing" => closing[q] = {})'
      BY <3>2, <3>3 DEF Channels
    <3>7. (\A p, q \in Req : p # q => closing[p] \cap closing[q] = {})'
      BY <3>2 DEF Channels
    <3> QED
      BY <3>1, <3>2, <3>4, <3>5, <3>6, <3>7 DEF Channels
  <2>11. CASE RecycleCtx(r)
    BY <1>0, <2>11, ChannelsStable DEF RecycleCtx, TypeOK
  <2> QED
    BY <1>5, <2>1, <2>2, <2>3, <2>4, <2>5, <2>6, <2>7, <2>8, <2>9, <2>10, <2>11
    DEF RequestStep
<1>6. ASSUME NEW f \in Flush, FlushStep(f) PROVE Channels'
  <2>1. CASE BeginFlush(f)
    <3>1. tag[target[f]] \in Tag /\ fstage[f] = "read"
      BY <1>0, <2>1 DEF BeginFlush, Addressed
    <3>2. im' = FlushWait(im, tag[target[f]], f) /\ UNCHANGED <<stage, closing, released>>
      BY <2>1 DEF BeginFlush
    <3>3. CASE tag[target[f]] \in im.tags
      <4>1. fstage' = [fstage EXCEPT ![f] = "waiting"]
        BY <2>1, <3>3 DEF BeginFlush
      <4> QED
        BY <1>0, <3>1, <3>2, <3>3, <4>1, ChannelsWait
    <3>4. CASE tag[target[f]] \notin im.tags
      <4>1. fstage' = [fstage EXCEPT ![f] = "ready"]
        BY <2>1, <3>4 DEF BeginFlush
      <4>2. im' = im
        BY <3>2, <3>4 DEF FlushWait
      <4> QED
        BY <1>0, <3>2, <4>1, <4>2, ChannelsStable DEF TypeOK, Early
    <3> QED
      BY <3>3, <3>4
  <2>2. CASE FlushReleased(f)
    BY <1>0, <2>2, ChannelsStable DEF FlushReleased, TypeOK, Early
  <2>3. CASE FlushTimeout(f)
    BY <1>0, <2>3, ChannelsStable DEF FlushTimeout, TypeOK, Early
  <2>4. CASE FlushAbandoned(f)
    BY <1>0, <2>4, ChannelsStable DEF FlushAbandoned, TypeOK, Early
  <2>5. CASE WriteRflush(f)
    BY <1>0, <2>5, ChannelsStable DEF WriteRflush, TypeOK, Early
  <2> QED
    BY <1>6, <2>1, <2>2, <2>3, <2>4, <2>5 DEF FlushStep
<1>7. CASE Hangup
  BY <1>0, <1>7, ChannelsStable DEF Hangup, server
<1>8. CASE UNCHANGED vars
  BY <1>0, <1>8, ChannelsStable DEF vars, server
<1> QED
  BY <1>1, <1>2, <1>3, <1>4, <1>5, <1>6, <1>7, <1>8 DEF Next, ClientStep

-----------------------------------------------------------------------------
(* The order of frames on the wire, and the client's reuse of tags. *)

Unread == {"unsent", "sent"}

\* A step that neither sends nor reads a frame.
Quiet ==
    /\ UNCHANGED <<sent, reads, target, tag>>
    /\ \A r \in Req : /\ stage[r] \in Unread => stage'[r] = stage[r]
                      /\ stage[r] \notin Unread => stage'[r] \notin Unread
    /\ \A f \in Flush : /\ fstage[f] \in Unread => fstage'[f] = fstage[f]
                        /\ fstage[f] \notin Unread => fstage'[f] \notin Unread

\* The worker of a request moves on.
LEMMA QuietRequest ==
    ASSUME TypeOK, NEW r \in Req, NEW s, stage[r] \notin Unread, s \notin Unread,
           stage' = [stage EXCEPT ![r] = s],
           UNCHANGED <<fstage, sent, reads, target, tag>>
    PROVE  Quiet
BY DEF Quiet, TypeOK

\* The worker of a Tflush moves on.
LEMMA QuietFlush ==
    ASSUME TypeOK, NEW f \in Flush, NEW s, fstage[f] \notin Unread, s \notin Unread,
           fstage' = [fstage EXCEPT ![f] = s],
           UNCHANGED <<stage, sent, reads, target, tag>>
    PROVE  Quiet
BY DEF Quiet, TypeOK

\* Only the client's sends and the server's reads move the stream.
LEMMA QuietSteps ==
    ASSUME TypeOK, [Next]_vars
    PROVE  \/ \E r \in Req, t \in Tag : ClientSend(r, t)
           \/ \E f \in Flush, r \in Req : ClientFlush(f, r)
           \/ \E x \in Frame : ReadFrame(x)
           \/ Quiet
<1>1. ClientRead => Quiet
  BY DEF ClientRead, server, Quiet
<1>2. ASSUME NEW r \in Req, RequestStep(r) PROVE Quiet
  <2> USE DEF Unread, wire
  <2>1. ASSUME NEW c \in Ctx, StartRequest(r, c) PROVE Quiet
    BY <2>1, QuietRequest DEF StartRequest
  <2>2. CASE RejectDuplicate(r)
    BY <2>2, QuietRequest DEF RejectDuplicate
  <2>3. CASE HandlerReturns(r)
    BY <2>3, QuietRequest DEF HandlerReturns
  <2>4. CASE HandlerReturnsNil(r)
    BY <2>4, QuietRequest DEF HandlerReturnsNil
  <2>5. CASE HandlerPanics(r)
    BY <2>5, QuietRequest DEF HandlerPanics
  <2>6. CASE WriteResponse(r)
    BY <2>6, QuietRequest DEF WriteResponse, Respond
  <2>7. CASE WritePanicError(r)
    BY <2>7, QuietRequest DEF WritePanicError, Respond
  <2>8. CASE FinishRequest(r)
    BY <2>8, QuietRequest DEF FinishRequest
  <2>9. CASE CompleteRequest(r)
    BY <2>9, QuietRequest DEF CompleteRequest
  <2>10. CASE CloseDone(r)
    BY <2>10, QuietRequest DEF CloseDone
  <2>11. CASE RecycleCtx(r)
    BY <2>11, QuietRequest DEF RecycleCtx
  <2> QED
    BY <1>2, <2>1, <2>2, <2>3, <2>4, <2>5, <2>6, <2>7, <2>8, <2>9, <2>10, <2>11
    DEF RequestStep
<1>3. ASSUME NEW f \in Flush, FlushStep(f) PROVE Quiet
  <2> USE DEF Unread, wire
  <2>1. CASE BeginFlush(f)
    <3>1. \E s \in {"waiting", "ready"} : fstage' = [fstage EXCEPT ![f] = s]
      BY <2>1 DEF BeginFlush
    <3> QED
      BY <2>1, <3>1, QuietFlush DEF BeginFlush
  <2>2. CASE FlushReleased(f)
    BY <2>2, QuietFlush DEF FlushReleased
  <2>3. CASE FlushTimeout(f)
    BY <2>3, QuietFlush DEF FlushTimeout
  <2>4. CASE FlushAbandoned(f)
    BY <2>4, QuietFlush DEF FlushAbandoned
  <2>5. CASE WriteRflush(f)
    BY <2>5, QuietFlush DEF WriteRflush, Respond
  <2> QED
    BY <1>3, <2>1, <2>2, <2>3, <2>4, <2>5 DEF FlushStep
<1>4. Hangup => Quiet
  BY DEF Hangup, server, Quiet
<1>5. UNCHANGED vars => Quiet
  BY DEF vars, server, wire, Quiet
<1> QED
  BY <1>1, <1>2, <1>3, <1>4, <1>5 DEF Next, ClientStep

\* A frame that is sent gets the next number.
LEMMA SendCounts ==
    ASSUME TypeOK, NEW x \in Frame, sent[x] = 0,
           sent' = [sent EXCEPT ![x] = SentCount + 1]
    PROVE  SentCount' = SentCount + 1
<1> DEFINE S == {y \in Frame : sent[y] # 0}
<1>1. IsFiniteSet(Frame)
  BY FrameAssumption, FS_Union DEF Frame
<1>2. IsFiniteSet(S)
  BY <1>1, FS_Subset
<1>3. SentCount \in Nat
  BY SentCountNat
<1>4. \A y \in Frame : sent'[y] = IF y = x THEN SentCount + 1 ELSE sent[y]
  BY DEF TypeOK
<1>5. {y \in Frame : sent'[y] # 0} = S \cup {x}
  BY <1>3, <1>4, SMT
<1>6. Cardinality(S \cup {x}) = Cardinality(S) + 1
  BY <1>2, FS_AddElement
<1>7. SentCount = Cardinality(S) /\ SentCount' = Cardinality({y \in Frame : sent'[y] # 0})
  BY DEF SentCount
<1> QED
  BY <1>5, <1>6, <1>7

\* Nothing has been sent in the initial state.
LEMMA InitStream == Init => Stream
<1> SUFFICES ASSUME Init PROVE Stream
  OBVIOUS
<1>1. SentCount \in Nat
  BY SentCountNat
<1> QED
  BY <1>1, SMT DEF Init, Stream, Frame

\* Every step keeps the numbering of the frames.
LEMMA NextStream == Inv1 /\ Stream /\ [Next]_vars => Stream'
<1> SUFFICES ASSUME Inv1, Stream, [Next]_vars PROVE Stream'
  OBVIOUS
<1>0. TypeOK /\ Addressed /\ SentCount \in Nat
  BY SentCountNat DEF Inv1
<1>1. ASSUME NEW r \in Req, NEW t \in Tag, ClientSend(r, t) PROVE Stream'
  <2>1. /\ stage[r] = "unsent" /\ sent[r] = 0 /\ r \in Frame
        /\ UNCHANGED <<reads, fstage, target>>
    BY <1>0, <1>1 DEF ClientSend, Stream, Frame
  <2>2. SentCount' = SentCount + 1
    BY <1>0, <1>1, <2>1, SendCounts DEF ClientSend
  <2>3. \A y \in Frame : sent'[y] = IF y = r THEN SentCount + 1 ELSE sent[y]
    BY <1>0, <1>1 DEF ClientSend, TypeOK
  <2>4. \A q \in Req : stage'[q] = IF q = r THEN "sent" ELSE stage[q]
    BY <1>0, <1>1 DEF ClientSend, TypeOK
  <2>5. \A f \in Flush : f \in Frame /\ f # r
    BY FrameAssumption DEF Frame
  <2>6. \A f \in Flush : fstage[f] # "unsent" => target[f] \in Frame /\ target[f] # r
    BY <1>0, <2>1 DEF Addressed, Frame
  <2>7. /\ (\A f \in Flush : /\ fstage[f] = "unsent" <=> sent[f] = 0
                             /\ fstage[f] = "unsent" => target[f] = None
                             /\ fstage[f] # "unsent" => sent[target[f]] < sent[f])'
    BY <2>1, <2>3, <2>5, <2>6 DEF Stream
  <2>8. (\A q \in Req : /\ stage[q] = "unsent" <=> sent[q] = 0
                        /\ stage[q] = "sent" => sent[q] > reads)'
    BY <1>0, <2>1, <2>3, <2>4, SMT DEF Stream, Frame, TypeOK
  <2>9. (/\ reads <= SentCount
         /\ \A x \in Frame : sent[x] <= SentCount
         /\ \A x, y \in Frame : sent[x] = sent[y] /\ sent[x] # 0 => x = y)'
    BY <1>0, <2>1, <2>2, <2>3, SMT DEF Stream, TypeOK
  <2> QED
    BY <2>7, <2>8, <2>9 DEF Stream
<1>2. ASSUME NEW f \in Flush, NEW r \in Req, ClientFlush(f, r) PROVE Stream'
  <2>1. /\ fstage[f] = "unsent" /\ sent[f] = 0 /\ f \in Frame /\ f \notin Req /\ stage[r] # "unsent"
        /\ UNCHANGED <<reads, stage>>
    BY <1>0, <1>2, FrameAssumption DEF ClientFlush, Stream, Frame
  <2>2. SentCount' = SentCount + 1
    BY <1>0, <1>2, <2>1, SendCounts DEF ClientFlush
  <2>3. \A y \in Frame : sent'[y] = IF y = f THEN SentCount + 1 ELSE sent[y]
    BY <1>0, <1>2 DEF ClientFlush, TypeOK
  <2>4. \A g \in Flush : /\ fstage'[g] = IF g = f THEN "sent" ELSE fstage[g]
                         /\ target'[g] = IF g = f THEN r ELSE target[g]
    BY <1>0, <1>2 DEF ClientFlush, TypeOK
  <2>5. \A g \in Flush : g \in Frame /\ (fstage[g] # "unsent" => target[g] \in Req)
    BY <1>0 DEF Addressed, Frame
  <2>6. Req \subseteq Frame
    BY DEF Frame
  <2>7. (\A q \in Req : /\ stage[q] = "unsent" <=> sent[q] = 0
                        /\ stage[q] = "sent" => sent[q] > reads)'
    BY <2>1, <2>3, <2>6 DEF Stream
  <2>8. (\A g \in Flush : /\ fstage[g] = "unsent" <=> sent[g] = 0
                          /\ fstage[g] = "unsent" => target[g] = None
                          /\ fstage[g] # "unsent" => sent[target[g]] < sent[g])'
    BY <1>0, <2>1, <2>3, <2>4, <2>5, <2>6, SMT DEF Stream, TypeOK
  <2>9. (/\ reads <= SentCount
         /\ \A x \in Frame : sent[x] <= SentCount
         /\ \A x, y \in Frame : sent[x] = sent[y] /\ sent[x] # 0 => x = y)'
    BY <1>0, <2>1, <2>2, <2>3, SMT DEF Stream, TypeOK
  <2> QED
    BY <2>7, <2>8, <2>9 DEF Stream
<1>3. ASSUME NEW x \in Frame, ReadFrame(x) PROVE Stream'
  <2>1. UNCHANGED <<sent, target>> /\ SentCount' = SentCount /\ reads' = reads + 1
        /\ sent[x] = reads + 1
    BY <1>3 DEF ReadFrame, SentCount
  <2>2. /\ x \in Req => stage[x] = "sent"
        /\ x \in Flush => fstage[x] = "sent"
    BY <1>0, <2>1, SMT DEF Addressed, TypeOK
  <2>3. \A r \in Req : stage'[r] = IF r = x THEN "read" ELSE stage[r]
    BY <1>0, <1>3 DEF ReadFrame, TypeOK
  <2>4. \A f \in Flush : fstage'[f] = IF f = x THEN "read" ELSE fstage[f]
    BY <1>0, <1>3 DEF ReadFrame, TypeOK
  <2>5. (\A q \in Req : /\ stage[q] = "unsent" <=> sent[q] = 0
                        /\ stage[q] = "sent" => sent[q] > reads)'
    BY <1>0, <2>1, <2>2, <2>3, SMT DEF Stream, Frame, TypeOK
  <2>6. (\A g \in Flush : /\ fstage[g] = "unsent" <=> sent[g] = 0
                          /\ fstage[g] = "unsent" => target[g] = None
                          /\ fstage[g] # "unsent" => sent[target[g]] < sent[g])'
    BY <2>1, <2>2, <2>4 DEF Stream
  <2>7. reads' <= SentCount
    BY <2>1 DEF Stream
  <2> QED
    BY <2>1, <2>5, <2>6, <2>7 DEF Stream
<1>4. CASE Quiet
  <2>1. UNCHANGED <<sent, target, reads>> /\ SentCount' = SentCount
    BY <1>4 DEF Quiet, SentCount
  <2>2. /\ \A r \in Req : /\ stage'[r] = "unsent" <=> stage[r] = "unsent"
                          /\ stage'[r] = "sent" <=> stage[r] = "sent"
        /\ \A f \in Flush : fstage'[f] = "unsent" <=> fstage[f] = "unsent"
    BY <1>4 DEF Quiet, Unread
  <2> QED
    BY <2>1, <2>2 DEF Stream
<1> QED
  BY <1>0, <1>1, <1>2, <1>3, <1>4, QuietSteps

-----------------------------------------------------------------------------
\* No response has been written in the initial state.
LEMMA InitAnswers == Init => Answers
BY SMT DEF Init, Answers, Frame

\* What the client has been told stays: responses are not rewritten.
Kept == seen <= seen' /\ \A x \in Frame : ans[x] # 0 => ans'[x] = ans[x]

\* A step without a response.
LEMMA AnswersStable ==
    ASSUME TypeOK, Answers, UNCHANGED <<ans, writes, seen>>,
           \A r \in Req : stage'[r] \in MayWrite => stage[r] \in MayWrite,
           \A f \in Flush : fstage[f] = "over" => fstage'[f] = "over"
    PROVE  Answers' /\ Kept
<1>1. seen <= seen
  BY SMT DEF TypeOK
<1> QED
  BY <1>1 DEF Answers, Kept

\* A step that moves one request.
LEMMA AnswersMove ==
    ASSUME TypeOK, Answers, NEW r \in Req, NEW s, stage' = [stage EXCEPT ![r] = s],
           s \in MayWrite => stage[r] \in MayWrite,
           UNCHANGED <<fstage, ans, writes, seen>>
    PROVE  Answers' /\ Kept
<1>1. \A q \in Req : stage'[q] \in MayWrite => stage[q] \in MayWrite
  BY DEF TypeOK
<1> QED
  BY <1>1, AnswersStable

\* A worker writes the response it owes.
LEMMA AnswersRespond ==
    ASSUME TypeOK, Answers, NEW x \in Frame, ans[x] = 0, Respond(x),
           \A r \in Req : stage'[r] \in MayWrite => stage[r] \in MayWrite /\ r # x,
           \A f \in Flush : /\ fstage'[f] # "over" => fstage[f] # "over"
                            /\ f = x => fstage'[f] = "over"
    PROVE  Answers' /\ Kept
<1>1. CASE closed
  <2>1. UNCHANGED <<ans, writes, seen>>
    BY <1>1 DEF Respond
  <2> QED
    BY <2>1, AnswersStable
<1>2. CASE ~closed
  <2>1. /\ \A y \in Frame : ans'[y] = IF y = x THEN writes + 1 ELSE ans[y]
        /\ writes' = writes + 1 /\ seen' = seen
    BY <1>2 DEF Respond, TypeOK
  <2>2. \A y \in Frame : ans'[y] <= writes'
    BY <2>1, SMT DEF Answers, TypeOK
  <2>3. Kept
    BY <2>1, SMT DEF Kept, TypeOK
  <2>4. /\ \A r \in Req : stage'[r] \in MayWrite => ans'[r] = 0
        /\ \A f \in Flush : fstage'[f] # "over" => ans'[f] = 0
    BY <2>1 DEF Answers, Frame
  <2> QED
    BY <2>2, <2>3, <2>4 DEF Answers
<1> QED
  BY <1>1, <1>2

\* Every step answers a frame at most once, and only a frame that still owes it.
LEMMA NextAnswers == Inv1 /\ Answers /\ [Next]_vars => Answers' /\ Kept
<1> SUFFICES ASSUME Inv1, Answers, [Next]_vars PROVE Answers' /\ Kept
  OBVIOUS
<1>0. TypeOK /\ Addressed
  BY DEF Inv1
<1>1. ASSUME NEW r \in Req, NEW t \in Tag, ClientSend(r, t) PROVE Answers' /\ Kept
  BY <1>0, <1>1, AnswersMove DEF ClientSend, MayWrite
<1>2. ASSUME NEW f \in Flush, NEW r \in Req, ClientFlush(f, r) PROVE Answers' /\ Kept
  BY <1>0, <1>2, AnswersStable DEF ClientFlush, TypeOK
<1>3. CASE ClientRead
  <2>1. seen <= seen'
    BY <1>0, <1>3, SMT DEF ClientRead, TypeOK
  <2> QED
    BY <1>3, <2>1 DEF ClientRead, server, Answers, Kept
<1>4. ASSUME NEW x \in Frame, ReadFrame(x) PROVE Answers' /\ Kept
  <2>1. /\ x \in Req => stage[x] = "sent"
        /\ x \in Flush => fstage[x] = "sent"
    BY <1>0, <1>4, SMT DEF ReadFrame, Addressed, TypeOK
  <2>2. /\ \A r \in Req : stage'[r] \in MayWrite => stage[r] \in MayWrite
        /\ \A f \in Flush : fstage[f] = "over" => fstage'[f] = "over"
    BY <1>0, <1>4, <2>1 DEF ReadFrame, TypeOK, MayWrite
  <2> QED
    BY <1>0, <1>4, <2>2, AnswersStable DEF ReadFrame
<1>5. ASSUME NEW r \in Req, RequestStep(r) PROVE Answers' /\ Kept
  <2> USE DEF MayWrite, wire
  <2>1. ASSUME NEW c \in Ctx, StartRequest(r, c) PROVE Answers' /\ Kept
    BY <1>0, <2>1, AnswersMove DEF StartRequest
  <2>2. CASE RejectDuplicate(r)
    BY <1>0, <2>2, AnswersMove DEF RejectDuplicate
  <2>3. CASE HandlerReturns(r)
    BY <1>0, <2>3, AnswersMove DEF HandlerReturns
  <2>4. CASE HandlerReturnsNil(r)
    BY <1>0, <2>4, AnswersMove DEF HandlerReturnsNil
  <2>5. CASE HandlerPanics(r)
    BY <1>0, <2>5, AnswersMove DEF HandlerPanics
  <2>6. ASSUME WriteResponse(r) \/ WritePanicError(r) PROVE Answers' /\ Kept
    <3>1. /\ ans[r] = 0 /\ Respond(r) /\ UNCHANGED fstage
          /\ \E s \in {"written", "finishing"} : stage' = [stage EXCEPT ![r] = s]
      BY <2>6 DEF WriteResponse, WritePanicError, Answers
    <3>2. \A q \in Req : stage'[q] \in MayWrite => stage[q] \in MayWrite /\ q # r
      BY <1>0, <3>1 DEF TypeOK
    <3>3. r \in Frame /\ \A f \in Flush : f # r
      BY FrameAssumption DEF Frame
    <3> QED
      BY <1>0, <3>1, <3>2, <3>3, AnswersRespond
  <2>8. CASE FinishRequest(r)
    BY <1>0, <2>8, AnswersMove DEF FinishRequest
  <2>9. CASE CompleteRequest(r)
    BY <1>0, <2>9, AnswersMove DEF CompleteRequest
  <2>10. CASE CloseDone(r)
    BY <1>0, <2>10, AnswersMove DEF CloseDone
  <2>11. CASE RecycleCtx(r)
    BY <1>0, <2>11, AnswersMove DEF RecycleCtx
  <2> QED
    BY <1>5, <2>1, <2>2, <2>3, <2>4, <2>5, <2>6, <2>8, <2>9, <2>10, <2>11
    DEF RequestStep
<1>6. ASSUME NEW f \in Flush, FlushStep(f) PROVE Answers' /\ Kept
  <2> USE DEF wire
  <2>1. CASE BeginFlush(f)
    <3>1. \A g \in Flush : fstage[g] = "over" => fstage'[g] = "over"
      BY <1>0, <2>1 DEF BeginFlush, TypeOK
    <3> QED
      BY <1>0, <2>1, <3>1, AnswersStable DEF BeginFlush
  <2>2. CASE FlushReleased(f)
    BY <1>0, <2>2, AnswersStable DEF FlushReleased, TypeOK
  <2>3. CASE FlushTimeout(f)
    BY <1>0, <2>3, AnswersStable DEF FlushTimeout, TypeOK
  <2>4. CASE FlushAbandoned(f)
    BY <1>0, <2>4, AnswersStable DEF FlushAbandoned, TypeOK
  <2>5. CASE WriteRflush(f)
    <3>1. /\ ans[f] = 0 /\ Respond(f) /\ UNCHANGED stage
          /\ fstage' = [fstage EXCEPT ![f] = "over"]
      BY <2>5 DEF WriteRflush, Answers
    <3>2. \A g \in Flush : /\ fstage'[g] # "over" => fstage[g] # "over"
                           /\ g = f => fstage'[g] = "over"
      BY <1>0, <3>1 DEF TypeOK
    <3>3. f \in Frame /\ \A r \in Req : r # f
      BY FrameAssumption DEF Frame
    <3> QED
      BY <1>0, <3>1, <3>2, <3>3, AnswersRespond
  <2> QED
    BY <1>6, <2>1, <2>2, <2>3, <2>4, <2>5 DEF FlushStep
<1>7. CASE Hangup
  BY <1>0, <1>7, AnswersStable DEF Hangup, server
<1>8. CASE UNCHANGED vars
  BY <1>0, <1>8, AnswersStable DEF vars, server, wire
<1> QED
  BY <1>1, <1>2, <1>3, <1>4, <1>5, <1>6, <1>7, <1>8 DEF Next, ClientStep

-----------------------------------------------------------------------------
\* The client's rule for tags.

\* A Tflush keeps the request it names.
LEMMA TargetKept ==
    ASSUME Inv1, Stream, [Next]_vars
    PROVE  \A f \in Flush : fstage[f] # "unsent" => target'[f] = target[f]
<1>1. ASSUME NEW r \in Req, NEW t \in Tag, ClientSend(r, t)
      PROVE  UNCHANGED target
  BY <1>1 DEF ClientSend
<1>2. ASSUME NEW g \in Flush, NEW r \in Req, ClientFlush(g, r)
      PROVE  \A f \in Flush : fstage[f] # "unsent" => target'[f] = target[f]
  BY <1>2 DEF ClientFlush, Inv1, TypeOK
<1>3. ASSUME NEW x \in Frame, ReadFrame(x)
      PROVE  UNCHANGED target
  BY <1>3 DEF ReadFrame
<1>4. Quiet => UNCHANGED target
  BY DEF Quiet
<1> QED
  BY <1>1, <1>2, <1>3, <1>4, QuietSteps DEF Inv1

\* A settled request stays settled: its answers are kept, and it is not flushed.
LEMMA SettledStable ==
    ASSUME Inv1, Stream, Answers, [Next]_vars, NEW q \in Req, Settled(q)
    PROVE  Settled(q)'
<1>0. TypeOK
  BY DEF Inv1
<1>1. Kept
  BY NextAnswers
<1>2. Flushes(q)' = Flushes(q)
  <2>1. ASSUME NEW r \in Req, NEW t \in Tag, ClientSend(r, t)
        PROVE  UNCHANGED target
    BY <2>1 DEF ClientSend
  <2>2. ASSUME NEW f \in Flush, NEW r \in Req, ClientFlush(f, r)
        PROVE  Flushes(q)' = Flushes(q)
    <3>1. r # q /\ target[f] # q
      BY <2>2, NoneAssumption DEF ClientFlush, Stream
    <3>2. \A g \in Flush : target'[g] = IF g = f THEN r ELSE target[g]
      BY <1>0, <2>2 DEF ClientFlush, TypeOK
    <3> QED
      BY <3>1, <3>2 DEF Flushes
  <2>3. ASSUME NEW x \in Frame, ReadFrame(x)
        PROVE  UNCHANGED target
    BY <2>3 DEF ReadFrame
  <2>4. Quiet => UNCHANGED target
    BY DEF Quiet
  <2>5. UNCHANGED target => Flushes(q)' = Flushes(q)
    BY DEF Flushes
  <2> QED
    BY <1>0, <2>1, <2>2, <2>3, <2>4, <2>5, QuietSteps
<1>3. ASSUME NEW x \in Frame, Answered(x) PROVE Answered(x)'
  <2>1. ans[x] # 0 /\ ans'[x] = ans[x] /\ ans[x] <= seen /\ seen <= seen'
    BY <1>1, <1>3 DEF Kept, Answered
  <2>2. ans[x] \in Nat /\ seen \in Nat /\ seen' \in Nat
    <3>1. seen' = seen \/ seen' = seen + 1
      BY DEF Next, vars, server, wire, ClientStep, ClientSend, ClientFlush, ClientRead, ReadFrame,
             RequestStep, StartRequest, RejectDuplicate, HandlerReturns, HandlerReturnsNil,
             HandlerPanics, WriteResponse, WritePanicError, Respond, FinishRequest,
             CompleteRequest, CloseDone, RecycleCtx, FlushStep, BeginFlush, FlushReleased,
             FlushTimeout, FlushAbandoned, WriteRflush, Hangup
    <3> QED
      BY <1>0, <3>1, SMT DEF TypeOK
  <2> QED
    BY <2>1, <2>2, SMT DEF Answered
<1> QED
  BY <1>2, <1>3 DEF Settled, Flushes, Frame

\* No tag is in use in the initial state.
LEMMA InitReuse == Init => Reuse
BY DEF Init, Reuse

\* Every step keeps at most one unsettled request on a tag.
LEMMA NextReuse == Inv1 /\ Stream /\ Answers /\ Reuse /\ [Next]_vars => Reuse'
<1> SUFFICES ASSUME Inv1, Stream, Answers, Reuse, [Next]_vars PROVE Reuse'
  OBVIOUS
<1>0. TypeOK /\ Addressed
  BY DEF Inv1
<1>1. \A q \in Req : Settled(q) => Settled(q)'
  BY SettledStable
<1>2. ASSUME NEW r \in Req, NEW t \in Tag, ClientSend(r, t) PROVE Reuse'
  <2>1. \A q \in Req : /\ tag'[q] = IF q = r THEN t ELSE tag[q]
                       /\ stage'[q] = IF q = r THEN "sent" ELSE stage[q]
                       /\ tag[q] = t => Settled(q)
    BY <1>0, <1>2 DEF ClientSend, TypeOK
  <2> QED
    BY <1>1, <2>1 DEF Reuse
<1>3. ASSUME UNCHANGED tag, \A r \in Req : stage'[r] = "unsent" => stage[r] = "unsent"
      PROVE  Reuse'
  BY <1>1, <1>3 DEF Reuse
<1>4. ASSUME NEW f \in Flush, NEW r \in Req, ClientFlush(f, r) PROVE Reuse'
  BY <1>3, <1>4 DEF ClientFlush
<1>5. ASSUME NEW x \in Frame, ReadFrame(x) PROVE Reuse'
  <2>1. UNCHANGED tag /\ \A r \in Req : stage'[r] = "unsent" => stage[r] = "unsent"
    BY <1>0, <1>5 DEF ReadFrame, TypeOK
  <2> QED
    BY <1>3, <2>1
<1>6. CASE Quiet
  <2>1. UNCHANGED tag /\ \A r \in Req : stage'[r] = "unsent" => stage[r] = "unsent"
    BY <1>6 DEF Quiet, Unread
  <2> QED
    BY <1>3, <2>1
<1> QED
  BY <1>0, <1>2, <1>4, <1>5, <1>6, QuietSteps

-----------------------------------------------------------------------------
(* Which handlers are cancelled. *)

\* Nothing is cancelled in the initial state.
LEMMA InitCancels == Init => Cancels
BY DEF Init, Cancels, OnlyTargetCancelled

\* Steps that leave the contexts alone.
LEMMA CancelsStable ==
    ASSUME Inv1, Stream, Cancels, [Next]_vars, UNCHANGED <<ctxOf, cancelled>>,
           \A r \in Req : /\ stage'[r] = "running" => stage[r] = "running"
                          /\ stage'[r] \in Early => stage[r] \in Early
    PROVE  Cancels'
<1>1. \A f \in Flush : \A r \in Req : target[f] = r => target'[f] = r
  BY TargetKept, NoneAssumption DEF Stream
<1>2. OnlyTargetCancelled'
  BY <1>1 DEF Cancels, OnlyTargetCancelled
<1> QED
  BY <1>2 DEF Cancels, Early

\* A worker moves on with the context it has.
LEMMA CancelsMove ==
    ASSUME Inv1, Stream, Cancels, [Next]_vars, UNCHANGED <<ctxOf, cancelled>>,
           NEW r \in Req, NEW s, stage' = [stage EXCEPT ![r] = s], s # "running",
           s \in Early => stage[r] \in Early
    PROVE  Cancels'
<1>1. \A q \in Req : /\ stage'[q] = "running" => stage[q] = "running"
                     /\ stage'[q] \in Early => stage[q] \in Early
  BY DEF Inv1, TypeOK
<1> QED
  BY <1>1, CancelsStable

\* flushWait finds the entry by tag; its owner is the request the client flushed.
LEMMA CancelsFlush ==
    ASSUME Inv1, Ownership, Stream, Answers, Reuse, Cancels, NEW f \in Flush, BeginFlush(f)
    PROVE  Cancels'
<1>0. TypeOK /\ Addressed
  BY DEF Inv1
<1>1. /\ fstage[f] = "read" /\ target[f] \in Req /\ tag[target[f]] \in Tag
      /\ UNCHANGED <<stage, ctxOf, target>>
  BY <1>0 DEF BeginFlush, Addressed
<1>2. CASE tag[target[f]] \in im.tags
  <2> DEFINE t == tag[target[f]]
  <2>1. cancelled' = cancelled \cup {im.entry[t].ctx}
    BY <1>2 DEF BeginFlush
  <2>2. PICK p \in Req : stage[p] \in Busy /\ tag[p] = t /\ ctxOf[p] = im.entry[t].ctx
    BY <1>2 DEF Ownership, EntryHasOwner
  <2>3. ctxOf[p] # Nil
    BY <2>2, NilAssumption DEF Ownership
  <2>4. stage[p] = "running" => \E g \in Flush : target[g] = p
    <3> SUFFICES ASSUME stage[p] = "running", p # target[f]
                 PROVE  \E g \in Flush : target[g] = p
      OBVIOUS
    <3>1. ans[f] = 0 /\ ans[p] = 0
      BY <1>1 DEF Answers, MayWrite
    <3>2. ~Settled(target[f])
      BY <3>1 DEF Settled, Flushes, Answered
    <3>3. t # None
      BY <1>1, NoneAssumption
    <3>4. Settled(p)
      BY <1>1, <2>2, <3>2, <3>3 DEF Reuse
    <3> QED
      BY <3>1, <3>4 DEF Settled, Flushes, Answered
  <2>5. OnlyTargetCancelled'
    <3> SUFFICES ASSUME NEW r \in Req, stage[r] = "running", ctxOf[r] \in cancelled'
                 PROVE  \E g \in Flush : target[g] = r
      BY <1>1 DEF OnlyTargetCancelled
    <3>1. CASE ctxOf[r] \in cancelled
      BY <3>1 DEF Cancels, OnlyTargetCancelled
    <3>2. CASE ctxOf[r] = im.entry[t].ctx
      <4>1. r = p
        BY <2>2, <2>3, <3>2 DEF Ownership
      <4> QED
        BY <2>4, <4>1
    <3> QED
      BY <2>1, <3>1, <3>2
  <2>6. \A c \in cancelled' : \E r \in Req : ctxOf[r] = c
    BY <2>1, <2>2 DEF Cancels
  <2> QED
    BY <1>1, <2>5, <2>6 DEF Cancels
<1>3. CASE tag[target[f]] \notin im.tags
  <2>1. cancelled' = cancelled
    BY <1>3 DEF BeginFlush
  <2> QED
    BY <1>1, <2>1 DEF Cancels, OnlyTargetCancelled
<1> QED
  BY <1>2, <1>3

\* Every step cancels flushed handlers only, and recycles no cancelled context.
LEMMA NextCancels ==
    Inv1 /\ Ownership /\ Stream /\ Answers /\ Reuse /\ Cancels /\ [Next]_vars => Cancels'
<1> SUFFICES ASSUME Inv1, Ownership, Stream, Answers, Reuse, Cancels, [Next]_vars PROVE Cancels'
  OBVIOUS
<1>0. TypeOK /\ Addressed
  BY DEF Inv1
<1> USE DEF wire
<1>1. ASSUME NEW r \in Req, NEW t \in Tag, ClientSend(r, t) PROVE Cancels'
  BY <1>1, CancelsMove DEF ClientSend, Early
<1>2. ASSUME NEW f \in Flush, NEW r \in Req, ClientFlush(f, r) PROVE Cancels'
  BY <1>2, CancelsStable DEF ClientFlush
<1>3. CASE ClientRead
  BY <1>3, CancelsStable DEF ClientRead, server
<1>4. ASSUME NEW x \in Frame, ReadFrame(x) PROVE Cancels'
  <2>1. x \in Req => stage[x] = "sent"
    BY <1>0, <1>4, SMT DEF ReadFrame, Addressed, TypeOK
  <2>2. \A r \in Req : /\ stage'[r] = "running" => stage[r] = "running"
                       /\ stage'[r] \in Early => stage[r] \in Early
    BY <1>0, <1>4, <2>1 DEF ReadFrame, TypeOK, Early
  <2> QED
    BY <1>4, <2>2, CancelsStable DEF ReadFrame
<1>5. ASSUME NEW r \in Req, RequestStep(r) PROVE Cancels'
  <2>1. ASSUME NEW c \in Ctx, StartRequest(r, c) PROVE Cancels'
    <3>1. /\ stage[r] = "read" /\ c \in FreeCtx /\ UNCHANGED <<cancelled, target>>
          /\ \A q \in Req : /\ stage'[q] = IF q = r THEN "running" ELSE stage[q]
                            /\ ctxOf'[q] = IF q = r THEN c ELSE ctxOf[q]
      BY <1>0, <2>1 DEF StartRequest, TypeOK
    <3>2. ctxOf[r] = Nil
      BY <3>1 DEF Cancels
    <3>3. c \notin cancelled
      BY <3>1 DEF Cancels, FreeCtx
    <3>4. \A d \in cancelled : d # Nil
      BY <1>0, NilAssumption DEF TypeOK
    <3>5. \A d \in cancelled : \E q \in Req : ctxOf'[q] = d
      BY <3>1, <3>2, <3>4 DEF Cancels
    <3>6. OnlyTargetCancelled'
      BY <3>1, <3>3 DEF Cancels, OnlyTargetCancelled
    <3> QED
      BY <3>1, <3>5, <3>6 DEF Cancels
  <2>2. CASE RejectDuplicate(r)
    BY <2>2, CancelsMove DEF RejectDuplicate, Early
  <2>3. CASE HandlerReturns(r)
    BY <2>3, CancelsMove DEF HandlerReturns, Early
  <2>4. CASE HandlerReturnsNil(r)
    BY <2>4, CancelsMove DEF HandlerReturnsNil, Early
  <2>5. CASE HandlerPanics(r)
    BY <2>5, CancelsMove DEF HandlerPanics, Early
  <2>6. CASE WriteResponse(r)
    BY <2>6, CancelsMove DEF WriteResponse, Early
  <2>7. CASE WritePanicError(r)
    BY <2>7, CancelsMove DEF WritePanicError, Early
  <2>8. CASE FinishRequest(r)
    BY <2>8, CancelsMove DEF FinishRequest, Early
  <2>9. CASE CompleteRequest(r)
    BY <2>9, CancelsMove DEF CompleteRequest, Early
  <2>10. CASE CloseDone(r)
    BY <2>10, CancelsMove DEF CloseDone, Early
  <2>11. CASE RecycleCtx(r)
    <3>1. /\ cancelled' = cancelled \ {ctxOf[r]} /\ UNCHANGED target
          /\ \A q \in Req : /\ stage'[q] = IF q = r THEN "over" ELSE stage[q]
                            /\ ctxOf'[q] = IF q = r THEN Nil ELSE ctxOf[q]
      BY <1>0, <2>11 DEF RecycleCtx, TypeOK
    <3>2. \A d \in cancelled' : \E q \in Req : ctxOf'[q] = d
      BY <3>1 DEF Cancels
    <3>3. OnlyTargetCancelled'
      BY <3>1 DEF Cancels, OnlyTargetCancelled
    <3> QED
      BY <3>1, <3>2, <3>3 DEF Cancels
  <2> QED
    BY <1>5, <2>1, <2>2, <2>3, <2>4, <2>5, <2>6, <2>7, <2>8, <2>9, <2>10, <2>11
    DEF RequestStep
<1>6. ASSUME NEW f \in Flush, FlushStep(f) PROVE Cancels'
  <2>1. CASE BeginFlush(f)
    BY <2>1, CancelsFlush
  <2>2. CASE FlushReleased(f)
    BY <2>2, CancelsStable DEF FlushReleased
  <2>3. CASE FlushTimeout(f)
    BY <2>3, CancelsStable DEF FlushTimeout
  <2>4. CASE FlushAbandoned(f)
    BY <2>4, CancelsStable DEF FlushAbandoned
  <2>5. CASE WriteRflush(f)
    BY <2>5, CancelsStable DEF WriteRflush
  <2> QED
    BY <1>6, <2>1, <2>2, <2>3, <2>4, <2>5 DEF FlushStep
<1>7. CASE Hangup
  BY <1>7, CancelsStable DEF Hangup, server
<1>8. CASE UNCHANGED vars
  BY <1>8, CancelsStable DEF vars, server
<1> QED
  BY <1>1, <1>2, <1>3, <1>4, <1>5, <1>6, <1>7, <1>8 DEF Next, ClientStep

-----------------------------------------------------------------------------
(* Rflush comes after the response of the flushed request. *)

\* No Rflush has been sent in the initial state.
LEMMA InitOrder == Init => Order
BY DEF Init, Order, RflushLast, Waits, Frame

\* While the order holds, a tag has one request that can still respond.
LEMMA OneResponder ==
    ASSUME Inv1, Answers, Reuse, Waits, NEW q \in Req, NEW r \in Req, q # r,
           stage[q] \in MayWrite, stage[r] \in MayWrite, tag[r] \in Tag
    PROVE  tag[q] # tag[r]
<1>1. ASSUME NEW p \in Req, stage[p] \in MayWrite PROVE ~Settled(p)
  <2>1. ans[p] = 0
    BY <1>1 DEF Answers
  <2>2. \A f \in Flushes(p) : ans[f] = 0
    BY <1>1 DEF Waits, Flushes
  <2> QED
    BY <2>1, <2>2 DEF Settled, Answered, Flushes
<1>2. tag[r] # None
  BY NoneAssumption
<1> QED
  BY <1>1, <1>2 DEF Reuse

\* Workers and Tflushes that move on without leaving or joining a channel.
LEMMA WaitsKeep ==
    ASSUME Inv1, Answers, Waits, im'.tags = im.tags,
           \A t \in Tag : im'.entry[t].ctx = im.entry[t].ctx
                          /\ im.entry[t].done \subseteq im'.entry[t].done,
           \A f \in Flush : fstage[f] # "unsent" => target'[f] = target[f],
           \A f \in Flush : fstage'[f] = "ready" \/ ans'[f] # 0 => fstage[f] = "ready" \/ ans[f] # 0,
           \A f \in Flush : fstage'[f] = "waiting" => fstage[f] = "waiting",
           \A r \in Req : stage'[r] \in MayWrite => stage[r] \in MayWrite,
           \A r \in Req : stage[r] \in Serving =>
              /\ tag'[r] = tag[r] /\ ctxOf'[r] = ctxOf[r]
              /\ stage'[r] \in MayWrite => stage'[r] \in Serving,
           \A r \in Req : stage'[r] = "committed" =>
              stage[r] = "committed" \/ (stage[r] \in Serving /\ OwnsEntry(im, tag[r], ctxOf[r]))
    PROVE  Waits'
<1>0. TypeOK /\ Addressed /\ im.tags \subseteq Tag
  BY DEF Inv1, TypeOK, InflightMaps
<1>1. \A t, c : OwnsEntry(im, t, c) => OwnsEntry(im', t, c) /\ t \in Tag
  BY <1>0 DEF OwnsEntry
<1>2. ASSUME NEW f \in Flush, fstage'[f] = "ready" \/ ans'[f] # 0
      PROVE  stage'[target'[f]] \notin MayWrite
  <2>1. fstage[f] = "ready" \/ ans[f] # 0
    BY <1>2
  <2>2. fstage[f] # "unsent"
    BY <2>1 DEF Answers
  <2>3. target[f] \in Req /\ target'[f] = target[f]
    BY <1>0, <2>2 DEF Addressed
  <2>4. stage[target[f]] \notin MayWrite
    BY <2>1 DEF Waits
  <2> QED
    BY <2>3, <2>4
<1>3. ASSUME NEW f \in Flush, fstage'[f] = "waiting", stage'[target'[f]] \in MayWrite
      PROVE  /\ stage'[target'[f]] \in Serving
             /\ OwnsEntry(im', tag'[target'[f]], ctxOf'[target'[f]])
             /\ f \in im'.entry[tag'[target'[f]]].done
  <2>1. fstage[f] = "waiting" /\ target[f] \in Req /\ target'[f] = target[f]
    BY <1>0, <1>3 DEF Addressed
  <2>2. stage[target[f]] \in MayWrite
    BY <1>3, <2>1
  <2>3. /\ stage[target[f]] \in Serving
        /\ OwnsEntry(im, tag[target[f]], ctxOf[target[f]])
        /\ f \in im.entry[tag[target[f]]].done
    BY <2>1, <2>2 DEF Waits
  <2>4. /\ OwnsEntry(im', tag[target[f]], ctxOf[target[f]])
        /\ f \in im'.entry[tag[target[f]]].done
    BY <1>1, <2>3
  <2>5. /\ tag'[target[f]] = tag[target[f]] /\ ctxOf'[target[f]] = ctxOf[target[f]]
        /\ stage'[target[f]] \in Serving
    BY <1>3, <2>1, <2>3
  <2> QED
    BY <2>1, <2>4, <2>5
<1>4. ASSUME NEW r \in Req, stage'[r] = "committed"
      PROVE  OwnsEntry(im', tag'[r], ctxOf'[r])
  <2>1. stage[r] \in Serving /\ OwnsEntry(im, tag[r], ctxOf[r])
    BY <1>4 DEF Waits, Serving
  <2> QED
    BY <1>1, <2>1
<1> QED
  BY <1>2, <1>3, <1>4 DEF Waits

\* One worker moves on, the table untouched.
LEMMA WaitsMove ==
    ASSUME Inv1, Answers, Waits, NEW r \in Req, NEW s, stage' = [stage EXCEPT ![r] = s],
           s \in MayWrite => stage[r] \in MayWrite /\ stage[r] \notin {"committed", "written"},
           s \in MayWrite /\ stage[r] \in Serving => s \in Serving, s # "committed",
           UNCHANGED <<im, ctxOf, fstage, target>>,
           \A q \in Req : stage[q] \in Serving => tag'[q] = tag[q],
           \A f \in Flush : ans'[f] = ans[f]
    PROVE  Waits'
<1>1. \A q \in Req : stage'[q] = IF q = r THEN s ELSE stage[q]
  BY DEF Inv1, TypeOK
<1>2. \A q \in Req : stage'[q] \in MayWrite => stage[q] \in MayWrite
  BY <1>1
<1>3. \A q \in Req : stage[q] \in Serving =>
        /\ tag'[q] = tag[q] /\ ctxOf'[q] = ctxOf[q]
        /\ stage'[q] \in MayWrite => stage'[q] \in Serving
  BY <1>1 DEF Serving, MayWrite
<1>4. \A q \in Req : stage'[q] = "committed" => stage[q] = "committed"
  BY <1>1
<1> QED
  BY <1>2, <1>3, <1>4, WaitsKeep

\* A worker that removes its own entry leaves the channels of the others alone.
LEMMA WaitsRemove ==
    ASSUME Inv1, Ownership, Answers, Waits, NEW r \in Req, tag[r] \in Tag, ctxOf[r] \in Ctx,
           OwnsEntry(im, tag[r], ctxOf[r]), im' = Remove(im, tag[r]),
           stage' = [stage EXCEPT ![r] = "closing"],
           UNCHANGED <<tag, ctxOf, fstage, target, ans>>
    PROVE  Waits'
<1>0. TypeOK /\ im \in InflightMaps /\ im.tags \subseteq Tag
  BY DEF Inv1, TypeOK, InflightMaps
<1>1. /\ im'.tags = im.tags \ {tag[r]}
      /\ \A u \in Tag : u # tag[r] => im'.entry[u] = im.entry[u]
  <2>1. /\ Remove(im, tag[r]).tags = im.tags \ {tag[r]}
        /\ \A u \in Tag : Remove(im, tag[r]).entry[u] =
             IF u = tag[r] THEN ZeroEntry ELSE im.entry[u]
    BY ONLY <1>0, tag[r] \in Tag, RemoveFields, Zenon
  <2> QED
    BY ONLY <2>1, im' = Remove(im, tag[r]), Zenon
<1>2. \A q \in Req : stage'[q] = IF q = r THEN "closing" ELSE stage[q]
  BY <1>0 DEF TypeOK
<1>3. ASSUME NEW q \in Req, q # r, OwnsEntry(im, tag[q], ctxOf[q])
      PROVE  OwnsEntry(im', tag[q], ctxOf[q]) /\ im'.entry[tag[q]] = im.entry[tag[q]]
  <2>1. tag[q] # tag[r]
    BY <1>3, NilAssumption DEF OwnsEntry, Ownership
  <2> QED
    BY <1>0, <1>1, <1>3, <2>1 DEF OwnsEntry
<1>4. "closing" \notin MayWrite
  BY DEF MayWrite
<1>5. \A f \in Flush : fstage[f] = "waiting" => target[f] \in Req
  BY DEF Inv1, Addressed
<1>6. \A f \in Flush : fstage[f] = "ready" \/ ans[f] # 0 => target[f] \in Req
  BY DEF Inv1, Addressed, Answers
<1>7. (\A f \in Flush : fstage[f] = "ready" \/ ans[f] # 0 => stage[target[f]] \notin MayWrite)'
  BY <1>2, <1>4, <1>6 DEF Waits
<1>8. ASSUME NEW f \in Flush, fstage[f] = "waiting", stage'[target[f]] \in MayWrite
      PROVE  /\ stage'[target[f]] \in Serving
             /\ OwnsEntry(im', tag[target[f]], ctxOf[target[f]])
             /\ f \in im'.entry[tag[target[f]]].done
  <2>1. target[f] \in Req /\ target[f] # r /\ stage'[target[f]] = stage[target[f]]
    BY <1>2, <1>4, <1>5, <1>8
  <2>2. /\ stage[target[f]] \in Serving
        /\ OwnsEntry(im, tag[target[f]], ctxOf[target[f]])
        /\ f \in im.entry[tag[target[f]]].done
    BY <1>8, <2>1 DEF Waits
  <2> QED
    BY <1>3, <2>1, <2>2
<1>9. ASSUME NEW q \in Req, stage'[q] = "committed" PROVE OwnsEntry(im', tag[q], ctxOf[q])
  <2>1. q # r /\ stage[q] = "committed"
    BY <1>2, <1>9, SMT
  <2>2. OwnsEntry(im, tag[q], ctxOf[q])
    BY <2>1 DEF Waits
  <2> QED
    BY <1>3, <2>1, <2>2
<1> QED
  BY <1>7, <1>8, <1>9 DEF Waits

\* start replaces only the entry of a request that has written its response.
LEMMA WaitsStart ==
    ASSUME Inv1, Ownership, Answers, Reuse, Waits, NEW r \in Req, NEW c \in Ctx,
           StartRequest(r, c)
    PROVE  Waits'
<1>0. TypeOK /\ Addressed /\ im \in InflightMaps /\ im.tags \subseteq Tag
  BY DEF Inv1, TypeOK, InflightMaps
<1>1. /\ stage[r] = "read" /\ tag[r] \in Tag /\ im' = Start(im, tag[r], c)
      /\ UNCHANGED <<tag, fstage, target, ans>>
  BY <1>0 DEF StartRequest, Addressed, wire
<1>2. \A q \in Req : /\ stage'[q] = IF q = r THEN "running" ELSE stage[q]
                     /\ ctxOf'[q] = IF q = r THEN c ELSE ctxOf[q]
  BY <1>0 DEF StartRequest, TypeOK
<1>3. /\ im'.tags = im.tags \cup {tag[r]}
      /\ \A u \in Tag : u # tag[r] => im'.entry[u] = im.entry[u]
  <2>1. /\ Start(im, tag[r], c).tags = im.tags \cup {tag[r]}
        /\ \A u \in Tag : Start(im, tag[r], c).entry[u] =
             IF u = tag[r] THEN [ctx |-> c, done |-> {}, committed |-> FALSE] ELSE im.entry[u]
    BY ONLY <1>0, <1>1, c \in Ctx, StartFields, SMT
  <2> QED
    BY ONLY <1>1, <2>1, Zenon
<1>4. stage[r] \in MayWrite /\ stage[r] \notin Serving
  BY <1>1 DEF MayWrite, Serving
<1>5. ASSUME NEW q \in Req, q # r, stage[q] \in Serving, OwnsEntry(im, tag[q], ctxOf[q])
      PROVE  OwnsEntry(im', tag[q], ctxOf[q]) /\ im'.entry[tag[q]] = im.entry[tag[q]]
  <2>1. tag[q] # tag[r]
    <3>1. stage[q] \in MayWrite
      BY <1>5 DEF Serving, MayWrite
    <3> QED
      BY <1>1, <1>4, <1>5, <3>1, OneResponder
  <2> QED
    BY <1>0, <1>3, <1>5, <2>1 DEF OwnsEntry
<1>6. (\A f \in Flush : fstage[f] = "ready" \/ ans[f] # 0 => stage[target[f]] \notin MayWrite)'
  <2>1. \A f \in Flush : fstage[f] = "ready" \/ ans[f] # 0 => target[f] \in Req /\ target[f] # r
    BY <1>0, <1>4 DEF Addressed, Answers, Waits
  <2> QED
    BY <1>1, <1>2, <2>1 DEF Waits
<1>7. ASSUME NEW f \in Flush, fstage[f] = "waiting", stage'[target[f]] \in MayWrite
      PROVE  /\ stage'[target[f]] \in Serving
             /\ OwnsEntry(im', tag[target[f]], ctxOf'[target[f]])
             /\ f \in im'.entry[tag[target[f]]].done
  <2>1. target[f] \in Req /\ target[f] # r
    BY <1>0, <1>4, <1>7 DEF Addressed, Waits
  <2>2. stage'[target[f]] = stage[target[f]] /\ ctxOf'[target[f]] = ctxOf[target[f]]
    BY <1>2, <2>1
  <2>3. /\ stage[target[f]] \in Serving
        /\ OwnsEntry(im, tag[target[f]], ctxOf[target[f]])
        /\ f \in im.entry[tag[target[f]]].done
    BY <1>7, <2>2 DEF Waits
  <2> QED
    BY <1>5, <2>1, <2>2, <2>3
<1>8. ASSUME NEW q \in Req, stage'[q] = "committed" PROVE OwnsEntry(im', tag[q], ctxOf'[q])
  <2>1. q # r /\ stage[q] = "committed" /\ ctxOf'[q] = ctxOf[q]
    BY <1>2, <1>8
  <2>2. stage[q] \in Serving /\ OwnsEntry(im, tag[q], ctxOf[q])
    BY <2>1 DEF Waits, Serving
  <2> QED
    BY <1>5, <2>1, <2>2
<1> QED
  BY <1>1, <1>6, <1>7, <1>8 DEF Waits

\* handleFlush finds the entry of a request that can still respond and joins its
\* channel; finding none, it has nothing to wait for.
LEMMA WaitsFlush ==
    ASSUME Inv1, Ownership, Stream, Answers, Waits, NEW f \in Flush, BeginFlush(f),
           overtook' = {}
    PROVE  Waits'
<1>0. TypeOK /\ Addressed /\ im \in InflightMaps /\ im.tags \subseteq Tag
  BY DEF Inv1, TypeOK, InflightMaps
<1> DEFINE q == target[f]
<1>1. /\ fstage[f] = "read" /\ q \in Req /\ tag[q] \in Tag /\ stage[q] # "unsent"
      /\ im' = FlushWait(im, tag[q], f) /\ UNCHANGED <<stage, tag, ctxOf, target, ans>>
  BY <1>0 DEF BeginFlush, Addressed, wire
<1>2. stage[q] # "read"
  BY DEF BeginFlush
<1>3. stage[q] # "sent"
  <2>1. sent[q] < sent[f] /\ ~(sent[f] > reads)
    BY <1>0, <1>1 DEF Stream, Addressed
  <2>2. q \in Frame /\ f \in Frame
    BY <1>1 DEF Frame
  <2>3. stage[q] = "sent" => sent[q] > reads
    BY <1>1 DEF Stream
  <2>4. sent[q] \in Nat /\ sent[f] \in Nat /\ reads \in Nat
    BY <1>0, <2>2 DEF TypeOK
  <2> HIDE DEF q
  <2> QED
    BY <2>1, <2>3, <2>4, SMT
<1>4. stage[q] \in MayWrite => stage[q] \in Serving /\ OwnsEntry(im, tag[q], ctxOf[q])
  <2>1. stage[q] \in MayWrite => stage[q] \in Serving
    BY <1>1, <1>2, <1>3 DEF MayWrite, Serving
  <2>2. stage[q] \in Serving => stage[q] = "committed" \/ stage[q] \in Uncommitted
    BY DEF Serving, Uncommitted
  <2>3. stage[q] = "committed" => OwnsEntry(im, tag[q], ctxOf[q])
    BY <1>1 DEF Waits
  <2>4. stage[q] \in Uncommitted => OwnsEntry(im, tag[q], ctxOf[q])
    BY <1>1 DEF Ownership
  <2> QED
    BY <2>1, <2>2, <2>3, <2>4
<1>5. /\ im'.tags = im.tags
      /\ \A u \in Tag : /\ im'.entry[u].ctx = im.entry[u].ctx
                        /\ im.entry[u].done \subseteq im'.entry[u].done
      /\ tag[q] \in im.tags => f \in im'.entry[tag[q]].done
  <2>1. /\ FlushWait(im, tag[q], f).tags = im.tags
        /\ \A u \in Tag :
             /\ FlushWait(im, tag[q], f).entry[u].ctx = im.entry[u].ctx
             /\ FlushWait(im, tag[q], f).entry[u].done =
                  IF u = tag[q] /\ tag[q] \in im.tags THEN im.entry[u].done \cup {f}
                                                      ELSE im.entry[u].done
    BY ONLY <1>0, <1>1, f \in Flush, FlushWaitFields, ZenonT(40)
  <2> QED
    BY ONLY <1>1, <2>1, Zenon
<1>6. \A t, c : OwnsEntry(im, t, c) => OwnsEntry(im', t, c) /\ t \in Tag
  BY <1>0, <1>5 DEF OwnsEntry
<1>7. \A g \in Flush \ {f} : fstage'[g] = fstage[g]
  BY <1>0 DEF BeginFlush, TypeOK
<1>8. \/ fstage'[f] = "waiting" /\ tag[q] \in im.tags
      \/ fstage'[f] = "ready" /\ tag[q] \notin im.tags
  BY <1>0 DEF BeginFlush, TypeOK
<1>9. ans[f] = 0
  BY <1>1 DEF Answers
<1>10. (\A g \in Flush : fstage[g] = "ready" \/ ans[g] # 0 => stage[target[g]] \notin MayWrite)'
  BY <1>1, <1>4, <1>7, <1>8, <1>9 DEF Waits, OwnsEntry
<1>11. (\A g \in Flush : fstage[g] = "waiting" /\ stage[target[g]] \in MayWrite =>
          /\ stage[target[g]] \in Serving
          /\ OwnsEntry(im, tag[target[g]], ctxOf[target[g]])
          /\ g \in im.entry[tag[target[g]]].done)'
  <2> SUFFICES ASSUME NEW g \in Flush, fstage'[g] = "waiting", stage[target[g]] \in MayWrite
               PROVE  /\ stage[target[g]] \in Serving
                      /\ OwnsEntry(im', tag[target[g]], ctxOf[target[g]])
                      /\ g \in im'.entry[tag[target[g]]].done
    BY <1>1
  <2>1. CASE g = f
    BY <1>4, <1>5, <1>6, <2>1 DEF OwnsEntry
  <2>2. CASE g # f
    <3>1. fstage[g] = "waiting"
      BY <1>7, <2>2
    <3>2. /\ stage[target[g]] \in Serving
          /\ OwnsEntry(im, tag[target[g]], ctxOf[target[g]])
          /\ g \in im.entry[tag[target[g]]].done
      BY <3>1 DEF Waits
    <3> QED
      BY <1>5, <1>6, <3>2
  <2> QED
    BY <2>1, <2>2
<1>12. (\A r \in Req : stage[r] = "committed" => OwnsEntry(im, tag[r], ctxOf[r]))'
  BY <1>1, <1>6 DEF Waits
<1> QED
  BY <1>10, <1>11, <1>12 DEF Waits

\* Steps that write no frame.
LEMMA LastStable ==
    ASSUME Inv1, Stream, Answers, RflushLast, [Next]_vars, UNCHANGED ans
    PROVE  RflushLast'
<1>1. \A f \in Flush : ans[f] # 0 => target'[f] = target[f]
  BY TargetKept DEF Answers
<1> QED
  BY <1>1 DEF RflushLast

\* A response that is written comes before any Rflush for it.
LEMMA LastResponse ==
    ASSUME Inv1, Stream, Answers, RflushLast, closed \/ Waits, [Next]_vars,
           NEW r \in Req, stage[r] \in MayWrite, Respond(r)
    PROVE  RflushLast'
<1>0. TypeOK /\ Addressed
  BY DEF Inv1
<1>1. CASE closed
  BY <1>1, LastStable DEF Respond
<1>2. CASE ~closed
  <2>1. \A y \in Frame : y # r => ans'[y] = ans[y]
    BY <1>0, <1>2 DEF Respond, TypeOK
  <2> SUFFICES ASSUME NEW f \in Flush, ans'[f] # 0 PROVE ans'[target'[f]] < ans'[f]
    BY DEF RflushLast
  <2>2. ans'[f] = ans[f]
    BY <2>1, FrameAssumption DEF Frame
  <2>3. fstage[f] # "unsent"
    BY <2>2 DEF Answers
  <2>4. target'[f] = target[f] /\ target[f] \in Req
    BY <1>0, <2>3, TargetKept DEF Addressed
  <2>5. target[f] # r
    BY <1>2, <2>2 DEF Waits
  <2>6. ans'[target[f]] = ans[target[f]]
    BY <2>1, <2>4, <2>5 DEF Frame
  <2> QED
    BY <2>2, <2>4, <2>6 DEF RflushLast
<1> QED
  BY <1>1, <1>2

\* Every step keeps each Rflush behind the response of its request.
LEMMA NextOrder ==
    ASSUME Inv1, Ownership, Channels, Stream, Answers, Reuse, Order, [Next]_vars
    PROVE  Order'
<1> SUFFICES ASSUME overtook' = {} PROVE RflushLast' /\ (closed' \/ Waits')
  BY DEF Order
<1>0. TypeOK /\ Addressed
  BY DEF Inv1
<1>a. overtook \subseteq overtook' /\ (closed => closed')
  <2> USE DEF wire
  <2>1. ASSUME NEW r \in Req, RequestStep(r)
        PROVE  UNCHANGED overtook /\ (closed' = closed \/ closed' = TRUE)
    BY <2>1 DEF RequestStep, StartRequest, RejectDuplicate, HandlerReturns, HandlerReturnsNil,
         HandlerPanics, WriteResponse, WritePanicError, Respond, FinishRequest,
         CompleteRequest, CloseDone, RecycleCtx
  <2>2. ASSUME NEW f \in Flush, FlushStep(f)
        PROVE  overtook \subseteq overtook' /\ (closed' = closed \/ closed' = TRUE)
    BY <2>2 DEF FlushStep, BeginFlush, FlushReleased, FlushTimeout, FlushAbandoned, WriteRflush,
         Respond
  <2>3. UNCHANGED vars \/ ClientStep \/ (\E x \in Frame : ReadFrame(x))
          => UNCHANGED overtook /\ (closed' = closed \/ closed' = TRUE)
    BY DEF vars, server, ClientStep, ClientSend, ClientFlush, ClientRead, ReadFrame
  <2>4. Hangup => UNCHANGED overtook /\ (closed' = closed \/ closed' = TRUE)
    BY DEF Hangup, server
  <2>5. overtook \subseteq overtook' /\ (closed' = closed \/ closed' = TRUE)
    BY <2>1, <2>2, <2>3, <2>4 DEF Next
  <2>6. CASE closed' = closed
    BY <2>5, <2>6
  <2>7. CASE closed' = TRUE
    BY <2>5, <2>7
  <2> QED
    BY <2>5, <2>6, <2>7
<1>b. RflushLast /\ (closed \/ Waits)
  BY <1>a DEF Order
<1>c. UNCHANGED ans => RflushLast'
  BY <1>b, LastStable
<1>d. \A f \in Flush : fstage[f] # "unsent" => target'[f] = target[f]
  BY TargetKept
<1> DEFINE Goal == RflushLast' /\ (closed' \/ Waits')
<1> SUFFICES Goal
  OBVIOUS
<1> USE DEF wire
<1>1. ASSUME NEW r \in Req, NEW t \in Tag, ClientSend(r, t) PROVE Goal
  <2>1. \A q \in Req : stage[q] \in Serving => tag'[q] = tag[q]
    BY <1>0, <1>1 DEF ClientSend, TypeOK, Serving
  <2>2. stage[r] = "unsent" /\ "sent" \in MayWrite /\ stage[r] \in MayWrite
        /\ stage[r] \notin Serving
    BY <1>1 DEF ClientSend, MayWrite, Serving
  <2>3. Waits => Waits'
    BY <1>1, <2>1, <2>2, WaitsMove DEF ClientSend
  <2> QED
    BY <1>1, <1>a, <1>b, <1>c, <2>3 DEF ClientSend
<1>2. ASSUME NEW f \in Flush, NEW r \in Req, ClientFlush(f, r) PROVE Goal
  <2>1. UNCHANGED <<stage, tag, ctxOf, im, ans>>
    BY <1>2 DEF ClientFlush
  <2>2. \A g \in Flush : fstage'[g] = "sent" \/ fstage'[g] = fstage[g]
    BY <1>0, <1>2 DEF ClientFlush, TypeOK
  <2>3. Waits => Waits'
    BY <1>d, <2>1, <2>2, WaitsKeep DEF Serving
  <2> QED
    BY <1>a, <1>b, <1>c, <2>1, <2>3
<1>3. CASE ClientRead
  <2>1. UNCHANGED <<stage, tag, ctxOf, im, ans, fstage, target>>
    BY <1>3 DEF ClientRead, server
  <2>2. Waits => Waits'
    BY <2>1 DEF Waits
  <2> QED
    BY <1>a, <1>b, <1>c, <2>1, <2>2
<1>4. ASSUME NEW x \in Frame, ReadFrame(x) PROVE Goal
  <2>1. UNCHANGED <<tag, ctxOf, im, ans>>
    BY <1>4 DEF ReadFrame
  <2>2. x \in Req => stage[x] = "sent"
    BY <1>0, <1>4, SMT DEF ReadFrame, Addressed, TypeOK
  <2>3. \A r \in Req : stage'[r] = stage[r] \/ (stage[r] = "sent" /\ stage'[r] = "read")
    BY <1>0, <1>4, <2>2 DEF ReadFrame, TypeOK
  <2>4. \A g \in Flush : fstage'[g] = "read" \/ fstage'[g] = fstage[g]
    BY <1>0, <1>4 DEF ReadFrame, TypeOK
  <2>5. \A r \in Req : /\ stage'[r] \in MayWrite => stage[r] \in MayWrite
                       /\ stage[r] \in Serving => stage'[r] = stage[r]
                       /\ stage'[r] = "committed" => stage[r] = "committed"
    BY <2>3 DEF MayWrite, Serving
  <2>6. Waits => Waits'
    BY <1>d, <2>1, <2>4, <2>5, WaitsKeep
  <2> QED
    BY <1>a, <1>b, <1>c, <2>1, <2>6
<1>5. ASSUME NEW r \in Req, RequestStep(r) PROVE Goal
  <2>1. ASSUME NEW c \in Ctx, StartRequest(r, c) PROVE Goal
    BY <1>a, <1>b, <1>c, <2>1, WaitsStart DEF StartRequest
  <2>2. CASE RejectDuplicate(r)
    BY <1>c, <2>2 DEF RejectDuplicate
  <2>3. CASE HandlerReturns(r)
    <3>1. tag[r] \in Tag /\ OwnsEntry(im, tag[r], ctxOf[r]) /\ im \in InflightMaps
      BY <1>0, <2>3 DEF HandlerReturns, Addressed, Ownership, Uncommitted, TypeOK
    <3>2. im' = Commit(im, tag[r]) /\ UNCHANGED <<tag, ctxOf, fstage, target, ans, closed>>
      BY <2>3 DEF HandlerReturns
    <3>3. /\ im'.tags = im.tags
          /\ \A t \in Tag : /\ im'.entry[t].ctx = im.entry[t].ctx
                            /\ im'.entry[t].done = im.entry[t].done
      <4>1. /\ Commit(im, tag[r]).tags = im.tags \cup {tag[r]}
            /\ \A t \in Tag : /\ Commit(im, tag[r]).entry[t].ctx = im.entry[t].ctx
                              /\ Commit(im, tag[r]).entry[t].done = im.entry[t].done
        BY ONLY <3>1, CommitFields, Zenon
      <4> QED
        BY ONLY <3>1, <3>2, <4>1, Zenon DEF OwnsEntry
    <3>4. stage[r] = "running" /\ \A q \in Req : stage'[q] = IF q = r THEN "committed" ELSE stage[q]
      BY <1>0, <2>3 DEF HandlerReturns, TypeOK
    <3>5. stage[r] \in MayWrite /\ stage[r] \in Serving /\ "committed" \in Serving
      BY <3>4 DEF MayWrite, Serving
    <3>6. Waits => Waits'
      BY <3>1, <3>2, <3>3, <3>4, <3>5, WaitsKeep
    <3> QED
      BY <1>b, <1>c, <3>2, <3>6
  <2>4. CASE HandlerReturnsNil(r)
    <3>1. Waits => Waits'
      BY <2>4, WaitsMove DEF HandlerReturnsNil, MayWrite, Serving
    <3> QED
      BY <1>a, <1>b, <1>c, <2>4, <3>1 DEF HandlerReturnsNil
  <2>5. CASE HandlerPanics(r)
    <3>1. Waits => Waits'
      BY <2>5, WaitsMove DEF HandlerPanics, MayWrite, Serving
    <3> QED
      BY <1>a, <1>b, <1>c, <2>5, <3>1 DEF HandlerPanics
  <2>6. ASSUME WriteResponse(r) \/ WritePanicError(r) PROVE Goal
    <3>1. /\ stage[r] \in MayWrite /\ Respond(r) /\ UNCHANGED <<im, ctxOf, fstage, target, tag, closed>>
          /\ \E s \in {"written", "finishing"} : stage' = [stage EXCEPT ![r] = s]
      BY <2>6 DEF WriteResponse, WritePanicError, Respond, MayWrite
    <3>2. \A f \in Flush : ans'[f] = ans[f]
      BY <1>0, <3>1, FrameAssumption DEF Respond, TypeOK, Frame
    <3>3. "written" \notin MayWrite /\ "finishing" \notin MayWrite
      BY DEF MayWrite
    <3>4. Waits => Waits'
      BY <3>1, <3>2, <3>3, WaitsMove
    <3>5. RflushLast'
      BY <1>b, <3>1, LastResponse
    <3> QED
      BY <1>b, <3>1, <3>4, <3>5
  <2>8. CASE FinishRequest(r)
    <3>1. OwnsEntry(im, tag[r], ctxOf[r]) /\ tag[r] \in Tag /\ ctxOf[r] \in Ctx
      BY <1>0, <2>8 DEF FinishRequest, Ownership, Uncommitted, Busy, Addressed
    <3>2. Waits => Waits'
      BY <2>8, <3>1, WaitsRemove DEF FinishRequest
    <3> QED
      BY <1>a, <1>b, <1>c, <2>8, <3>2 DEF FinishRequest
  <2>9. CASE CompleteRequest(r)
    <3>1. tag[r] \in Tag /\ ctxOf[r] \in Ctx /\ UNCHANGED ans
      BY <1>0, <2>9 DEF CompleteRequest, Ownership, Busy, Addressed
    <3>2. CASE OwnsEntry(im, tag[r], ctxOf[r])
      <4>1. Waits => Waits'
        BY <2>9, <3>1, <3>2, WaitsRemove DEF CompleteRequest, CompleteCommit
      <4> QED
        BY <1>a, <1>b, <1>c, <3>1, <4>1
    <3>3. CASE ~OwnsEntry(im, tag[r], ctxOf[r])
      <4>1. im' = im
        BY <2>9, <3>3 DEF CompleteRequest, CompleteCommit
      <4>2. Waits => Waits'
        BY <2>9, <4>1, WaitsMove DEF CompleteRequest, MayWrite, Serving
      <4> QED
        BY <1>a, <1>b, <1>c, <3>1, <4>2
    <3> QED
      BY <3>2, <3>3
  <2>10. CASE CloseDone(r)
    <3>1. Waits => Waits'
      BY <2>10, WaitsMove DEF CloseDone, MayWrite, Serving
    <3> QED
      BY <1>a, <1>b, <1>c, <2>10, <3>1 DEF CloseDone
  <2>11. CASE RecycleCtx(r)
    <3>1. /\ \A q \in Req : /\ stage'[q] = IF q = r THEN "over" ELSE stage[q]
                            /\ ctxOf'[q] = IF q = r THEN Nil ELSE ctxOf[q]
          /\ stage[r] = "recycling" /\ UNCHANGED <<tag, fstage, target, im, ans>>
      BY <1>0, <2>11 DEF RecycleCtx, TypeOK
    <3>2. "recycling" \notin Serving /\ "over" \notin MayWrite
      BY DEF Serving, MayWrite
    <3>3. Waits => Waits'
      BY <3>1, <3>2, WaitsKeep
    <3> QED
      BY <1>a, <1>b, <1>c, <3>1, <3>3
  <2> QED
    BY <1>5, <2>1, <2>2, <2>3, <2>4, <2>5, <2>6, <2>8, <2>9, <2>10, <2>11
    DEF RequestStep
<1>6. ASSUME NEW f \in Flush, FlushStep(f) PROVE Goal
  <2>1. CASE BeginFlush(f)
    <3>1. Waits => Waits'
      BY <2>1, WaitsFlush
    <3> QED
      BY <1>a, <1>b, <1>c, <2>1, <3>1 DEF BeginFlush
  <2>2. CASE FlushReleased(f)
    <3>1. /\ fstage[f] = "waiting" /\ f \in released /\ target[f] \in Req /\ tag[target[f]] \in Tag
          /\ UNCHANGED <<stage, tag, ctxOf, target, im, ans, closed>>
          /\ \A g \in Flush : fstage'[g] = IF g = f THEN "ready" ELSE fstage[g]
      BY <1>0, <2>2 DEF FlushReleased, TypeOK, Addressed
    <3>2. Waits => stage[target[f]] \notin MayWrite
      BY <3>1 DEF Waits, Channels, DoneClosedOnce
    <3>3. Waits => Waits'
      BY <3>1, <3>2 DEF Waits
    <3> QED
      BY <1>b, <1>c, <3>1, <3>3
  <2>3. CASE FlushTimeout(f)
    BY <1>c, <2>3 DEF FlushTimeout
  <2>4. CASE FlushAbandoned(f)
    BY <1>c, <2>4 DEF FlushAbandoned
  <2>5. CASE WriteRflush(f)
    <3>1. /\ fstage[f] = "ready" /\ ans[f] = 0 /\ Respond(f) /\ target[f] \in Req
          /\ UNCHANGED <<stage, tag, ctxOf, target, im, closed>>
          /\ \A g \in Flush : fstage'[g] = IF g = f THEN "over" ELSE fstage[g]
      BY <1>0, <2>5 DEF WriteRflush, Respond, TypeOK, Addressed, Answers
    <3>2. CASE closed
      BY <1>a, <1>c, <3>1, <3>2 DEF Respond
    <3>3. CASE ~closed
      <4>1. \A y \in Frame : ans'[y] = IF y = f THEN writes + 1 ELSE ans[y]
        BY <1>0, <3>1, <3>3 DEF Respond, TypeOK
      <4>2. ASSUME NEW g \in Flush PROVE ans'[g] # 0 => fstage[g] = "ready" \/ ans[g] # 0
        BY <3>1, <4>1 DEF Frame
      <4>3. Waits'
        BY <1>b, <3>1, <3>3, <4>2, WaitsKeep
      <4>4. ASSUME NEW g \in Flush, ans'[g] # 0 PROVE ans'[target[g]] < ans'[g]
        <5>1. target[g] \in Req /\ target[g] # f /\ f \in Frame /\ g \in Frame /\ target[g] \in Frame
          BY <1>0, <3>1, <4>2, <4>4, FrameAssumption DEF Addressed, Answers, Frame
        <5>2. CASE g = f
          BY <1>0, <4>1, <5>1, <5>2, SMT DEF Answers, TypeOK
        <5>3. CASE g # f
          BY <1>b, <4>1, <4>4, <5>1, <5>3 DEF RflushLast
        <5> QED
          BY <5>2, <5>3
      <4>5. RflushLast'
        BY <3>1, <4>4 DEF RflushLast
      <4> QED
        BY <4>3, <4>5
    <3> QED
      BY <3>2, <3>3
  <2> QED
    BY <1>6, <2>1, <2>2, <2>3, <2>4, <2>5 DEF FlushStep
<1>7. CASE Hangup
  BY <1>c, <1>7 DEF Hangup
<1>8. CASE UNCHANGED vars
  BY <1>b, <1>8 DEF vars, server, RflushLast, Waits
<1> QED
  BY <1>1, <1>2, <1>3, <1>4, <1>5, <1>6, <1>7, <1>8 DEF Next, ClientStep

-----------------------------------------------------------------------------
\* The invariants of the table and its channels are inductive.
LEMMA Inductive == Spec => [](Inv1 /\ Ownership /\ Channels)
<1>1. Init => Inv1 /\ Ownership /\ Channels
  BY InitInv1, InitOwnership, InitChannels
<1>2. Inv1 /\ Ownership /\ Channels /\ [Next]_vars => (Inv1 /\ Ownership /\ Channels)'
  BY NextInv1, NextOwnership, NextChannels
<1> QED
  BY <1>1, <1>2, PTL DEF Spec

\* Type correctness: the inflight table, the contexts and the wire keep their
\* types whatever the tags, requests and flushes (server/flush.go, conn.go).
THEOREM TypeCorrect == Spec => []TypeOK
<1>1. Inv1 => TypeOK
  BY DEF Inv1
<1> QED
  BY <1>1, Inductive, PTL

\* im.count, which the drain of cleanup and of re-negotiation wait on, is the
\* number of entries after any interleaving of start, replacement by a reused
\* tag, finish and completeCommit.
THEOREM CountCorrect == Spec => []CountIsEntries
<1>1. Ownership => CountIsEntries
  BY DEF Ownership
<1> QED
  BY <1>1, Inductive, PTL

\* flushWait and cancelAll never reach a pooled context: each entry is the one
\* of a worker that has not yet called completeCommit or finish.
THEOREM EntryOwned == Spec => []EntryHasOwner
<1>1. Ownership => EntryHasOwner
  BY DEF Ownership
<1> QED
  BY <1>1, Inductive, PTL

\* No Tflush handler is left waiting on a channel nobody is going to close, and no
\* done channel is closed twice: the replacement in start, finish and
\* completeCommit hand each channel to exactly one closer.
THEOREM ReleasedOnce == Spec => []WaiterReleasedOnce
<1>1. Channels => WaiterReleasedOnce
  BY DEF Channels, WaiterReleasedOnce
<1> QED
  BY <1>1, Inductive, PTL

-----------------------------------------------------------------------------
\* The invariants of the wire, the cancellations and the order of the responses.
LEMMA WireInductive == Spec => [](Stream /\ Answers /\ Reuse /\ Cancels /\ Order)
<1> DEFINE Base == Inv1 /\ Ownership /\ Channels
           Wire == Stream /\ Answers /\ Reuse /\ Cancels /\ Order
<1>1. Init => Wire
  BY InitStream, InitAnswers, InitReuse, InitCancels, InitOrder
<1>2. Base /\ Wire /\ [Next]_vars => Wire'
  <2> SUFFICES ASSUME Base, Wire, [Next]_vars PROVE Wire'
    OBVIOUS
  <2>1. Stream' /\ Answers' /\ Reuse'
    BY NextStream, NextAnswers, NextReuse
  <2>2. Cancels'
    BY NextCancels
  <2>3. Order'
    BY NextOrder
  <2> QED
    BY <2>1, <2>2, <2>3
<1>3. Spec => []Base
  BY Inductive
<1> HIDE DEF Base
<1>4. Base /\ Wire /\ [Next]_vars => Wire'
  BY <1>2
<1> HIDE DEF Wire
<1>5. Spec => []Wire
  BY <1>1, <1>3, <1>4, PTL DEF Spec
<1> QED
  BY <1>5 DEF Wire

\* flushWait looks the request up by tag and contexts come from a pool, yet the
\* handler it cancels is one whose request the client flushed: the owner of the
\* entry is the target, or was itself flushed before its tag was reused.
THEOREM FlushCancelsTarget == Spec => []OnlyTargetCancelled
<1>1. Cancels => OnlyTargetCancelled
  BY DEF Cancels
<1> QED
  BY <1>1, WireInductive, PTL

\* handleFlush's promise for every request that inflight.start has seen: its
\* response, if any, precedes the Rflush on the wire.
THEOREM RflushOrdered == Spec => []RflushLastOnceStarted
<1>1. Order => RflushLastOnceStarted
  BY DEF Order, RflushLastOnceStarted
<1> QED
  BY <1>1, WireInductive, PTL
=============================================================================
