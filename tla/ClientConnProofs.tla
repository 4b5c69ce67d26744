-------------------------- MODULE ClientConnProofs --------------------------
(***************************************************************************)
(* Who owns a tag and the entry under it, what Close promises, and whose   *)
(* response a call returns, for any number of calls and tags.              *)
(***************************************************************************)
EXTENDS ClientConn, FiniteSetTheorems, TLAPS

USE Zenon   \* a leaf that needs arithmetic or long case splits names SMT

\* Where a call has an entry under its tag, and under the mirror of its tag.
FlushEntry == {"fwriting", "fwaiting", "fshutdown", "funregister"}
RequestEntry == {"writing", "waiting", "wshutdown", "unregister", "fregister"} \cup FlushEntry

\* The types of what the proofs are about.
ConnType ==
  /\ pc \in [Call -> PCs] /\ tag \in [Call -> Tag \cup {None}]
  /\ free \in Seq(Tag) /\ noFlush \subseteq Call
  /\ reg \in [Tag -> Call \cup {None}] /\ freg \in [Tag -> Call \cup {None}]

\* A call has a tag from acquire to release.
TagStages ==
  \A c \in Call :
    /\ pc[c] \in {"idle", "acquiring"} => tag[c] = None
    /\ pc[c] \notin {"idle", "acquiring", "returned"} => tag[c] # None

\* An entry is made and removed by the call that has the tag.
Entries ==
  \A t \in Tag :
    /\ reg[t] # None => tag[reg[t]] = t /\ pc[reg[t]] \in RequestEntry
    /\ freg[t] # None => tag[freg[t]] = t /\ pc[freg[t]] \in FlushEntry

TagInv == ConnType /\ TagStages /\ TagsConserved /\ Entries

Held == {c \in Call : tag[c] # None}

-----------------------------------------------------------------------------
(* The free list *)

\* A tag that is appended is the last one, and the others stay where they are.
LEMMA AppendIndex ==
  ASSUME NEW s \in Seq(Tag), NEW t \in Tag
  PROVE  /\ Append(s, t) \in Seq(Tag) /\ Len(Append(s, t)) = Len(s) + 1
         /\ DOMAIN Append(s, t) = 1..(Len(s) + 1) /\ DOMAIN s = 1..Len(s)
         /\ \A i \in 1..Len(s) : Append(s, t)[i] = s[i]
         /\ Append(s, t)[Len(s) + 1] = t
BY SMT

\* The first tag leaves, and the others move up.
LEMMA TailIndex ==
  ASSUME NEW s \in Seq(Tag), s # <<>>
  PROVE  /\ Tail(s) \in Seq(Tag) /\ Len(Tail(s)) = Len(s) - 1 /\ Len(s) \in Nat \ {0}
         /\ DOMAIN Tail(s) = 1..(Len(s) - 1) /\ DOMAIN s = 1..Len(s)
         /\ \A i \in 1..(Len(s) - 1) : Tail(s)[i] = s[i + 1]
         /\ Head(s) = s[1] /\ Head(s) \in Tag
BY SMT

\* The calls that have a tag can be counted.
LEMMA HeldFinite == IsFiniteSet(Held) /\ Cardinality(Held) \in Nat
BY CallAssumption, FS_Subset, FS_CardinalityType DEF Held

\* A step that leaves the allocator alone conserves the tags.
LEMMA ConservedStays ==
  ASSUME TagsConserved, UNCHANGED <<tag, free, noFlush>>,
         \A c \in Call : pc'[c] = "returned" /\ tag[c] # None => c \in noFlush
  PROVE  TagsConserved'
BY DEF TagsConserved

\* acquire moves the first free tag to a call that has none.
LEMMA AcquireConserves ==
  ASSUME TagInv, NEW c \in Call, pc[c] = "acquiring", free # <<>>,
         tag' = [tag EXCEPT ![c] = Head(free)], free' = Tail(free), UNCHANGED noFlush,
         pc' = [pc EXCEPT ![c] = "registering"]
  PROVE  TagsConserved'
<1> USE MaxTagAssumption, CallAssumption
<1>0. tag[c] = None /\ Head(free) \in Tag /\ Head(free) # None
  BY TailIndex DEF TagInv, TagStages, ConnType
<1>1. \A i, j \in DOMAIN free' : free'[i] = free'[j] => i = j
  BY TailIndex, SMT DEF TagInv, ConnType, TagsConserved
<1>2. Range(free') \subseteq Range(free) /\ Head(free) \notin Range(free') /\ Head(free) \in Range(free)
  BY TailIndex, SMT DEF TagInv, ConnType, TagsConserved, Range
<1>3. \A d \in Call : tag'[d] # None => tag'[d] \notin Range(free')
  BY <1>2, SMT DEF TagInv, ConnType, TagsConserved
<1>4. \A d, e \in Call : tag'[d] # None /\ tag'[d] = tag'[e] => d = e
  BY <1>2, SMT DEF TagInv, ConnType, TagsConserved
<1>5. Held' = Held \cup {c} /\ c \notin Held
  BY <1>0, SMT DEF Held, TagInv, ConnType
<1>6. Len(free') + Cardinality(Held') = MaxTag
  <2>1. Cardinality(Held') = Cardinality(Held) + 1
    BY <1>5, HeldFinite, FS_AddElement
  <2>2. Len(free) + Cardinality(Held) = MaxTag
    BY DEF TagInv, TagsConserved, Held
  <2> QED
    BY <2>1, <2>2, HeldFinite, TailIndex, SMT DEF TagInv, ConnType
<1> QED
  BY <1>1, <1>3, <1>4, <1>6, SMT DEF TagInv, ConnType, TagsConserved, Held

\* release gives the tag of a call back, and there is room for it.
LEMMA ReleaseConserves ==
  ASSUME TagInv, NEW c \in Call, Release(c)
  PROVE  TagsConserved' /\ free' = Append(free, tag[c]) /\ tag[c] \in Tag
<1> USE MaxTagAssumption, CallAssumption
<1>0. tag[c] # None /\ tag[c] \in Tag /\ tag' = [tag EXCEPT ![c] = None]
  BY DEF Release, TagInv, TagStages, ConnType
<1>1. Held' = Held \ {c} /\ c \in Held
  BY <1>0 DEF Held, TagInv, ConnType
<1>2. Len(free) + Cardinality(Held) = MaxTag /\ Len(free) \in Nat
  BY SMT DEF TagInv, TagsConserved, Held, ConnType
<1>3. Cardinality(Held') = Cardinality(Held) - 1 /\ Cardinality(Held') \in Nat
  <2>1. IsFiniteSet(Held')
    BY <1>1, HeldFinite, FS_Subset
  <2> QED
    BY <1>1, <2>1, HeldFinite, FS_RemoveElement, FS_CardinalityType
<1>4. free' = Append(free, tag[c])
  BY <1>2, <1>3, HeldFinite, SMT DEF Release
<1>5. Len(free') + Cardinality(Held') = MaxTag
  BY <1>0, <1>2, <1>3, <1>4, AppendIndex, HeldFinite, SMTT(30) DEF TagInv, ConnType
<1>6. \A i, j \in DOMAIN free' : free'[i] = free'[j] => i = j
  BY <1>0, <1>4, AppendIndex, SMT DEF TagInv, ConnType, TagsConserved, Range
<1>7. Range(free') = Range(free) \cup {tag[c]}
  <2>1. /\ \A i \in DOMAIN free : i \in DOMAIN free' /\ free'[i] = free[i]
        /\ \A i \in DOMAIN free' : i \in DOMAIN free \/ free'[i] = tag[c]
        /\ \E i \in DOMAIN free' : free'[i] = tag[c]
    BY <1>0, <1>4, AppendIndex, SMT DEF TagInv, ConnType
  <2> QED
    BY <2>1 DEF Range
<1>8. \A d \in Call : tag'[d] # None => tag'[d] \notin Range(free')
  BY <1>0, <1>7 DEF TagInv, ConnType, TagsConserved
<1>9. \A d, e \in Call : tag'[d] # None /\ tag'[d] = tag'[e] => d = e
  BY <1>0 DEF TagInv, ConnType, TagsConserved
<1>10. \A d \in Call : pc'[d] = "returned" /\ tag'[d] # None => d \in noFlush'
  BY <1>0 DEF TagInv, ConnType, TagsConserved, Release, Goto
<1> QED
  BY <1>0, <1>4, <1>5, <1>6, <1>8, <1>9, <1>10, SMTT(30) DEF TagsConserved, Held
-----------------------------------------------------------------------------
(* Tags and entries *)

\* All tags are free and nobody is registered when a Conn is made.
LEMMA TagInit == Init => TagInv
<1> SUFFICES ASSUME Init PROVE TagInv
  OBVIOUS
<1> USE MaxTagAssumption, CallAssumption DEF Init
<1>1. free \in Seq(Tag) /\ Len(free) = MaxTag /\ DOMAIN free = Tag /\ \A i \in Tag : free[i] = i
  BY SMT DEF Tag
<1>2. Held = {} /\ Cardinality(Held) = 0
  BY FS_EmptySet DEF Held
<1>3. ConnType /\ TagStages /\ Entries
  BY <1>1 DEF ConnType, PCs, TagStages, Entries
<1>4. TagsConserved
  BY <1>1, <1>2, SMT DEF TagsConserved, Held
<1> QED
  BY <1>3, <1>4 DEF TagInv

\* What leaves calls, tags and entries alone keeps the invariant.
LEMMA TagStutters ==
  ASSUME TagInv, UNCHANGED <<pc, tag, noFlush, free, reg, freg>>
  PROVE  TagInv'
BY ConservedStays DEF TagInv, ConnType, TagStages, Entries, TagsConserved

\* The steps of a call.
LEMMA TagCallStep ==
  ASSUME TagInv, NEW c \in Call, CallStep(c) \/ Expire(c) \/ FlushGrace(c)
  PROVE  TagInv'
<1> USE MaxTagAssumption, CallAssumption
<1> USE DEF Goto, Return, Leave, FLeave, RequestEntry, FlushEntry, PCs
<1> DEFINE Rest == ConnType' /\ TagStages' /\ Entries'
<1>0. ASSUME Rest, TagsConserved' PROVE TagInv'
  BY <1>0 DEF TagInv
<1>1. CASE BeginCall(c)
  <2>0. /\ pc[c] = "idle" /\ \E l \in {"returned", "acquiring"} : pc' = [pc EXCEPT ![c] = l]
        /\ UNCHANGED <<tag, noFlush, free, reg, freg>>
    BY <1>1 DEF BeginCall
  <2>1. Rest
    BY <2>0, SMT DEF TagInv, ConnType, TagStages, Entries
  <2>2. TagsConserved'
    BY <1>1, ConservedStays DEF BeginCall, TagInv, ConnType, TagStages, TagsConserved
  <2> QED
    BY <1>0, <2>1, <2>2
<1>2. CASE Register(c)
  <2>0. /\ pc[c] = "registering" /\ pc' = [pc EXCEPT ![c] = "writing"]
        /\ reg' = [reg EXCEPT ![tag[c]] = c]
        /\ UNCHANGED <<tag, noFlush, free, freg>>
    BY <1>2 DEF Register
  <2>1. Rest
    BY <2>0, SMT DEF TagInv, ConnType, TagStages, Entries
  <2>2. TagsConserved'
    BY <1>2, ConservedStays DEF Register, TagInv, ConnType, TagStages, TagsConserved
  <2> QED
    BY <1>0, <2>1, <2>2
<1>3. CASE WriteRequest(c)
  <2>0. /\ pc[c] = "writing" /\ pc' = [pc EXCEPT ![c] = "waiting"]
        /\ UNCHANGED <<tag, noFlush, free, reg, freg>>
    BY <1>3 DEF WriteRequest
  <2>1. Rest
    BY <2>0, SMT DEF TagInv, ConnType, TagStages, Entries
  <2>2. TagsConserved'
    BY <1>3, ConservedStays DEF WriteRequest, TagInv, ConnType, TagStages, TagsConserved
  <2> QED
    BY <1>0, <2>1, <2>2
<1>4. CASE WriteRequestFails(c)
  <2>0. /\ pc[c] = "writing" /\ \E l \in {"unregister", "wshutdown"} : pc' = [pc EXCEPT ![c] = l]
        /\ UNCHANGED <<tag, noFlush, free, reg, freg>>
    BY <1>4 DEF WriteRequestFails
  <2>1. Rest
    BY <2>0, SMT DEF TagInv, ConnType, TagStages, Entries
  <2>2. TagsConserved'
    BY <1>4, ConservedStays, SMT DEF WriteRequestFails, TagInv, ConnType, TagStages, TagsConserved
  <2> QED
    BY <1>0, <2>1, <2>2
<1>5. CASE ReceiveAnswer(c)
  <2>0. /\ pc[c] = "waiting" /\ \E l \in {"unregister"} : pc' = [pc EXCEPT ![c] = l]
        /\ UNCHANGED <<tag, noFlush, free, reg, freg>>
    BY <1>5 DEF ReceiveAnswer
  <2>1. Rest
    BY <2>0, SMT DEF TagInv, ConnType, TagStages, Entries
  <2>2. TagsConserved'
    BY <1>5, ConservedStays, SMT DEF ReceiveAnswer, TagInv, ConnType, TagStages, TagsConserved
  <2> QED
    BY <1>0, <2>1, <2>2
<1>6. CASE Cancel(c)
  <2>0. /\ pc[c] = "waiting" /\ pc' = [pc EXCEPT ![c] = "fregister"]
        /\ UNCHANGED <<tag, noFlush, free, reg, freg>>
    BY <1>6 DEF Cancel
  <2>1. Rest
    BY <2>0, SMT DEF TagInv, ConnType, TagStages, Entries
  <2>2. TagsConserved'
    BY <1>6, ConservedStays DEF Cancel, TagInv, ConnType, TagStages, TagsConserved
  <2> QED
    BY <1>0, <2>1, <2>2
<1>7. CASE Abandon(c)
  <2>0. /\ pc[c] = "waiting" /\ pc' = [pc EXCEPT ![c] = "returned"]
        /\ reg' = [reg EXCEPT ![tag[c]] = None]
        /\ UNCHANGED <<tag, noFlush, free, freg>>
    BY <1>7 DEF Abandon
  <2>1. Rest
    BY <2>0, SMT DEF TagInv, ConnType, TagStages, Entries
  <2>2. TagsConserved'
    BY <1>7, ConservedStays DEF Abandon, TagInv, ConnType, TagStages, TagsConserved
  <2> QED
    BY <1>0, <2>1, <2>2
<1>8. CASE Unregister(c)
  <2>0. /\ pc[c] = "unregister" /\ pc' = [pc EXCEPT ![c] = "release"]
        /\ reg' = [reg EXCEPT ![tag[c]] = None]
        /\ UNCHANGED <<tag, noFlush, free, freg>>
    BY <1>8 DEF Unregister
  <2>1. Rest
    BY <2>0, SMT DEF TagInv, ConnType, TagStages, Entries
  <2>2. TagsConserved'
    BY <1>8, ConservedStays DEF Unregister, TagInv, ConnType, TagStages, TagsConserved
  <2> QED
    BY <1>0, <2>1, <2>2
<1>9. CASE RegisterFlush(c)
  <2>0. /\ pc[c] = "fregister" /\ pc' = [pc EXCEPT ![c] = "fwriting"]
        /\ freg' = [freg EXCEPT ![tag[c]] = c]
        /\ UNCHANGED <<tag, noFlush, free, reg>>
    BY <1>9 DEF RegisterFlush
  <2>1. Rest
    BY <2>0, SMT DEF TagInv, ConnType, TagStages, Entries
  <2>2. TagsConserved'
    BY <1>9, ConservedStays DEF RegisterFlush, TagInv, ConnType, TagStages, TagsConserved
  <2> QED
    BY <1>0, <2>1, <2>2
<1>10. CASE WriteFlush(c)
  <2>0. /\ pc[c] = "fwriting" /\ \E l \in {"fwaiting", "funregister", "fshutdown"} : pc' = [pc EXCEPT ![c] = l]
        /\ UNCHANGED <<tag, noFlush, free, reg, freg>>
    BY <1>10 DEF WriteFlush
  <2>1. Rest
    BY <2>0, SMT DEF TagInv, ConnType, TagStages, Entries
  <2>2. TagsConserved'
    BY <1>10, ConservedStays, SMTT(30) DEF WriteFlush, TagInv, ConnType, TagStages, TagsConserved
  <2> QED
    BY <1>0, <2>1, <2>2
<1>11. CASE FlushSettled(c)
  <2>0. /\ pc[c] = "fwaiting" /\ pc' = [pc EXCEPT ![c] = "funregister"]
        /\ UNCHANGED <<tag, noFlush, free, reg, freg>>
    BY <1>11 DEF FlushSettled
  <2>1. Rest
    BY <2>0, SMT DEF TagInv, ConnType, TagStages, Entries
  <2>2. TagsConserved'
    BY <1>11, ConservedStays DEF FlushSettled, TagInv, ConnType, TagStages, TagsConserved
  <2> QED
    BY <1>0, <2>1, <2>2
<1>12. CASE ShutdownSignalled(c)
  <2>1. Rest
    BY <1>12, SMT DEF ShutdownSignalled, TagInv, ConnType, TagStages, Entries, TagsConserved
  <2>2. TagsConserved'
    BY <1>12, ConservedStays DEF ShutdownSignalled, TagInv, ConnType, TagStages, TagsConserved
  <2> QED
    BY <1>0, <2>1, <2>2
<1>13. CASE UnregisterFlush(c)
  <2>0. /\ pc[c] = "funregister" /\ pc' = [pc EXCEPT ![c] = "unregister"]
        /\ freg' = [freg EXCEPT ![tag[c]] = None]
        /\ UNCHANGED <<tag, noFlush, free, reg>>
    BY <1>13 DEF UnregisterFlush
  <2>1. Rest
    BY <2>0, SMT DEF TagInv, ConnType, TagStages, Entries
  <2>2. TagsConserved'
    BY <1>13, ConservedStays DEF UnregisterFlush, TagInv, ConnType, TagStages, TagsConserved
  <2> QED
    BY <1>0, <2>1, <2>2
<1>14. CASE Expire(c)
  <2>1. Rest
    BY <1>14 DEF Expire, TagInv, ConnType, TagStages, Entries, TagsConserved
  <2>2. TagsConserved'
    BY <1>14, ConservedStays DEF Expire, TagInv, ConnType, TagStages, TagsConserved
  <2> QED
    BY <1>0, <2>1, <2>2
<1>15. CASE FlushGrace(c)
  <2>0. /\ pc[c] = "fwaiting" /\ pc' = [pc EXCEPT ![c] = "fshutdown"]
        /\ UNCHANGED <<tag, noFlush, free, reg, freg>>
    BY <1>15 DEF FlushGrace
  <2>1. Rest
    BY <2>0, SMT DEF TagInv, ConnType, TagStages, Entries
  <2>2. TagsConserved'
    BY <1>15, ConservedStays DEF FlushGrace, TagInv, ConnType, TagStages, TagsConserved
  <2> QED
    BY <1>0, <2>1, <2>2
<1>16. CASE Acquire(c)
  <2>1. CASE free # <<>> /\ tag' = [tag EXCEPT ![c] = Head(free)] /\ free' = Tail(free)
             /\ Goto(c, "registering")
    <3>1. Head(free) \in Tag /\ Tail(free) \in Seq(Tag)
      BY <2>1, TailIndex DEF TagInv, ConnType
    <3>2. Rest
      BY <1>16, <2>1, <3>1, SMT DEF Acquire, TagInv, ConnType, TagStages, Entries
    <3>3. TagsConserved'
      BY <1>16, <2>1, AcquireConserves DEF Acquire
    <3> QED
      BY <1>0, <3>2, <3>3
  <2>2. CASE UNCHANGED <<tag, free>> /\ Goto(c, "returned")
    <3>1. Rest
      BY <1>16, <2>2, SMT DEF Acquire, TagInv, ConnType, TagStages, Entries
    <3>2. TagsConserved'
      BY <1>16, <2>2, ConservedStays DEF Acquire, TagInv, ConnType, TagStages, TagsConserved
    <3> QED
      BY <1>0, <3>1, <3>2
  <2> QED
    BY <1>16, <2>1, <2>2 DEF Acquire
<1>17. CASE Release(c)
  <2>1. Rest
    BY <1>17, ReleaseConserves, AppendIndex, SMT
    DEF Release, TagInv, ConnType, TagStages, Entries, TagsConserved
  <2> QED
    BY <1>0, <1>17, <2>1, ReleaseConserves
<1> QED
  BY <1>1, <1>2, <1>3, <1>4, <1>5, <1>6, <1>7, <1>8, <1>9, <1>10, <1>11, <1>12, <1>13, <1>14, <1>15, <1>16, <1>17, SMTT(30) DEF CallStep

\* The invariant holds in every state of a Conn.
LEMMA TagInvariant == Spec => []TagInv
<1>1. ASSUME TagInv, [Next]_vars PROVE TagInv'
  <2>1. CASE \E c \in Call : CallStep(c) \/ Expire(c) \/ FlushGrace(c)
    BY <1>1, <2>1, TagCallStep
  <2>2. CASE ReadFrame \/ Deliver \/ ReaderStops \/ ReaderGone
    BY <1>1, <2>2, TagStutters DEF ReadFrame, Deliver, ReaderStops, ReaderGone
  <2>3. CASE ShutdownStep
    <3>1. CASE shut = "nc"
      <4>1. ConnType' /\ TagStages' /\ Entries'
        BY <1>1, <2>3, <3>1, SMT DEF ShutdownStep, CancelAll, TagInv, ConnType, TagStages, Entries
      <4>2. TagsConserved'
        BY <1>1, <2>3, ConservedStays DEF ShutdownStep, TagInv, ConnType, TagsConserved
      <4> QED
        BY <4>1, <4>2 DEF TagInv
    <3> QED
      BY <1>1, <2>3, <3>1, TagStutters DEF ShutdownStep
  <2>4. CASE CloseStep
    BY <1>1, <2>4, TagStutters DEF CloseStep, StartClose, DrainCallers, FinishClose
  <2>5. CASE PeerStep
    BY <1>1, <2>5, TagStutters DEF PeerStep, PeerRead, PeerAnswer, PeerDrop, PeerRflush, client
  <2>6. CASE UNCHANGED vars
    BY <1>1, <2>6, TagStutters DEF vars, client
  <2> QED
    BY <1>1, <2>1, <2>2, <2>3, <2>4, <2>5, <2>6, SMTT(30) DEF Next
<1> QED
  BY <1>1, TagInit, PTL DEF Spec

\* A tag is free or held by one call, and who is registered under it or its mirror
\* is the call that holds it and has not returned.
THEOREM TagsHaveOwner == Spec => []TagsOwned
<1>1. TagInv => TagsOwned
  BY CallAssumption, SMT DEF TagInv, TagsOwned, ConnType, EntryInsideCall, Entries, InCall, RequestEntry,
         FlushEntry
<1> QED
  BY <1>1, TagInvariant, PTL

-----------------------------------------------------------------------------
(* Close *)

\* Close begins with the shutdown and ends when the read loop has gone.
CloseInv ==
  /\ shut \in {"open", "admission", "closeCh", "nc", "over"}
  /\ closer \in {"none", "draining", "joining", "returned"}
  /\ closer # "none" => shut # "open"
  /\ closer = "returned" => reader.at = "gone"
  /\ "at" \in DOMAIN reader

\* Once signalShutdown has begun no call is admitted.
LEMMA ShutClosesAdmission ==
  ASSUME CloseInv, shut # "open"
  PROVE  closing
<1>1. Shuts[2] = "admission" /\ Shuts[3] = "closeCh" /\ Shuts[4] = "nc" /\ Shuts[5] = "over"
  BY DEF Shuts
<1>2. \E i \in 2..5 : Shuts[i] = shut
  BY <1>1, SMT DEF CloseInv
<1> QED
  BY <1>1, <1>2, SMT DEF closing, ShutAt

\* The invariant holds in every state of a Conn.
LEMMA CloseInvariant == Spec => []CloseInv
<1>1. Init => CloseInv
  BY DEF Init, CloseInv
<1>2. ASSUME CloseInv, [Next]_vars PROVE CloseInv'
  <2> USE DEF CloseInv, BeginShutdown
  <2>1. ASSUME NEW c \in Call, CallStep(c) \/ Expire(c) \/ FlushGrace(c) PROVE CloseInv'
    <3>1. /\ UNCHANGED <<reader, closer>>
          /\ UNCHANGED shut \/ BeginShutdown
      BY <2>1 DEF CallStep, BeginCall, Acquire, Register, WriteRequest, WriteRequestFails,
         ReceiveAnswer, Cancel, Abandon, Unregister, Release, RegisterFlush, WriteFlush,
         FlushSettled, ShutdownSignalled, UnregisterFlush, Expire, FlushGrace
    <3> QED
      BY <1>2, <3>1
  <2>2. CASE ReadFrame \/ Deliver \/ ReaderStops \/ ReaderGone
    BY <1>2, <2>2 DEF ReadFrame, Deliver, ReaderStops, ReaderGone
  <2>3. CASE ShutdownStep
    BY <1>2, <2>3 DEF ShutdownStep
  <2>4. CASE CloseStep
    BY <1>2, <2>4 DEF CloseStep, StartClose, DrainCallers, FinishClose
  <2>5. CASE PeerStep
    BY <1>2, <2>5 DEF PeerStep, PeerRead, PeerAnswer, PeerDrop, PeerRflush, client
  <2>6. CASE UNCHANGED vars
    BY <1>2, <2>6 DEF vars, client
  <2> QED
    BY <1>2, <2>1, <2>2, <2>3, <2>4, <2>5, <2>6, SMTT(30) DEF Next
<1> QED
  BY <1>1, <1>2, PTL DEF Spec

\* After Close has returned no call gets in, and the read loop does nothing.
THEOREM ClosedForGood == Spec => CloseIsFinal
<1>1. ASSUME CloseInv, ConnType, [Next]_vars, closer = "returned"
      PROVE  InCall' \subseteq InCall /\ UNCHANGED reader
  <2>0. closing /\ reader.at = "gone"
    BY <1>1, ShutClosesAdmission DEF CloseInv
  <2>1. ASSUME NEW c \in Call, CallStep(c) \/ Expire(c) \/ FlushGrace(c)
        PROVE  InCall' \subseteq InCall /\ UNCHANGED reader
    <3>1. CASE BeginCall(c)
      BY <1>1, <2>0, <3>1 DEF BeginCall, InCall, Return, Goto, ConnType
    <3>2. CASE Expire(c)
      BY <3>2 DEF Expire, InCall
    <3>3. CASE ~BeginCall(c) /\ ~Expire(c)
      <4>1. /\ pc[c] \notin {"idle", "returned"} /\ UNCHANGED reader
            /\ \E l \in PCs : pc' = [pc EXCEPT ![c] = l]
        BY <2>1, <3>3 DEF CallStep, Acquire, Register, WriteRequest, WriteRequestFails,
           ReceiveAnswer, Cancel, Abandon, Unregister, Release, RegisterFlush, WriteFlush,
           FlushSettled, ShutdownSignalled, UnregisterFlush, FlushGrace, Goto, Return, Leave,
           FLeave, PCs
      <4> QED
        BY <1>1, <4>1 DEF InCall, ConnType
    <3> QED
      BY <3>1, <3>2, <3>3
  <2>2. CASE ReadFrame \/ Deliver \/ ReaderStops \/ ReaderGone
    BY <2>0, <2>2 DEF ReadFrame, Deliver, ReaderStops, ReaderGone
  <2>3. CASE ShutdownStep \/ CloseStep
    BY <2>3 DEF ShutdownStep, CloseStep, StartClose, DrainCallers, FinishClose, InCall
  <2>4. CASE PeerStep
    BY <2>4 DEF PeerStep, PeerRead, PeerAnswer, PeerDrop, PeerRflush, client, InCall
  <2>5. CASE UNCHANGED vars
    BY <2>5 DEF vars, client, InCall
  <2> QED
    BY <1>1, <2>1, <2>2, <2>3, <2>4, <2>5 DEF Next
<1>2. TagInv => ConnType
  BY DEF TagInv
<1> QED
  BY <1>1, <1>2, CloseInvariant, TagInvariant, PTL DEF Spec, CloseIsFinal

-----------------------------------------------------------------------------
(* The streams *)

\* What a client may send.
Request == [kind : {"T", "Tflush"}, tag : Tag, of : Call]

\* The messages of kind k in s.
ByKind(s, k) == {s[i] : i \in {j \in DOMAIN s : s[j].kind = k}}

\* A call has at most one message of kind k in s.
Single(s, k) ==
  \A i, j \in DOMAIN s : s[i].kind = k /\ s[j].kind = k /\ s[i].of = s[j].of => i = j

\* The message of kind f of a call comes after the one of kind k.
Behind(s, k, f) ==
  \A i, j \in DOMAIN s : s[i].kind = f /\ s[j].kind = k /\ s[i].of = s[j].of => j < i

\* What a message at the end adds.
LEMMA AppendKind ==
  ASSUME NEW S, NEW s, NEW m, s \in Seq(S), m \in S, NEW k
  PROVE  /\ Append(s, m) \in Seq(S)
         /\ \A n : n \in ByKind(Append(s, m), k) <=> n \in ByKind(s, k) \/ (m.kind = k /\ n = m)
<1>1. /\ Append(s, m) \in Seq(S) /\ Len(s) \in Nat
      /\ DOMAIN Append(s, m) = 1..(Len(s) + 1) /\ DOMAIN s = 1..Len(s)
      /\ \A i \in 1..Len(s) : Append(s, m)[i] = s[i]
      /\ Append(s, m)[Len(s) + 1] = m
  BY SMT
<1>2. /\ \A i \in DOMAIN s : i \in DOMAIN Append(s, m) /\ Append(s, m)[i] = s[i]
      /\ \A i \in DOMAIN Append(s, m) : i \in DOMAIN s \/ i = Len(s) + 1
      /\ Len(s) + 1 \in DOMAIN Append(s, m)
  BY <1>1, SMT
<1> QED
  BY <1>1, <1>2 DEF ByKind

\* It is the only one of its call if there was none before.
LEMMA AppendSingle ==
  ASSUME NEW S, NEW s, NEW m, s \in Seq(S), m \in S, NEW k, Single(s, k),
         m.kind = k => \A n \in ByKind(s, k) : n.of # m.of
  PROVE  Single(Append(s, m), k)
<1>1. /\ Len(s) \in Nat /\ DOMAIN Append(s, m) = 1..(Len(s) + 1) /\ DOMAIN s = 1..Len(s)
      /\ \A i \in 1..Len(s) : Append(s, m)[i] = s[i]
      /\ Append(s, m)[Len(s) + 1] = m
  BY SMT
<1>2. /\ \A i \in DOMAIN Append(s, m) : \/ i \in DOMAIN s /\ Append(s, m)[i] = s[i]
                                        \/ i = Len(s) + 1 /\ Append(s, m)[i] = m
  BY <1>1, SMT
<1>3. \A i \in DOMAIN s : s[i].kind = k /\ m.kind = k => s[i].of # m.of
  BY DEF ByKind
<1> QED
  BY <1>2, <1>3 DEF Single

\* It is in front of nothing.
LEMMA AppendBehind ==
  ASSUME NEW S, NEW s, NEW m, s \in Seq(S), m \in S, NEW k, NEW f, k # f, Behind(s, k, f),
         m.kind = k => \A n \in ByKind(s, f) : n.of # m.of
  PROVE  Behind(Append(s, m), k, f)
<1>1. /\ Len(s) \in Nat /\ DOMAIN Append(s, m) = 1..(Len(s) + 1) /\ DOMAIN s = 1..Len(s)
      /\ \A i \in 1..Len(s) : Append(s, m)[i] = s[i]
      /\ Append(s, m)[Len(s) + 1] = m
  BY SMT
<1>2. /\ \A i \in DOMAIN Append(s, m) : \/ i \in DOMAIN s /\ Append(s, m)[i] = s[i]
                                        \/ i = Len(s) + 1 /\ Append(s, m)[i] = m
      /\ \A i \in DOMAIN s : i < Len(s) + 1
  BY <1>1, SMT
<1>3. \A i \in DOMAIN s : s[i].kind = f /\ m.kind = k => s[i].of # m.of
  BY DEF ByKind
<1> QED
  BY <1>2, <1>3 DEF Behind

\* What the first message takes away.
LEMMA TailKind ==
  ASSUME NEW S, NEW s \in Seq(S), s # <<>>, NEW k
  PROVE  /\ Tail(s) \in Seq(S) /\ Head(s) \in S
         /\ ByKind(Tail(s), k) \subseteq ByKind(s, k)
         /\ Head(s).kind = k => Head(s) \in ByKind(s, k)
<1>1. /\ Tail(s) \in Seq(S) /\ Head(s) \in S /\ Head(s) = s[1] /\ 1 \in DOMAIN s
      /\ \A i \in DOMAIN Tail(s) : i + 1 \in DOMAIN s /\ Tail(s)[i] = s[i + 1]
  BY SMT
<1>2. ASSUME NEW i \in DOMAIN Tail(s), Tail(s)[i].kind = k PROVE Tail(s)[i] \in ByKind(s, k)
  <2>1. i + 1 \in DOMAIN s /\ s[i + 1].kind = k /\ Tail(s)[i] = s[i + 1]
    BY <1>1, <1>2
  <2> QED
    BY <2>1 DEF ByKind
<1>3. ByKind(Tail(s), k) \subseteq ByKind(s, k)
  BY <1>2 DEF ByKind
<1> QED
  BY <1>1, <1>3 DEF ByKind

\* The others stay the only ones, and none is of the call of the first.
LEMMA TailSingle ==
  ASSUME NEW S, NEW s \in Seq(S), s # <<>>, NEW k, Single(s, k)
  PROVE  /\ Single(Tail(s), k)
         /\ Head(s).kind = k => \A n \in ByKind(Tail(s), k) : n.of # Head(s).of
<1>1. /\ Head(s) = s[1] /\ 1 \in DOMAIN s
      /\ \A i \in DOMAIN Tail(s) : i + 1 \in DOMAIN s /\ Tail(s)[i] = s[i + 1] /\ i + 1 # 1
      /\ \A i, j \in DOMAIN Tail(s) : i + 1 = j + 1 => i = j
  BY SMT
<1>2. Single(Tail(s), k)
  BY <1>1, SMT DEF Single
<1>3. \A i \in DOMAIN Tail(s) : Tail(s)[i].kind = k /\ Head(s).kind = k => Tail(s)[i].of # Head(s).of
  BY <1>1 DEF Single
<1> QED
  BY <1>2, <1>3 DEF ByKind

\* The order stays, and what has to come before the first is not there.
LEMMA TailBehind ==
  ASSUME NEW S, NEW s \in Seq(S), s # <<>>, NEW k, NEW f, Behind(s, k, f)
  PROVE  /\ Behind(Tail(s), k, f)
         /\ Head(s).kind = f => \A n \in ByKind(s, k) : n.of # Head(s).of
<1>1. /\ Head(s) = s[1] /\ 1 \in DOMAIN s
      /\ \A i \in DOMAIN Tail(s) : i + 1 \in DOMAIN s /\ Tail(s)[i] = s[i + 1]
      /\ \A i, j \in DOMAIN Tail(s) : j + 1 < i + 1 => j < i
      /\ \A i \in DOMAIN s : ~(i < 1)
  BY SMT
<1>2. Behind(Tail(s), k, f)
  BY <1>1 DEF Behind
<1>3. \A i \in DOMAIN s : s[i].kind = k /\ Head(s).kind = f => s[i].of # Head(s).of
  BY <1>1 DEF Behind
<1> QED
  BY <1>2, <1>3 DEF ByKind

-----------------------------------------------------------------------------
(* Answers *)

\* Where a call has not sent its request, and where it waits for the answer.
Unsent == {"idle", "acquiring", "registering", "writing"}
Awaits == {"waiting", "fregister", "fwriting", "fwaiting", "fshutdown"}

\* The requests under way, the answers under way, and the frame being delivered.
Asked == ByKind(c2s, "T")
Answered == ByKind(s2c, "R")
Arrived(k) == {m \in {reader.frame} : reader.at = "deliver" /\ m.kind = k}
Unsettled == Asked \cup pending \cup Answered \cup Arrived("R")

\* The flushes under way.
Flushes == ByKind(c2s, "Tflush") \cup flushing \cup ByKind(s2c, "Rflush") \cup Arrived("Rflush")

AnswerTypes ==
  /\ c2s \in Seq(Request) /\ s2c \in Seq(Msg)
  /\ pending \subseteq [kind : {"T"}, tag : Tag, of : Call]
  /\ \A x \in flushing : x.of \in Call /\ x.tag \in Tag
  /\ reader.at = "deliver" => reader.frame \in Msg
  /\ resp \in [Call -> Call \cup {None}] /\ fresp \in [Call -> Call \cup {None}]
  /\ DOMAIN result = Call
  /\ dead # {} => closeCh

\* A request is in one place, and nowhere once its answer has been delivered.
Once ==
  /\ Single(c2s, "T") /\ Single(s2c, "R")
  /\ \A m, n \in pending : m.of = n.of => m = n
  /\ \A m \in Asked, n \in pending \cup Answered \cup Arrived("R") : m.of # n.of
  /\ \A m \in pending, n \in Answered \cup Arrived("R") : m.of # n.of
  /\ \A m \in Answered, n \in Arrived("R") : m.of # n.of
  /\ \A c \in Call, m \in Unsettled : resp[c] # m.of

\* Until the connection closes, who has a request under way has its tag.
Tagged ==
  ~closeCh => /\ \A m \in Unsettled : tag[m.of] = m.tag /\ pc[m.of] \in Awaits \cup {"returned"}
              /\ \A c \in Call : resp[c] # None => pc[resp[c]] \notin Unsent

\* What is under way with the tag of a call that waits is that call's, and no
\* two calls have requests with one tag under way.
Matched ==
  /\ \A m \in Unsettled, c \in Call : pc[c] \in Awaits /\ tag[c] = m.tag => m.of = c
  /\ \A m, n \in Asked \cup pending : m.tag = n.tag => m.of = n.of

\* The buffers of a call hold what is meant for it.
Mine ==
  \A c \in Call :
    /\ pc[c] \in Awaits => resp[c] \in {None, c}
    /\ pc[c] \in Unsent /\ ~closeCh => resp[c] = None
    /\ fresp[c] \in {None, c}

\* The Rflush of a call comes after the answer to its request, if there is one.
Flushed ==
  /\ Behind(c2s, "T", "Tflush") /\ Behind(s2c, "R", "Rflush")
  /\ \A m \in ByKind(c2s, "Tflush"), n \in Asked \cup pending : m.of = n.of => m.tag = n.tag
  /\ \A x \in flushing, n \in Asked : x.of # n.of
  /\ \A x \in flushing, n \in pending : x.of = n.of => n \in x.waits
  /\ \A m \in ByKind(s2c, "Rflush"), n \in Asked \cup pending : m.of # n.of
  /\ \A m \in Arrived("Rflush"), n \in Asked \cup pending \cup Answered : m.of # n.of
  /\ \A c \in Call, n \in Unsettled : fresp[c] # n.of

\* Only a call that has sent its request has a flush under way.
FlushSent ==
  /\ \A m \in Flushes : pc[m.of] \notin Unsent
  /\ \A c \in Call : fresp[c] # None => pc[c] \notin Unsent

AnswerInv == stale = {} => /\ AnswerTypes /\ Once /\ Tagged /\ Matched /\ Mine /\ Flushed
                           /\ FlushSent /\ OwnAnswer

-----------------------------------------------------------------------------
(* The calls *)

\* closeCh is closed from the second step of the shutdown on.
LEMMA CloseChIs ==
  ASSUME CloseInv
  PROVE  closeCh <=> shut \in {"closeCh", "nc", "over"}
<1>1. /\ Shuts[1] = "open" /\ Shuts[2] = "admission" /\ Shuts[3] = "closeCh" /\ Shuts[4] = "nc"
      /\ Shuts[5] = "over"
  BY DEF Shuts
<1>2. 1..5 = {1, 2, 3, 4, 5} /\ 1..1 = {1} /\ 1..2 = {1, 2} /\ 1..3 = {1, 2, 3}
      /\ 1..4 = {1, 2, 3, 4}
  BY SMT
<1> QED
  BY <1>1, <1>2, SMT DEF CloseInv, closeCh, ShutAt

\* What is under way is about calls and tags.
LEMMA UnderWay ==
  ASSUME AnswerTypes
  PROVE  /\ \A m \in Unsettled : m.of \in Call /\ m.tag \in Tag
         /\ \A m \in Flushes : m.of \in Call
         /\ Asked \cup pending \subseteq Unsettled
<1>1. \A k : ByKind(c2s, k) \subseteq Request /\ ByKind(s2c, k) \subseteq Msg
  <2>1. \A i \in DOMAIN c2s : c2s[i] \in Request
    BY SMT DEF AnswerTypes
  <2>2. \A i \in DOMAIN s2c : s2c[i] \in Msg
    BY SMT DEF AnswerTypes
  <2> QED
    BY <2>1, <2>2 DEF ByKind
<1>2. \A k : Arrived(k) \subseteq Msg
  BY DEF Arrived, AnswerTypes
<1>3. /\ \A m \in Request \cup Msg : m.of \in Call /\ m.tag \in Tag
      /\ \A m \in pending : m.of \in Call /\ m.tag \in Tag
  BY DEF Request, Msg, AnswerTypes
<1> QED
  BY <1>1, <1>2, <1>3 DEF Unsettled, Flushes, Asked, Answered, AnswerTypes

\* A step of call c that sends nothing.
CallMoves(c, l) ==
  /\ pc' = [pc EXCEPT ![c] = l]
  /\ UNCHANGED <<c2s, s2c, reader, pending, flushing, stale, dead>>
  /\ closeCh' <=> closeCh
  /\ \A d \in Call \ {c} : /\ tag'[d] = tag[d] /\ resp'[d] = resp[d] /\ fresp'[d] = fresp[d]
                           /\ result'[d] = result[d]
  /\ resp' \in [Call -> Call \cup {None}] /\ fresp' \in [Call -> Call \cup {None}]
  /\ DOMAIN result' = Call
  /\ resp'[c] \in {None, resp[c]} /\ fresp'[c] \in {None, fresp[c]}
  /\ l \in Unsent => pc[c] \in Unsent
  /\ l \in Awaits => pc[c] \in Awaits /\ tag'[c] = tag[c]
  /\ ~closeCh => \A m \in Unsettled : m.of = c => tag'[c] = tag[c] /\ l \in Awaits \cup {"returned"}
  /\ result'[c] \in Call => result'[c] = c

\* Such a step keeps the answers apart.
LEMMA CallMoved ==
  ASSUME TagInv, AnswerInv, stale = {}, NEW c \in Call, NEW l, CallMoves(c, l)
  PROVE  AnswerInv'
<1>1. /\ AnswerTypes /\ Once /\ Tagged /\ Matched /\ Mine /\ Flushed /\ FlushSent /\ OwnAnswer
      /\ pc \in [Call -> PCs]
  BY DEF AnswerInv, TagInv, ConnType
<1>2. /\ Asked' = Asked /\ Answered' = Answered /\ Arrived("R")' = Arrived("R")
      /\ Arrived("Rflush")' = Arrived("Rflush") /\ Unsettled' = Unsettled /\ Flushes' = Flushes
      /\ pending' = pending /\ flushing' = flushing /\ c2s' = c2s /\ s2c' = s2c /\ reader' = reader
  BY DEF CallMoves, Asked, Answered, Arrived, Unsettled, Flushes
<1>3. \A d \in Call : /\ pc'[d] = IF d = c THEN l ELSE pc[d]
                      /\ d # c => /\ tag'[d] = tag[d] /\ resp'[d] = resp[d]
                                  /\ fresp'[d] = fresp[d] /\ result'[d] = result[d]
                      /\ resp'[d] \in {None, resp[d]} /\ fresp'[d] \in {None, fresp[d]}
  BY <1>1 DEF CallMoves
<1>4. /\ \A m \in Unsettled : m.of \in Call /\ m.of # None
      /\ \A m \in Flushes : m.of \in Call
  BY <1>1, UnderWay, CallAssumption
<1>6. AnswerTypes'
  BY <1>1, <1>2 DEF AnswerTypes, CallMoves
<1>7. Once'
  <2>1. \A d \in Call, m \in Unsettled' : resp'[d] # m.of
    <3>1. \A d \in Call, m \in Unsettled' : resp[d] # m.of
      BY <1>1, <1>2 DEF Once
    <3> QED
      BY <1>2, <1>3, <1>4, <3>1
  <2>2. Single(c2s, "T")' /\ Single(s2c, "R")'
    BY <1>1, <1>2 DEF Once
  <2> QED
    BY <1>1, <1>2, <2>1, <2>2 DEF Once
<1>8. Tagged'
  <2>1. ASSUME ~closeCh, NEW m \in Unsettled'
        PROVE  tag'[m.of] = m.tag /\ pc'[m.of] \in Awaits \cup {"returned"}
    <3>1. m \in Unsettled /\ m.of \in Call /\ tag[m.of] = m.tag /\ pc[m.of] \in Awaits \cup {"returned"}
      BY <1>1, <1>2, <1>4, <2>1 DEF Tagged
    <3>2. m.of = c => tag'[c] = tag[c] /\ l \in Awaits \cup {"returned"}
      BY <2>1, <3>1 DEF CallMoves
    <3> QED
      BY <1>3, <3>1, <3>2
  <2>2. ASSUME ~closeCh, NEW d \in Call, resp'[d] # None PROVE pc'[resp'[d]] \notin Unsent
    <3>1. resp'[d] = resp[d] /\ resp[d] \in Call /\ pc[resp[d]] \notin Unsent
      BY <1>1, <1>3, <2>2 DEF Tagged, AnswerTypes
    <3>2. l \in Unsent => pc[c] \in Unsent
      BY DEF CallMoves
    <3> QED
      BY <1>3, <3>1, <3>2
  <2>3. closeCh' <=> closeCh
    BY DEF CallMoves
  <2> QED
    BY <2>1, <2>2, <2>3 DEF Tagged
<1>9. Matched'
  <2>1. \A d \in Call : pc'[d] \in Awaits => pc[d] \in Awaits /\ tag'[d] = tag[d]
    BY <1>1, <1>3 DEF CallMoves
  <2>2. \A m \in Unsettled', d \in Call : pc'[d] \in Awaits /\ tag'[d] = m.tag => m.of = d
    BY <1>1, <1>2, <2>1 DEF Matched
  <2> QED
    BY <1>1, <1>2, <2>2 DEF Matched
<1>10. Mine'
  BY <1>1, <1>2, <1>3 DEF Mine, CallMoves
<1>11. Flushed'
  <2>1. \A d \in Call, m \in Unsettled' : fresp'[d] # m.of
    <3>1. \A d \in Call, m \in Unsettled' : fresp[d] # m.of
      BY <1>1, <1>2 DEF Flushed
    <3> QED
      BY <1>2, <1>3, <1>4, <3>1
  <2>2. Behind(c2s, "T", "Tflush")' /\ Behind(s2c, "R", "Rflush")'
    BY <1>1, <1>2 DEF Flushed
  <2> QED
    BY <1>1, <1>2, <2>1, <2>2 DEF Flushed
<1>12. FlushSent'
  BY <1>1, <1>2, <1>3, <1>4 DEF FlushSent, CallMoves
<1>13. OwnAnswer'
  BY <1>1, <1>3 DEF OwnAnswer, CallMoves
<1> QED
  BY <1>6, <1>7, <1>8, <1>9, <1>10, <1>11, <1>12, <1>13 DEF AnswerInv

\* signalShutdown closes admission first, closeCh stays as it is.
LEMMA ShutBegins ==
  ASSUME CloseInv, shut' = shut \/ BeginShutdown
  PROVE  closeCh' <=> closeCh
<1>1. /\ Shuts[1] = "open" /\ Shuts[2] = "admission" /\ Shuts[3] = "closeCh" /\ Shuts[4] = "nc"
      /\ Shuts[5] = "over"
  BY DEF Shuts
<1>2. 1..5 = {1, 2, 3, 4, 5} /\ 1..1 = {1} /\ 1..2 = {1, 2} /\ 1..3 = {1, 2, 3}
      /\ 1..4 = {1, 2, 3, 4}
  BY SMT
<1>3. CASE shut' = shut
  BY <1>3 DEF closeCh, ShutAt
<1>4. CASE shut = "open" /\ shut' = "admission"
  BY <1>1, <1>2, <1>4, SMT DEF closeCh, ShutAt
<1> QED
  BY <1>3, <1>4 DEF BeginShutdown

\* The steps of a call that send nothing.
LEMMA CallAnswers ==
  ASSUME TagInv, CloseInv, AnswerInv, stale = {}, NEW c \in Call,
         CallStep(c) \/ Expire(c) \/ FlushGrace(c), UNCHANGED c2s
  PROVE  AnswerInv'
<1> USE DEF Goto, Return, Leave, FLeave
<1>0. /\ AnswerTypes /\ Once /\ Tagged /\ Matched /\ Mine /\ Flushed /\ FlushSent /\ OwnAnswer
      /\ pc \in [Call -> PCs] /\ tag \in [Call -> Tag \cup {None}]
      /\ resp \in [Call -> Call \cup {None}] /\ fresp \in [Call -> Call \cup {None}]
      /\ DOMAIN result = Call /\ (dead # {} => closeCh)
  BY DEF AnswerInv, TagInv, ConnType, AnswerTypes
<1>1. shut' = shut \/ BeginShutdown => (closeCh' <=> closeCh)
  BY ShutBegins
<1>2. ~closeCh /\ pc[c] \notin Awaits \cup {"returned"} => \A m \in Unsettled : m.of # c
  BY <1>0 DEF Tagged
<1>3. ~closeCh /\ pc[c] \in Awaits /\ (resp[c] # None \/ fresp[c] # None) =>
        \A m \in Unsettled : m.of # c
  <2>1. pc[c] \in Awaits => resp[c] \in {None, c} /\ fresp[c] \in {None, c}
    BY <1>0 DEF Mine
  <2>2. \A m \in Unsettled : resp[c] # m.of /\ fresp[c] # m.of
    BY <1>0 DEF Once, Flushed
  <2> QED
    BY <2>1, <2>2
<1>4. {"ErrClosed", "ctx", "flushed", "write", None} \cap Call = {}
  BY CallAssumption DEF Errors
<1>5. result[c] \in Call => result[c] = c
  BY <1>0 DEF OwnAnswer
<1>6. shut = "over" => closeCh
  BY CloseChIs
<1> DEFINE Kept(l) ==
      /\ pc' = [pc EXCEPT ![c] = l]
      /\ UNCHANGED <<s2c, reader, pending, flushing, stale, dead>>
      /\ shut' = shut \/ BeginShutdown
      /\ UNCHANGED result \/ \E r \in Errors : result' = [result EXCEPT ![c] = r]
      /\ l \in Unsent => pc[c] \in Unsent
<1>7. ASSUME NEW l, Kept(l), UNCHANGED <<resp, fresp>>,
             \A d \in Call \ {c} : tag'[d] = tag[d],
             l \in Awaits => pc[c] \in Awaits /\ tag' = tag,
             \/ pc[c] \notin Awaits \cup {"returned"} \/ closeCh
             \/ tag' = tag /\ l \in Awaits \cup {"returned"}
      PROVE  AnswerInv'
  <2>1. \A d \in Call \ {c} : tag'[d] = tag[d] /\ result'[d] = result[d]
    BY <1>0, <1>7
  <2>2. DOMAIN result' = Call /\ (result'[c] \in Call => result'[c] = c)
    BY <1>0, <1>4, <1>5, <1>7, CallAssumption DEF Errors
  <2>3. ~closeCh => \A m \in Unsettled : m.of = c => tag'[c] = tag[c] /\ l \in Awaits \cup {"returned"}
    BY <1>2, <1>7
  <2>4. CallMoves(c, l)
    BY <1>0, <1>1, <1>7, <2>1, <2>2, <2>3 DEF CallMoves
  <2> QED
    BY <2>4, CallMoved
<1>8. CASE BeginCall(c)
  <2>1. CASE closing /\ Kept("returned")
    BY <1>7, <1>8, <2>1 DEF BeginCall, Awaits
  <2>2. CASE ~closing /\ Kept("acquiring")
    BY <1>7, <1>8, <2>2 DEF BeginCall, Awaits
  <2> QED
    BY <1>8, <2>1, <2>2 DEF BeginCall, Errors, Unsent, peer
<1>9. CASE Acquire(c)
  <2>0. pc[c] = "acquiring" /\ UNCHANGED <<resp, fresp>>
    BY <1>9 DEF Acquire
  <2>1. CASE Kept("registering") /\ tag' = [tag EXCEPT ![c] = Head(free)]
    BY <1>0, <1>7, <2>0, <2>1 DEF Awaits
  <2>2. CASE Kept("returned") /\ UNCHANGED tag
    BY <1>7, <2>0, <2>2 DEF Awaits
  <2> QED
    BY <1>9, <2>1, <2>2 DEF Acquire, Errors, Unsent, peer
<1>10. CASE Register(c)
  <2>1. Kept("writing") /\ UNCHANGED <<resp, fresp, tag>> /\ pc[c] = "registering"
    BY <1>10 DEF Register, Errors, Unsent, peer
  <2> QED
    BY <1>7, <2>1 DEF Awaits
<1>11. CASE Cancel(c)
  <2>1. Kept("fregister") /\ UNCHANGED <<resp, fresp, tag>> /\ pc[c] = "waiting"
    BY <1>11 DEF Cancel, Errors, Unsent, peer
  <2> QED
    BY <1>7, <2>1 DEF Awaits
<1>12. CASE Abandon(c)
  <2>1. Kept("returned") /\ UNCHANGED <<resp, fresp, tag>> /\ pc[c] = "waiting"
    BY <1>12 DEF Abandon, Errors, Unsent, peer
  <2> QED
    BY <1>7, <2>1 DEF Awaits
<1>13. CASE Unregister(c)
  <2>1. Kept("release") /\ UNCHANGED <<resp, fresp, tag>> /\ pc[c] = "unregister"
    BY <1>13 DEF Unregister, Errors, Unsent, peer
  <2> QED
    BY <1>7, <2>1 DEF Awaits
<1>14. CASE RegisterFlush(c)
  <2>1. Kept("fwriting") /\ UNCHANGED <<resp, fresp, tag>> /\ pc[c] = "fregister"
    BY <1>14 DEF RegisterFlush, Errors, Unsent, peer
  <2> QED
    BY <1>7, <2>1 DEF Awaits
<1>15. CASE UnregisterFlush(c)
  <2>1. Kept("unregister") /\ UNCHANGED <<resp, fresp, tag>> /\ pc[c] = "funregister"
    BY <1>15 DEF UnregisterFlush, Errors, Unsent, peer
  <2> QED
    BY <1>7, <2>1 DEF Awaits
<1>16. CASE FlushGrace(c)
  <2>1. Kept("fshutdown") /\ UNCHANGED <<resp, fresp, tag>> /\ pc[c] = "fwaiting"
    BY <1>16 DEF FlushGrace, Errors, Unsent, peer
  <2> QED
    BY <1>7, <2>1 DEF Awaits
<1>17. CASE Release(c)
  <2>1. /\ Kept("returned") /\ UNCHANGED <<resp, fresp>> /\ pc[c] = "release"
        /\ \A d \in Call \ {c} : tag'[d] = tag[d]
    BY <1>0, <1>17 DEF Release, Unsent, peer
  <2> QED
    BY <1>7, <2>1 DEF Awaits
<1>18. CASE Expire(c)
  <2>1. pc' = [pc EXCEPT ![c] = pc[c]] /\ tag' = tag
    BY <1>0, <1>18 DEF Expire
  <2>2. Kept(pc[c]) /\ UNCHANGED <<resp, fresp>> /\ pc[c] \in {"acquiring", "waiting"}
    BY <1>18, <2>1 DEF Expire, peer
  <2> QED
    BY <1>7, <2>1, <2>2 DEF Awaits
<1>19. CASE WriteRequestFails(c)
  <2>1. /\ Kept("unregister") \/ Kept("wshutdown")
        /\ UNCHANGED <<resp, fresp, tag>> /\ pc[c] = "writing"
    BY <1>19 DEF WriteRequestFails, Errors, Unsent, peer
  <2> QED
    BY <1>7, <2>1 DEF Awaits
<1>20. CASE WriteFlush(c)
  <2>1. /\ (Kept("funregister") /\ closeCh) \/ Kept("fshutdown")
        /\ UNCHANGED <<resp, fresp, tag>> /\ pc[c] = "fwriting"
    <3>1. c2s # Append(c2s, [kind |-> "Tflush", tag |-> tag[c], of |-> c])
      <4>1. Len(Append(c2s, [kind |-> "Tflush", tag |-> tag[c], of |-> c])) # Len(c2s)
        BY <1>0, SMT DEF AnswerTypes
      <4> QED
        BY <4>1
    <3> QED
      BY <1>20, <3>1 DEF WriteFlush, Errors, Unsent, peer
  <2> QED
    BY <1>7, <2>1 DEF Awaits
<1>21. CASE ShutdownSignalled(c)
  <2>1. /\ Kept("unregister") \/ Kept("funregister")
        /\ UNCHANGED <<resp, fresp, tag>> /\ closeCh
    BY <1>6, <1>21 DEF ShutdownSignalled, Unsent, peer
  <2> QED
    BY <1>7, <2>1 DEF Awaits
<1>22. CASE ReceiveAnswer(c)
  <2>0. pc[c] = "waiting" /\ UNCHANGED <<tag, shut, fresp>>
    BY <1>22 DEF ReceiveAnswer
  <2>1. CASE resp[c] # None /\ Leave(c, resp[c]) /\ resp' = [resp EXCEPT ![c] = None]
    <3>1. resp[c] = c /\ ~closeCh => \A m \in Unsettled : m.of # c
      BY <1>3, <2>0, <2>1 DEF Awaits
    <3>2. resp[c] = c
      BY <1>0, <2>0, <2>1 DEF Mine, Awaits
    <3>3. CallMoves(c, "unregister")
      BY <1>0, <1>1, <1>22, <2>0, <2>1, <3>1, <3>2 DEF CallMoves, ReceiveAnswer, Unsent, Awaits, peer
    <3> QED
      BY <3>3, CallMoved
  <2>2. CASE Kept("unregister") /\ closeCh /\ UNCHANGED resp
    BY <1>7, <2>0, <2>2 DEF Awaits
  <2> QED
    BY <1>0, <1>22, <2>1, <2>2 DEF ReceiveAnswer, Errors, Unsent, peer
<1>23. CASE FlushSettled(c)
  <2>0. /\ pc[c] = "fwaiting" /\ UNCHANGED <<tag, shut, dead>>
        /\ resp' = [resp EXCEPT ![c] = None] /\ fresp' = [fresp EXCEPT ![c] = None]
        /\ pc' = [pc EXCEPT ![c] = "funregister"]
        /\ \E r \in Errors : result' = [result EXCEPT ![c] = r]
        /\ closeCh \/ resp[c] # None \/ fresp[c] # None
    BY <1>0, <1>23 DEF FlushSettled, Errors
  <2>1. ~closeCh => \A m \in Unsettled : m.of # c
    BY <1>3, <2>0 DEF Awaits
  <2>2. result'[c] \notin Call /\ DOMAIN result' = Call /\ \A d \in Call \ {c} : result'[d] = result[d]
    BY <1>0, <2>0, CallAssumption
  <2>3. /\ resp' \in [Call -> Call \cup {None}] /\ fresp' \in [Call -> Call \cup {None}]
        /\ \A d \in Call \ {c} : resp'[d] = resp[d] /\ fresp'[d] = fresp[d]
        /\ resp'[c] = None /\ fresp'[c] = None
    BY <1>0, <2>0
  <2>4. UNCHANGED <<c2s, s2c, reader, pending, flushing, stale, dead, tag>> /\ (closeCh' <=> closeCh)
    BY <1>1, <1>23, <2>0 DEF FlushSettled, peer
  <2>5. CallMoves(c, "funregister")
    BY <2>0, <2>1, <2>2, <2>3, <2>4 DEF CallMoves, Unsent, Awaits
  <2> QED
    BY <2>5, CallMoved
<1>24. CASE WriteRequest(c)
  <2>1. c2s # Append(c2s, [kind |-> "T", tag |-> tag[c], of |-> c])
    <3>1. Len(Append(c2s, [kind |-> "T", tag |-> tag[c], of |-> c])) # Len(c2s)
      BY <1>0, SMT DEF AnswerTypes
    <3> QED
      BY <3>1
  <2> QED
    BY <1>24, <2>1 DEF WriteRequest
<1> QED
  BY <1>8, <1>9, <1>10, <1>11, <1>12, <1>13, <1>14, <1>15, <1>16, <1>17, <1>18, <1>19, <1>20, <1>21,
     <1>22, <1>23, <1>24 DEF CallStep

\* A call sends its request: nothing of it is under way, and nobody else has its tag.
LEMMA RequestSent ==
  ASSUME TagInv, CloseInv, AnswerInv, stale = {}, NEW c \in Call, WriteRequest(c)
  PROVE  AnswerInv'
<1>1. /\ AnswerTypes /\ Once /\ Tagged /\ Matched /\ Mine /\ Flushed /\ FlushSent /\ OwnAnswer
      /\ pc \in [Call -> PCs] /\ tag \in [Call -> Tag \cup {None}] /\ c2s \in Seq(Request)
  BY DEF AnswerInv, TagInv, ConnType, AnswerTypes
<1>2. PICK m \in Request : /\ c2s' = Append(c2s, m) /\ m.kind = "T" /\ m.tag = tag[c] /\ m.of = c
  <2>1. tag[c] \in Tag
    BY <1>1 DEF WriteRequest, TagInv, TagStages
  <2> DEFINE n == [kind |-> "T", tag |-> tag[c], of |-> c]
  <2>2. n \in Request /\ n.kind = "T" /\ n.tag = tag[c] /\ n.of = c /\ c2s' = Append(c2s, n)
    BY <2>1 DEF WriteRequest, Request
  <2> QED
    BY <2>2
<1>3. /\ pc' = [pc EXCEPT ![c] = "waiting"] /\ pc[c] = "writing" /\ ~closeCh /\ (closeCh' <=> closeCh)
      /\ UNCHANGED <<tag, resp, fresp, result, dead, s2c, reader, pending, flushing, stale>>
  BY ShutBegins DEF WriteRequest, Goto, peer
<1>4. /\ Asked' = Asked \cup {m} /\ Answered' = Answered /\ Arrived("R")' = Arrived("R")
      /\ Arrived("Rflush")' = Arrived("Rflush") /\ Unsettled' = Unsettled \cup {m}
      /\ Flushes' = Flushes /\ ByKind(c2s, "Tflush")' = ByKind(c2s, "Tflush")
      /\ ByKind(s2c, "Rflush")' = ByKind(s2c, "Rflush") /\ c2s' \in Seq(Request)
  <2>1. Asked' = Asked \cup {m} /\ ByKind(c2s, "Tflush")' = ByKind(c2s, "Tflush") /\ c2s' \in Seq(Request)
    <3>1. /\ c2s' \in Seq(Request) /\ ByKind(c2s', "T") = ByKind(c2s, "T") \cup {m}
          /\ ByKind(c2s', "Tflush") = ByKind(c2s, "Tflush")
      <4>1. m.kind = "T" /\ m.kind # "Tflush" /\ c2s \in Seq(Request) /\ m \in Request
        BY <1>1, <1>2
      <4>2. Append(c2s, m) \in Seq(Request)
        BY <4>1, AppendKind
      <4>3. \A n : n \in ByKind(Append(c2s, m), "T") <=> n \in ByKind(c2s, "T") \/ n = m
        BY <4>1, AppendKind, SMT
      <4>4. \A n : n \in ByKind(Append(c2s, m), "Tflush") <=> n \in ByKind(c2s, "Tflush")
        BY <4>1, AppendKind
      <4> QED
        BY <1>2, <4>2, <4>3, <4>4
    <3> QED
      BY <3>1 DEF Asked
  <2>2. Answered' = Answered /\ Arrived("R")' = Arrived("R") /\ Arrived("Rflush")' = Arrived("Rflush")
        /\ ByKind(s2c, "Rflush")' = ByKind(s2c, "Rflush")
    BY <1>3 DEF Answered, Arrived
  <2>3. Unsettled' = Unsettled \cup {m} /\ Flushes' = Flushes
    BY <1>3, <2>1, <2>2 DEF Unsettled, Flushes
  <2> QED
    BY <2>1, <2>2, <2>3
<1>5. /\ \A n \in Unsettled : n.of \in Call /\ n.of # None /\ n.of # c /\ n.tag # tag[c]
      /\ \A n \in Flushes : n.of \in Call /\ n.of # c
      /\ Asked \cup pending \subseteq Unsettled
  <2>1. /\ \A n \in Unsettled : n.of \in Call /\ n.tag \in Tag
        /\ \A n \in Flushes : n.of \in Call
        /\ Asked \cup pending \subseteq Unsettled
    BY <1>1, UnderWay
  <2>2. \A n \in Unsettled : n.of # c /\ tag[n.of] = n.tag
    BY <1>1, <1>3 DEF Tagged, Awaits
  <2>3. \A n \in Flushes : n.of # c
    BY <1>1, <1>3 DEF FlushSent, Unsent
  <2>4. \A n \in Unsettled : n.tag # tag[c]
    BY <2>1, <2>2, CallAssumption DEF TagInv, TagsConserved
  <2> QED
    BY <2>1, <2>2, <2>3, <2>4, CallAssumption
<1>6. AnswerTypes'
  BY <1>1, <1>3, <1>4 DEF AnswerTypes
<1>7. resp[c] = None /\ fresp[c] = None
  BY <1>1, <1>3 DEF Mine, Unsent, FlushSent
<1>8. Once'
  <2>1. Single(c2s, "T")' /\ Single(s2c, "R")'
    BY <1>1, <1>2, <1>3, <1>5, AppendSingle DEF Once, Asked
  <2>2. \A d \in Call : resp[d] # c
    BY <1>1, <1>3, CallAssumption DEF Tagged, Unsent
  <2>3. \A d \in Call, n \in Unsettled' : resp'[d] # n.of
    BY <1>1, <1>2, <1>3, <1>4, <2>2 DEF Once
  <2>4. \A n \in Asked', k \in pending' \cup Answered' \cup Arrived("R")' : n.of # k.of
    <3>1. \A k \in pending \cup Answered \cup Arrived("R") : k.of # m.of
      BY <1>2, <1>5 DEF Unsettled
    <3> QED
      BY <1>1, <1>3, <1>4, <3>1 DEF Once
  <2> QED
    BY <1>1, <1>3, <1>4, <2>1, <2>3, <2>4 DEF Once
<1>9. Tagged'
  <2>1. \A n \in Unsettled : tag'[n.of] = n.tag /\ pc'[n.of] \in Awaits \cup {"returned"}
    BY <1>1, <1>3, <1>5 DEF Tagged
  <2>2. tag'[m.of] = m.tag /\ pc'[m.of] \in Awaits \cup {"returned"}
    BY <1>1, <1>2, <1>3 DEF Awaits
  <2>3. \A d \in Call : resp'[d] # None => pc'[resp'[d]] \notin Unsent
    BY <1>1, <1>3 DEF Tagged, AnswerTypes, Unsent
  <2> QED
    BY <1>4, <2>1, <2>2, <2>3 DEF Tagged
<1>10. Matched'
  <2>1. ASSUME NEW d \in Call, pc'[d] \in Awaits, NEW n \in Unsettled', tag'[d] = n.tag
        PROVE  n.of = d
    <3>1. CASE d = c
      BY <1>2, <1>3, <1>4, <1>5, <2>1, <3>1
    <3>2. CASE d # c /\ n = m
      <4>1. tag[d] = tag[c] /\ tag[c] # None
        BY <1>2, <1>3, <2>1, <3>2 DEF TagInv, TagStages
      <4> QED
        BY <3>2, <4>1 DEF TagInv, TagsConserved
    <3>3. CASE d # c /\ n \in Unsettled
      <4>1. pc[d] \in Awaits /\ tag[d] = n.tag
        BY <1>1, <1>3, <2>1, <3>3
      <4> QED
        BY <1>1, <3>3, <4>1 DEF Matched
    <3> QED
      BY <1>4, <2>1, <3>1, <3>2, <3>3
  <2>2. \A n, k \in Asked' \cup pending' : n.tag = k.tag => n.of = k.of
    <3>1. \A n \in Asked \cup pending : n.tag # m.tag
      BY <1>2, <1>5
    <3> QED
      BY <1>1, <1>3, <1>4, <3>1, SMT DEF Matched
  <2> QED
    BY <2>1, <2>2 DEF Matched
<1>11. Mine'
  BY <1>1, <1>3, <1>7 DEF Mine, Awaits, Unsent
<1>12. Flushed'
  <2>1. Behind(c2s, "T", "Tflush")'
    <3>1. \A n \in ByKind(c2s, "Tflush") : n.of # m.of
      BY <1>2, <1>5 DEF Flushes
    <3> QED
      BY <1>1, <1>2, <3>1, AppendBehind DEF Flushed
  <2>2. Behind(s2c, "R", "Rflush")'
    BY <1>1, <1>3 DEF Flushed
  <2>3. \A d \in Call, n \in Unsettled' : fresp'[d] # n.of
    <3>1. \A d \in Call : fresp'[d] = fresp[d] /\ fresp[d] # m.of
      BY <1>1, <1>2, <1>3, <1>7, CallAssumption DEF Mine
    <3> QED
      BY <1>1, <1>4, <3>1 DEF Flushed
  <2>4. \A n \in Flushes : n.of # m.of
    BY <1>2, <1>5
  <2>5. /\ \A n \in ByKind(c2s, "Tflush")', k \in Asked' \cup pending' : n.of = k.of => n.tag = k.tag
        /\ \A n \in ByKind(s2c, "Rflush")', k \in Asked' \cup pending' : n.of # k.of
    BY <1>1, <1>3, <1>4, <2>4 DEF Flushed, Flushes
  <2>6. /\ \A x \in flushing', n \in Asked' : x.of # n.of
        /\ \A x \in flushing', n \in pending' : x.of = n.of => n \in x.waits
    BY <1>1, <1>3, <1>4, <2>4 DEF Flushed, Flushes
  <2>7. \A n \in Arrived("Rflush")', k \in Asked' \cup pending' \cup Answered' : n.of # k.of
    BY <1>1, <1>3, <1>4, <2>4 DEF Flushed, Flushes
  <2> QED
    BY <2>1, <2>2, <2>3, <2>5, <2>6, <2>7 DEF Flushed
<1>13. FlushSent'
  BY <1>1, <1>3, <1>4, <1>5, <1>7 DEF FlushSent
<1>14. OwnAnswer'
  BY <1>1, <1>3 DEF OwnAnswer
<1> QED
  BY <1>6, <1>8, <1>9, <1>10, <1>11, <1>12, <1>13, <1>14 DEF AnswerInv

\* A call sends its Tflush, behind its request and with its tag.
LEMMA TflushSent ==
  ASSUME TagInv, CloseInv, AnswerInv, stale = {}, NEW c \in Call, WriteFlush(c), c2s' # c2s
  PROVE  AnswerInv'
<1>1. /\ AnswerTypes /\ Once /\ Tagged /\ Matched /\ Mine /\ Flushed /\ FlushSent /\ OwnAnswer
      /\ pc \in [Call -> PCs] /\ tag \in [Call -> Tag \cup {None}] /\ c2s \in Seq(Request)
  BY DEF AnswerInv, TagInv, ConnType, AnswerTypes
<1>2. PICK m \in Request :
        /\ c2s' = Append(c2s, m) /\ m.kind = "Tflush" /\ m.tag = tag[c] /\ m.of = c
  <2>1. tag[c] \in Tag
    BY <1>1 DEF WriteFlush, TagInv, TagStages
  <2> DEFINE n == [kind |-> "Tflush", tag |-> tag[c], of |-> c]
  <2>2. n \in Request /\ n.kind = "Tflush" /\ n.tag = tag[c] /\ n.of = c /\ c2s' = Append(c2s, n)
    BY <2>1 DEF WriteFlush, Request
  <2> QED
    BY <2>2
<1>3. /\ pc' = [pc EXCEPT ![c] = "fwaiting"] /\ pc[c] = "fwriting" /\ ~closeCh /\ (closeCh' <=> closeCh)
      /\ UNCHANGED <<tag, resp, fresp, result, dead, s2c, reader, pending, flushing, stale>>
  BY ShutBegins DEF WriteFlush, Goto, peer
<1>4. /\ c2s' \in Seq(Request) /\ Asked' = Asked /\ ByKind(c2s, "Tflush")' = ByKind(c2s, "Tflush") \cup {m}
  <2>1. m.kind = "Tflush" /\ m.kind # "T" /\ c2s \in Seq(Request) /\ m \in Request
    BY <1>1, <1>2
  <2>2. Append(c2s, m) \in Seq(Request)
    BY <2>1, AppendKind
  <2>3. \A n : n \in ByKind(Append(c2s, m), "Tflush") <=> n \in ByKind(c2s, "Tflush") \/ n = m
    BY <2>1, AppendKind, SMT
  <2>4. \A n : n \in ByKind(Append(c2s, m), "T") <=> n \in ByKind(c2s, "T")
    BY <2>1, AppendKind
  <2> QED
    BY <1>2, <2>2, <2>3, <2>4 DEF Asked
<1>5. /\ Answered' = Answered /\ Arrived("R")' = Arrived("R") /\ Arrived("Rflush")' = Arrived("Rflush")
      /\ ByKind(s2c, "Rflush")' = ByKind(s2c, "Rflush") /\ Unsettled' = Unsettled
      /\ Flushes' = Flushes \cup {m}
  <2>1. Answered' = Answered /\ Arrived("R")' = Arrived("R") /\ Arrived("Rflush")' = Arrived("Rflush")
        /\ ByKind(s2c, "Rflush")' = ByKind(s2c, "Rflush")
    BY <1>3 DEF Answered, Arrived
  <2> QED
    BY <1>3, <1>4, <2>1 DEF Unsettled, Flushes
<1>6. /\ \A n \in Unsettled : n.of \in Call /\ n.tag \in Tag
      /\ \A n \in Flushes : n.of \in Call
      /\ Asked \cup pending \subseteq Unsettled
  BY <1>1, UnderWay
<1>7. \A d \in Call : /\ pc'[d] \in Awaits <=> pc[d] \in Awaits
                      /\ pc'[d] \in Unsent <=> pc[d] \in Unsent
                      /\ pc'[d] \in Awaits \cup {"returned"} <=> pc[d] \in Awaits \cup {"returned"}
  BY <1>1, <1>3 DEF Awaits, Unsent
<1>8. AnswerTypes'
  BY <1>1, <1>3, <1>4 DEF AnswerTypes
<1>9. Once'
  <2>1. Single(c2s, "T")' /\ Single(s2c, "R")'
    <3>1. m.kind # "T"
      BY <1>2
    <3> QED
      BY <1>1, <1>2, <1>3, <3>1, AppendSingle DEF Once
  <2> QED
    BY <1>1, <1>3, <1>4, <1>5, <2>1 DEF Once
<1>10. Tagged'
  <2>1. \A n \in Unsettled : tag[n.of] = n.tag /\ pc'[n.of] \in Awaits \cup {"returned"}
    BY <1>1, <1>3, <1>6, <1>7 DEF Tagged
  <2>2. \A d \in Call : resp[d] # None => pc'[resp[d]] \notin Unsent
    <3>1. \A d \in Call : resp[d] # None => resp[d] \in Call
      BY <1>1 DEF AnswerTypes
    <3> QED
      BY <1>1, <1>3, <1>7, <3>1 DEF Tagged
  <2> QED
    BY <1>3, <1>5, <2>1, <2>2 DEF Tagged
<1>11. Matched'
  BY <1>1, <1>3, <1>4, <1>5, <1>7 DEF Matched
<1>12. Mine'
  BY <1>1, <1>3, <1>7 DEF Mine
<1>13. Flushed'
  <2>1. Behind(c2s, "T", "Tflush")' /\ Behind(s2c, "R", "Rflush")'
    <3>1. m.kind # "T" /\ "T" # "Tflush"
      BY <1>2
    <3> QED
      BY <1>1, <1>2, <1>3, <3>1, AppendBehind DEF Flushed
  <2>2. \A n \in Asked \cup pending : m.of = n.of => m.tag = n.tag
    BY <1>1, <1>2, <1>3, <1>6 DEF Tagged
  <2>3. \A n \in ByKind(c2s, "Tflush")', k \in Asked' \cup pending' : n.of = k.of => n.tag = k.tag
    BY <1>1, <1>3, <1>4, <2>2 DEF Flushed
  <2>4. /\ \A x \in flushing, n \in Asked : x.of # n.of
        /\ \A x \in flushing, n \in pending : x.of = n.of => n \in x.waits
        /\ \A n \in ByKind(s2c, "Rflush"), k \in Asked \cup pending : n.of # k.of
        /\ \A n \in Arrived("Rflush"), k \in Asked \cup pending \cup Answered : n.of # k.of
        /\ \A d \in Call, n \in Unsettled : fresp[d] # n.of
    BY <1>1 DEF Flushed
  <2> QED
    BY <1>3, <1>4, <1>5, <2>1, <2>3, <2>4 DEF Flushed
<1>14. FlushSent'
  <2>1. \A n \in Flushes' : pc'[n.of] \notin Unsent
    BY <1>1, <1>2, <1>3, <1>5, <1>6, <1>7 DEF FlushSent, Unsent
  <2> QED
    BY <1>1, <1>3, <1>7, <2>1 DEF FlushSent
<1>15. OwnAnswer'
  BY <1>1, <1>3 DEF OwnAnswer
<1> QED
  BY <1>8, <1>9, <1>10, <1>11, <1>12, <1>13, <1>14, <1>15 DEF AnswerInv

-----------------------------------------------------------------------------
(* The read loop *)

\* A step of the peer or of the read loop: the calls stay where they are, and what is
\* under way after it was under way before, perhaps in another place.
Carries ==
  /\ UNCHANGED <<pc, tag, result>> /\ (closeCh' <=> closeCh)
  /\ \A m \in Unsettled' : \E n \in Unsettled : n.of = m.of /\ n.tag = m.tag
  /\ \A m \in Asked' \cup pending' : \E n \in Asked \cup pending : n.of = m.of /\ n.tag = m.tag
  /\ \A m \in Flushes' : \E n \in Flushes : n.of = m.of
  /\ \A c \in Call : resp'[c] = resp[c] \/ \E n \in Unsettled : resp'[c] = n.of
  /\ \A c \in Call : fresp'[c] = fresp[c] \/ \E n \in Flushes : n.of = c

\* Such a step keeps the tags apart.
LEMMA CarriesTags ==
  ASSUME AnswerInv, stale = {}, Carries
  PROVE  Tagged' /\ Matched' /\ FlushSent' /\ OwnAnswer'
<1>1. /\ AnswerTypes /\ Tagged /\ Matched /\ FlushSent /\ OwnAnswer
      /\ pc' = pc /\ tag' = tag /\ result' = result /\ (closeCh' <=> closeCh)
  BY DEF AnswerInv, Carries
<1>2. Tagged'
  <2>1. ASSUME ~closeCh, NEW m \in Unsettled'
        PROVE  tag[m.of] = m.tag /\ pc[m.of] \in Awaits \cup {"returned"}
    <3>1. PICK n \in Unsettled : n.of = m.of /\ n.tag = m.tag
      BY <2>1 DEF Carries
    <3>2. tag[n.of] = n.tag /\ pc[n.of] \in Awaits \cup {"returned"}
      BY <1>1, <2>1, <3>1 DEF Tagged
    <3> QED
      BY <3>1, <3>2
  <2>2. ASSUME ~closeCh, NEW c \in Call, resp'[c] # None
        PROVE  pc[resp'[c]] \notin Unsent
    <3>1. CASE resp'[c] = resp[c]
      BY <1>1, <2>2, <3>1 DEF Tagged
    <3>2. ASSUME NEW n \in Unsettled, resp'[c] = n.of
          PROVE  pc[resp'[c]] \notin Unsent
      <4>1. pc[n.of] \in Awaits \cup {"returned"}
        BY <1>1, <2>2, <3>2 DEF Tagged
      <4> QED
        BY <3>2, <4>1 DEF Awaits, Unsent
    <3> QED
      BY <2>2, <3>1, <3>2 DEF Carries
  <2> QED
    BY <1>1, <2>1, <2>2 DEF Tagged
<1>3. Matched'
  <2>1. ASSUME NEW m \in Unsettled', NEW c \in Call, pc[c] \in Awaits, tag[c] = m.tag
        PROVE  m.of = c
    <3>1. PICK n \in Unsettled : n.of = m.of /\ n.tag = m.tag
      BY <2>1 DEF Carries
    <3> QED
      BY <1>1, <2>1, <3>1 DEF Matched
  <2>2. ASSUME NEW m \in Asked' \cup pending', NEW n \in Asked' \cup pending', m.tag = n.tag
        PROVE  m.of = n.of
    <3>1. PICK i \in Asked \cup pending : i.of = m.of /\ i.tag = m.tag
      BY <2>2 DEF Carries
    <3>2. PICK j \in Asked \cup pending : j.of = n.of /\ j.tag = n.tag
      BY <2>2 DEF Carries
    <3> QED
      BY <1>1, <2>2, <3>1, <3>2 DEF Matched
  <2> QED
    BY <1>1, <2>1, <2>2 DEF Matched
<1>4. FlushSent'
  <2>1. \A m \in Flushes' : pc[m.of] \notin Unsent
    BY <1>1 DEF FlushSent, Carries
  <2>2. \A c \in Call : fresp'[c] # None => pc[c] \notin Unsent
    BY <1>1 DEF FlushSent, Carries
  <2> QED
    BY <1>1, <2>1, <2>2 DEF FlushSent
<1>5. OwnAnswer'
  BY <1>1 DEF OwnAnswer
<1> QED
  BY <1>2, <1>3, <1>4, <1>5

\* The read loop takes the next frame off the stream.
LEMMA FrameRead ==
  ASSUME AnswerInv, stale = {}, ReadFrame
  PROVE  AnswerInv'
<1>1. /\ AnswerTypes /\ Once /\ Tagged /\ Matched /\ Mine /\ Flushed /\ FlushSent /\ OwnAnswer
      /\ s2c \in Seq(Msg) /\ s2c # <<>>
      /\ UNCHANGED <<pc, tag, result, resp, fresp, dead, c2s, pending, flushing, stale, shut>>
      /\ reader.at = "read" /\ reader' = [at |-> "deliver", frame |-> Head(s2c)] /\ s2c' = Tail(s2c)
  BY DEF AnswerInv, AnswerTypes, ReadFrame, peer
<1>2. /\ reader'.at = "deliver" /\ reader'.frame = Head(s2c) /\ (closeCh' <=> closeCh)
  BY <1>1 DEF closeCh, ShutAt
<1>3. PICK m : m = Head(s2c) /\ m \in Msg
  BY <1>1, TailKind
<1>4. /\ \A k : Arrived(k) = {} /\ \A n : n \in Arrived(k)' <=> n = m /\ m.kind = k
      /\ Asked' = Asked /\ ByKind(c2s, "Tflush")' = ByKind(c2s, "Tflush")
  BY <1>1, <1>2, <1>3 DEF Arrived, Asked
<1>5. \A k : /\ ByKind(s2c', k) \subseteq ByKind(s2c, k)
             /\ m.kind = k => m \in ByKind(s2c, k)
  BY <1>1, <1>3, TailKind
<1>6. s2c' \in Seq(Msg) /\ Answered' \subseteq Answered /\ Arrived("R")' \subseteq Answered
      /\ ByKind(s2c, "Rflush")' \subseteq ByKind(s2c, "Rflush")
      /\ Arrived("Rflush")' \subseteq ByKind(s2c, "Rflush")
  <2>1. s2c' \in Seq(Msg)
    BY <1>1, TailKind
  <2>2. Answered' \subseteq Answered /\ ByKind(s2c, "Rflush")' \subseteq ByKind(s2c, "Rflush")
    BY <1>5 DEF Answered
  <2>3. /\ \A n : n \in Arrived("R")' => n \in Answered
        /\ \A n : n \in Arrived("Rflush")' => n \in ByKind(s2c, "Rflush")
    <3>1. \A n : n \in Arrived("R")' => n = m /\ m.kind = "R"
      BY <1>4
    <3>2. \A n : n \in Arrived("Rflush")' => n = m /\ m.kind = "Rflush"
      BY <1>4
    <3>3. /\ m.kind = "R" => m \in ByKind(s2c, "R")
          /\ m.kind = "Rflush" => m \in ByKind(s2c, "Rflush")
      BY <1>5
    <3> QED
      BY <3>1, <3>2, <3>3 DEF Answered
  <2> QED
    BY <2>1, <2>2, <2>3
<1>7. Unsettled' \subseteq Unsettled /\ Flushes' \subseteq Flushes /\ pending' = pending
  BY <1>1, <1>4, <1>6 DEF Unsettled, Flushes
<1>8. Carries
  BY <1>1, <1>2, <1>4, <1>7 DEF Carries
<1>9. Tagged' /\ Matched' /\ FlushSent' /\ OwnAnswer'
  BY <1>8, CarriesTags
<1>10. AnswerTypes'
  BY <1>1, <1>2, <1>3, <1>6 DEF AnswerTypes
<1>11. Once'
  <2>1. Single(s2c, "R")' /\ \A n \in Answered', k \in Arrived("R")' : n.of # k.of
    <3>1. Single(s2c, "R")
      BY <1>1 DEF Once
    <3>2. Single(Tail(s2c), "R") /\ (m.kind = "R" => \A n \in ByKind(Tail(s2c), "R") : n.of # m.of)
      BY <1>1, <1>3, <3>1, TailSingle
    <3> QED
      BY <1>1, <1>4, <3>2 DEF Answered
  <2>2. /\ \A n \in Asked', k \in pending' \cup Answered' \cup Arrived("R")' : n.of # k.of
        /\ \A n \in pending', k \in Answered' \cup Arrived("R")' : n.of # k.of
    BY <1>1, <1>4, <1>6 DEF Once
  <2>3. \A c \in Call, n \in Unsettled' : resp'[c] # n.of
    BY <1>1, <1>7 DEF Once
  <2> QED
    BY <1>1, <2>1, <2>2, <2>3 DEF Once
<1>12. Mine'
  BY <1>1, <1>2 DEF Mine
<1>13. Flushed'
  <2>1. Behind(c2s, "T", "Tflush")' /\ Behind(s2c, "R", "Rflush")
        /\ \A n \in ByKind(s2c, "Rflush"), k \in Asked \cup pending : n.of # k.of
    BY <1>1 DEF Flushed
  <2>2. /\ Behind(Tail(s2c), "R", "Rflush")
        /\ m.kind = "Rflush" => \A n \in ByKind(s2c, "R") : n.of # m.of
    BY <1>1, <1>3, <2>1, TailBehind
  <2>3. /\ Behind(s2c, "R", "Rflush")'
        /\ \A k \in Arrived("Rflush")', n \in Asked' \cup pending' \cup Answered' : k.of # n.of
    BY <1>1, <1>4, <1>5, <1>6, <2>1, <2>2 DEF Answered
  <2>4. \A c \in Call, n \in Unsettled' : fresp'[c] # n.of
    BY <1>1, <1>7 DEF Flushed
  <2>5. \A k \in ByKind(s2c, "Rflush")', n \in Asked' \cup pending' : k.of # n.of
    BY <1>1, <1>4, <1>6, <2>1
  <2>6. /\ \A k \in ByKind(c2s, "Tflush")', n \in Asked' \cup pending' : k.of = n.of => k.tag = n.tag
        /\ \A x \in flushing', n \in Asked' : x.of # n.of
        /\ \A x \in flushing', n \in pending' : x.of = n.of => n \in x.waits
    BY <1>1, <1>4 DEF Flushed
  <2> QED
    BY <2>1, <2>3, <2>4, <2>5, <2>6 DEF Flushed
<1> QED
  BY <1>9, <1>10, <1>11, <1>12, <1>13 DEF AnswerInv

\* The read loop hands its frame to the call registered under the tag.
LEMMA FrameDelivered ==
  ASSUME TagInv, AnswerInv, stale = {}, Deliver
  PROVE  AnswerInv'
<1>0. SUFFICES ASSUME stale' = {} PROVE AnswerInv'
  BY DEF AnswerInv
<1> DEFINE m == reader.frame
<1>1. /\ AnswerTypes /\ Once /\ Tagged /\ Matched /\ Mine /\ Flushed /\ FlushSent /\ OwnAnswer
      /\ reader.at = "deliver" /\ m \in Msg
      /\ UNCHANGED <<pc, tag, result, dead, c2s, s2c, pending, flushing, shut>>
      /\ resp \in [Call -> Call \cup {None}] /\ fresp \in [Call -> Call \cup {None}]
  BY DEF AnswerInv, AnswerTypes, Deliver, peer
<1>2. /\ (closeCh' <=> closeCh) /\ reader' = [at |-> "read", frame |-> None] /\ reader'.at = "read"
      /\ m.of \in Call /\ m.tag \in Tag /\ m.of # None /\ m.kind \in {"R", "Rflush"}
  BY <1>1, CallAssumption DEF closeCh, ShutAt, Deliver, Msg
<1>3. /\ \A k : Arrived(k)' = {} /\ (m.kind = k => m \in Arrived(k))
      /\ Asked' = Asked /\ Answered' = Answered /\ pending' = pending /\ flushing' = flushing
      /\ ByKind(c2s, "Tflush")' = ByKind(c2s, "Tflush") /\ ByKind(s2c, "Rflush")' = ByKind(s2c, "Rflush")
  <2>1. \A k : Arrived(k)' = {}
    BY <1>2 DEF Arrived
  <2>2. \A k : m.kind = k => m \in Arrived(k)
    BY <1>1 DEF Arrived
  <2> QED
    BY <1>1, <2>1, <2>2 DEF Asked, Answered
<1>4. /\ Unsettled' = Asked \cup pending \cup Answered /\ Unsettled' \subseteq Unsettled
      /\ Flushes' \subseteq Flushes
      /\ m.kind = "R" => m \in Unsettled
      /\ m.kind = "Rflush" => m \in Flushes
  BY <1>3 DEF Unsettled, Flushes
<1>5. \A c \in Call : resp'[c] = resp[c] \/ (m.kind = "R" /\ reg[m.tag] = c /\ resp'[c] = m.of)
  <2>1. reg[m.tag] \in Call \cup {None}
    BY <1>2 DEF TagInv, ConnType
  <2> QED
    BY <1>1, <1>2, <2>1 DEF Deliver
<1>6. \A c \in Call : \/ fresp'[c] = fresp[c]
                      \/ m.kind = "Rflush" /\ fresp'[c] = c /\ m.of = c
  <2>1. freg[m.tag] \in Call \cup {None}
    BY <1>2 DEF TagInv, ConnType
  <2>2. m.kind = "Rflush" /\ freg[m.tag] # None => m.of = freg[m.tag]
    <3>1. ASSUME m.kind = "Rflush", freg[m.tag] # None, m.of # freg[m.tag] PROVE FALSE
      <4>1. m.kind # "R"
        BY <3>1
      <4>2. stale' = stale \cup {freg[m.tag]}
        BY <3>1, <4>1 DEF Deliver
      <4> QED
        BY <1>0, <4>2
    <3> QED
      BY <3>1
  <2>3. fresp' = IF m.kind = "Rflush" /\ freg[m.tag] # None /\ fresp[freg[m.tag]] = None
                 THEN [fresp EXCEPT ![freg[m.tag]] = m.of] ELSE fresp
    <3>1. CASE m.kind = "Rflush"
      <4>1. m.kind # "R"
        BY <3>1
      <4> QED
        BY <3>1, <4>1 DEF Deliver
    <3>2. CASE m.kind # "Rflush"
      BY <3>2 DEF Deliver
    <3> QED
      BY <3>1, <3>2
  <2> QED
    BY <1>1, <2>1, <2>2, <2>3
<1>7. resp' \in [Call -> Call \cup {None}] /\ fresp' \in [Call -> Call \cup {None}]
  <2>1. resp' = resp \/ \E c : resp' = [resp EXCEPT ![c] = m.of]
    BY DEF Deliver
  <2>2. fresp' = fresp \/ \E c : fresp' = [fresp EXCEPT ![c] = m.of]
    BY DEF Deliver
  <2> QED
    BY <1>1, <1>2, <2>1, <2>2
<1>8. Carries
  <2>1. /\ \A n \in Unsettled' : \E k \in Unsettled : k.of = n.of /\ k.tag = n.tag
        /\ \A n \in Asked' \cup pending' : \E k \in Asked \cup pending : k.of = n.of /\ k.tag = n.tag
        /\ \A n \in Flushes' : \E k \in Flushes : k.of = n.of
    BY <1>3, <1>4
  <2>2. \A c \in Call : resp'[c] = resp[c] \/ \E n \in Unsettled : resp'[c] = n.of
    BY <1>4, <1>5
  <2>3. \A c \in Call : fresp'[c] = fresp[c] \/ \E n \in Flushes : n.of = c
    BY <1>4, <1>6
  <2> QED
    BY <1>1, <1>2, <2>1, <2>2, <2>3 DEF Carries
<1>9. Tagged' /\ Matched' /\ FlushSent' /\ OwnAnswer'
  BY <1>8, CarriesTags
<1>10. AnswerTypes'
  <2>1. reader'.at # "deliver" /\ (dead' # {} => closeCh')
    BY <1>1, <1>2 DEF AnswerTypes
  <2> QED
    BY <1>1, <1>7, <2>1 DEF AnswerTypes
<1>11. Once'
  <2>1. m.kind = "R" => \A n \in Unsettled' : m.of # n.of
    <3>1. ASSUME m.kind = "R", NEW n \in Asked \cup pending \cup Answered PROVE m.of # n.of
      <4>1. m \in Arrived("R")
        BY <1>3, <3>1
      <4> QED
        BY <1>1, <3>1, <4>1 DEF Once
    <3> QED
      BY <1>4, <3>1
  <2>2. \A c \in Call, n \in Unsettled' : resp'[c] # n.of
    <3>1. \A c \in Call, n \in Unsettled' : resp[c] # n.of
      BY <1>1, <1>4 DEF Once
    <3> QED
      BY <1>5, <2>1, <3>1
  <2>3. /\ \A n \in Asked', k \in pending' \cup Answered' \cup Arrived("R")' : n.of # k.of
        /\ \A n \in pending', k \in Answered' \cup Arrived("R")' : n.of # k.of
        /\ \A n \in Answered', k \in Arrived("R")' : n.of # k.of
    BY <1>1, <1>3 DEF Once
  <2> QED
    BY <1>1, <2>2, <2>3 DEF Once
<1>12. Mine'
  <2>1. ASSUME NEW c \in Call
        PROVE  /\ pc[c] \in Awaits => resp'[c] \in {None, c}
               /\ pc[c] \in Unsent /\ ~closeCh => resp'[c] = None
    <3>1. CASE resp'[c] = resp[c]
      BY <1>1, <3>1 DEF Mine
    <3>2. CASE m.kind = "R" /\ reg[m.tag] = c /\ resp'[c] = m.of
      <4>1. tag[c] = m.tag /\ m.tag # None /\ m \in Unsettled
        BY <1>2, <1>4, <2>1, <3>2, CallAssumption DEF TagInv, Entries
      <4>2. pc[c] \in Awaits => m.of = c
        BY <1>1, <4>1 DEF Matched
      <4>3. ~closeCh => m.of = c /\ pc[c] \notin Unsent
        <5>1. ~closeCh => tag[m.of] = m.tag /\ pc[m.of] \in Awaits \cup {"returned"}
          BY <1>1, <4>1 DEF Tagged
        <5>2. ~closeCh => m.of = c
          BY <1>2, <4>1, <5>1 DEF TagInv, TagsConserved
        <5> QED
          BY <5>1, <5>2 DEF Awaits, Unsent
      <4> QED
        BY <3>2, <4>2, <4>3
    <3> QED
      BY <1>5, <3>1, <3>2
  <2>2. \A c \in Call : fresp'[c] \in {None, c}
    BY <1>1, <1>6 DEF Mine
  <2> QED
    BY <1>1, <1>2, <2>1, <2>2 DEF Mine
<1>13. Flushed'
  <2>1. m.kind = "Rflush" => \A n \in Unsettled' : m.of # n.of
    BY <1>1, <1>3, <1>4 DEF Flushed
  <2>2. \A c \in Call, n \in Unsettled' : fresp'[c] # n.of
    <3>1. \A c \in Call, n \in Unsettled' : fresp[c] # n.of
      BY <1>1, <1>4 DEF Flushed
    <3> QED
      BY <1>6, <2>1, <3>1
  <2>3. /\ Behind(c2s, "T", "Tflush")' /\ Behind(s2c, "R", "Rflush")'
    BY <1>1 DEF Flushed
  <2>4. /\ \A n \in ByKind(c2s, "Tflush")', k \in Asked' \cup pending' : n.of = k.of => n.tag = k.tag
        /\ \A x \in flushing', n \in Asked' : x.of # n.of
        /\ \A x \in flushing', n \in pending' : x.of = n.of => n \in x.waits
        /\ \A k \in ByKind(s2c, "Rflush")', n \in Asked' \cup pending' : k.of # n.of
    BY <1>1, <1>3 DEF Flushed
  <2>5. \A k \in Arrived("Rflush")', n \in Asked' \cup pending' \cup Answered' : k.of # n.of
    BY <1>3
  <2> QED
    BY <2>2, <2>3, <2>4, <2>5 DEF Flushed
<1> QED
  BY <1>9, <1>10, <1>11, <1>12, <1>13 DEF AnswerInv

-----------------------------------------------------------------------------
(* The peer *)

\* The peer takes the next request or Tflush off the stream.
LEMMA RequestRead ==
  ASSUME AnswerInv, stale = {}, PeerRead
  PROVE  AnswerInv'
<1> DEFINE x == [of |-> Head(c2s).of, tag |-> Head(c2s).tag,
                 waits |-> {p \in pending : p.tag = Head(c2s).tag}]
<1>1. /\ AnswerTypes /\ Once /\ Tagged /\ Matched /\ Mine /\ Flushed /\ FlushSent /\ OwnAnswer
      /\ c2s \in Seq(Request) /\ c2s # <<>> /\ c2s' = Tail(c2s)
      /\ UNCHANGED <<pc, tag, result, resp, fresp, dead, reader, shut, s2c, stale>>
      /\ IF Head(c2s).kind = "T" THEN pending' = pending \cup {Head(c2s)} /\ flushing' = flushing
                                 ELSE flushing' = flushing \cup {x} /\ pending' = pending
  BY DEF AnswerInv, AnswerTypes, PeerRead, client
<1>2. PICK m : m = Head(c2s) /\ m \in Request
  BY <1>1, TailKind
<1>3. /\ m.of \in Call /\ m.tag \in Tag /\ m.kind \in {"T", "Tflush"}
      /\ x.of = m.of /\ x.tag = m.tag /\ \A p : p \in x.waits <=> p \in pending /\ p.tag = m.tag
      /\ m.kind = "T" => m \in [kind : {"T"}, tag : Tag, of : Call]
  BY <1>2, SMT DEF Request
<1>4. /\ \A n : n \in pending' <=> n \in pending \/ (n = m /\ m.kind = "T")
      /\ \A y : y \in flushing' <=> y \in flushing \/ (y = x /\ m.kind = "Tflush")
  <2>1. CASE m.kind = "T"
    BY <1>1, <1>2, <2>1
  <2>2. CASE m.kind = "Tflush"
    BY <1>1, <1>2, <2>2
  <2> QED
    BY <1>3, <2>1, <2>2
<1> HIDE DEF x
<1>5. /\ (closeCh' <=> closeCh) /\ Answered' = Answered /\ \A k : Arrived(k)' = Arrived(k)
      /\ ByKind(s2c, "Rflush")' = ByKind(s2c, "Rflush")
  BY <1>1 DEF closeCh, ShutAt, Answered, Arrived
<1>6. /\ c2s' \in Seq(Request) /\ Asked' \subseteq Asked
      /\ ByKind(c2s, "Tflush")' \subseteq ByKind(c2s, "Tflush")
      /\ m.kind = "T" => m \in Asked
      /\ m.kind = "Tflush" => m \in ByKind(c2s, "Tflush")
  BY <1>1, <1>2, TailKind DEF Asked
<1>7. /\ \A n \in Asked' \cup pending' : n \in Asked \cup pending
      /\ \A n \in Unsettled' : n \in Unsettled
  BY <1>4, <1>5, <1>6 DEF Unsettled
<1>8. \A n \in Flushes' : \E k \in Flushes : k.of = n.of
  <2>1. \A n \in Flushes' : n \in Flushes \/ (n = x /\ m.kind = "Tflush")
    BY <1>4, <1>5, <1>6 DEF Flushes
  <2>2. m.kind = "Tflush" => m \in Flushes /\ m.of = x.of
    BY <1>3, <1>6 DEF Flushes
  <2> QED
    BY <2>1, <2>2
<1>9. Tagged' /\ Matched' /\ FlushSent' /\ OwnAnswer'
  <2>1. Carries
    BY <1>1, <1>5, <1>7, <1>8 DEF Carries
  <2> QED
    BY <2>1, CarriesTags
<1>10. AnswerTypes'
  <2>1. pending' \subseteq [kind : {"T"}, tag : Tag, of : Call]
    BY <1>1, <1>3, <1>4 DEF AnswerTypes
  <2>2. \A y \in flushing' : y.of \in Call /\ y.tag \in Tag
    BY <1>1, <1>3, <1>4 DEF AnswerTypes
  <2> QED
    BY <1>1, <1>5, <1>6, <2>1, <2>2 DEF AnswerTypes
<1>11. Once'
  <2>1. Single(c2s, "T")
    BY <1>1 DEF Once
  <2>2. Single(c2s, "T")' /\ (m.kind = "T" => \A n \in Asked' : n.of # m.of)
    BY <1>1, <1>2, <2>1, TailSingle DEF Asked
  <2>3. \A n, k \in pending' : n.of = k.of => n = k
    <3>1. \A n, k \in pending : n.of = k.of => n = k
      BY <1>1 DEF Once
    <3>2. \A n \in pending : m.kind = "T" => n.of # m.of
      BY <1>1, <1>6 DEF Once
    <3>3. ASSUME NEW n \in pending', NEW k \in pending', n.of = k.of PROVE n = k
      <4>1. (n \in pending \/ (n = m /\ m.kind = "T")) /\ (k \in pending \/ (k = m /\ m.kind = "T"))
        BY <1>4
      <4> QED
        BY <3>1, <3>2, <3>3, <4>1
    <3> QED
      BY <3>3
  <2>4. \A n \in Asked', k \in pending' : n.of # k.of
    <3>1. \A n \in Asked', k \in pending : n.of # k.of
      BY <1>1, <1>6 DEF Once
    <3> QED
      BY <1>4, <2>2, <3>1
  <2>5. \A n \in Asked \cup pending, k \in Answered \cup Arrived("R") : n.of # k.of
    BY <1>1 DEF Once
  <2>6. /\ \A n \in Asked', k \in pending' \cup Answered' \cup Arrived("R")' : n.of # k.of
        /\ \A n \in pending', k \in Answered' \cup Arrived("R")' : n.of # k.of
    BY <1>5, <1>7, <2>4, <2>5
  <2>7. /\ \A n \in Answered', k \in Arrived("R")' : n.of # k.of
        /\ \A c \in Call, n \in Unsettled' : resp'[c] # n.of
        /\ Single(s2c, "R")'
    BY <1>1, <1>5, <1>7 DEF Once
  <2> QED
    BY <2>2, <2>3, <2>6, <2>7 DEF Once
<1>12. Mine'
  BY <1>1, <1>5 DEF Mine
<1>13. Flushed'
  <2>1. /\ Behind(c2s, "T", "Tflush") /\ Behind(s2c, "R", "Rflush")'
    BY <1>1 DEF Flushed
  <2>2. Behind(c2s, "T", "Tflush")' /\ (m.kind = "Tflush" => \A n \in Asked : n.of # m.of)
    BY <1>1, <1>2, <2>1, TailBehind DEF Asked
  <2>3. \A n \in ByKind(c2s, "Tflush")', k \in Asked' \cup pending' : n.of = k.of => n.tag = k.tag
    BY <1>1, <1>6, <1>7 DEF Flushed
  <2>4. \A y \in flushing', n \in Asked' : y.of # n.of
    <3>1. \A y \in flushing, n \in Asked' : y.of # n.of
      BY <1>1, <1>6 DEF Flushed
    <3> QED
      BY <1>3, <1>4, <1>6, <2>2, <3>1
  <2>5. \A y \in flushing', n \in pending' : y.of = n.of => n \in y.waits
    <3>1. ASSUME NEW y \in flushing, NEW n \in pending', y.of = n.of PROVE n \in y.waits
      <4>1. CASE n \in pending
        BY <1>1, <3>1, <4>1 DEF Flushed
      <4>2. CASE n = m /\ m.kind = "T"
        BY <1>1, <1>6, <3>1, <4>2 DEF Flushed
      <4> QED
        BY <1>4, <4>1, <4>2
    <3>2. ASSUME m.kind = "Tflush", NEW n \in pending', x.of = n.of PROVE n \in x.waits
      <4>1. n \in pending
        BY <1>4, <3>2
      <4>2. n.tag = m.tag
        BY <1>1, <1>3, <1>6, <3>2, <4>1 DEF Flushed
      <4> QED
        BY <1>3, <4>1, <4>2
    <3> QED
      BY <1>4, <3>1, <3>2
  <2>6. /\ \A k \in ByKind(s2c, "Rflush")', n \in Asked' \cup pending' : k.of # n.of
        /\ \A k \in Arrived("Rflush")', n \in Asked' \cup pending' \cup Answered' : k.of # n.of
        /\ \A c \in Call, n \in Unsettled' : fresp'[c] # n.of
    BY <1>1, <1>5, <1>7 DEF Flushed
  <2> QED
    BY <2>1, <2>2, <2>3, <2>4, <2>5, <2>6 DEF Flushed
<1> QED
  BY <1>9, <1>10, <1>11, <1>12, <1>13 DEF AnswerInv

\* The peer answers a request.
LEMMA RequestAnswered ==
  ASSUME AnswerInv, stale = {}, NEW p, PeerAnswer(p)
  PROVE  AnswerInv'
<1> DEFINE m == [kind |-> "R", tag |-> p.tag, of |-> p.of]
<1>1. /\ AnswerTypes /\ Once /\ Tagged /\ Matched /\ Mine /\ Flushed /\ FlushSent /\ OwnAnswer
      /\ s2c \in Seq(Msg) /\ p \in pending /\ pending' = pending \ {p}
      /\ UNCHANGED <<pc, tag, result, resp, fresp, dead, reader, shut, c2s, flushing, stale>>
      /\ s2c' = Append(s2c, m)
  BY DEF AnswerInv, AnswerTypes, PeerAnswer, client
<1>2. m \in Msg /\ m.kind = "R" /\ m.tag = p.tag /\ m.of = p.of
  <2>1. p.tag \in Tag /\ p.of \in Call
    BY <1>1, SMT DEF AnswerTypes
  <2> QED
    BY <2>1 DEF Msg
<1> HIDE DEF m
<1>3. /\ (closeCh' <=> closeCh) /\ Asked' = Asked /\ \A k : Arrived(k)' = Arrived(k)
      /\ ByKind(c2s, "Tflush")' = ByKind(c2s, "Tflush")
  BY <1>1 DEF closeCh, ShutAt, Asked, Arrived
<1>4. /\ s2c' \in Seq(Msg)
      /\ \A n : n \in Answered' <=> n \in Answered \/ n = m
      /\ \A n : n \in ByKind(s2c, "Rflush")' <=> n \in ByKind(s2c, "Rflush")
  <2>1. s2c' \in Seq(Msg)
    BY <1>1, <1>2, AppendKind
  <2>2. \A n : n \in ByKind(Append(s2c, m), "R") <=> n \in ByKind(s2c, "R") \/ n = m
    BY <1>1, <1>2, AppendKind, SMT
  <2>3. \A n : n \in ByKind(Append(s2c, m), "Rflush") <=> n \in ByKind(s2c, "Rflush")
    <3>1. m.kind # "Rflush"
      BY <1>2
    <3> QED
      BY <1>1, <1>2, <3>1, AppendKind
  <2> QED
    BY <1>1, <2>1, <2>2, <2>3 DEF Answered
<1>5. \A n : n \in pending' <=> n \in pending /\ n # p
  BY <1>1
<1>6. Tagged' /\ Matched' /\ FlushSent' /\ OwnAnswer'
  <2>1. \A n \in Unsettled' : n \in Unsettled \/ n = m
    BY <1>3, <1>4, <1>5 DEF Unsettled
  <2>2. p \in Unsettled
    BY <1>1 DEF Unsettled
  <2>3. \A n \in Flushes' : n \in Flushes
    BY <1>1, <1>3, <1>4 DEF Flushes
  <2>4. Carries
    <3>1. \A n \in Unsettled' : \E k \in Unsettled : k.of = n.of /\ k.tag = n.tag
      BY <1>2, <2>1, <2>2
    <3>2. \A n \in Asked' \cup pending' : n \in Asked \cup pending
      BY <1>3, <1>5
    <3> QED
      BY <1>1, <1>3, <2>3, <3>1, <3>2 DEF Carries
  <2> QED
    BY <2>4, CarriesTags
<1>7. AnswerTypes'
  BY <1>1, <1>3, <1>4, <1>5 DEF AnswerTypes
<1>8. Once'
  <2>1. Single(s2c, "R")'
    <3>1. Single(s2c, "R") /\ \A n \in ByKind(s2c, "R") : n.of # m.of
      BY <1>1, <1>2 DEF Once, Answered
    <3> QED
      BY <1>1, <1>2, <3>1, AppendSingle
  <2>2. \A n \in Asked', k \in pending' \cup Answered' \cup Arrived("R")' : n.of # k.of
    <3>1. \A n \in Asked, k \in pending \cup Answered \cup Arrived("R") : n.of # k.of
      BY <1>1 DEF Once
    <3>2. \A k \in pending' \cup Answered' \cup Arrived("R")' :
            k \in pending \cup Answered \cup Arrived("R") \/ k.of = p.of
      BY <1>2, <1>3, <1>4, <1>5
    <3> QED
      BY <1>1, <1>3, <3>1, <3>2
  <2>3. \A n \in pending', k \in Answered' \cup Arrived("R")' : n.of # k.of
    <3>1. \A n \in pending, k \in Answered \cup Arrived("R") : n.of # k.of
      BY <1>1 DEF Once
    <3>2. \A n \in pending' : n \in pending /\ n.of # m.of
      BY <1>1, <1>2, <1>5 DEF Once
    <3> QED
      BY <1>3, <1>4, <3>1, <3>2
  <2>4. \A n \in Answered', k \in Arrived("R")' : n.of # k.of
    BY <1>1, <1>2, <1>3, <1>4 DEF Once
  <2>5. \A c \in Call, n \in Unsettled' : resp'[c] # n.of
    <3>1. \A n \in Unsettled' : n \in Unsettled \/ n.of = p.of
      BY <1>2, <1>3, <1>4, <1>5 DEF Unsettled
    <3>2. p \in Unsettled
      BY <1>1 DEF Unsettled
    <3> QED
      BY <1>1, <3>1, <3>2 DEF Once
  <2>6. Single(c2s, "T")' /\ \A n, k \in pending' : n.of = k.of => n = k
    BY <1>1, <1>5 DEF Once
  <2> QED
    BY <2>1, <2>2, <2>3, <2>4, <2>5, <2>6 DEF Once
<1>9. Mine'
  BY <1>1, <1>3 DEF Mine
<1>10. Flushed'
  <2>1. Behind(s2c, "R", "Rflush")'
    <3>1. Behind(s2c, "R", "Rflush") /\ \A n \in ByKind(s2c, "Rflush") : n.of # m.of
      BY <1>1, <1>2 DEF Flushed
    <3>2. "R" # "Rflush"
      OBVIOUS
    <3> QED
      BY <1>1, <1>2, <3>1, <3>2, AppendBehind
  <2>2. /\ \A n \in ByKind(c2s, "Tflush")', k \in Asked' \cup pending' : n.of = k.of => n.tag = k.tag
        /\ \A y \in flushing', n \in Asked' : y.of # n.of
        /\ \A y \in flushing', n \in pending' : y.of = n.of => n \in y.waits
        /\ \A k \in ByKind(s2c, "Rflush")', n \in Asked' \cup pending' : k.of # n.of
    <3>1. \A n \in Asked' \cup pending' : n \in Asked \cup pending
      BY <1>3, <1>5
    <3> QED
      BY <1>1, <1>3, <1>4, <1>5, <3>1 DEF Flushed
  <2>3. \A k \in Arrived("Rflush")', n \in Asked' \cup pending' \cup Answered' : k.of # n.of
    <3>1. \A k \in Arrived("Rflush"), n \in Asked \cup pending \cup Answered : k.of # n.of
      BY <1>1 DEF Flushed
    <3>2. \A n \in Asked' \cup pending' \cup Answered' :
            n \in Asked \cup pending \cup Answered \/ n.of = p.of
      BY <1>2, <1>3, <1>4, <1>5
    <3> QED
      BY <1>1, <1>3, <3>1, <3>2
  <2>4. \A c \in Call, n \in Unsettled' : fresp'[c] # n.of
    <3>1. \A n \in Unsettled' : n \in Unsettled \/ n.of = p.of
      BY <1>2, <1>3, <1>4, <1>5 DEF Unsettled
    <3>2. p \in Unsettled
      BY <1>1 DEF Unsettled
    <3> QED
      BY <1>1, <3>1, <3>2 DEF Flushed
  <2>5. Behind(c2s, "T", "Tflush")'
    BY <1>1 DEF Flushed
  <2> QED
    BY <2>1, <2>2, <2>3, <2>4, <2>5 DEF Flushed
<1> QED
  BY <1>6, <1>7, <1>8, <1>9, <1>10 DEF AnswerInv

\* The peer answers a Tflush, with nothing left that it waits for.
LEMMA FlushAnswered ==
  ASSUME AnswerInv, stale = {}, NEW x, PeerRflush(x)
  PROVE  AnswerInv'
<1> DEFINE m == [kind |-> "Rflush", tag |-> x.tag, of |-> x.of]
<1>1. /\ AnswerTypes /\ Once /\ Tagged /\ Matched /\ Mine /\ Flushed /\ FlushSent /\ OwnAnswer
      /\ s2c \in Seq(Msg) /\ x \in flushing /\ flushing' = flushing \ {x} /\ x.waits \cap pending = {}
      /\ UNCHANGED <<pc, tag, result, resp, fresp, dead, reader, shut, c2s, pending, stale>>
      /\ s2c' = Append(s2c, m)
  BY DEF AnswerInv, AnswerTypes, PeerRflush, client
<1>2. m \in Msg /\ m.kind = "Rflush" /\ m.of = x.of
  <2>1. x.tag \in Tag /\ x.of \in Call
    BY <1>1 DEF AnswerTypes
  <2> QED
    BY <2>1 DEF Msg
<1> HIDE DEF m
<1>3. /\ (closeCh' <=> closeCh) /\ Asked' = Asked /\ \A k : Arrived(k)' = Arrived(k)
      /\ ByKind(c2s, "Tflush")' = ByKind(c2s, "Tflush")
  BY <1>1 DEF closeCh, ShutAt, Asked, Arrived
<1>4. /\ s2c' \in Seq(Msg)
      /\ \A n : n \in Answered' <=> n \in Answered
      /\ \A n : n \in ByKind(s2c, "Rflush")' <=> n \in ByKind(s2c, "Rflush") \/ n = m
  <2>1. s2c' \in Seq(Msg)
    BY <1>1, <1>2, AppendKind
  <2>2. \A n : n \in ByKind(Append(s2c, m), "Rflush") <=> n \in ByKind(s2c, "Rflush") \/ n = m
    BY <1>1, <1>2, AppendKind, SMT
  <2>3. \A n : n \in ByKind(Append(s2c, m), "R") <=> n \in ByKind(s2c, "R")
    <3>1. m.kind # "R"
      BY <1>2
    <3> QED
      BY <1>1, <1>2, <3>1, AppendKind
  <2> QED
    BY <1>1, <2>1, <2>2, <2>3 DEF Answered
<1>5. \A n : n \in Unsettled' <=> n \in Unsettled
  BY <1>1, <1>3, <1>4 DEF Unsettled
<1>6. Tagged' /\ Matched' /\ FlushSent' /\ OwnAnswer'
  <2>1. \A n \in Flushes' : n \in Flushes \/ n = m
    BY <1>1, <1>3, <1>4 DEF Flushes
  <2>2. x \in Flushes
    BY <1>1 DEF Flushes
  <2>3. \A n \in Flushes' : \E k \in Flushes : k.of = n.of
    BY <1>2, <2>1, <2>2
  <2>4. Carries
    BY <1>1, <1>3, <1>5, <2>3 DEF Carries
  <2> QED
    BY <2>4, CarriesTags
<1>7. AnswerTypes'
  BY <1>1, <1>3, <1>4 DEF AnswerTypes
<1>8. Once'
  <2>1. Single(s2c, "R")'
    <3>1. Single(s2c, "R") /\ m.kind # "R"
      BY <1>1, <1>2 DEF Once
    <3> QED
      BY <1>1, <1>2, <3>1, AppendSingle
  <2>2. /\ \A n \in Asked', k \in pending' \cup Answered' \cup Arrived("R")' : n.of # k.of
        /\ \A n \in pending', k \in Answered' \cup Arrived("R")' : n.of # k.of
        /\ \A n \in Answered', k \in Arrived("R")' : n.of # k.of
    BY <1>1, <1>3, <1>4 DEF Once
  <2>3. /\ \A c \in Call, n \in Unsettled' : resp'[c] # n.of
        /\ Single(c2s, "T")' /\ \A n, k \in pending' : n.of = k.of => n = k
    BY <1>1, <1>5 DEF Once
  <2> QED
    BY <2>1, <2>2, <2>3 DEF Once
<1>9. Mine'
  BY <1>1, <1>3 DEF Mine
<1>10. Flushed'
  <2>1. Behind(s2c, "R", "Rflush")'
    <3>1. Behind(s2c, "R", "Rflush") /\ m.kind # "R" /\ "R" # "Rflush"
      BY <1>1, <1>2 DEF Flushed
    <3> QED
      BY <1>1, <1>2, <3>1, AppendBehind
  <2>2. /\ \A n \in ByKind(c2s, "Tflush")', k \in Asked' \cup pending' : n.of = k.of => n.tag = k.tag
        /\ \A y \in flushing', n \in Asked' : y.of # n.of
        /\ \A y \in flushing', n \in pending' : y.of = n.of => n \in y.waits
    BY <1>1, <1>3 DEF Flushed
  <2>3. \A n \in Asked \cup pending : m.of # n.of
    BY <1>1, <1>2 DEF Flushed
  <2>4. \A k \in ByKind(s2c, "Rflush")', n \in Asked' \cup pending' : k.of # n.of
    BY <1>1, <1>3, <1>4, <2>3 DEF Flushed
  <2>5. /\ \A k \in Arrived("Rflush")', n \in Asked' \cup pending' \cup Answered' : k.of # n.of
        /\ \A c \in Call, n \in Unsettled' : fresp'[c] # n.of
    BY <1>1, <1>3, <1>4, <1>5 DEF Flushed
  <2>6. Behind(c2s, "T", "Tflush")'
    BY <1>1 DEF Flushed
  <2> QED
    BY <2>1, <2>2, <2>4, <2>5, <2>6 DEF Flushed
<1> QED
  BY <1>6, <1>7, <1>8, <1>9, <1>10 DEF AnswerInv

-----------------------------------------------------------------------------
(* What is lost, and shutdown *)

\* A step that loses a request or a frame, or closes the connection, at most.
Loses ==
  /\ UNCHANGED <<pc, tag, result, resp, fresp, c2s, s2c, flushing, stale>>
  /\ pending' \subseteq pending
  /\ reader'.at = "deliver" => reader' = reader
  /\ closeCh => closeCh'
  /\ dead' # {} => closeCh'

\* Such a step keeps the answers apart.
LEMMA Lost ==
  ASSUME AnswerInv, stale = {}, Loses
  PROVE  AnswerInv'
<1>1. /\ AnswerTypes /\ Once /\ Tagged /\ Matched /\ Mine /\ Flushed /\ FlushSent /\ OwnAnswer
      /\ UNCHANGED <<pc, tag, result, resp, fresp, c2s, s2c, flushing, stale>>
      /\ pending' \subseteq pending /\ (closeCh => closeCh')
  BY DEF AnswerInv, Loses
<1>2. /\ Asked' = Asked /\ Answered' = Answered
      /\ ByKind(c2s, "Tflush")' = ByKind(c2s, "Tflush") /\ ByKind(s2c, "Rflush")' = ByKind(s2c, "Rflush")
  BY <1>1 DEF Asked, Answered
<1>3. Arrived("R")' \subseteq Arrived("R") /\ Arrived("Rflush")' \subseteq Arrived("Rflush")
  BY DEF Arrived, Loses
<1>4. Unsettled' \subseteq Unsettled /\ Flushes' \subseteq Flushes
  BY <1>1, <1>2, <1>3 DEF Unsettled, Flushes
<1>5. AnswerTypes'
  <2>1. reader'.at = "deliver" => reader'.frame \in Msg
    BY <1>1 DEF Loses, AnswerTypes
  <2>2. pending' \subseteq [kind : {"T"}, tag : Tag, of : Call] /\ (dead' # {} => closeCh')
    BY <1>1 DEF Loses, AnswerTypes
  <2> QED
    BY <1>1, <2>1, <2>2 DEF AnswerTypes
<1>6. Once'
  <2>1. /\ Single(c2s, "T")' /\ Single(s2c, "R")' /\ \A n, k \in pending' : n.of = k.of => n = k
        /\ \A c \in Call, n \in Unsettled' : resp'[c] # n.of
    BY <1>1, <1>4 DEF Once
  <2>2. /\ \A n \in Asked', k \in pending' \cup Answered' \cup Arrived("R")' : n.of # k.of
        /\ \A n \in pending', k \in Answered' \cup Arrived("R")' : n.of # k.of
        /\ \A n \in Answered', k \in Arrived("R")' : n.of # k.of
    BY <1>1, <1>2, <1>3 DEF Once
  <2> QED
    BY <2>1, <2>2 DEF Once
<1>7. Tagged' /\ Matched'
  <2>1. Tagged'
    BY <1>1, <1>4 DEF Tagged
  <2>2. Matched'
    BY <1>1, <1>2, <1>4 DEF Matched
  <2> QED
    BY <2>1, <2>2
<1>8. Mine' /\ FlushSent' /\ OwnAnswer'
  <2>1. Mine'
    BY <1>1 DEF Mine
  <2>2. FlushSent' /\ OwnAnswer'
    BY <1>1, <1>4 DEF FlushSent, OwnAnswer
  <2> QED
    BY <2>1, <2>2
<1>9. Flushed'
  <2>1. /\ Behind(c2s, "T", "Tflush")' /\ Behind(s2c, "R", "Rflush")'
        /\ \A c \in Call, n \in Unsettled' : fresp'[c] # n.of
    BY <1>1, <1>4 DEF Flushed
  <2>2. /\ \A n \in ByKind(c2s, "Tflush")', k \in Asked' \cup pending' : n.of = k.of => n.tag = k.tag
        /\ \A y \in flushing', n \in Asked' : y.of # n.of
        /\ \A y \in flushing', n \in pending' : y.of = n.of => n \in y.waits
    BY <1>1, <1>2 DEF Flushed
  <2>3. /\ \A k \in ByKind(s2c, "Rflush")', n \in Asked' \cup pending' : k.of # n.of
        /\ \A k \in Arrived("Rflush")', n \in Asked' \cup pending' \cup Answered' : k.of # n.of
    BY <1>1, <1>2, <1>3 DEF Flushed
  <2> QED
    BY <2>1, <2>2, <2>3 DEF Flushed
<1> QED
  BY <1>5, <1>6, <1>7, <1>8, <1>9 DEF AnswerInv

\* A shutdown step closes closeCh or leaves it closed, and no channel is closed before.
LEMMA ShutdownCloses ==
  ASSUME CloseInv, ShutdownStep
  PROVE  closeCh' /\ (closeCh \/ dead' = dead)
<1>1. /\ Shuts[3] = "closeCh" /\ Shuts[4] = "nc" /\ Shuts[5] = "over"
  BY DEF Shuts
<1>2. 3 \in 1..5 /\ 4 \in 1..5 /\ 5 \in 1..5 /\ 3 \in 1..3 /\ 3 \in 1..4
  BY SMT
<1>3. \/ shut = "nc" /\ shut' = "over"
      \/ shut = "closeCh" /\ shut' = "nc" /\ dead' = dead
      \/ shut = "admission" /\ shut' = "closeCh" /\ dead' = dead
  BY SMT DEF CloseInv, ShutdownStep
<1> QED
  BY <1>1, <1>2, <1>3 DEF closeCh, ShutAt

-----------------------------------------------------------------------------
(* Every call gets its own answer *)

\* Nothing is under way at first.
LEMMA AnswerInit == Init => AnswerInv
<1> SUFFICES ASSUME Init PROVE AnswerInv
  OBVIOUS
<1>1. /\ c2s = <<>> /\ s2c = <<>> /\ pending = {} /\ flushing = {} /\ dead = {}
      /\ reader.at = "read"
      /\ \A c \in Call : pc[c] = "idle" /\ resp[c] = None /\ fresp[c] = None /\ result[c] = None
      /\ resp \in [Call -> Call \cup {None}] /\ fresp \in [Call -> Call \cup {None}]
      /\ DOMAIN result = Call
  BY DEF Init
<1>2. /\ DOMAIN c2s = {} /\ DOMAIN s2c = {} /\ c2s \in Seq(Request) /\ s2c \in Seq(Msg)
  BY <1>1, SMT
<1>3. /\ Unsettled = {} /\ Flushes = {} /\ Asked = {} /\ Answered = {}
      /\ \A k : ByKind(c2s, k) = {} /\ ByKind(s2c, k) = {} /\ Arrived(k) = {}
  <2>1. \A k : ByKind(c2s, k) = {} /\ ByKind(s2c, k) = {}
    BY <1>2 DEF ByKind
  <2>2. \A k : Arrived(k) = {}
    BY <1>1 DEF Arrived
  <2> QED
    BY <1>1, <2>1, <2>2 DEF Unsettled, Flushes, Asked, Answered
<1>4. AnswerTypes
  BY <1>1, <1>2 DEF AnswerTypes
<1>5. Once /\ Tagged /\ Matched
  <2>1. Once
    BY <1>1, <1>2, <1>3 DEF Once, Single
  <2>2. Tagged
    BY <1>1, <1>3 DEF Tagged
  <2>3. Matched
    BY <1>1, <1>3 DEF Matched
  <2> QED
    BY <2>1, <2>2, <2>3
<1>6. Mine /\ FlushSent /\ OwnAnswer
  BY <1>1, <1>3, CallAssumption DEF Mine, FlushSent, OwnAnswer
<1>7. Flushed
  <2>1. \A c \in Call, n \in Unsettled : fresp[c] # n.of
    BY <1>3
  <2> QED
    BY <1>1, <1>2, <1>3, <2>1 DEF Flushed, Behind
<1> QED
  BY <1>4, <1>5, <1>6, <1>7 DEF AnswerInv

\* No step mixes up two answers.
LEMMA AnswerStep ==
  ASSUME TagInv, CloseInv, AnswerInv, [Next]_vars
  PROVE  AnswerInv'
<1>0. stale \subseteq stale'
  <2>1. CASE Deliver
    BY <2>1, SMT DEF Deliver
  <2>2. ASSUME NEW c \in Call, CallStep(c) \/ Expire(c) \/ FlushGrace(c) PROVE stale' = stale
    BY <2>2 DEF CallStep, BeginCall, Acquire, Register, WriteRequest, WriteRequestFails, ReceiveAnswer,
       Cancel, Abandon, Unregister, Release, RegisterFlush, WriteFlush, FlushSettled,
       ShutdownSignalled, UnregisterFlush, Expire, FlushGrace
  <2>3. CASE ReadFrame \/ ReaderStops \/ ReaderGone \/ ShutdownStep \/ CloseStep \/ PeerStep
    BY <2>3 DEF ReadFrame, ReaderStops, ReaderGone, ShutdownStep, CloseStep, StartClose, DrainCallers,
       FinishClose, PeerStep, PeerRead, PeerAnswer, PeerDrop, PeerRflush
  <2> QED
    BY <2>1, <2>2, <2>3 DEF Next, vars
<1>1. SUFFICES ASSUME stale = {} PROVE AnswerInv'
  BY <1>0 DEF AnswerInv
<1>2. ASSUME NEW c \in Call, CallStep(c) \/ Expire(c) \/ FlushGrace(c) PROVE AnswerInv'
  <2>1. CASE UNCHANGED c2s
    BY <1>1, <1>2, <2>1, CallAnswers
  <2>2. CASE c2s' # c2s
    <3>1. WriteRequest(c) \/ WriteFlush(c)
      BY <1>2, <2>2 DEF CallStep, BeginCall, Acquire, Register, WriteRequestFails, ReceiveAnswer,
         Cancel, Abandon, Unregister, Release, RegisterFlush, FlushSettled, ShutdownSignalled,
         UnregisterFlush, Expire, FlushGrace
    <3> QED
      BY <1>1, <2>2, <3>1, RequestSent, TflushSent
  <2> QED
    BY <2>1, <2>2
<1>3. CASE ReadFrame \/ Deliver
  BY <1>1, <1>3, FrameRead, FrameDelivered
<1>4. CASE ReaderStops \/ ReaderGone \/ CloseStep \/ UNCHANGED vars
  <2>1. shut' = shut \/ BeginShutdown
    BY <1>4 DEF ReaderStops, ReaderGone, CloseStep, StartClose, DrainCallers, FinishClose, vars, client
  <2>2. closeCh' <=> closeCh
    BY <2>1, ShutBegins
  <2>3. /\ UNCHANGED <<pc, tag, result, resp, fresp, c2s, s2c, flushing, stale, pending, dead>>
    BY <1>4 DEF ReaderStops, ReaderGone, CloseStep, StartClose, DrainCallers, FinishClose, vars, client, peer
  <2>4. reader'.at = "deliver" => reader' = reader
    <3>1. CASE ReaderGone
      <4>1. reader' = [reader EXCEPT !.at = "gone"] /\ reader.at = "stopping"
        BY <3>1 DEF ReaderGone
      <4> QED
        BY <4>1 DEF CloseInv
    <3>2. CASE ReaderStops
      BY <3>2 DEF ReaderStops
    <3>3. CASE CloseStep \/ UNCHANGED vars
      BY <3>3 DEF CloseStep, StartClose, DrainCallers, FinishClose, vars, client
    <3> QED
      BY <1>4, <3>1, <3>2, <3>3
  <2>5. dead' # {} => closeCh'
    BY <1>1, <2>2, <2>3 DEF AnswerInv, AnswerTypes
  <2>6. Loses
    BY <2>2, <2>3, <2>4, <2>5 DEF Loses
  <2> QED
    BY <1>1, <2>6, Lost
<1>5. CASE ShutdownStep
  <2>1. closeCh' /\ (closeCh \/ dead' = dead)
    BY <1>5, ShutdownCloses
  <2>2. Loses
    BY <1>5, <2>1 DEF Loses, ShutdownStep, peer
  <2> QED
    BY <1>1, <2>2, Lost
<1>6. CASE PeerRead
  BY <1>1, <1>6, RequestRead
<1>7. ASSUME NEW p \in pending, PeerAnswer(p) \/ PeerDrop(p) PROVE AnswerInv'
  <2>1. CASE PeerAnswer(p)
    BY <1>1, <2>1, RequestAnswered
  <2>2. CASE PeerDrop(p)
    <3>1. /\ UNCHANGED <<pc, tag, result, resp, fresp, c2s, s2c, flushing, stale, reader, shut, dead>>
          /\ pending' \subseteq pending
      BY <2>2 DEF PeerDrop, client
    <3>2. closeCh' <=> closeCh
      BY <3>1 DEF closeCh, ShutAt
    <3>3. Loses
      BY <1>1, <3>1, <3>2 DEF Loses, AnswerInv, AnswerTypes
    <3> QED
      BY <1>1, <3>3, Lost
  <2> QED
    BY <1>7, <2>1, <2>2
<1>8. ASSUME NEW x \in flushing, PeerRflush(x) PROVE AnswerInv'
  BY <1>1, <1>8, FlushAnswered
<1> QED
  BY <1>2, <1>3, <1>4, <1>5, <1>6, <1>7, <1>8 DEF Next, PeerStep

\* The answers stay apart in every state.
LEMMA AnswerInvariant == Spec => []AnswerInv
<1>1. TagInv /\ CloseInv /\ AnswerInv /\ [Next]_vars => AnswerInv'
  BY AnswerStep
<1> QED
  BY <1>1, AnswerInit, TagInvariant, CloseInvariant, PTL DEF Spec

\* A call that returns a response returns the response to its own request, and the
\* peer never has two unanswered requests with one tag, for any number of calls and
\* tags, until a call is handed the Rflush of an earlier Tflush.
THEOREM OwnAnswers == Spec => []OwnAnswerUnlessStale
<1>1. ASSUME AnswerInv PROVE OwnAnswerUnlessStale
  <2>1. ASSUME stale = {} PROVE OwnAnswer /\ \A p, q \in pending : p.tag = q.tag => p = q
    BY <1>1, <2>1 DEF AnswerInv, Matched, Once
  <2> QED
    BY <2>1 DEF OwnAnswerUnlessStale
<1> QED
  BY <1>1, AnswerInvariant, PTL
=============================================================================
