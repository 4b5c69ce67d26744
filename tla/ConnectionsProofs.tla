------------------------- MODULE ConnectionsProofs -------------------------
(* Session and Listener, for every number of callers and connections and   *)
(* every limit.                                                            *)
EXTENDS Connections, FiniteSetTheorems, TLAPS

USE Zenon   \* a leaf that needs arithmetic or long case splits names SMT

Steps == Dialling \cup {"idle", "lock", "wait", "woken", "discard"}

\* The types of a Session's state.
SessionType ==
  /\ conn \in Link \cup {Nil} /\ closing \in Link \cup {Nil} /\ dialing \in Proc \cup {Nil}
  /\ closed \in BOOLEAN
  /\ pc \in [Proc -> Steps] /\ link \in [Proc -> Link \cup {Nil}]
  /\ cl \in [Link -> {"open", "live", "closed"}]

\* Where a caller can be while it has a connection in its hands, and who else can
\* have it.
InHands ==
  /\ \A p \in Proc : link[p] # Nil => pc[p] \in {"hello", "version", "callback", "finish", "discard"}
  /\ \A p \in Proc : pc[p] \in {"hello", "version", "callback", "discard"} => link[p] # Nil
  /\ \A p, q \in Proc : link[p] # Nil /\ link[p] = link[q] => p = q
  /\ \A p \in Proc : link[p] # Nil => link[p] \notin {conn, closing}

\* A connection is replaced only when it is closed, and a Session that is closed
\* has none.
Replaceable ==
  /\ dialing # Nil /\ conn # Nil => cl[conn] = "closed"
  /\ conn # Nil => cl[conn] \in {"live", "closed"}
  /\ \A p \in Proc : pc[p] \in {"callback", "finish"} /\ link[p] # Nil =>
       cl[link[p]] \in {"live", "closed"}
  /\ closing # Nil => closed
  /\ closed => conn = Nil

\* Somebody has every connection that is not closed.
Kept ==
  \A l \in Link : cl[l] # "closed" => l \in {conn, closing} \/ \E p \in Proc : link[p] = l

SessionInv == SessionType /\ OneDial /\ InHands /\ Replaceable /\ Kept

\* A Session starts with no connection and no call.
LEMMA SessionStarts == SessionInit => SessionInv
<1> SUFFICES ASSUME SessionInit PROVE SessionInv
  OBVIOUS
<1> USE DEF SessionInit
<1>1. SessionType
  BY DEF SessionType, Steps
<1>2. OneDial
  BY SessionAssumption DEF OneDial, Dialling
<1>3. InHands /\ Replaceable /\ Kept
  BY DEF InHands, Replaceable, Kept
<1> QED
  BY <1>1, <1>2, <1>3 DEF SessionInv

\* What others do to a Session leaves the invariant as it is.
LEMMA SessionStutters ==
  ASSUME SessionInv, UNCHANGED sessionVars
  PROVE  SessionInv'
BY DEF sessionVars, SessionInv, SessionType, OneDial, InHands, Replaceable, Kept

\* Each step of a caller, of Close and of the connections keeps the invariant.
LEMMA SessionKeeps ==
  ASSUME SessionInv, SessionNext
  PROVE  SessionInv'
<1> USE SessionAssumption
<1> USE DEF SessionInv, SessionType, OneDial, InHands, Replaceable, Kept, Steps, Dialling, At
<1>1. ASSUME NEW p \in Proc, Conn(p) PROVE SessionInv'
  BY <1>1, SMT DEF Conn
<1>2. ASSUME NEW p \in Proc, CtxEnds(p) PROVE SessionInv'
  BY <1>2 DEF CtxEnds
<1>3. ASSUME NEW p \in Proc, Look(p) PROVE SessionInv'
  BY <1>3, SMT DEF Look, Live
<1>4. ASSUME NEW p \in Proc, StopWaiting(p) PROVE SessionInv'
  BY <1>4, SMT DEF StopWaiting
<1>5. ASSUME NEW p \in Proc, NEW l \in Link, Dialer(p, l) PROVE SessionInv'
  BY <1>5, SMT DEF Dialer
<1>6. ASSUME NEW p \in Proc, DialerFails(p) PROVE SessionInv'
  BY <1>6, SMT DEF DialerFails
<1>7. ASSUME NEW p \in Proc, Hello(p) PROVE SessionInv'
  BY <1>7, SMT DEF Hello, Dropped
<1>8. ASSUME NEW p \in Proc, Rversion(p) PROVE SessionInv'
  BY <1>8, SMT DEF Rversion, Dropped
<1>9. ASSUME NEW p \in Proc, DialExpires(p) PROVE SessionInv'
  BY <1>9, SMT DEF DialExpires, Dropped
<1>10. ASSUME NEW p \in Proc, OnReconnect(p) PROVE SessionInv'
  BY <1>10, SMT DEF OnReconnect, Dropped
<1>11. ASSUME NEW p \in Proc, Backoff(p) PROVE SessionInv'
  BY <1>11, SMT DEF Backoff
<1>12. ASSUME NEW p \in Proc, GiveUp(p) PROVE SessionInv'
  BY <1>12, SMT DEF GiveUp
<1>13. ASSUME NEW p \in Proc, Finish(p) PROVE SessionInv'
  <2>1. SessionType' /\ OneDial'
    BY <1>13, SMT DEF Finish
  <2>2. InHands'
    BY <1>13, SMT DEF Finish
  <2>3. Replaceable'
    BY <1>13, SMT DEF Finish
  <2>4. Kept'
    BY <1>13, SMT DEF Finish
  <2> QED
    BY <2>1, <2>2, <2>3, <2>4
<1>14. ASSUME NEW p \in Proc, Discard(p) PROVE SessionInv'
  BY <1>14, SMT DEF Discard, Dropped
<1>15. CASE Close
  BY <1>15 DEF Close
<1>16. CASE CloseConn
  BY <1>16, SMT DEF CloseConn
<1>17. ASSUME NEW l \in Link, Server(l) PROVE SessionInv'
  BY <1>17, SMT DEF Server
<1>18. ASSUME NEW l \in Link, Lost(l) PROVE SessionInv'
  BY <1>18, SMT DEF Lost
<1> QED
  BY <1>1, <1>2, <1>3, <1>4, <1>5, <1>6, <1>7, <1>8, <1>9, <1>10, <1>11, <1>12, <1>13, <1>14,
     <1>15, <1>16, <1>17, <1>18 DEF SessionNext, Caller

-----------------------------------------------------------------------------
(* The listener *)

Counted == Admitted \cup Refused

\* Everything that is counted is a connection that is there, so the limit holds.
ListenerInv ==
  /\ sv \in [Sock -> {"none", "backlog", "accepted", "over", "handshake", "serving", "leaving"}]
  /\ connCount \in Int
  /\ LimitHeld

\* Sets of connections are finite.
LEMMA SocksFinite ==
  /\ IsFiniteSet(Admitted) /\ Cardinality(Admitted) \in Nat
  /\ IsFiniteSet(Counted) /\ Cardinality(Counted) \in Nat
  /\ Cardinality(Admitted) <= Cardinality(Counted)
<1>1. Counted \subseteq Sock /\ Admitted \subseteq Counted
  BY DEF Counted, Admitted, Refused
<1>2. IsFiniteSet(Counted)
  BY <1>1, ListenerAssumption, FS_Subset
<1> QED
  BY <1>1, <1>2, FS_Subset, FS_CardinalityType

\* A server starts with no connection.
LEMMA ListenerStarts == ListenerInit => ListenerInv
<1> SUFFICES ASSUME ListenerInit PROVE ListenerInv
  OBVIOUS
<1>1. Admitted = {} /\ Refused = {}
  BY DEF ListenerInit, Admitted, Refused
<1>2. Cardinality(Admitted) = 0 /\ Cardinality(Admitted \cup Refused) = 0
  BY <1>1, FS_EmptySet
<1> QED
  BY <1>2, ListenerAssumption, SMT DEF ListenerInit, ListenerInv, LimitHeld

\* A step that leaves the counted connections and the counter alone keeps the
\* limit.
LEMMA LimitStays ==
  ASSUME ListenerInv, connCount' = connCount, Admitted' \subseteq Admitted,
         Counted' = Counted
  PROVE  LimitHeld'
<1>1. Cardinality(Admitted') <= Cardinality(Admitted) /\ Cardinality(Admitted') \in Nat
  BY SocksFinite, FS_Subset, FS_CardinalityType
<1> QED
  BY <1>1, SocksFinite, ListenerAssumption, SMT DEF ListenerInv, LimitHeld, Counted

\* A connection that comes is counted before the limit is looked at.
LEMMA ServeConnCounts ==
  ASSUME ListenerInv, NEW s \in Sock, ServeConn(s)
  PROVE  ListenerInv'
<1> DEFINE over == MaxConnections > 0 /\ connCount + 1 > MaxConnections
<1>1. sv[s] = "accepted" /\ sv' = [sv EXCEPT ![s] = IF over THEN "over" ELSE "handshake"]
  BY DEF ServeConn, Goto
<1>2. connCount' = IF MaxConnections > 0 THEN connCount + 1 ELSE connCount
  BY DEF ServeConn
<1>3. s \notin Counted /\ Counted' = Counted \cup {s}
  BY <1>1 DEF Counted, Admitted, Refused, ListenerInv
<1>4. Cardinality(Counted') = Cardinality(Counted) + 1
  BY <1>3, SocksFinite, FS_AddElement
<1>5. s \notin Admitted /\ Admitted' = IF over THEN Admitted ELSE Admitted \cup {s}
  BY <1>1 DEF Admitted, ListenerInv
<1>6. Cardinality(Admitted') = IF over THEN Cardinality(Admitted) ELSE Cardinality(Admitted) + 1
  BY <1>5, SocksFinite, FS_AddElement
<1>7. LimitHeld'
  <2> HIDE DEF over
  <2>1. over <=> MaxConnections > 0 /\ connCount + 1 > MaxConnections
    BY DEF over
  <2> QED
    BY <1>2, <1>4, <1>6, <2>1, SocksFinite, ListenerAssumption, SMT DEF ListenerInv, LimitHeld, Counted
<1> QED
  BY <1>1, <1>2, <1>7, ListenerAssumption, SMT DEF ListenerInv

\* A connection that goes, refused or served, gives its place back.
LEMMA LeaveCounts ==
  ASSUME ListenerInv, NEW s \in Sock, Reject(s) \/ Leave(s), MaxConnections > 0
  PROVE  LimitHeld'
<1>1. /\ sv[s] \in {"over", "leaving"} /\ sv' = [sv EXCEPT ![s] = "none"]
      /\ connCount' = connCount - 1
  BY DEF Reject, Leave, Goto
<1>2. s \in Counted /\ Counted' = Counted \ {s} /\ Admitted' \subseteq Admitted
  BY <1>1 DEF Counted, Admitted, Refused, ListenerInv
<1>3. Cardinality(Counted') = Cardinality(Counted) - 1
  BY <1>2, SocksFinite, FS_RemoveElement
<1>4. Cardinality(Admitted') <= Cardinality(Admitted) /\ Cardinality(Admitted') \in Nat
  BY <1>2, SocksFinite, FS_Subset, FS_CardinalityType
<1> QED
  BY <1>1, <1>3, <1>4, SocksFinite, ListenerAssumption, SMT DEF ListenerInv, LimitHeld, Counted

\* Each step of Serve, ServeConn and the clients keeps the invariant.
LEMMA ListenerKeeps ==
  ASSUME ListenerInv, ListenerNext
  PROVE  ListenerInv'
<1> USE DEF Goto
<1> DEFINE Quiet == /\ connCount' = connCount /\ Admitted' = Admitted /\ Counted' = Counted
                    /\ sv' \in [Sock -> {"none", "backlog", "accepted", "over", "handshake",
                                         "serving", "leaving"}]
<1>1. Quiet => ListenerInv'
  BY LimitStays DEF ListenerInv
<1>2. ASSUME NEW s \in Sock,
             Connects(s) \/ Accept(s) \/ Negotiated(s) \/ ConnEnds(s) \/ HandshakeFails(s)
      PROVE  Quiet
  BY <1>2 DEF Connects, Accept, Negotiated, ConnEnds, HandshakeFails, ListenerInv, Counted,
              Admitted, Refused
<1>3. ASSUME NEW s \in Sock, ClientLeaves(s) PROVE Quiet
  BY <1>3 DEF ClientLeaves, ListenerInv, Counted, Admitted, Refused
<1>4. ASSUME AcceptFails \/ AcceptBackoff \/ ServeReturns \/ SrvCtxEnds PROVE Quiet
  BY <1>4 DEF AcceptFails, AcceptBackoff, ServeReturns, SrvCtxEnds, ListenerInv, Counted,
              Admitted, Refused
<1>5. ASSUME StopListening PROVE Quiet
  BY <1>5 DEF StopListening, ListenerInv, Counted, Admitted, Refused
<1>6. ASSUME NEW s \in Sock, Reject(s) \/ Leave(s) PROVE ListenerInv'
  <2>1. LimitHeld'
    BY <1>6, LeaveCounts, ListenerAssumption DEF LimitHeld
  <2> QED
    BY <1>6, <2>1, SMT DEF Reject, Leave, ListenerInv
<1> HIDE DEF Quiet
<1> QED
  BY <1>1, <1>2, <1>3, <1>4, <1>5, <1>6, ServeConnCounts
  DEF ListenerNext, Goroutine, AcceptLoop

-----------------------------------------------------------------------------
(* The two together *)

\* Both invariants hold in every state of a process that uses the library.
LEMMA Invariant == Spec => [](SessionInv /\ ListenerInv)
<1>1. Init => SessionInv /\ ListenerInv
  BY SessionStarts, ListenerStarts DEF Init
<1>2. ASSUME SessionInv /\ ListenerInv, [Next]_vars PROVE (SessionInv /\ ListenerInv)'
  <2>1. UNCHANGED listenerVars => ListenerInv'
    BY <1>2 DEF listenerVars, ListenerInv, LimitHeld, Admitted, Refused
  <2> QED
    BY <1>2, <2>1, SessionStutters, SessionKeeps, ListenerKeeps DEF Next, vars
<1> QED
  BY <1>1, <1>2, PTL DEF Spec

\* However many callers, failures and Closes there are, only the caller that
\* s.dialing names dials.
THEOREM SingleDial == Spec => []OneDial
<1>1. SessionInv => OneDial
  BY DEF SessionInv
<1> QED
  BY <1>1, Invariant, PTL

\* No path through Conn, dialOnce and Close forgets a connection.
THEOREM ConnsKept == Spec => []NoConnLeak
<1>1. SessionInv => NoConnLeak
  BY SessionAssumption, SMT
  DEF SessionInv, SessionType, InHands, Kept, NoConnLeak, InCall
<1> QED
  BY <1>1, Invariant, PTL

\* The counter of ServeConn is exact and keeps the limit, for every limit.
THEOREM LimitKept == Spec => []LimitHeld
<1>1. ListenerInv => LimitHeld
  BY DEF ListenerInv
<1> QED
  BY <1>1, Invariant, PTL
=============================================================================
