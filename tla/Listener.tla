------------------------------ MODULE Listener ------------------------------
(***************************************************************************)
(* The server's front door (server/server.go): the accept loop of Serve,   *)
(* the connection limit of ServeConn, and the handshake a connection has   *)
(* to get through (negotiateVersion in server/conn.go).  The life of a     *)
(* connection after it is in ServerConn; here it ends at any time.         *)
(***************************************************************************)
EXTENDS Integers, FiniteSets

CONSTANTS Sock,            \* connections of clients; one that is gone is used again
          MaxConnections   \* WithMaxConnections; 0 is no limit

ASSUME ListenerAssumption == IsFiniteSet(Sock) /\ MaxConnections \in Nat

VARIABLES
  sv,          \* per connection: where its ServeConn is
  connCount,
  serve,       \* where Serve is
  listening, srvDone,  \* the listener is open; the ctx of Serve has ended
  left         \* connections whose client is gone

listenerVars == <<sv, connCount, serve, listening, srvDone, left>>

ListenerInit ==
  /\ sv = [s \in Sock |-> "none"] /\ connCount = 0
  /\ serve = "accepting" /\ listening = TRUE /\ srvDone = FALSE
  /\ left = {}

\* ServeConn calls that have not returned: what Serve's wg counts.
Served == {s \in Sock : sv[s] \notin {"none", "backlog"}}
Admitted == {s \in Sock : sv[s] \in {"handshake", "serving", "leaving"}}
Refused == {s \in Sock : sv[s] = "over"}

Goto(s, st) == sv' = [sv EXCEPT ![s] = st]

-----------------------------------------------------------------------------
(* Serve *)

Connects(s) ==
  /\ sv[s] = "none" /\ listening /\ Goto(s, "backlog")
  /\ left' = left \ {s}
  /\ UNCHANGED <<connCount, serve, listening, srvDone>>

\* A connection that Accept returns is served in a goroutine of its own.
Accept(s) ==
  /\ serve = "accepting" /\ listening
  /\ sv[s] = "backlog" /\ Goto(s, "accepted")
  /\ UNCHANGED <<connCount, serve, listening, srvDone, left>>

\* The listener is closed, by whoever owns it or because the ctx ended: what was
\* not accepted is reset.
StopListening ==
  /\ listening /\ listening' = FALSE
  /\ sv' = [s \in Sock |-> IF sv[s] = "backlog" THEN "none" ELSE sv[s]]
  /\ UNCHANGED <<connCount, serve, srvDone, left>>

SrvCtxEnds ==
  /\ ~srvDone /\ srvDone' = TRUE
  /\ UNCHANGED <<sv, connCount, serve, listening, left>>

\* Accept out of descriptors backs off; any other error ends the loop.
AcceptFails ==
  /\ serve = "accepting"
  /\ serve' \in IF srvDone \/ ~listening THEN {"waiting"} ELSE {"backoff", "waiting"}
  /\ UNCHANGED <<sv, connCount, listening, srvDone, left>>
AcceptBackoff ==
  /\ serve = "backoff"
  /\ serve' \in {"accepting"} \cup (IF srvDone THEN {"waiting"} ELSE {})
  /\ UNCHANGED <<sv, connCount, listening, srvDone, left>>

\* The deferred wg.Wait.
ServeReturns ==
  /\ serve = "waiting" /\ Served = {}
  /\ serve' = "returned"
  /\ UNCHANGED <<sv, connCount, listening, srvDone, left>>

-----------------------------------------------------------------------------
(* ServeConn *)

\* It counts first, and looks at the limit then.
ServeConn(s) ==
  LET over == MaxConnections > 0 /\ connCount + 1 > MaxConnections IN
  /\ sv[s] = "accepted" /\ Goto(s, IF over THEN "over" ELSE "handshake")
  /\ connCount' = IF MaxConnections > 0 THEN connCount + 1 ELSE connCount
  /\ UNCHANGED <<serve, listening, srvDone, left>>

MutReject(s) ==
  /\ sv[s] = "over" /\ Goto(s, "none")
  /\ UNCHANGED <<connCount, serve, listening, srvDone, left>>

Reject(s) ==
  /\ sv[s] = "over" /\ Goto(s, "none")
  /\ connCount' = connCount - 1
  /\ UNCHANGED <<serve, listening, srvDone, left>>

\* A Tversion with a version that is served and an msize that is large enough.
Negotiated(s) ==
  /\ sv[s] = "handshake" /\ s \notin left /\ Goto(s, "serving")
  /\ UNCHANGED <<connCount, serve, listening, srvDone, left>>

MutHandshakeFails(s) ==
  /\ sv[s] = "handshake" /\ s \in left /\ Goto(s, "leaving")
  /\ UNCHANGED <<connCount, serve, listening, srvDone, left>>

\* Any other frame, none before the handshake deadline, or the client is gone.  The
\* ctx of Serve plays no part yet.
HandshakeFails(s) ==
  /\ sv[s] = "handshake" /\ Goto(s, "leaving")
  /\ UNCHANGED <<connCount, serve, listening, srvDone, left>>

\* An established connection ends: its client is gone or idle, or the ctx ended.
ConnEnds(s) ==
  /\ sv[s] = "serving" /\ Goto(s, "leaving")
  /\ UNCHANGED <<connCount, serve, listening, srvDone, left>>

\* The deferred decrement.
Leave(s) ==
  /\ sv[s] = "leaving" /\ Goto(s, "none")
  /\ connCount' = IF MaxConnections > 0 THEN connCount - 1 ELSE connCount
  /\ UNCHANGED <<serve, listening, srvDone, left>>

ClientLeaves(s) ==
  /\ sv[s] # "none" /\ s \notin left /\ left' = left \cup {s}
  /\ UNCHANGED <<sv, connCount, serve, listening, srvDone>>

-----------------------------------------------------------------------------

\* What the goroutine of a connection does, and an end of it that must come; what
\* the loop does, an Accept that is bound to fail included.
Goroutine(s) ==
  \/ ServeConn(s) \/ Reject(s) \/ HandshakeFails(s) \/ Leave(s)
  \/ (srvDone \/ s \in left) /\ ConnEnds(s)
AcceptLoop == (~listening /\ AcceptFails) \/ AcceptBackoff \/ ServeReturns

ListenerNext ==
  \/ \E s \in Sock : \/ Connects(s) \/ Accept(s) \/ Negotiated(s) \/ ConnEnds(s)
                     \/ Goroutine(s) \/ ClientLeaves(s)
  \/ AcceptFails \/ AcceptLoop \/ StopListening \/ SrvCtxEnds

-----------------------------------------------------------------------------
(* Properties *)

\* The limit holds however many connections come at once, and what is counted is
\* what is there: a refused connection does not use up a place for good.  (While it
\* is still counted, another one may be refused although a place is free.)
LimitHeld ==
  MaxConnections > 0 =>
    /\ Cardinality(Admitted) <= MaxConnections
    /\ connCount = Cardinality(Admitted \cup Refused)

\* Serve returns once its ctx has ended, and no connection is served then: one that
\* never sent its Tversion does not keep it.
ServeEnds == srvDone ~> (serve = "returned" /\ Served = {})
=============================================================================
