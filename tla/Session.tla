------------------------------ MODULE Session ------------------------------
(***************************************************************************)
(* Session.Conn and Session.Close (client/session_manager.go), with the    *)
(* dialer, the handshake of Dial (client/dial.go) and the callback         *)
(* onReconnect that a caller runs without holding s.mu.                    *)
(*                                                                         *)
(* Several callers share a Session, and each may give up; the Session may  *)
(* be closed while one of them dials.  What happens on a connection once   *)
(* it is up is in ClientConn; here it is lost at any time.  The server is  *)
(* reduced to what it does to the handshake.                               *)
(***************************************************************************)
EXTENDS Integers, FiniteSets

CONSTANTS Proc,   \* callers of Session.Conn
          Link,   \* network connections; one that is closed is used again
          Nil

ASSUME SessionAssumption == Nil \notin Link \cup Proc

VARIABLES
  conn, dialing, closed,  \* the Session; dialing is the caller that dials
  closing,     \* the connection Close is about to close
  pc,          \* per caller: where it is in Conn
  link,        \* per caller: the connection it is making
  ctxDone,     \* callers whose ctx has ended
  cl,          \* our end of a connection: "open", "live" (a Conn), "closed"
  peer         \* its server: "quiet", "good" or "bad" (its Rversion), "gone"

sessionVars == <<conn, dialing, closed, closing, pc, link, ctxDone, cl, peer>>

SessionInit ==
  /\ conn = Nil /\ dialing = Nil /\ closed = FALSE /\ closing = Nil
  /\ pc = [p \in Proc |-> "idle"] /\ link = [p \in Proc |-> Nil] /\ ctxDone = {}
  /\ cl = [l \in Link |-> "closed"] /\ peer = [l \in Link |-> "gone"]

-----------------------------------------------------------------------------
(* Session.Conn *)

InCall(p) == pc[p] # "idle"

\* A call goes on; its ctx is forgotten when it returns.
At(p, st) ==
  /\ pc' = [pc EXCEPT ![p] = st]
  /\ ctxDone' = IF st = "idle" THEN ctxDone \ {p} ELSE ctxDone

Conn(p) ==
  /\ pc[p] = "idle" /\ At(p, "lock")
  /\ UNCHANGED <<conn, dialing, closed, closing, link, cl, peer>>

CtxEnds(p) ==
  /\ InCall(p) /\ p \notin ctxDone
  /\ ctxDone' = ctxDone \cup {p}
  /\ UNCHANGED <<conn, dialing, closed, closing, pc, link, cl, peer>>

Live == conn # Nil /\ cl[conn] = "live"

MutLook(p) ==
  /\ pc[p] \in {"lock", "woken"}
  /\ IF closed \/ Live THEN At(p, "idle") /\ UNCHANGED dialing
     ELSE At(p, "dial") /\ dialing' = p
  /\ UNCHANGED <<conn, closed, closing, link, cl, peer>>

\* The switch under s.mu: ErrSessionClosed, the live Conn, wait for the caller
\* that dials, or become that caller.
Look(p) ==
  /\ pc[p] \in {"lock", "woken"}
  /\ IF closed \/ Live THEN At(p, "idle") /\ UNCHANGED dialing
     ELSE IF dialing # Nil THEN At(p, "wait") /\ UNCHANGED dialing
     ELSE At(p, "dial") /\ dialing' = p
  /\ UNCHANGED <<conn, closed, closing, link, cl, peer>>

\* A waiter returns ctx.Err(), perhaps although the wait is over.
StopWaiting(p) ==
  /\ pc[p] \in {"wait", "woken"} /\ p \in ctxDone
  /\ At(p, "idle")
  /\ UNCHANGED <<conn, dialing, closed, closing, link, cl, peer>>

-----------------------------------------------------------------------------
(* dialOnce: the dialer, Dial and onReconnect *)

Dialer(p, l) ==
  /\ pc[p] = "dial"
  /\ cl[l] = "closed" /\ l \notin {conn, closing} \cup {link[q] : q \in Proc}
  /\ cl' = [cl EXCEPT ![l] = "open"] /\ peer' = [peer EXCEPT ![l] = "quiet"]
  /\ At(p, "hello") /\ link' = [link EXCEPT ![p] = l]
  /\ UNCHANGED <<conn, dialing, closed, closing>>

DialerFails(p) ==
  /\ pc[p] = "dial" /\ At(p, "failed")
  /\ UNCHANGED <<conn, dialing, closed, closing, link, cl, peer>>

\* The connection the caller made is closed.
Dropped(p) ==
  /\ cl' = [cl EXCEPT ![link[p]] = "closed"]
  /\ peer' = [peer EXCEPT ![link[p]] = "gone"]
  /\ link' = [link EXCEPT ![p] = Nil]

\* Dial looks at the ctx once, and writes Tversion.
Hello(p) ==
  /\ pc[p] = "hello"
  /\ IF p \in ctxDone THEN At(p, "failed") /\ Dropped(p)
                      ELSE At(p, "version") /\ UNCHANGED <<link, cl, peer>>
  /\ UNCHANGED <<conn, dialing, closed, closing>>

\* The server answers a Tversion; or it hangs up, at the limit, after the handshake
\* timeout or because it stops.
Server(l) ==
  /\ peer[l] = "quiet"
  /\ \/ /\ \E p \in Proc : link[p] = l /\ pc[p] = "version"
        /\ \E answer \in {"good", "bad"} : peer' = [peer EXCEPT ![l] = answer]
     \/ peer' = [peer EXCEPT ![l] = "gone"]
  /\ UNCHANGED <<conn, dialing, closed, closing, pc, link, ctxDone, cl>>

\* The answer: of another type or tag, with an unknown version, one that was not
\* asked for or too small an msize, it is refused.
Rversion(p) ==
  LET l == link[p] IN
  /\ pc[p] = "version" /\ peer[l] \in {"good", "bad", "gone"}
  /\ IF peer[l] = "good"
       THEN /\ At(p, "callback") /\ cl' = [cl EXCEPT ![l] = "live"]
            /\ UNCHANGED <<link, peer>>
       ELSE At(p, "failed") /\ Dropped(p)
  /\ UNCHANGED <<conn, dialing, closed, closing>>

\* The deadline of the ctx, which Dial set on the connection, has passed.  A ctx
\* that is cancelled does not end Dial.
DialExpires(p) ==
  /\ pc[p] = "version" /\ p \in ctxDone
  /\ At(p, "failed") /\ Dropped(p)
  /\ UNCHANGED <<conn, dialing, closed, closing>>

MutOnReconnect(p) ==
  /\ pc[p] = "callback"
  /\ \/ At(p, "finish") /\ UNCHANGED <<link, cl, peer>>
     \/ At(p, "failed") /\ link' = [link EXCEPT ![p] = Nil] /\ UNCHANGED <<cl, peer>>
  /\ UNCHANGED <<conn, dialing, closed, closing>>

\* The callback refuses the Conn, or not.
OnReconnect(p) ==
  /\ pc[p] = "callback"
  /\ \/ At(p, "finish") /\ UNCHANGED <<link, cl, peer>>
     \/ At(p, "failed") /\ Dropped(p)
  /\ UNCHANGED <<conn, dialing, closed, closing>>

-----------------------------------------------------------------------------
(* dialWithBackoff, and the end of Conn *)

\* The ctx and closeCh are looked at before the timer is set, and beside it.
Backoff(p) ==
  /\ \/ pc[p] = "failed" /\ p \notin ctxDone /\ ~closed /\ At(p, "backoff")
     \/ pc[p] = "backoff" /\ At(p, "dial")
  /\ UNCHANGED <<conn, dialing, closed, closing, link, cl, peer>>

MutGiveUp(p) ==
  /\ pc[p] \in {"failed", "backoff"} /\ p \in ctxDone
  /\ At(p, "finish")
  /\ UNCHANGED <<conn, dialing, closed, closing, link, cl, peer>>

GiveUp(p) ==
  /\ pc[p] \in {"failed", "backoff"} /\ (p \in ctxDone \/ closed)
  /\ At(p, "finish")
  /\ UNCHANGED <<conn, dialing, closed, closing, link, cl, peer>>

\* Under s.mu: the waiters are woken, and a Conn is kept unless the Session has
\* been closed meanwhile.
Finish(p) ==
  /\ pc[p] = "finish"
  /\ dialing' = Nil
  /\ pc' = [q \in Proc |-> IF q = p THEN IF closed /\ link[p] # Nil THEN "discard" ELSE "idle"
                           ELSE IF pc[q] = "wait" THEN "woken" ELSE pc[q]]
  /\ ctxDone' = ctxDone \ {p}
  /\ IF closed \/ link[p] = Nil
       THEN UNCHANGED <<conn, link>>
       ELSE conn' = link[p] /\ link' = [link EXCEPT ![p] = Nil]
  /\ UNCHANGED <<closed, closing, cl, peer>>

\* A Conn that comes too late is closed.
Discard(p) ==
  /\ pc[p] = "discard" /\ At(p, "idle") /\ Dropped(p)
  /\ UNCHANGED <<conn, dialing, closed, closing>>

Close ==
  /\ ~closed /\ closed' = TRUE
  /\ closing' = conn /\ conn' = Nil
  /\ UNCHANGED <<dialing, pc, link, ctxDone, cl, peer>>

CloseConn ==
  /\ closing # Nil /\ closing' = Nil
  /\ cl' = [cl EXCEPT ![closing] = "closed"] /\ peer' = [peer EXCEPT ![closing] = "gone"]
  /\ UNCHANGED <<conn, dialing, closed, pc, link, ctxDone>>

\* The Conn shuts itself down: the server hung up, a protocol error, a flush
\* without an answer, or the caller that was given it closes it.
Lost(l) ==
  /\ cl[l] = "live"
  /\ cl' = [cl EXCEPT ![l] = "closed"] /\ peer' = [peer EXCEPT ![l] = "gone"]
  /\ UNCHANGED <<conn, dialing, closed, closing, pc, link, ctxDone>>

-----------------------------------------------------------------------------

\* What a caller does by itself.
Caller(p) ==
  \/ Look(p) \/ StopWaiting(p) \/ (\E l \in Link : Dialer(p, l)) \/ DialerFails(p)
  \/ Hello(p) \/ Rversion(p) \/ OnReconnect(p) \/ Backoff(p) \/ GiveUp(p)
  \/ Finish(p) \/ Discard(p)

SessionNext ==
  \/ \E p \in Proc : Conn(p) \/ CtxEnds(p) \/ Caller(p) \/ DialExpires(p)
  \/ \E l \in Link : Server(l) \/ Lost(l)
  \/ Close \/ CloseConn

-----------------------------------------------------------------------------
(* Properties *)

Dialling == {"dial", "hello", "version", "callback", "failed", "backoff", "finish"}

\* Callers that find no connection share one dial: only the caller that s.dialing
\* names is between the dialer and the end of dialWithBackoff, however callers,
\* failures and Close interleave, and waiters have one to wait for.
OneDial ==
  /\ \A p \in Proc : pc[p] \in Dialling <=> dialing = p
  /\ \A p \in Proc : pc[p] = "wait" => dialing # Nil

\* No connection is forgotten: one that was opened and that nobody has closed is
\* the Session's current one, is being closed by Close, or is in the hands of the
\* one caller that makes it; once the Session is closed and no call runs, Close
\* included, there is none.
NoConnLeak ==
  \A l \in Link : cl[l] # "closed" =>
    \/ l \in {conn, closing} /\ \A p \in Proc : link[p] # l
    \/ \E p \in Proc : link[p] = l /\ InCall(p) /\ \A q \in Proc \ {p} : link[q] # l

\* Conn returns once its ctx has ended or the Session is closed, whoever dials and
\* however often dialling fails.
CallReturns ==
  \A p \in Proc : (InCall(p) /\ (p \in ctxDone \/ closed)) ~> ~InCall(p)
=============================================================================
