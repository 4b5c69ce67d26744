---------------------------- MODULE Connections ----------------------------
(***************************************************************************)
(* A process that uses the library to reach servers (Session) or to be one *)
(* (Listener), and the fairness of the two.                                *)
(***************************************************************************)
EXTENDS Session, Listener

VARIABLE isServer

vars == <<isServer, sessionVars, listenerVars>>

Init == isServer \in BOOLEAN /\ SessionInit /\ ListenerInit

Next ==
  \/ isServer /\ ListenerNext /\ UNCHANGED <<isServer, sessionVars>>
  \/ ~isServer /\ SessionNext /\ UNCHANGED <<isServer, listenerVars>>

\* Goroutines run, timers fire, a dialer returns, and a server answers a Tversion
\* or hangs up, its handshake timeout at the latest.  A select that finds both the
\* dial and the ctx done takes either, so not the first one for ever.
SessionFairness ==
  /\ \A p \in Proc : WF_vars(~isServer /\ Caller(p) /\ UNCHANGED <<isServer, listenerVars>>)
  /\ \A p \in Proc : SF_vars(~isServer /\ StopWaiting(p) /\ UNCHANGED <<isServer, listenerVars>>)
  /\ \A l \in Link : WF_vars(~isServer /\ Server(l) /\ UNCHANGED <<isServer, listenerVars>>)

\* A cancelled ctx closes the listener, unless Serve is done with it, and ends the
\* connections that are up.
ListenerFairness ==
  /\ \A s \in Sock : WF_vars(isServer /\ Goroutine(s) /\ UNCHANGED <<isServer, sessionVars>>)
  /\ WF_vars(isServer /\ AcceptLoop /\ UNCHANGED <<isServer, sessionVars>>)
  /\ WF_vars(/\ isServer /\ srvDone /\ serve \in {"accepting", "backoff"}
             /\ StopListening /\ UNCHANGED <<isServer, sessionVars>>)

Spec == Init /\ [][Next]_vars /\ SessionFairness /\ ListenerFairness
=============================================================================
