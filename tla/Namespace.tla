------------------------------ MODULE Namespace ------------------------------
(***************************************************************************)
(* What a file tree promises its clients: every change is one directory    *)
(* operation, taking effect at one instant.  A create puts a new object    *)
(* under a free name; a removal takes an object away, and a directory only *)
(* when it is empty; an object removed never comes back, and none is       *)
(* silently replaced.                                                      *)
(*                                                                         *)
(* Of a name on which operations overlap nothing is promised: its entry    *)
(* is Any from then on.                                                    *)
(***************************************************************************)
CONSTANTS Obj, Name, None, Any

VARIABLES entry,     \* per directory and name an object, None or Any
          used       \* objects created so far

Init ==
  /\ entry = [d \in Obj |-> [n \in Name |-> None]]
  /\ used \in {{o} : o \in Obj}

Create(d, n, o) ==
  /\ d \in used /\ entry[d][n] = None /\ o \notin used
  /\ entry' = [entry EXCEPT ![d][n] = o]
  /\ used' = used \cup {o}

Remove(d, n) ==
  /\ entry[d][n] \in Obj
  /\ \A m \in Name : entry[entry[d][n]][m] \in {None, Any}
  /\ entry' = [entry EXCEPT ![d][n] = None]
  /\ used' = used

\* An operation meets another one on the same name.
Overlap(d, n) ==
  /\ entry' = [entry EXCEPT ![d][n] = Any]
  /\ used' \in {used} \cup {used \cup {o} : o \in Obj}

Next ==
  \E d \in Obj, n \in Name :
    Remove(d, n) \/ Overlap(d, n) \/ \E o \in Obj : Create(d, n, o)

Spec == Init /\ [][Next]_<<entry, used>>
=============================================================================
