--------------------------- MODULE FidTableProofs ---------------------------
(***************************************************************************)
(* Reference counting is exact, every handle is released once, and nothing *)
(* is appended to a committed xattr buffer, for any number of handlers,    *)
(* fids, fidStates, nodes and handles.  FidNodeProofs has the nodes.       *)
(*                                                                         *)
(* References: a step of one handler touches one fid, so each of the four  *)
(* sets that RefsExact counts changes at one element at most; what is left *)
(* of the balance is arithmetic about that handler and that fid.           *)
(*                                                                         *)
(* Handles: every fidState has a life (Phases), and its handle is open     *)
(* until the one handler that may release it, after the last I/O, does     *)
(* (Holding); a step moves one fidState along that life, or none.          *)
(***************************************************************************)
EXTENDS FidTable, FiniteSetTheorems, TLAPS

USE Zenon   \* a leaf that needs arithmetic or long case splits names SMT

Incs(n)  == {p \in Op : at[p] = "inc" /\ req[p].node = n}
Decs(n)  == {p \in Op : at[p] = "decref" /\ fs[req[p].obj].node = n}
Prevs(n) == {p \in Op : at[p] \in {"inc", "dec"} /\ req[p].prev = n}

One(b) == IF b THEN 1 ELSE 0

Fids == [node : Node \cup {Nil}, state : Status, handle : Handle \cup {Nil},
         ioRefs : Int, closing : BOOLEAN, closeNode : BOOLEAN,
         raw : BOOLEAN, xdata : Int, xsize : Int, committed : BOOLEAN]
Calls == [kind : Kinds \cup {"none"}, fid : Fid \cup {Nil}, new : Fid \cup {Nil},
          obj : Obj \cup {Nil}, node : Node \cup {Nil},
          prev : Node \cup {Nil}, handle : Handle \cup {Nil}, last : BOOLEAN]

\* What a handler has in its locals where it is.
Placed(l, c) ==
  /\ l \in {"got", "lookup", "bind", "opening", "mark", "swap"} => c.fid \in Fid
  /\ l \in {"lookup", "bind"} => c.new \in Fid
  /\ l = "got" /\ c.kind \in {"clone", "walk", "xattrwalk"} => c.new \in Fid
  /\ l \in {"lookup", "bind", "inc", "swap"} => c.node \in Node
  /\ l = "dec" => c.prev \in Node
  /\ l \in {"got", "begin", "io", "decref", "finish"} => c.obj \in Obj
  /\ l = "idle" => c.obj = Nil

\* A fidState is bound to one fid, one that is being clunked to none, and
\* whatever is still referred to has a node.
FidInv ==
  /\ table \in [Fid -> Obj \cup {Nil}] /\ fs \in [Obj -> Fids] /\ refs \in [Node -> Int]
  /\ at \in [Op -> Labels] /\ req \in [Op -> Calls]
  /\ \A f \in Bound : fs[table[f]].node \in Node
  /\ \A f, g \in Bound : table[f] = table[g] => f = g
  /\ \A p \in Op : /\ Placed(at[p], req[p])
                   /\ req[p].obj # Nil => fs[req[p].obj].node \in Node
                   /\ at[p] = "decref" => \A f \in Fid : table[f] # req[p].obj
  /\ RefsExact

\* The locals of a handler are what its place says.
LEMMA PlacedIs ==
  ASSUME FidInv, NEW p \in Op
  PROVE  Placed(at[p], req[p]) /\ req[p] \in Calls
BY DEF FidInv

\* A finite set that differs from another in one element.
LEMMA CardMove ==
  ASSUME NEW S, NEW T, NEW x, IsFiniteSet(S), T \ {x} = S \ {x}
  PROVE  /\ IsFiniteSet(T) /\ Cardinality(S) \in Nat /\ Cardinality(T) \in Nat
         /\ Cardinality(T) = Cardinality(S) + One(x \in T) - One(x \in S)
<1>1. Cardinality(S) \in Nat
  BY FS_CardinalityType
<1>2. CASE x \in T /\ x \notin S
  <2>1. T = S \cup {x}
    BY <1>2
  <2> QED
    BY <1>1, <1>2, <2>1, FS_AddElement, FS_CardinalityType, SMT DEF One
<1>3. CASE x \notin T /\ x \in S
  <2>1. T = S \ {x}
    BY <1>3
  <2> QED
    BY <1>1, <1>3, <2>1, FS_RemoveElement, FS_CardinalityType, SMT DEF One
<1>4. CASE x \in T <=> x \in S
  <2>1. T = S
    BY <1>4, SMT
  <2> QED
    BY <1>1, <1>4, <2>1, SMT DEF One
<1> QED
  BY <1>2, <1>3, <1>4

\* Handler p goes to l with locals c, and touches fid f.
Moves(p, l, c, f) ==
  /\ at' = [at EXCEPT ![p] = l] /\ req' = [req EXCEPT ![p] = c]
  /\ l \in Labels /\ c \in Calls /\ Placed(l, c)
  /\ table' \in [Fid -> Obj \cup {Nil}] /\ fs' \in [Obj -> Fids] /\ refs' \in [Node -> Int]
  /\ \A g \in Fid \ {f} : /\ table'[g] = table[g]
                          /\ table[g] # Nil => fs'[table[g]].node = fs[table[g]].node

\* Nobody else's fidState is disturbed.
Apart(p, c, f) ==
  /\ \A q \in Op \ {p} : req[q].obj # Nil => fs'[req[q].obj].node \in Node
  /\ \A q \in Op \ {p} : at[q] = "decref" =>
       /\ fs'[req[q].obj].node = fs[req[q].obj].node
       /\ \A g \in Fid : table'[g] # req[q].obj
  /\ c.obj # Nil => fs'[c.obj].node \in Node
  /\ f \in Fid /\ table'[f] # Nil =>
       fs'[table'[f]].node \in Node /\ \A g \in Fid \ {f} : table'[g] # table'[f]

\* The balance of the step.
Balanced(p, f) ==
  \A n \in Node :
    refs'[n] - refs[n] + One(p \in Incs(n)') - One(p \in Incs(n)) =
      One(f \in BoundTo(n)') - One(f \in BoundTo(n)) + One(p \in Decs(n)') - One(p \in Decs(n))
        + One(p \in Prevs(n)') - One(p \in Prevs(n))

\* Such a step keeps the invariant.
LEMMA Step1 ==
  ASSUME FidInv, NEW p \in Op, NEW l, NEW c, NEW f,
         Moves(p, l, c, f), Apart(p, c, f), Balanced(p, f),
         l = "decref" => \A g \in Fid : table'[g] # c.obj
  PROVE  FidInv'
<1>1. /\ \A q \in Op : /\ at'[q] = IF q = p THEN l ELSE at[q]
                       /\ req'[q] = IF q = p THEN c ELSE req[q]
      /\ at' \in [Op -> Labels] /\ req' \in [Op -> Calls]
      /\ table' \in [Fid -> Obj \cup {Nil}] /\ fs' \in [Obj -> Fids] /\ refs' \in [Node -> Int]
  BY DEF FidInv, Moves
<1>2. \A q \in Op : /\ Placed(at'[q], req'[q])
                    /\ req'[q].obj # Nil => fs'[req'[q].obj].node \in Node
                    /\ at'[q] = "decref" => \A g \in Fid : table'[g] # req'[q].obj
  BY <1>1, SMT DEF FidInv, Moves, Apart
<1>3. \A g \in Fid : table'[g] # Nil => fs'[table'[g]].node \in Node
  BY DEF FidInv, Moves, Apart, Bound
<1>4. \A g, h \in Fid : table'[g] # Nil /\ table'[g] = table'[h] => g = h
  BY SMT DEF FidInv, Moves, Apart, Bound
<1>5. ASSUME NEW n \in Node
      PROVE  /\ Incs(n)' \ {p} = Incs(n) \ {p} /\ Prevs(n)' \ {p} = Prevs(n) \ {p}
             /\ Decs(n)' \ {p} = Decs(n) \ {p} /\ BoundTo(n)' \ {f} = BoundTo(n) \ {f}
             /\ IsFiniteSet(Incs(n)) /\ IsFiniteSet(Prevs(n)) /\ IsFiniteSet(Decs(n))
             /\ IsFiniteSet(BoundTo(n))
  <2>1. Incs(n)' \ {p} = Incs(n) \ {p} /\ Prevs(n)' \ {p} = Prevs(n) \ {p}
    BY <1>1 DEF Incs, Prevs
  <2>2. Decs(n)' \ {p} = Decs(n) \ {p}
    BY <1>1, SMT DEF Decs, Apart
  <2>3. BoundTo(n)' \ {f} = BoundTo(n) \ {f}
    BY DEF BoundTo, Bound, Moves
  <2>4. /\ IsFiniteSet(Incs(n)) /\ IsFiniteSet(Prevs(n)) /\ IsFiniteSet(Decs(n))
        /\ IsFiniteSet(BoundTo(n))
    BY FidTableAssumption, FS_Subset DEF Incs, Prevs, Decs, BoundTo, Bound
  <2> QED
    BY <2>1, <2>2, <2>3, <2>4
<1>6. RefsExact'
  <2> SUFFICES ASSUME NEW n \in Node
               PROVE  refs'[n] + Cardinality(Incs(n)') = Cardinality(BoundTo(n)')
                        + (Cardinality(Decs(n)') + Cardinality(Prevs(n)'))
    BY DEF RefsExact, Count, Dropping, Incs, Decs, Prevs
  <2>1. refs[n] + Cardinality(Incs(n)) = Cardinality(BoundTo(n))
                        + (Cardinality(Decs(n)) + Cardinality(Prevs(n)))
    BY DEF FidInv, RefsExact, Count, Dropping, Incs, Decs, Prevs
  <2>2. /\ Cardinality(Incs(n)) \in Nat /\ Cardinality(Incs(n)') \in Nat
        /\ Cardinality(Incs(n)') = Cardinality(Incs(n)) + One(p \in Incs(n)') - One(p \in Incs(n))
    BY <1>5, CardMove
  <2>3. /\ Cardinality(Decs(n)) \in Nat /\ Cardinality(Decs(n)') \in Nat
        /\ Cardinality(Decs(n)') = Cardinality(Decs(n)) + One(p \in Decs(n)') - One(p \in Decs(n))
    BY <1>5, CardMove
  <2>4. /\ Cardinality(Prevs(n)) \in Nat /\ Cardinality(Prevs(n)') \in Nat
        /\ Cardinality(Prevs(n)') =
             Cardinality(Prevs(n)) + One(p \in Prevs(n)') - One(p \in Prevs(n))
    BY <1>5, CardMove
  <2>5. /\ Cardinality(BoundTo(n)) \in Nat /\ Cardinality(BoundTo(n)') \in Nat
        /\ Cardinality(BoundTo(n)') =
             Cardinality(BoundTo(n)) + One(f \in BoundTo(n)') - One(f \in BoundTo(n))
    BY <1>5, CardMove
  <2>6. /\ refs[n] \in Int /\ refs'[n] \in Int
    BY <1>1 DEF FidInv
  <2>7. refs'[n] - refs[n] + One(p \in Incs(n)') - One(p \in Incs(n)) =
          One(f \in BoundTo(n)') - One(f \in BoundTo(n)) + One(p \in Decs(n)')
            - One(p \in Decs(n)) + One(p \in Prevs(n)') - One(p \in Prevs(n))
    BY DEF Balanced
  <2> QED
    BY <2>1, <2>2, <2>3, <2>4, <2>5, <2>6, <2>7, SMT DEF One
<1> QED
  BY <1>1, <1>2, <1>3, <1>4, <1>6 DEF FidInv, Bound

-----------------------------------------------------------------------------
(* Steps that bind nothing. *)

\* Positions where a handler owes no count.
Calm == Labels \ {"inc", "dec", "decref"}

\* Every fidState that is still referred to keeps its node.
Keeps(p, c) ==
  /\ table' = table /\ fs' \in [Obj -> Fids]
  /\ \A o \in Obj : \/ fs'[o].node = fs[o].node
                    \/ /\ \A g \in Fid : table[g] # o
                       /\ \A q \in Op \ {p} : req[q].obj # o
                       /\ c.obj # o
  /\ \/ c.obj \in {Nil, req[p].obj}
     \/ \E g \in Fid : c.obj = table[g]

\* Then nobody else is disturbed.
LEMMA KeepsApart ==
  ASSUME FidInv, NEW p \in Op, NEW l \in Labels, NEW c \in Calls, Keeps(p, c), Placed(l, c),
         at' = [at EXCEPT ![p] = l], req' = [req EXCEPT ![p] = c], refs' \in [Node -> Int]
  PROVE  /\ Moves(p, l, c, Nil) /\ Apart(p, c, Nil)
         /\ \A n \in Node : Nil \notin BoundTo(n) /\ Nil \notin BoundTo(n)'
<1> USE FidTableAssumption
<1>1. Moves(p, l, c, Nil)
  BY DEF Moves, FidInv, Keeps
<1>2. Apart(p, c, Nil)
  <2>1. ASSUME NEW q \in Op \ {p}, req[q].obj # Nil
        PROVE  fs'[req[q].obj].node = fs[req[q].obj].node /\ fs[req[q].obj].node \in Node
    BY <2>1 DEF FidInv, Calls, Keeps
  <2>2. \A q \in Op \ {p} : at[q] = "decref" =>
          req[q].obj # Nil /\ \A g \in Fid : table'[g] # req[q].obj
    BY SMT DEF FidInv, Placed, Keeps
  <2>3. c.obj # Nil => fs'[c.obj].node \in Node
    <3> SUFFICES ASSUME c.obj # Nil PROVE fs'[c.obj].node \in Node
      OBVIOUS
    <3>1. c.obj \in Obj /\ fs'[c.obj].node = fs[c.obj].node
      BY DEF Calls, Keeps
    <3>2. fs[c.obj].node \in Node
      BY DEF FidInv, Bound, Keeps
    <3> QED
      BY <3>1, <3>2
  <2>4. Nil \notin Fid
    OBVIOUS
  <2> QED
    BY <2>1, <2>2, <2>3, <2>4 DEF Apart
<1>3. \A n \in Node : Nil \notin BoundTo(n) /\ Nil \notin BoundTo(n)'
  BY DEF BoundTo, Bound
<1> QED
  BY <1>1, <1>2, <1>3

\* A handler that neither binds nor counts.
LEMMA QuietStep ==
  ASSUME FidInv, NEW p \in Op, NEW l \in Calm, NEW c \in Calls, Keeps(p, c), Placed(l, c),
         at' = [at EXCEPT ![p] = l], req' = [req EXCEPT ![p] = c], at[p] \in Calm,
         UNCHANGED refs
  PROVE  FidInv'
<1>0. l \in Labels /\ l \notin {"inc", "dec", "decref"} /\ at[p] \notin {"inc", "dec", "decref"}
  BY DEF Calm
<1>1. /\ Moves(p, l, c, Nil) /\ Apart(p, c, Nil)
      /\ \A n \in Node : Nil \notin BoundTo(n) /\ Nil \notin BoundTo(n)'
  BY <1>0, KeepsApart DEF FidInv
<1>2. ASSUME NEW n \in Node
      PROVE  /\ p \notin Incs(n) /\ p \notin Incs(n)' /\ p \notin Decs(n) /\ p \notin Decs(n)'
             /\ p \notin Prevs(n) /\ p \notin Prevs(n)'
             /\ refs[n] \in Int /\ refs'[n] = refs[n]
  BY <1>0 DEF Incs, Decs, Prevs, FidInv
<1>3. Balanced(p, Nil)
  BY <1>1, <1>2, SMT DEF Balanced, One
<1> QED
  BY <1>0, <1>1, <1>3, Step1

\* A handler's return, whatever it stored in fidStates besides a node.
LEMMA EndKeeps ==
  ASSUME FidInv, NEW p \in Op, NEW g \in [Obj -> Fids], EndWith(p, g),
         \A o \in Obj : g[o].node = fs[o].node, UNCHANGED table
  PROVE  /\ Keeps(p, Idle) /\ Idle \in Calls /\ Placed("idle", Idle) /\ "idle" \in Calm
         /\ at' = [at EXCEPT ![p] = "idle"] /\ req' = [req EXCEPT ![p] = Idle]
<1>1. Idle \in Calls /\ Idle.obj = Nil /\ Placed("idle", Idle) /\ "idle" \in Calm
  BY DEF Idle, Calls, Placed, Calm, Labels
<1>2. Blank \in Fids
  BY SMT DEF Blank, NewFidState, Fids, Status
<1>3. fs' \in [Obj -> Fids]
  BY <1>2 DEF EndWith
<1>4. ASSUME NEW o \in Obj
      PROVE  \/ fs'[o].node = fs[o].node
             \/ /\ \A f \in Fid : table[f] # o
                /\ \A q \in Op \ {p} : req[q].obj # o
                /\ Idle.obj # o
  BY <1>1, FidTableAssumption DEF EndWith
<1> QED
  BY <1>1, <1>3, <1>4 DEF EndWith, Keeps

\* A return at a point where nothing is owed.
LEMMA EndStep ==
  ASSUME FidInv, NEW p \in Op, NEW g \in [Obj -> Fids], EndWith(p, g), at[p] \in Calm,
         \A o \in Obj : g[o].node = fs[o].node, UNCHANGED <<table, refs>>
  PROVE  FidInv'
BY EndKeeps, QuietStep

\* A handler goes on with what it has, having stored no node.
LEMMA GoStep ==
  ASSUME FidInv, NEW p \in Op, NEW l \in Calm, NEW c \in Calls, Placed(l, c),
         at' = [at EXCEPT ![p] = l], req' = [req EXCEPT ![p] = c], at[p] \in Calm,
         UNCHANGED <<table, refs>>, fs' \in [Obj -> Fids],
         \A o \in Obj : fs'[o].node = fs[o].node,
         c.obj = req[p].obj \/ \E f \in Fid : c.obj = table[f]
  PROVE  FidInv'
BY QuietStep DEF Keeps

\* The walks, up to where a fid is bound.
LEMMA WalkSteps ==
  ASSUME FidInv, NEW p \in Op,
         \/ \E f \in Fid, g \in Fid \cup {Nil}, k \in Kinds :
              Get(p, k, f, g) /\ (k \in {"clone", "walk", "xattrwalk"} => g \in Fid)
         \/ ReadNode(p) \/ WalkFirst(p) \/ WalkOn(p) \/ WalkPartial(p)
  PROVE  FidInv'
<1> USE FidTableAssumption
<1>0. /\ fs \in [Obj -> Fids] /\ req[p] \in Calls /\ at \in [Op -> Labels]
      /\ req \in [Op -> Calls] /\ table \in [Fid -> Obj \cup {Nil}] /\ Placed(at[p], req[p])
      /\ req[p].obj # Nil => fs[req[p].obj].node \in Node
  BY DEF FidInv
<1>1. FreshNode \subseteq Node
  BY DEF FreshNode, Fresh
<1>2. ASSUME NEW f \in Fid, NEW g \in Fid \cup {Nil}, NEW k \in Kinds, Get(p, k, f, g),
             k \in {"clone", "walk", "xattrwalk"} => g \in Fid
      PROVE  FidInv'
  <2> DEFINE c == [Idle EXCEPT !.kind = k, !.fid = f, !.new = g, !.obj = table[f]]
  <2>1. /\ at' = [at EXCEPT ![p] = "got"] /\ req' = [req EXCEPT ![p] = c] /\ at[p] = "idle"
        /\ UNCHANGED <<table, fs, refs>> /\ table[f] \in Obj
    BY <1>0, <1>2 DEF Get, Goto
  <2>2. c \in Calls /\ c.obj = table[f] /\ c.fid = f /\ c.new = g /\ c.kind = k
    BY <2>1 DEF Idle, Calls
  <2> HIDE DEF c
  <2>3. Placed("got", c) /\ "got" \in Calm /\ at[p] \in Calm
    BY <1>2, <2>1, <2>2 DEF Placed, Calm, Labels
  <2> QED
    BY <1>0, <2>1, <2>2, <2>3, GoStep
<1>3. CASE ReadNode(p)
  <2> DEFINE c == [req[p] EXCEPT !.node = fs[req[p].obj].node]
  <2>1. /\ at[p] = "got" /\ req[p].kind \in {"clone", "walk", "xattrwalk"}
        /\ UNCHANGED <<table, fs, refs>> /\ req' = [req EXCEPT ![p] = c]
        /\ \E l \in {"lookup", "bind"} : at' = [at EXCEPT ![p] = l]
    BY <1>0, <1>3 DEF ReadNode, Goto
  <2>2. req[p].obj \in Obj /\ req[p].fid \in Fid /\ req[p].new \in Fid
    BY <1>0, <2>1 DEF Placed
  <2>3. /\ c \in Calls /\ c.obj = req[p].obj /\ c.fid \in Fid /\ c.new \in Fid
        /\ c.node \in Node
    BY <1>0, <2>2 DEF Calls
  <2> HIDE DEF c
  <2>4. \A l \in {"lookup", "bind"} : Placed(l, c) /\ l \in Calm
    BY <2>3 DEF Placed, Calm, Labels
  <2>5. at[p] \in Calm
    BY <2>1 DEF Calm, Labels
  <2> QED
    BY <1>0, <2>1, <2>3, <2>4, <2>5, GoStep
<1>4. CASE WalkFirst(p) /\ ~End(p)
  <2>1. PICK n \in FreshNode : req' = [req EXCEPT ![p].node = n, ![p].prev = req[p].node]
    BY <1>4 DEF WalkFirst
  <2> DEFINE c == [req[p] EXCEPT !.node = n, !.prev = req[p].node]
  <2>2. /\ at[p] = "lookup" /\ at' = [at EXCEPT ![p] = "bind"] /\ UNCHANGED <<table, fs, refs>>
        /\ req' = [req EXCEPT ![p] = c]
    BY <1>0, <1>4, <2>1 DEF WalkFirst, Goto
  <2>3. /\ c \in Calls /\ c.obj = req[p].obj /\ c.fid \in Fid /\ c.new \in Fid
        /\ c.node \in Node
    BY <1>0, <1>1, <2>2 DEF Calls, Placed
  <2> HIDE DEF c
  <2>4. Placed("bind", c) /\ "bind" \in Calm /\ at[p] \in Calm
    BY <2>2, <2>3 DEF Placed, Calm, Labels
  <2> QED
    BY <1>0, <2>2, <2>3, <2>4, GoStep
<1>5. CASE WalkOn(p)
  <2>1. PICK n \in FreshNode : req' = [req EXCEPT ![p].node = n]
    BY <1>5 DEF WalkOn
  <2> DEFINE c == [req[p] EXCEPT !.node = n]
  <2>2. /\ at[p] = "bind" /\ at' = [at EXCEPT ![p] = "bind"] /\ UNCHANGED <<table, fs, refs>>
        /\ req' = [req EXCEPT ![p] = c]
    BY <1>0, <1>5, <2>1 DEF WalkOn
  <2>3. /\ c \in Calls /\ c.obj = req[p].obj /\ c.fid \in Fid /\ c.new \in Fid
        /\ c.node \in Node
    BY <1>0, <1>1, <2>2 DEF Calls, Placed
  <2> HIDE DEF c
  <2>4. Placed("bind", c) /\ "bind" \in Calm /\ at[p] \in Calm
    BY <2>2, <2>3 DEF Placed, Calm, Labels
  <2> QED
    BY <1>0, <2>2, <2>3, <2>4, GoStep
<1>6. CASE (WalkFirst(p) \/ WalkPartial(p)) /\ End(p)
  <2>1. at[p] \in Calm /\ UNCHANGED <<table, refs>>
    BY <1>6 DEF WalkFirst, WalkPartial, Calm, Labels
  <2> QED
    BY <1>0, <1>6, <2>1, EndStep DEF End
<1> QED
  BY <1>2, <1>3, <1>4, <1>5, <1>6 DEF WalkPartial

\* Storing anything but a node in a fidState.
LEMMA StoreType ==
  ASSUME FidInv, NEW o, NEW y \in Fids, o \in Obj => y.node = fs[o].node
  PROVE  /\ [fs EXCEPT ![o] = y] \in [Obj -> Fids]
         /\ \A x \in Obj : [fs EXCEPT ![o] = y][x].node = fs[x].node
BY DEF FidInv

\* Opens, up to where the handle is stored.
LEMMA OpenSteps ==
  ASSUME FidInv, NEW p \in Op, StateCheck(p) \/ CallOpen(p) \/ MarkOpened(p)
  PROVE  FidInv'
<1> USE FidTableAssumption
<1>0. /\ fs \in [Obj -> Fids] /\ req[p] \in Calls /\ at \in [Op -> Labels]
      /\ req \in [Op -> Calls] /\ table \in [Fid -> Obj \cup {Nil}] /\ Placed(at[p], req[p])
      /\ req[p].obj # Nil => fs[req[p].obj].node \in Node
  BY DEF FidInv
<1>1. FreshNode \subseteq Node /\ FreshHandle \subseteq Handle
  BY DEF FreshNode, FreshHandle, Fresh
<1>2. at[p] \in Calm /\ UNCHANGED <<table, refs>>
  BY DEF StateCheck, CallOpen, MarkOpened, Calm, Labels
<1>3. CASE End(p)
  BY <1>0, <1>2, <1>3, EndStep DEF End
<1>4. CASE StateCheck(p) /\ ~End(p)
  <2>1. /\ at[p] = "got" /\ UNCHANGED <<req, fs>>
        /\ \E l \in {"xset", "opening"} : at' = [at EXCEPT ![p] = l]
    BY <1>4 DEF StateCheck, Goto
  <2>2. req[p].fid \in Fid
    BY <1>0, <2>1 DEF Placed
  <2>3. \A l \in {"xset", "opening"} : Placed(l, req[p]) /\ l \in Calm
    BY <2>2 DEF Placed, Calm, Labels
  <2>4. req' = [req EXCEPT ![p] = req[p]]
    BY <1>0, <2>1
  <2> QED
    BY <1>0, <1>2, <2>1, <2>3, <2>4, GoStep
<1>5. CASE CallOpen(p) /\ ~End(p)
  <2>0. at[p] = "opening" /\ req[p].fid \in Fid /\ UNCHANGED fs
    BY <1>0, <1>5 DEF Placed, CallOpen
  <2>1. PICK h \in FreshHandle :
          \/ at' = [at EXCEPT ![p] = "mark"] /\ req' = [req EXCEPT ![p].handle = h]
          \/ \E n \in FreshNode : /\ at' = [at EXCEPT ![p] = "swap"]
                                  /\ req' = [req EXCEPT ![p].handle = h, ![p].node = n]
    BY <1>5 DEF CallOpen, Goto
  <2>2. CASE at' = [at EXCEPT ![p] = "mark"] /\ req' = [req EXCEPT ![p].handle = h]
    <3> DEFINE c == [req[p] EXCEPT !.handle = h]
    <3>1. /\ req' = [req EXCEPT ![p] = c] /\ c \in Calls /\ c.obj = req[p].obj /\ c.fid \in Fid
      BY <1>0, <1>1, <2>0, <2>2 DEF Calls
    <3> HIDE DEF c
    <3>2. Placed("mark", c) /\ "mark" \in Calm
      BY <3>1 DEF Placed, Calm, Labels
    <3> QED
      BY <1>0, <1>2, <2>0, <2>2, <3>1, <3>2, GoStep
  <2>3. ASSUME NEW n \in FreshNode, at' = [at EXCEPT ![p] = "swap"],
               req' = [req EXCEPT ![p].handle = h, ![p].node = n]
        PROVE  FidInv'
    <3> DEFINE c == [req[p] EXCEPT !.handle = h, !.node = n]
    <3>1. /\ req' = [req EXCEPT ![p] = c] /\ c \in Calls /\ c.obj = req[p].obj /\ c.fid \in Fid
          /\ c.node \in Node
      BY <1>0, <1>1, <2>0, <2>3 DEF Calls
    <3> HIDE DEF c
    <3>2. Placed("swap", c) /\ "swap" \in Calm
      BY <3>1 DEF Placed, Calm, Labels
    <3> QED
      BY <1>0, <1>2, <2>0, <2>3, <3>1, <3>2, GoStep
  <2> QED
    BY <2>1, <2>2, <2>3
<1>6. CASE MarkOpened(p) /\ ~End(p)
  <2> DEFINE o == table[req[p].fid]
             y == [fs[o] EXCEPT !.state = "opened", !.handle = req[p].handle]
  <2>1. o \in Obj /\ EndWith(p, [fs EXCEPT ![o].state = "opened", ![o].handle = req[p].handle])
    BY <1>0, <1>6 DEF MarkOpened, MayOpen, Placed
  <2>2. /\ y \in Fids /\ y.node = fs[o].node
        /\ [fs EXCEPT ![o].state = "opened", ![o].handle = req[p].handle] = [fs EXCEPT ![o] = y]
    <3>1. fs[o] \in Fids /\ req[p].handle \in Handle \cup {Nil}
      BY <1>0, <2>1 DEF Calls
    <3> HIDE DEF o
    <3>2. y \in Fids /\ y.node = fs[o].node
      BY <3>1 DEF Fids, Status
    <3>3. [fs EXCEPT ![o].state = "opened", ![o].handle = req[p].handle] = [fs EXCEPT ![o] = y]
      BY <1>0, <2>1
    <3> QED
      BY <3>2, <3>3
  <2> HIDE DEF o, y
  <2> QED
    BY <1>2, <2>1, <2>2, StoreType, EndStep, SMT
<1> QED
  BY <1>3, <1>4, <1>5, <1>6

\* The fidState of a clunked fid.
LEMMA FlagType ==
  ASSUME NEW y \in Fids, NEW b \in BOOLEAN, NEW d \in BOOLEAN
  PROVE  /\ [y EXCEPT !.closing = b, !.committed = d] \in Fids
         /\ [y EXCEPT !.closing = b, !.committed = d].node = y.node
         /\ [y EXCEPT !.closing = b, !.closeNode = d] \in Fids
         /\ [y EXCEPT !.closing = b, !.closeNode = d].node = y.node
<1>1. /\ [y EXCEPT !.closing = b, !.committed = d] \in Fids
      /\ [y EXCEPT !.closing = b, !.committed = d].node = y.node
  BY DEF Fids
<1>2. /\ [y EXCEPT !.closing = b, !.closeNode = d] \in Fids
      /\ [y EXCEPT !.closing = b, !.closeNode = d].node = y.node
  BY DEF Fids
<1> QED
  BY <1>1, <1>2

\* The fidState of a fid that takes an extended attribute.
LEMMA XattrType ==
  ASSUME NEW y \in Fids, NEW w \in BOOLEAN, NEW z \in Int
  PROVE  /\ [y EXCEPT !.state = "xattrWrite", !.raw = w, !.xsize = z, !.xdata = 0] \in Fids
         /\ [y EXCEPT !.state = "xattrWrite", !.raw = w, !.xsize = z, !.xdata = 0].node = y.node
<1>1. "xattrWrite" \in Status
  BY DEF Status
<1>2. [y EXCEPT !.state = "xattrWrite", !.raw = w, !.xsize = z, !.xdata = 0] \in Fids
  <2> DEFINE v == [y EXCEPT !.state = "xattrWrite", !.raw = w]
  <2>1. v \in Fids
    BY <1>1 DEF Fids
  <2>2. [y EXCEPT !.state = "xattrWrite", !.raw = w, !.xsize = z, !.xdata = 0]
          = [v EXCEPT !.xsize = z, !.xdata = 0]
    BY DEF Fids
  <2> HIDE DEF v
  <2>3. ASSUME NEW e \in Int
        PROVE  [v EXCEPT !.xsize = z, !.xdata = e] \in Fids
    BY <2>1 DEF Fids
  <2>4. 0 \in Int
    BY SMT
  <2> QED
    BY <2>2, <2>3, <2>4
<1>3. [y EXCEPT !.state = "xattrWrite", !.raw = w, !.xsize = z, !.xdata = 0].node = y.node
  BY DEF Fids
<1> QED
  BY <1>2, <1>3

\* I/O, extended attributes and what follows the decrement of a clunk.
LEMMA IOSteps ==
  ASSUME FidInv, NEW p \in Op,
         \/ IOCheck(p) \/ RawXattrWrite(p) \/ BeginIO(p) \/ EndIO(p) \/ XattrCreate(p)
         \/ CommitXattr(p) \/ FinishClunk(p) \/ ReleaseNow(p)
  PROVE  FidInv'
<1> USE FidTableAssumption
<1> DEFINE o == req[p].obj
<1>0. /\ fs \in [Obj -> Fids] /\ req[p] \in Calls /\ at \in [Op -> Labels]
      /\ req \in [Op -> Calls] /\ table \in [Fid -> Obj \cup {Nil}] /\ Placed(at[p], req[p])
      /\ o # Nil => fs[o].node \in Node
  BY DEF FidInv
<1>1. at[p] \in Calm /\ UNCHANGED <<table, refs>>
  BY DEF IOCheck, RawXattrWrite, BeginIO, EndIO, XattrCreate, CommitXattr, FinishClunk,
         ReleaseNow, Calm, Labels
<1>2. CASE End(p)
  BY <1>0, <1>1, <1>2, EndStep DEF End
<1>3. ASSUME NEW y \in Fids, EndWith(p, [fs EXCEPT ![o] = y]), o \in Obj => y.node = fs[o].node
      PROVE  FidInv'
  <2> HIDE DEF o
  <2> QED
    BY <1>1, <1>3, StoreType, EndStep, SMT
<1>4. CASE IOCheck(p) /\ ~End(p)
  <2>1. at[p] = "got" /\ o \in Obj
    BY <1>0, <1>4 DEF IOCheck, Placed
  <2>2. CASE EndWith(p, [fs EXCEPT ![o].xdata = @ + 1])
    <3> DEFINE y == [fs[o] EXCEPT !.xdata = @ + 1]
    <3> HIDE DEF o
    <3>1. y \in Fids /\ y.node = fs[o].node
      BY <1>0, <2>1, SMT DEF Fids
    <3>2. [fs EXCEPT ![o].xdata = @ + 1] = [fs EXCEPT ![o] = y]
      BY <1>0, <2>1
    <3> HIDE DEF y
    <3> QED
      BY <1>3, <2>2, <3>1, <3>2
  <2>3. CASE ~EndWith(p, [fs EXCEPT ![o].xdata = @ + 1])
    <3>1. UNCHANGED <<fs, req>> /\ \E l \in {"begin", "xwrite"} : at' = [at EXCEPT ![p] = l]
      BY <1>4, <2>3 DEF IOCheck, Goto
    <3>2. \A l \in {"begin", "xwrite"} : Placed(l, req[p]) /\ l \in Calm
      BY <2>1 DEF Placed, Calm, Labels
    <3>3. req' = [req EXCEPT ![p] = req[p]]
      BY <1>0, <3>1
    <3> QED
      BY <1>0, <1>1, <3>1, <3>2, <3>3, GoStep
  <2> QED
    BY <2>2, <2>3
<1>5. CASE BeginIO(p) /\ ~End(p)
  <2> DEFINE c == [req[p] EXCEPT !.handle = fs[o].handle]
             y == [fs[o] EXCEPT !.ioRefs = @ + 1]
  <2>1. /\ o \in Obj /\ fs' = [fs EXCEPT ![o].ioRefs = @ + 1]
        /\ req' = [req EXCEPT ![p].handle = fs[o].handle] /\ at' = [at EXCEPT ![p] = "io"]
    BY <1>0, <1>5 DEF BeginIO, Goto, Placed
  <2>2. y \in Fids /\ y.node = fs[o].node /\ fs' = [fs EXCEPT ![o] = y]
    BY <1>0, <2>1, SMT DEF Fids
  <2>3. c \in Calls /\ c.obj = o /\ req' = [req EXCEPT ![p] = c]
    BY <1>0, <2>1 DEF Calls, Fids
  <2> HIDE DEF c, y
  <2>4. Placed("io", c) /\ "io" \in Calm
    BY <2>1, <2>3 DEF Placed, Calm, Labels
  <2>5. fs' \in [Obj -> Fids] /\ \A x \in Obj : fs'[x].node = fs[x].node
    BY <2>2, StoreType
  <2> QED
    BY <1>1, <2>1, <2>3, <2>4, <2>5, GoStep
<1>6. CASE EndIO(p)
  <2> DEFINE c == [req[p] EXCEPT !.last = fs[o].closeNode, !.handle = Nil]
             y == [fs[o] EXCEPT !.ioRefs = @ - 1]
  <2>1. /\ at[p] = "io" /\ o \in Obj
        /\ \/ EndWith(p, [fs EXCEPT ![o].ioRefs = @ - 1])
           \/ /\ fs' = [fs EXCEPT ![o].ioRefs = @ - 1] /\ at' = [at EXCEPT ![p] = "release"]
              /\ req' = [req EXCEPT ![p].last = fs[o].closeNode, ![p].handle = Nil]
    BY <1>0, <1>6 DEF EndIO, Goto, Placed
  <2>2. y \in Fids /\ y.node = fs[o].node /\ [fs EXCEPT ![o].ioRefs = @ - 1] = [fs EXCEPT ![o] = y]
    BY <1>0, <2>1, SMT DEF Fids
  <2>3. CASE EndWith(p, [fs EXCEPT ![o].ioRefs = @ - 1])
    <3> HIDE DEF y
    <3> QED
      BY <1>3, <2>2, <2>3
  <2>4. CASE /\ fs' = [fs EXCEPT ![o].ioRefs = @ - 1] /\ at' = [at EXCEPT ![p] = "release"]
             /\ req' = [req EXCEPT ![p].last = fs[o].closeNode, ![p].handle = Nil]
    <3>1. c \in Calls /\ c.obj = o /\ req' = [req EXCEPT ![p] = c]
      BY <1>0, <2>1, <2>4 DEF Calls, Fids
    <3> HIDE DEF c, y
    <3>2. Placed("release", c) /\ "release" \in Calm
      BY DEF Placed, Calm, Labels
    <3>3. fs' \in [Obj -> Fids] /\ \A x \in Obj : fs'[x].node = fs[x].node
      BY <2>2, <2>4, StoreType
    <3> QED
      BY <1>1, <2>4, <3>1, <3>2, <3>3, GoStep
  <2> QED
    BY <2>1, <2>3, <2>4
<1>7. CASE XattrCreate(p) /\ ~End(p)
  <2>1. PICK z \in 0 .. MaxXattr, w \in BOOLEAN :
          EndWith(p, [fs EXCEPT ![o].state = "xattrWrite", ![o].raw = w, ![o].xsize = z,
                                ![o].xdata = 0])
    BY <1>7 DEF XattrCreate
  <2>2. CASE o \in Obj
    <3> DEFINE y == [fs[o] EXCEPT !.state = "xattrWrite", !.raw = w, !.xsize = z, !.xdata = 0]
    <3> HIDE DEF o
    <3>1. fs[o] \in Fids /\ z \in Int
      BY <1>0, <2>2, SMT
    <3>2. y \in Fids /\ y.node = fs[o].node
      BY <3>1, XattrType
    <3>3. [fs EXCEPT ![o].state = "xattrWrite", ![o].raw = w, ![o].xsize = z, ![o].xdata = 0]
            = [fs EXCEPT ![o] = y]
      BY <1>0, <2>2
    <3> HIDE DEF y
    <3> QED
      BY <1>3, <2>1, <3>2, <3>3
  <2>3. CASE o \notin Obj
    <3> DEFINE g == [fs EXCEPT ![o].state = "xattrWrite", ![o].raw = w, ![o].xsize = z,
                               ![o].xdata = 0]
    <3> HIDE DEF o
    <3>1. g = fs
      BY <1>0, <2>3
    <3> QED
      BY <1>0, <1>1, <2>1, <3>1, EndStep
  <2> QED
    BY <2>2, <2>3
<1>8. CASE CommitXattr(p)
  <2> DEFINE y == [fs[o] EXCEPT !.closing = TRUE, !.committed = TRUE]
  <2>1. o \in Obj /\ EndWith(p, [fs EXCEPT ![o].closing = TRUE, ![o].committed = TRUE])
    BY <1>0, <1>8 DEF CommitXattr, Placed
  <2> HIDE DEF o
  <2>2. y \in Fids /\ y.node = fs[o].node
    <3>1. fs[o] \in Fids /\ TRUE \in BOOLEAN
      BY <1>0, <2>1
    <3> QED
      BY <3>1, FlagType
  <2>3. [fs EXCEPT ![o].closing = TRUE, ![o].committed = TRUE] = [fs EXCEPT ![o] = y]
    BY <1>0, <2>1
  <2> HIDE DEF y
  <2> QED
    BY <1>3, <2>1, <2>2, <2>3
<1>9. CASE FinishClunk(p)
  <2> DEFINE y == [fs[o] EXCEPT !.closing = TRUE, !.closeNode = req[p].last]
             g == [fs EXCEPT ![o].closing = TRUE, ![o].closeNode = req[p].last]
  <2>1. /\ o \in Obj
        /\ EndWith(p, g) \/ (fs' = g /\ at' = [at EXCEPT ![p] = "release"] /\ UNCHANGED req)
    BY <1>0, <1>9 DEF FinishClunk, Goto, Placed
  <2>2. req[p].last \in BOOLEAN
    BY <1>0 DEF Calls
  <2>3. y \in Fids /\ y.node = fs[o].node /\ g = [fs EXCEPT ![o] = y]
    <3> HIDE DEF o
    <3>1. y \in Fids /\ y.node = fs[o].node
      <4>1. fs[o] \in Fids /\ TRUE \in BOOLEAN
        BY <1>0, <2>1
      <4> QED
        BY <2>2, <4>1, FlagType
    <3>2. g = [fs EXCEPT ![o] = y]
      BY <1>0, <2>1
    <3> QED
      BY <3>1, <3>2
  <2> HIDE DEF y, g
  <2>4. CASE EndWith(p, g)
    BY <1>3, <2>3, <2>4
  <2>5. CASE fs' = g /\ at' = [at EXCEPT ![p] = "release"] /\ UNCHANGED req
    <3>1. Placed("release", req[p]) /\ "release" \in Calm
      BY DEF Placed, Calm, Labels
    <3>2. fs' \in [Obj -> Fids] /\ \A x \in Obj : fs'[x].node = fs[x].node
      BY <2>3, <2>5, StoreType
    <3>3. req' = [req EXCEPT ![p] = req[p]]
      BY <1>0, <2>5
    <3> QED
      BY <1>0, <1>1, <2>5, <3>1, <3>2, <3>3, GoStep
  <2> QED
    BY <2>1, <2>4, <2>5
<1> QED
  BY <1>2, <1>4, <1>5, <1>6, <1>7, <1>8, <1>9 DEF RawXattrWrite, ReleaseNow

-----------------------------------------------------------------------------
(* Steps that bind or count. *)

\* add: one more fid on the node, one increment owed.
LEMMA AddStep ==
  ASSUME FidInv, NEW p \in Op, NEW f \in Fid, NEW n \in Node, NEW s \in Status,
         Add(p, f, n, s), at[p] \in Calm, table[f] = Nil, UNCHANGED refs
  PROVE  FidInv'
<1> USE FidTableAssumption
<1>0. /\ fs \in [Obj -> Fids] /\ req[p] \in Calls /\ at \in [Op -> Labels]
      /\ req \in [Op -> Calls] /\ table \in [Fid -> Obj \cup {Nil}] /\ refs \in [Node -> Int]
      /\ at[p] \notin {"inc", "dec", "decref"}
  BY DEF FidInv, Calm
<1>1. PICK o \in Obj : /\ o \notin LiveObj /\ table' = [table EXCEPT ![f] = o]
                       /\ fs' = [fs EXCEPT ![o] = NewFidState(n, s)]
  BY DEF Add, Fresh
<1> DEFINE c == [req[p] EXCEPT !.node = n, !.prev = Nil]
<1>2. at' = [at EXCEPT ![p] = "inc"] /\ req' = [req EXCEPT ![p] = c]
  BY <1>0 DEF Add, Goto
<1>3. c \in Calls /\ c.node = n /\ c.prev = Nil /\ c.obj = req[p].obj
  BY <1>0 DEF Calls
<1> HIDE DEF c
<1>4. NewFidState(n, s) \in Fids /\ NewFidState(n, s).node = n
  BY SMT DEF NewFidState, Fids
<1>5. (\A g \in Fid : table[g] # o) /\ (\A q \in Op : req[q].obj # o)
  BY <1>0, <1>1 DEF LiveObj, Bound
<1>6. /\ table' \in [Fid -> Obj \cup {Nil}] /\ fs' \in [Obj -> Fids]
      /\ \A x \in Obj \ {o} : fs'[x] = fs[x]
      /\ fs'[o].node = n /\ table'[f] = o /\ \A g \in Fid \ {f} : table'[g] = table[g]
  BY <1>0, <1>1, <1>4
<1>7. Placed("inc", c) /\ "inc" \in Labels
  BY <1>3 DEF Placed, Labels
<1>8. Moves(p, "inc", c, f)
  BY <1>0, <1>2, <1>3, <1>5, <1>6, <1>7, SMT DEF Moves
<1>9. Apart(p, c, f)
  <2>1. \A q \in Op : req[q].obj # Nil =>
          fs'[req[q].obj] = fs[req[q].obj] /\ fs[req[q].obj].node \in Node
    BY <1>0, <1>5, <1>6 DEF FidInv, Calls
  <2>2. \A q \in Op : at[q] = "decref" =>
          req[q].obj # Nil /\ \A g \in Fid : table'[g] # req[q].obj
    BY <1>5, <1>6, SMT DEF FidInv, Placed
  <2> QED
    BY <1>3, <1>5, <1>6, <2>1, <2>2, SMT DEF Apart
<1>10. ASSUME NEW m \in Node
       PROVE  /\ p \notin Incs(m) /\ p \notin Decs(m) /\ p \notin Prevs(m) /\ f \notin BoundTo(m)
              /\ p \in Incs(m)' <=> m = n
              /\ f \in BoundTo(m)' <=> m = n
              /\ p \notin Decs(m)' /\ p \notin Prevs(m)'
              /\ refs[m] \in Int /\ refs'[m] = refs[m]
  <2>1. at'[p] = "inc" /\ req'[p] = c
    BY <1>0, <1>2
  <2> QED
    BY <1>0, <1>3, <1>6, <2>1 DEF Incs, Decs, Prevs, BoundTo, Bound
<1>11. Balanced(p, f)
  BY <1>10, SMT DEF Balanced, One
<1> QED
  BY <1>8, <1>9, <1>11, Step1

\* Handler p rebinds f, whose fidState becomes y, and has c to settle the counts.
Rebinds(p, f, y, c) ==
    /\ table[f] # Nil /\ at[p] \in Calm
    /\ fs' = [fs EXCEPT ![table[f]] = y] /\ y.node \in Node
    /\ at' = [at EXCEPT ![p] = "inc"] /\ req' = [req EXCEPT ![p] = c]
    /\ c.node = y.node /\ c.prev = fs[table[f]].node /\ c.obj = req[p].obj
    /\ UNCHANGED <<table, refs>>

\* update and updateAndOpen: the fid moves to another node; one increment is owed to
\* that one and one decrement to the displaced one.
LEMMA RebindStep ==
  ASSUME FidInv, NEW p \in Op, NEW f \in Fid, NEW y \in Fids, NEW c \in Calls,
         Rebinds(p, f, y, c)
  PROVE  FidInv'
<1> USE DEF Rebinds
<1> USE FidTableAssumption
<1> DEFINE o == table[f]
<1>0. /\ fs \in [Obj -> Fids] /\ req[p] \in Calls /\ at \in [Op -> Labels]
      /\ req \in [Op -> Calls] /\ table \in [Fid -> Obj \cup {Nil}] /\ refs \in [Node -> Int]
      /\ at[p] \notin {"inc", "dec", "decref"} /\ o \in Obj /\ fs[o].node \in Node
      /\ \A g \in Fid \ {f} : table[g] # o
  BY DEF FidInv, Calm, Bound
<1>1. fs' \in [Obj -> Fids] /\ fs'[o] = y /\ \A x \in Obj \ {o} : fs'[x] = fs[x]
  BY <1>0
<1> HIDE DEF o
<1>2. Placed("inc", c) /\ "inc" \in Labels
  BY DEF Placed, Labels
<1>3. Moves(p, "inc", c, f)
  BY <1>0, <1>1, <1>2 DEF Moves
<1>4. Apart(p, c, f)
  <2>1. \A q \in Op : req[q].obj # Nil => fs'[req[q].obj].node \in Node
    BY <1>0, <1>1 DEF FidInv, Calls
  <2>2. \A q \in Op : at[q] = "decref" =>
          /\ req[q].obj \in Obj \ {o} /\ \A g \in Fid : table'[g] # req[q].obj
    BY DEF FidInv, Placed, o
  <2> QED
    BY <1>0, <1>1, <2>1, <2>2 DEF Apart, o
<1>5. ASSUME NEW m \in Node
      PROVE  /\ p \notin Incs(m) /\ p \notin Decs(m) /\ p \notin Prevs(m)
             /\ f \in BoundTo(m) <=> m = fs[o].node
             /\ f \in BoundTo(m)' <=> m = y.node
             /\ p \in Incs(m)' <=> m = y.node
             /\ p \in Prevs(m)' <=> m = fs[o].node
             /\ p \notin Decs(m)'
             /\ refs[m] \in Int /\ refs'[m] = refs[m]
  <2>1. at'[p] = "inc" /\ req'[p] = c
    BY <1>0
  <2> QED
    BY <1>0, <1>1, <2>1 DEF Incs, Decs, Prevs, BoundTo, Bound, o
<1>6. Balanced(p, f)
  BY <1>5, SMT DEF Balanced, One
<1> QED
  BY <1>3, <1>4, <1>6, Step1

\* Handler p, going to l with locals c, has changed the count of m by k as it owed.
Pays(p, l, c, m, k) ==
  /\ refs' = [refs EXCEPT ![m] = @ + k]
  /\ \A n \in Node : (IF n = m THEN k ELSE 0) - One(p \in Incs(n)) =
       One(l = "dec" /\ c.prev = n) - One(p \in Decs(n)) - One(p \in Prevs(n))

\* Paying what is owed keeps the balance.
LEMMA PayStep ==
  ASSUME FidInv, NEW p \in Op, NEW l \in Labels, NEW c \in Calls, Keeps(p, c), Placed(l, c),
         at' = [at EXCEPT ![p] = l], req' = [req EXCEPT ![p] = c], l \notin {"inc", "decref"},
         NEW m \in Node, NEW k \in Int, Pays(p, l, c, m, k)
  PROVE  FidInv'
<1>1. refs \in [Node -> Int] /\ refs' \in [Node -> Int]
  BY SMT DEF FidInv, Pays
<1>2. /\ Moves(p, l, c, Nil) /\ Apart(p, c, Nil)
      /\ \A n \in Node : Nil \notin BoundTo(n) /\ Nil \notin BoundTo(n)'
  BY <1>1, KeepsApart
<1>3. ASSUME NEW n \in Node
      PROVE  /\ p \notin Incs(n)' /\ p \notin Decs(n)'
             /\ p \in Prevs(n)' <=> l = "dec" /\ c.prev = n
             /\ refs[n] \in Int /\ refs'[n] = IF n = m THEN refs[n] + k ELSE refs[n]
  <2>1. at'[p] = l /\ req'[p] = c
    BY DEF FidInv
  <2> QED
    BY <1>1, <2>1 DEF Incs, Decs, Prevs, Pays
<1>4. Balanced(p, Nil)
  BY <1>2, <1>3, SMT DEF Balanced, One, Pays
<1> QED
  BY <1>2, <1>4, Step1

\* incRefNode and decRefNode pay what is owed.
LEMMA CountStep ==
  ASSUME FidInv, NEW p \in Op, IncRef(p) \/ DecPrev(p) \/ DecRef(p)
  PROVE  FidInv'
<1> USE FidTableAssumption
<1>0. /\ fs \in [Obj -> Fids] /\ req[p] \in Calls /\ at \in [Op -> Labels]
      /\ req \in [Op -> Calls] /\ table \in [Fid -> Obj \cup {Nil}] /\ refs \in [Node -> Int]
      /\ Placed(at[p], req[p])
      /\ req[p].obj # Nil => fs[req[p].obj].node \in Node
  BY DEF FidInv
<1>1. 1 \in Int /\ -1 \in Int /\ "idle" \notin {"inc", "decref"}
  BY SMT
<1>2. CASE IncRef(p)
  <2> DEFINE m == req[p].node
  <2>1. /\ at[p] = "inc" /\ m \in Node /\ refs' = [refs EXCEPT ![m] = @ + 1]
        /\ req[p].prev \in Node \cup {Nil} /\ UNCHANGED table
    BY <1>0, <1>2 DEF IncRef, Placed, Calls
  <2>2. \A n \in Node : /\ p \in Incs(n) <=> n = m
                        /\ p \notin Decs(n) /\ (p \in Prevs(n) <=> n = req[p].prev)
    BY <2>1 DEF Incs, Decs, Prevs
  <2> HIDE DEF m
  <2>3. CASE req[p].prev = Nil
    <3>1. /\ Keeps(p, Idle) /\ Idle \in Calls /\ Placed("idle", Idle) /\ "idle" \in Calm
          /\ at' = [at EXCEPT ![p] = "idle"] /\ req' = [req EXCEPT ![p] = Idle]
      BY <1>0, <1>2, <2>1, <2>3, EndKeeps DEF IncRef, End
    <3>2. Pays(p, "idle", Idle, m, 1)
      BY <2>1, <2>2, <2>3, SMT DEF One, Pays
    <3> QED
      BY <1>1, <2>1, <3>1, <3>2, PayStep DEF Calm
  <2>4. CASE req[p].prev # Nil
    <3>1. /\ UNCHANGED <<req, fs>> /\ at' = [at EXCEPT ![p] = "dec"]
      BY <1>2, <2>4 DEF IncRef, Goto
    <3>2. Keeps(p, req[p]) /\ Placed("dec", req[p]) /\ "dec" \in Labels
      BY <1>0, <2>1, <2>4, <3>1 DEF Keeps, Placed, Labels
    <3>3. req' = [req EXCEPT ![p] = req[p]]
      BY <1>0, <3>1
    <3>4. Pays(p, "dec", req[p], m, 1)
      BY <2>1, <2>2, SMT DEF One, Pays
    <3> QED
      BY <1>0, <1>1, <2>1, <3>1, <3>2, <3>3, <3>4, PayStep
  <2> QED
    BY <2>3, <2>4
<1>3. CASE DecPrev(p)
  <2> DEFINE m == req[p].prev
  <2>1. /\ at[p] = "dec" /\ m \in Node /\ refs' = [refs EXCEPT ![m] = @ - 1]
        /\ UNCHANGED table
    BY <1>0, <1>3 DEF DecPrev, Placed
  <2>2. /\ Keeps(p, Idle) /\ Idle \in Calls /\ Placed("idle", Idle) /\ "idle" \in Calm
        /\ at' = [at EXCEPT ![p] = "idle"] /\ req' = [req EXCEPT ![p] = Idle]
    BY <1>0, <1>3, <2>1, EndKeeps DEF DecPrev, End
  <2>3. \A n \in Node : p \notin Incs(n) /\ p \notin Decs(n) /\ (p \in Prevs(n) <=> n = m)
    BY <2>1 DEF Incs, Decs, Prevs
  <2> HIDE DEF m
  <2>4. refs' = [refs EXCEPT ![m] = @ + -1]
    BY <1>0, <2>1
  <2>5. Pays(p, "idle", Idle, m, -1)
    BY <2>3, <2>4, SMT DEF One, Pays
  <2> QED
    BY <1>1, <2>1, <2>2, <2>5, PayStep DEF Calm
<1>4. CASE DecRef(p)
  <2> DEFINE m == fs[req[p].obj].node
             c == [req[p] EXCEPT !.last = refs[m] = 1]
  <2>1. /\ at[p] = "decref" /\ req[p].obj \in Obj /\ m \in Node
        /\ refs' = [refs EXCEPT ![m] = @ - 1] /\ UNCHANGED <<table, fs>>
        /\ at' = [at EXCEPT ![p] = "finish"] /\ req' = [req EXCEPT ![p] = c]
    BY <1>0, <1>4 DEF DecRef, Placed, Goto
  <2>2. c \in Calls /\ c.obj = req[p].obj
    <3> DEFINE b == refs[m] = 1
    <3>1. b \in BOOLEAN
      OBVIOUS
    <3> HIDE DEF b
    <3>2. [req[p] EXCEPT !.last = b] \in Calls /\ [req[p] EXCEPT !.last = b].obj = req[p].obj
      BY <1>0, <3>1 DEF Calls
    <3> QED
      BY <3>2 DEF b
  <2>3. \A n \in Node : p \notin Incs(n) /\ p \notin Prevs(n) /\ (p \in Decs(n) <=> n = m)
    BY <2>1 DEF Incs, Decs, Prevs
  <2> HIDE DEF m, c
  <2>4. Keeps(p, c) /\ Placed("finish", c) /\ "finish" \in Labels
    BY <1>0, <2>1, <2>2 DEF Keeps, Placed, Labels
  <2>5. refs' = [refs EXCEPT ![m] = @ + -1]
    BY <1>0, <2>1
  <2>6. Pays(p, "finish", c, m, -1)
    BY <2>3, <2>5, SMT DEF One, Pays
  <2> QED
    BY <1>1, <2>1, <2>2, <2>4, <2>6, PayStep
<1> QED
  BY <1>2, <1>3, <1>4

\* clunk: one fid less on the node, one decrement owed.
LEMMA ClunkStep ==
  ASSUME FidInv, NEW p \in Op, NEW k \in Kinds, NEW f \in Fid, Clunk(p, k, f)
  PROVE  FidInv'
<1> USE FidTableAssumption
<1> DEFINE o == table[f]
           c == [Idle EXCEPT !.kind = k, !.obj = o]
<1>0. /\ fs \in [Obj -> Fids] /\ req[p] \in Calls /\ at \in [Op -> Labels]
      /\ req \in [Op -> Calls] /\ table \in [Fid -> Obj \cup {Nil}] /\ refs \in [Node -> Int]
  BY DEF FidInv
<1>1. /\ at[p] = "idle" /\ o \in Obj /\ table' = [table EXCEPT ![f] = Nil] /\ UNCHANGED <<fs, refs>>
      /\ at' = [at EXCEPT ![p] = "decref"] /\ req' = [req EXCEPT ![p] = c]
  BY <1>0 DEF Clunk, Goto
<1>2. fs[o].node \in Node /\ \A g \in Fid \ {f} : table[g] # o
  BY <1>1 DEF FidInv, Bound
<1>3. c \in Calls /\ c.obj = o
  BY <1>1 DEF Calls, Idle
<1> HIDE DEF c
<1>4. /\ table'[f] = Nil /\ \A g \in Fid \ {f} : table'[g] = table[g]
      /\ table' \in [Fid -> Obj \cup {Nil}]
  BY <1>0, <1>1
<1>5. Placed("decref", c) /\ "decref" \in Labels
  BY <1>1, <1>3 DEF Placed, Labels
<1>6. Moves(p, "decref", c, f)
  BY <1>0, <1>1, <1>3, <1>4, <1>5 DEF Moves
<1>7. Apart(p, c, f)
  <2>1. \A q \in Op : req[q].obj # Nil => fs'[req[q].obj].node \in Node
    BY <1>1 DEF FidInv
  <2>2. \A q \in Op : at[q] = "decref" =>
          req[q].obj # Nil /\ \A g \in Fid : table'[g] # req[q].obj
    BY <1>4 DEF FidInv, Placed
  <2> QED
    BY <1>1, <1>2, <1>3, <1>4, <2>1, <2>2 DEF Apart
<1>8. \A g \in Fid : table'[g] # c.obj
  BY <1>1, <1>2, <1>3, <1>4
<1>9. ASSUME NEW m \in Node
      PROVE  /\ p \notin Incs(m) /\ p \notin Decs(m) /\ p \notin Prevs(m)
             /\ p \notin Incs(m)' /\ p \notin Prevs(m)'
             /\ f \in BoundTo(m) <=> m = fs[o].node
             /\ f \notin BoundTo(m)'
             /\ p \in Decs(m)' <=> m = fs[o].node
             /\ refs[m] \in Int /\ refs'[m] = refs[m]
  <2>1. at'[p] = "decref" /\ req'[p] = c
    BY <1>0, <1>1
  <2> QED
    BY <1>0, <1>1, <1>3, <1>4, <2>1 DEF Incs, Decs, Prevs, BoundTo, Bound
<1> HIDE DEF o
<1>10. Balanced(p, f)
  BY <1>9, SMT DEF Balanced, One
<1> QED
  BY <1>6, <1>7, <1>8, <1>10, Step1

\* The end of the session pays for all fids at once.
LEMMA ClunkAllStep == FidInv /\ ClunkAll => FidInv'
<1> SUFFICES ASSUME FidInv, ClunkAll PROVE FidInv'
  OBVIOUS
<1>1. \A p \in Op : at[p] = "idle" /\ req[p].obj = Nil
  BY DEF FidInv, ClunkAll, Placed
<1>2. /\ \A f \in Fid : table'[f] = Nil
      /\ table' \in [Fid -> Obj \cup {Nil}] /\ UNCHANGED <<at, req>>
  BY DEF ClunkAll
<1>3. fs' \in [Obj -> Fids]
  BY SMT DEF ClunkAll, Blank, NewFidState, Fids, Status
<1>4. ASSUME NEW n \in Node
      PROVE  /\ refs[n] = Cardinality(BoundTo(n)) /\ Cardinality(BoundTo(n)) \in Nat
             /\ refs'[n] = 0
             /\ Incs(n)' = {} /\ Decs(n)' = {} /\ Prevs(n)' = {} /\ BoundTo(n)' = {}
  <2>1. Incs(n) = {} /\ Decs(n) = {} /\ Prevs(n) = {}
    BY <1>1 DEF Incs, Decs, Prevs
  <2>2. Cardinality(BoundTo(n)) \in Nat
    BY FidTableAssumption, FS_Subset, FS_CardinalityType DEF BoundTo, Bound
  <2>3. refs[n] + Cardinality(Incs(n)) =
          Cardinality(BoundTo(n)) + (Cardinality(Decs(n)) + Cardinality(Prevs(n)))
    BY DEF FidInv, RefsExact, Count, Dropping, Incs, Decs, Prevs
  <2>4. refs[n] = Cardinality(BoundTo(n))
    BY <2>1, <2>2, <2>3, FS_EmptySet, SMT DEF FidInv
  <2>5. refs'[n] = refs[n] - Cardinality(BoundTo(n))
    BY DEF ClunkAll
  <2>6. Incs(n)' = {} /\ Decs(n)' = {} /\ Prevs(n)' = {} /\ BoundTo(n)' = {}
    BY <1>1, <1>2 DEF Incs, Decs, Prevs, BoundTo, Bound
  <2> QED
    BY <2>2, <2>4, <2>5, <2>6, SMT
<1>5. refs' \in [Node -> Int]
  <2>1. \A n \in Node : refs'[n] \in Int
    BY <1>4, SMT
  <2>2. refs' = [n \in Node |-> refs'[n]]
    BY DEF ClunkAll
  <2> QED
    BY <2>1, <2>2
<1>6. RefsExact'
  <2> SUFFICES ASSUME NEW n \in Node
               PROVE  refs'[n] + Cardinality(Incs(n)') = Cardinality(BoundTo(n)')
                        + (Cardinality(Decs(n)') + Cardinality(Prevs(n)'))
    BY DEF RefsExact, Count, Dropping, Incs, Decs, Prevs
  <2> QED
    BY <1>4, FS_EmptySet, SMT
<1> QED
  BY <1>1, <1>2, <1>3, <1>5, <1>6 DEF FidInv, Bound

\* A new connection has no fids.
LEMMA FidInit == Init => FidInv
<1> SUFFICES ASSUME Init PROVE FidInv
  OBVIOUS
<1>1. Idle \in Calls /\ Idle.obj = Nil /\ Placed("idle", Idle) /\ "idle" \in Labels
  BY DEF Idle, Calls, Placed, Labels
<1>2. Blank \in Fids
  BY SMT DEF Blank, NewFidState, Fids, Status
<1>3. \A n \in Node : Incs(n) = {} /\ Decs(n) = {} /\ Prevs(n) = {} /\ BoundTo(n) = {}
  BY DEF Init, Incs, Decs, Prevs, BoundTo, Bound
<1>4. RefsExact
  <2> SUFFICES ASSUME NEW n \in Node
               PROVE  refs[n] + Cardinality(Incs(n)) = Cardinality(BoundTo(n))
                        + (Cardinality(Decs(n)) + Cardinality(Prevs(n)))
    BY DEF RefsExact, Count, Dropping, Incs, Decs, Prevs
  <2> QED
    BY <1>3, FS_EmptySet, SMT DEF Init
<1> QED
  BY <1>1, <1>2, <1>4, SMT DEF Init, FidInv, Bound

\* One step of any handler, or the end of the session.
LEMMA FidStep == FidInv /\ [Next]_vars => FidInv'
<1> SUFFICES ASSUME FidInv, [Next]_vars PROVE FidInv'
  OBVIOUS
<1> USE FidTableAssumption
<1>1. CASE UNCHANGED vars
  BY <1>1, SMT DEF vars, FidInv, Bound, RefsExact, Count, Dropping, BoundTo
<1>2. ASSUME NEW p \in Op, Request(p)
      PROVE  FidInv'
  <2>1. ASSUME NEW f \in Fid, Attach(p, f)
        PROVE  FidInv'
    BY <2>1, AddStep DEF Attach, MayAdd, Calm, Labels, Status
  <2>2. ASSUME NEW f \in Fid, NEW g \in Fid, NEW k \in {"clone", "walk", "xattrwalk"},
               Get(p, k, f, g)
        PROVE  FidInv'
    BY <2>2, WalkSteps DEF Kinds
  <2>3. ASSUME NEW f \in Fid, NEW k \in {"open", "create", "io", "xattrcreate"},
               Get(p, k, f, Nil)
        PROVE  FidInv'
    BY <2>3, WalkSteps, SMT DEF Kinds
  <2>4. ASSUME NEW f \in Fid, NEW k \in {"clunk", "remove"}, Clunk(p, k, f)
        PROVE  FidInv'
    BY <2>4, ClunkStep DEF Kinds
  <2> QED
    BY <1>2, <2>1, <2>2, <2>3, <2>4 DEF Request
<1>3. ASSUME NEW p \in Op, BindNew(p) \/ Update(p) \/ UpdateAndOpen(p)
      PROVE  FidInv'
  <2> DEFINE o == table[req[p].fid]
  <2>0. /\ fs \in [Obj -> Fids] /\ req[p] \in Calls /\ at \in [Op -> Labels]
        /\ req \in [Op -> Calls] /\ table \in [Fid -> Obj \cup {Nil}] /\ Placed(at[p], req[p])
        /\ \A f \in Fid : table[f] # Nil => fs[table[f]].node \in Node
    BY DEF FidInv, Bound
  <2>1. /\ at[p] \in {"bind", "swap"} /\ at[p] \in Calm /\ UNCHANGED refs
        /\ req[p].fid \in Fid /\ req[p].node \in Node
        /\ at[p] = "bind" => req[p].new \in Fid
    BY <1>3, <2>0 DEF BindNew, Update, UpdateAndOpen, Placed, Calm, Labels
  <2>2. CASE End(p) /\ UNCHANGED table
    BY <2>0, <2>1, <2>2, EndStep DEF End
  <2>3. CASE BindNew(p) /\ ~(End(p) /\ UNCHANGED table)
    BY <2>1, <2>3, AddStep DEF BindNew, MayAdd, Status
  <2>4. CASE Update(p) /\ ~(End(p) /\ UNCHANGED table)
    <3> DEFINE y == [fs[o] EXCEPT !.node = req[p].node]
               c == [req[p] EXCEPT !.prev = fs[o].node]
    <3>1. /\ o \in Obj /\ fs' = [fs EXCEPT ![o].node = req[p].node]
          /\ req' = [req EXCEPT ![p].prev = fs[o].node] /\ at' = [at EXCEPT ![p] = "inc"]
          /\ UNCHANGED table
      BY <2>0, <2>1, <2>4 DEF Update, Displaced, Goto
    <3>2. fs[o].node \in Node
      BY <2>0, <2>1, <3>1
    <3>3. /\ y \in Fids /\ y.node = req[p].node /\ fs' = [fs EXCEPT ![o] = y]
      BY <2>0, <2>1, <3>1, SMT DEF Fids
    <3>4. /\ c \in Calls /\ c.node = req[p].node /\ c.prev = fs[o].node /\ c.obj = req[p].obj
          /\ req' = [req EXCEPT ![p] = c]
      BY <2>0, <3>1, <3>2 DEF Calls
    <3>5. table[req[p].fid] # Nil
      BY <3>1
    <3> HIDE DEF y, c
    <3>6. Rebinds(p, req[p].fid, y, c)
      BY <2>1, <3>1, <3>3, <3>4, <3>5 DEF Rebinds
    <3> QED
      BY <2>1, <3>3, <3>4, <3>6, RebindStep
  <2>5. CASE UpdateAndOpen(p) /\ ~(End(p) /\ UNCHANGED table)
    <3> DEFINE y == [fs[o] EXCEPT !.node = req[p].node, !.state = "opened",
                                  !.handle = req[p].handle]
               c == [req[p] EXCEPT !.prev = fs[o].node, !.handle = Nil]
    <3>1. /\ o \in Obj
          /\ fs' = [fs EXCEPT ![o].node = req[p].node, ![o].state = "opened",
                              ![o].handle = req[p].handle]
          /\ req' = [req EXCEPT ![p].prev = fs[o].node, ![p].handle = Nil]
          /\ at' = [at EXCEPT ![p] = "inc"] /\ UNCHANGED table
      BY <2>0, <2>1, <2>5 DEF UpdateAndOpen, MayOpen, Goto
    <3>2. fs[o].node \in Node /\ fs[o] \in Fids /\ req[p].handle \in Handle \cup {Nil}
      BY <2>0, <2>1, <3>1 DEF Calls
    <3>3. /\ c \in Calls /\ c.node = req[p].node /\ c.prev = fs[o].node /\ c.obj = req[p].obj
          /\ req' = [req EXCEPT ![p] = c]
      BY <2>0, <3>1, <3>2 DEF Calls
    <3> HIDE DEF o, c
    <3>4. y \in Fids /\ y.node = req[p].node
      BY <2>1, <3>2 DEF Fids, Status
    <3>5. fs' = [fs EXCEPT ![o] = y]
      BY <2>0, <3>1
    <3>6. o # Nil
      BY <3>1
    <3> HIDE DEF y
    <3>7. Rebinds(p, req[p].fid, y, c)
      BY <2>1, <3>1, <3>3, <3>4, <3>5, <3>6 DEF Rebinds, o
    <3> QED
      BY <2>1, <3>3, <3>4, <3>7, RebindStep
  <2> QED
    BY <1>3, <2>2, <2>3, <2>4, <2>5
<1> QED
  BY <1>1, <1>2, <1>3, WalkSteps, OpenSteps, IOSteps, CountStep, ClunkAllStep DEF Next, Step

-----------------------------------------------------------------------------
\* A node's reference count is the number of fids bound to it, but for the increments
\* and decrements that handlers are about to make, however many handlers walk, create,
\* clunk and rebind at the same time.
THEOREM RefsCounted == Spec => []RefsExact
<1>1. FidInv => RefsExact
  BY DEF FidInv
<1> QED
  BY <1>1, FidInit, FidStep, PTL DEF Spec

-----------------------------------------------------------------------------
(* The life of a fidState. *)

\* Handler p goes to l with c.
Went(p, l, c) == at' = [at EXCEPT ![p] = l] /\ req' = [req EXCEPT ![p] = c]

\* Something still refers to fidState o.
IsLive(o) == IsBound(o) \/ \E q \in Op : req[q].obj = o

\* The fidStates of LiveObj are the ones something refers to.
LEMMA LiveIs ==
  ASSUME FidInv
  PROVE  \A o : o \in LiveObj <=> o \in Obj /\ IsLive(o)
<1>1. table \in [Fid -> Obj \cup {Nil}] /\ req \in [Op -> Calls]
  BY DEF FidInv
<1>2. \A q \in Op : req[q].obj \in Obj \cup {Nil}
  BY <1>1 DEF Calls
<1> QED
  BY <1>1, <1>2, FidTableAssumption DEF LiveObj, IsLive, IsBound, Bound

\* The same after a step.
LEMMA LiveNext ==
  ASSUME FidInv'
  PROVE  \A o \in LiveObj' : o \in Obj /\ IsLive(o)'
<1>1. table' \in [Fid -> Obj \cup {Nil}] /\ req' \in [Op -> Calls]
  BY DEF FidInv
<1>2. \A q \in Op : req'[q].obj \in Obj \cup {Nil}
  BY <1>1 DEF Calls
<1> QED
  BY <1>1, <1>2, FidTableAssumption DEF LiveObj, IsLive, IsBound, Bound

\* Where a handler clunks a fidState that is not closing yet.
Clunking == {"decref", "finish"}

\* A handler without a fidState has nothing to clunk or to release.
LEMMA NilPlaces ==
  ASSUME FidInv, Phases, NEW q \in Op, req[q].obj = Nil
  PROVE  at[q] \notin {"decref", "finish", "release", "xset", "xwrite"}
<1>1. Placed(at[q], req[q]) /\ Phase(q, Nil) /\ Nil \notin Obj
  BY FidTableAssumption DEF FidInv, Phases
<1> QED
  BY <1>1 DEF Placed, Phase

\* A handler that leaves closing and ioRefs alone and is not clunking or in I/O.
PhaseQuiet(p, l, c) ==
  /\ Went(p, l, c) /\ table' = table
  /\ {at[p], l} \cap {"decref", "finish", "release", "io"} = {}
  /\ l \in {"xset", "xwrite"} => c.obj # Nil
  /\ c.obj \in {Nil, req[p].obj} \/ \E g \in Fid : c.obj = table[g]
  /\ \A o \in Obj : IsLive(o)' => /\ fs'[o].closing <=> fs[o].closing
                                  /\ fs'[o].ioRefs = fs[o].ioRefs

\* Such a handler keeps the phases.
LEMMA PhaseQuietStep ==
  ASSUME FidInv, FidInv', Phases, NEW p \in Op, NEW l, NEW c \in Calls, PhaseQuiet(p, l, c)
  PROVE  Phases'
<1> USE FidTableAssumption
<1>1. \A q \in Op : /\ at'[q] = IF q = p THEN l ELSE at[q]
                    /\ req'[q] = IF q = p THEN c ELSE req[q]
  BY DEF FidInv, PhaseQuiet, Went
<1>2. \A q \in Op : req'[q].obj \in Obj \cup {Nil} /\ req[q].obj \in Obj \cup {Nil}
  BY DEF FidInv, Calls
<1>3. \A o : IsBound(o)' <=> IsBound(o)
  BY DEF IsBound, PhaseQuiet
<1>4. \A o \in Obj : IsLive(o)' => IsLive(o)
  BY <1>1, <1>3, SMT DEF IsLive, PhaseQuiet, IsBound
<1>5. \A q \in Op : req'[q].obj # Nil => /\ (fs'[req'[q].obj].closing <=> fs[req'[q].obj].closing)
                                         /\ fs'[req'[q].obj].ioRefs = fs[req'[q].obj].ioRefs
  BY <1>2 DEF PhaseQuiet, IsLive
<1>6. \A f \in Bound' : ~fs'[table'[f]].closing
  <2>1. \A f \in Fid : table[f] # Nil => table[f] \in Obj /\ IsLive(table[f])'
    BY <1>3 DEF FidInv, IsLive, IsBound
  <2> QED
    BY <2>1 DEF Phases, Bound, PhaseQuiet
<1>7. l \notin {"decref", "finish", "release", "io"} /\ at[p] \notin {"decref", "finish", "release", "io"}
  BY DEF PhaseQuiet
<1>8. \A o : On(o, Clunking)' = On(o, Clunking) /\ On(o, {"io"})' = On(o, {"io"})
  BY <1>1, <1>7, SMT DEF On, Clunking
<1>9. ASSUME NEW q \in Op, NEW o, o = req'[q].obj
      PROVE  Phase(q, o)'
  <2>0. /\ o \in Obj \cup {Nil}
        /\ o # Nil => (fs'[o].closing <=> fs[o].closing) /\ fs'[o].ioRefs = fs[o].ioRefs
    BY <1>2, <1>5, <1>9
  <2>1. at'[q] \in {"decref", "finish"} => ~IsBound(o)' /\ ~fs'[o].closing
    <3>1. SUFFICES ASSUME at'[q] \in {"decref", "finish"} PROVE ~IsBound(o)' /\ ~fs'[o].closing
      OBVIOUS
    <3>2. q # p /\ o = req[q].obj /\ at'[q] = at[q]
      BY <1>1, <1>7, <1>9, <3>1
    <3>3. o # Nil
      BY <3>1, <3>2, <1>2 DEF FidInv, Placed
    <3> QED
      BY <3>1, <3>2, <3>3, <1>3, <2>0 DEF Phases, Phase
  <2>2. at'[q] = "release" => o # Nil /\ fs'[o].closing /\ fs'[o].ioRefs = 0
    BY <1>1, <1>7, <1>9, <2>0 DEF Phases, Phase
  <2>3. at'[q] \in {"xset", "xwrite"} => o # Nil
    BY <1>1, <1>9 DEF Phases, Phase, PhaseQuiet
  <2>4. o # Nil => IsBound(o)' \/ fs'[o].closing \/ On(o, {"decref", "finish"})' # {}
    <3>1. SUFFICES ASSUME o # Nil
                   PROVE IsBound(o) \/ fs[o].closing \/ On(o, Clunking) # {}
      BY <1>3, <1>8, <2>0 DEF Clunking
    <3>2. IsLive(o)
      BY <1>2, <1>4, <1>9, <3>1 DEF IsLive
    <3> QED
      BY <3>1, <3>2 DEF IsLive, Phases, Phase, Clunking
  <2> QED
    BY <2>1, <2>2, <2>3, <2>4 DEF Phase
<1>11. \A q, r \in Op : {at'[q], at'[r]} \subseteq {"decref", "finish", "release"}
                                 /\ req'[q].obj = req'[r].obj => q = r
  BY <1>1, <1>7, SMT DEF Phases
<1>10. \A o \in LiveObj' : fs'[o].ioRefs = Cardinality(On(o, {"io"})')
  <2>1. \A o \in LiveObj' : IsLive(o)' /\ o \in Obj
    BY LiveNext
  <2>2. \A o \in LiveObj' : o \in LiveObj
    BY <1>4, <2>1, LiveIs
  <2> QED
    BY <1>8, <2>1, <2>2, SMT DEF Phases, PhaseQuiet
<1> QED
  BY <1>6, <1>9, <1>10, <1>11 DEF Phases

\* A handler that works on fidState x: it counts an I/O call, or ends a clunk.
PhaseMove(p, l, c, x) ==
  /\ Went(p, l, c) /\ table' = table /\ x = req[p].obj /\ x \in Obj
  /\ c.obj = x \/ (c.obj = Nil /\ l = "idle")
  /\ l \in {"idle", "io", "finish", "release"}
  /\ \A o \in Obj \ {x} : IsLive(o)' => /\ fs'[o].closing <=> fs[o].closing
                                        /\ fs'[o].ioRefs = fs[o].ioRefs
  /\ IsLive(x)' =>
       /\ fs[x].closing => fs'[x].closing
       /\ fs'[x].closing => fs[x].closing \/ at[p] = "finish"
       /\ at[p] \in Clunking => l = "finish" \/ fs'[x].closing
       /\ fs[x].closing /\ fs[x].ioRefs = 0 => fs'[x].ioRefs = 0
       /\ fs'[x].ioRefs = fs[x].ioRefs + One(l = "io") - One(at[p] = "io")
  /\ l = "finish" => at[p] = "decref" /\ ~fs'[x].closing
  /\ l = "release" => /\ fs'[x].closing /\ fs'[x].ioRefs = 0
                      /\ at[p] = "finish" \/ fs[x].ioRefs # 0

\* Such a handler keeps the phases.
LEMMA PhaseMoveStep ==
  ASSUME FidInv, FidInv', Phases, NEW p \in Op, NEW l, NEW c \in Calls, NEW x,
         PhaseMove(p, l, c, x)
  PROVE  Phases'
<1> USE FidTableAssumption
<1>1. \A q \in Op : /\ at'[q] = IF q = p THEN l ELSE at[q]
                    /\ req'[q] = IF q = p THEN c ELSE req[q]
  BY DEF FidInv, PhaseMove, Went
<1>2. \A q \in Op : req'[q].obj \in Obj \cup {Nil} /\ req[q].obj \in Obj \cup {Nil}
  BY DEF FidInv, Calls
<1>3. \A o : IsBound(o)' <=> IsBound(o)
  BY DEF IsBound, PhaseMove
<1>4. x \in Obj /\ x # Nil /\ req[p].obj = x /\ Phase(p, x) /\ c.obj \in {Nil, x}
  BY DEF PhaseMove, Phases
<1>5. \A o \in Obj : IsLive(o)' => IsLive(o)
  BY <1>1, <1>3, <1>4, SMT DEF IsLive
<1>6. \A f \in Bound' : ~fs'[table'[f]].closing
  <2> SUFFICES ASSUME NEW f \in Fid, table[f] # Nil PROVE ~fs'[table[f]].closing
    BY DEF Bound, PhaseMove
  <2>1. table[f] \in Obj /\ IsLive(table[f])' /\ IsBound(table[f]) /\ ~fs[table[f]].closing
    BY <1>3, SMT DEF FidInv, IsLive, IsBound, Phases, Bound
  <2>2. CASE table[f] = x
    <3>1. at[p] # "finish"
      BY <1>4, <2>1, <2>2 DEF Phase
    <3> QED
      BY <2>1, <2>2, <3>1 DEF PhaseMove
  <2> QED
    BY <2>1, <2>2 DEF PhaseMove
<1>7. ASSUME NEW q \in Op, q # p, req[q].obj # Nil
      PROVE  /\ req'[q].obj = req[q].obj /\ req[q].obj \in Obj /\ IsLive(req[q].obj)'
             /\ at'[q] = at[q] /\ Phase(q, req[q].obj)
  BY <1>1, <1>2, <1>7 DEF IsLive, Phases
<1>8. ASSUME NEW q \in Op, NEW o, o = req'[q].obj
      PROVE  Phase(q, o)'
  <2>1. CASE q = p
    <3>1. at'[q] = l /\ o = c.obj
      BY <1>1, <1>8, <2>1
    <3>2. CASE o = Nil
      BY <2>1, <3>1, <3>2, <1>4, SMT DEF PhaseMove, Phase
    <3>3. CASE o = x
      <4>0. IsLive(x)'
        BY <1>8, <3>3 DEF IsLive
      <4>1. l = "finish" => ~IsBound(x)' /\ ~fs'[x].closing
        BY <1>3, <1>4 DEF PhaseMove, Phase
      <4>2. l = "release" => fs'[x].closing /\ fs'[x].ioRefs = 0
        BY DEF PhaseMove
      <4>3. l \notin {"decref", "xset", "xwrite"}
        BY DEF PhaseMove
      <4>4. IsBound(x)' \/ fs'[x].closing \/ On(x, {"decref", "finish"})' # {}
        <5>1. CASE fs[x].closing \/ IsBound(x)
          BY <1>3, <4>0, <5>1 DEF PhaseMove
        <5>2. ASSUME NEW r \in Op, at[r] \in {"decref", "finish"}, req[r].obj = x
              PROVE  fs'[x].closing \/ On(x, {"decref", "finish"})' # {}
          <6>1. CASE r # p
            BY <1>1, <5>2, <6>1 DEF On
          <6>2. CASE r = p
            <7>1. l = "finish" \/ fs'[x].closing
              BY <4>0, <5>2, <6>2 DEF PhaseMove, Clunking
            <7>2. l = "finish" => p \in On(x, {"decref", "finish"})'
              BY <2>1, <3>1, <3>3, <1>8 DEF On
            <7> QED
              BY <7>1, <7>2
          <6> QED
            BY <6>1, <6>2
        <5> QED
          BY <1>4, <5>1, <5>2 DEF Phase, On
      <4> QED
        BY <2>1, <3>1, <3>3, <4>1, <4>2, <4>3, <4>4, <1>4 DEF Phase
    <3> QED
      BY <1>4, <3>1, <3>2, <3>3
  <2>2. CASE q # p /\ o = Nil
    <3>1. req[q].obj = Nil /\ at'[q] = at[q]
      BY <1>1, <1>8, <2>2
    <3>2. at[q] \notin {"decref", "finish", "release", "xset", "xwrite"}
      BY <3>1, NilPlaces
    <3> QED
      BY <2>2, <3>1, <3>2 DEF Phase
  <2>3. CASE q # p /\ o # Nil /\ o # x
    <3>1. /\ o = req[q].obj /\ o \in Obj /\ IsLive(o)' /\ at'[q] = at[q] /\ Phase(q, o)
      BY <1>1, <1>7, <1>8, <2>3
    <3>2. (fs'[o].closing <=> fs[o].closing) /\ fs'[o].ioRefs = fs[o].ioRefs
      BY <2>3, <3>1 DEF PhaseMove
    <3>3. On(o, {"decref", "finish"}) # {} => On(o, {"decref", "finish"})' # {}
      BY <1>1, <1>4, <2>3 DEF On
    <3> QED
      BY <1>3, <3>1, <3>2, <3>3 DEF Phase
  <2>4. CASE q # p /\ o = x
    <3>1. /\ o = req[q].obj /\ x \in Obj /\ IsLive(x)' /\ at'[q] = at[q] /\ Phase(q, x)
      BY <1>1, <1>4, <1>7, <1>8, <2>4
    <3>2. at[q] \in {"decref", "finish"} => ~IsBound(x)' /\ ~fs'[x].closing
      <4>1. at[q] \in {"decref", "finish"} => at[p] # "finish"
        BY <1>4, <2>4, <3>1, SMT DEF Phases
      <4> QED
        BY <1>3, <3>1, <4>1 DEF Phase, PhaseMove
    <3>3. at[q] = "release" => fs'[x].closing /\ fs'[x].ioRefs = 0
      BY <3>1 DEF Phase, PhaseMove
    <3>4. IsBound(x)' \/ fs'[x].closing \/ On(x, {"decref", "finish"})' # {}
      <4>1. CASE fs[x].closing \/ IsBound(x)
        BY <1>3, <3>1, <4>1 DEF PhaseMove
      <4>2. ASSUME NEW r \in Op, at[r] \in {"decref", "finish"}, req[r].obj = x
            PROVE  fs'[x].closing \/ On(x, {"decref", "finish"})' # {}
        <5>1. CASE r # p
          BY <1>1, <4>2, <5>1 DEF On
        <5>2. CASE r = p
          <6>1. l = "finish" \/ fs'[x].closing
            BY <3>1, <4>2, <5>2 DEF PhaseMove, Clunking
          <6>2. l = "finish" => p \in On(x, {"decref", "finish"})'
            BY <1>1 DEF On, PhaseMove
          <6> QED
            BY <6>1, <6>2
        <5> QED
          BY <5>1, <5>2
      <4> QED
        BY <1>4, <4>1, <4>2 DEF Phase, On
    <3> QED
      BY <2>4, <3>1, <3>2, <3>3, <3>4, <1>4 DEF Phase
  <2> QED
    BY <2>1, <2>2, <2>3, <2>4
<1>9. \A q, r \in Op : {at'[q], at'[r]} \subseteq {"decref", "finish", "release"}
                         /\ req'[q].obj = req'[r].obj => q = r
  <2>1. ASSUME NEW q \in Op, q # p, at[q] \in {"decref", "finish", "release"},
               l \in {"decref", "finish", "release"}, req[q].obj = c.obj
        PROVE  FALSE
    <3>1. c.obj = x
      BY <2>1 DEF PhaseMove
    <3>2. at[p] \notin {"decref", "finish", "release"}
      BY <1>4, <2>1, <3>1, SMT DEF Phases
    <3>3. l = "release" /\ fs'[x].closing /\ fs[x].ioRefs # 0 /\ IsLive(x)'
      BY <2>1, <3>1, <3>2, <1>1 DEF PhaseMove, IsLive
    <3>4. fs[x].closing
      BY <3>2, <3>3 DEF PhaseMove
    <3> QED
      BY <2>1, <3>1, <3>3, <3>4 DEF Phases, Phase
  <2> QED
    BY <1>1, <2>1, SMT DEF Phases
<1>10. \A o \in LiveObj' : fs'[o].ioRefs = Cardinality(On(o, {"io"})')
  <2> SUFFICES ASSUME NEW o \in LiveObj'
               PROVE  fs'[o].ioRefs = Cardinality(On(o, {"io"})')
    OBVIOUS
  <2>1. IsLive(o)' /\ o \in Obj
    BY LiveNext
  <2>2. o \in LiveObj
    BY <1>5, <2>1, LiveIs
  <2>3. CASE o # x
    <3>1. On(o, {"io"})' = On(o, {"io"})
      BY <1>1, <1>4, <2>1, <2>3, SMT DEF On
    <3> QED
      BY <2>1, <2>2, <2>3, <3>1 DEF Phases, PhaseMove
  <2>4. CASE o = x
    <3>1. On(x, {"io"})' \ {p} = On(x, {"io"}) \ {p}
      BY <1>1, SMT DEF On
    <3>2. IsFiniteSet(On(x, {"io"}))
      BY FS_Subset DEF On
    <3>3. /\ p \in On(x, {"io"}) <=> at[p] = "io"
          /\ p \in On(x, {"io"})' <=> l = "io"
      BY <1>1, <1>4, SMT DEF On, PhaseMove
    <3>4. /\ Cardinality(On(x, {"io"})') = Cardinality(On(x, {"io"}))
                 + One(p \in On(x, {"io"})') - One(p \in On(x, {"io"}))
      BY <3>1, <3>2, CardMove
    <3>5. fs[x].ioRefs = Cardinality(On(x, {"io"}))
      BY <2>2, <2>4 DEF Phases
    <3>6. fs'[x].ioRefs = fs[x].ioRefs + One(l = "io") - One(at[p] = "io")
      BY <2>1, <2>4 DEF PhaseMove
    <3> QED
      BY <2>4, <3>3, <3>4, <3>5, <3>6, SMTT(30) DEF One
  <2> QED
    BY <2>3, <2>4
<1> QED
  BY <1>6, <1>8, <1>9, <1>10 DEF Phases

\* What a handler's return leaves of the fidStates.
LEMMA EndLive ==
  ASSUME FidInv, NEW p \in Op, NEW g, EndWith(p, g), UNCHANGED table
  PROVE  /\ Went(p, "idle", Idle) /\ Idle \in Calls /\ Idle.obj = Nil
         /\ \A o \in Obj : IsLive(o)' => fs'[o] = g[o]
<1>1. Went(p, "idle", Idle)
  BY DEF EndWith, Went
<1>2. Idle \in Calls /\ Idle.obj = Nil
  BY DEF Idle, Calls
<1>3. \A q \in Op : req'[q] = IF q = p THEN Idle ELSE req[q]
  BY DEF FidInv, EndWith
<1>4. ASSUME NEW o \in Obj, IsLive(o)'
      PROVE  (\E f \in Fid : table[f] = o) \/ (\E q \in Op \ {p} : req[q].obj = o)
  BY <1>2, <1>3, <1>4, FidTableAssumption DEF IsLive, IsBound
<1> QED
  BY <1>1, <1>2, <1>4 DEF EndWith

\* add.
LEMMA PhaseAdd ==
  ASSUME FidInv, FidInv', Phases, NEW p \in Op, NEW f \in Fid, NEW n, NEW s, Add(p, f, n, s),
         table[f] = Nil, at[p] \notin {"decref", "finish", "release", "io"}
  PROVE  Phases'
<1> USE FidTableAssumption
<1>1. PICK x \in Obj : /\ x \notin LiveObj /\ table' = [table EXCEPT ![f] = x]
                       /\ fs' = [fs EXCEPT ![x] = NewFidState(n, s)]
  BY DEF Add, Fresh
<1>2. ~IsLive(x) /\ x # Nil
  BY <1>1, LiveIs
<1>3. \A q \in Op : /\ req'[q].obj = req[q].obj /\ req[q].obj \in Obj \cup {Nil} /\ req[q].obj # x
                    /\ at'[q] = IF q = p THEN "inc" ELSE at[q]
  BY <1>2, SMT DEF FidInv, Add, Goto, Calls, IsLive
<1>4. /\ table' \in [Fid -> Obj \cup {Nil}] /\ table \in [Fid -> Obj \cup {Nil}]
      /\ table'[f] = x /\ \A g \in Fid : g # f => table'[g] = table[g] /\ table[g] # x
  BY <1>1, <1>2 DEF FidInv, IsLive, IsBound
<1>5. \A o : o # x /\ o # Nil => (IsBound(o)' <=> IsBound(o))
  BY <1>4 DEF IsBound
<1>6. /\ \A o \in Obj : o # x => fs'[o] = fs[o]
      /\ fs'[x].closing = FALSE /\ fs'[x].ioRefs = 0
  BY <1>1 DEF FidInv, NewFidState
<1>7. \A o : /\ On(o, {"decref", "finish"})' = On(o, {"decref", "finish"})
             /\ On(o, {"io"})' = On(o, {"io"})
  BY <1>3, SMT DEF On
<1>8. \A g \in Bound' : ~fs'[table'[g]].closing
  BY <1>4, <1>6, SMT DEF Bound, Phases
<1>9. ASSUME NEW q \in Op, NEW o, o = req'[q].obj
      PROVE  Phase(q, o)'
  <2>1. o \in Obj \cup {Nil} /\ o # x /\ o = req[q].obj /\ Phase(q, o)
    BY <1>3, <1>9 DEF Phases
  <2>2. CASE o = Nil
    <3>1. at'[q] \notin {"decref", "finish", "release", "xset", "xwrite"}
      <4>1. at[q] \notin {"decref", "finish", "release", "xset", "xwrite"}
        BY <2>1, <2>2, NilPlaces
      <4>2. at'[q] = at[q] \/ at'[q] = "inc"
        BY <1>3
      <4> QED
        BY <4>1, <4>2
    <3> QED
      BY <2>2, <3>1 DEF Phase
  <2>3. CASE o # Nil
    <3>1. fs'[o] = fs[o] /\ (IsBound(o)' <=> IsBound(o))
      BY <1>5, <1>6, <2>1, <2>3
    <3>2. at'[q] = at[q] \/ at'[q] = "inc"
      BY <1>3
    <3> QED
      BY <2>1, <3>1, <3>2, <1>7 DEF Phase
  <2> QED
    BY <2>2, <2>3
<1>10. \A q, r \in Op : {at'[q], at'[r]} \subseteq {"decref", "finish", "release"}
                          /\ req'[q].obj = req'[r].obj => q = r
  BY <1>3, SMT DEF Phases
<1>11. ASSUME NEW o \in LiveObj'
       PROVE  fs'[o].ioRefs = Cardinality(On(o, {"io"})')
  <2>1. CASE o = x
    <3>1. On(x, {"io"})' = {}
      BY <1>3 DEF On
    <3> QED
      BY <1>6, <2>1, <3>1, FS_EmptySet
  <2>2. CASE o # x
    <3>1. o \in LiveObj /\ o \in Obj
      BY <1>3, <1>4, <2>2, SMT DEF LiveObj, Bound
    <3> QED
      BY <1>6, <1>7, <2>2, <3>1 DEF Phases
  <2> QED
    BY <2>1, <2>2
<1> QED
  BY <1>8, <1>9, <1>10, <1>11 DEF Phases

\* clunk.
LEMMA PhaseClunk ==
  ASSUME FidInv, FidInv', Phases, NEW p \in Op, NEW k, NEW f \in Fid, Clunk(p, k, f)
  PROVE  Phases'
<1> USE FidTableAssumption
<1> DEFINE c == [Idle EXCEPT !.kind = k, !.obj = table[f]]
<1>1. PICK x \in Obj : x = table[f] /\ IsBound(x) /\ ~fs[x].closing
  BY DEF Clunk, FidInv, Phases, Bound, IsBound
<1>2. \A q \in Op : /\ req'[q] = IF q = p THEN c ELSE req[q]
                    /\ at'[q] = IF q = p THEN "decref" ELSE at[q]
  BY DEF FidInv, Clunk, Goto
<1>3. c.obj = x /\ fs' = fs /\ at[p] = "idle" /\ req[p].obj = Nil
  BY <1>1 DEF FidInv, Clunk, Idle, Placed
<1> HIDE DEF c
<1>4. /\ table' \in [Fid -> Obj \cup {Nil}] /\ table \in [Fid -> Obj \cup {Nil}]
      /\ table'[f] = Nil /\ \A g \in Fid : g # f => table'[g] = table[g] /\ table[g] # x
  BY <1>1 DEF FidInv, Bound, Clunk
<1>5. /\ ~IsBound(x)' 
      /\ \A o : o # x /\ o # Nil => (IsBound(o)' <=> IsBound(o))
  BY <1>1, <1>4 DEF IsBound
<1>6. \A q \in Op : at[q] \in {"decref", "finish", "release"} => req[q].obj # x
  BY <1>1 DEF Phases, Phase
<1>7. \A o : /\ On(o, {"decref", "finish"}) \subseteq On(o, {"decref", "finish"})'
             /\ On(o, {"io"})' = On(o, {"io"}) /\ p \in On(x, {"decref", "finish"})'
  BY <1>2, <1>3, SMT DEF On
<1>8. \A g \in Bound' : ~fs'[table'[g]].closing
  BY <1>3, <1>4 DEF Bound, Phases
<1>9. ASSUME NEW q \in Op, NEW o, o = req'[q].obj
      PROVE  Phase(q, o)'
  <2>0. \A r \in Op : req[r].obj \in Obj \cup {Nil}
    BY DEF FidInv, Calls
  <2>1. CASE q = p
    BY <1>1, <1>2, <1>3, <1>5, <1>7, <1>9, <2>1, SMTT(30) DEF Phase
  <2>2. CASE q # p
    <3>1. o \in Obj \cup {Nil} /\ o = req[q].obj /\ Phase(q, o) /\ at'[q] = at[q]
      BY <1>2, <1>9, <2>0, <2>2 DEF Phases
    <3>2. CASE o = Nil
      <4>1. at'[q] \notin {"decref", "finish", "release", "xset", "xwrite"}
        BY <3>1, <3>2, NilPlaces
      <4> QED
        BY <3>2, <4>1 DEF Phase
    <3>3. CASE o # Nil /\ o # x
      BY <1>3, <1>5, <1>7, <3>1, <3>3 DEF Phase
    <3>4. CASE o = x
      BY <1>1, <1>3, <1>5, <1>6, <1>7, <3>1, <3>4 DEF Phase
    <3> QED
      BY <3>2, <3>3, <3>4
  <2> QED
    BY <2>1, <2>2
<1>10. \A q, r \in Op : {at'[q], at'[r]} \subseteq {"decref", "finish", "release"}
                          /\ req'[q].obj = req'[r].obj => q = r
  BY <1>2, <1>3, <1>6, SMT DEF Phases
<1>11. ASSUME NEW o \in LiveObj'
       PROVE  fs'[o].ioRefs = Cardinality(On(o, {"io"})')
  <2>1. \A q \in Op : req'[q].obj = IF q = p THEN x ELSE req[q].obj
    BY <1>2, <1>3
  <2>2. o \in LiveObj
    BY <1>1, <1>4, <2>1, SMT DEF LiveObj, Bound
  <2> QED
    BY <1>3, <1>7, <2>2 DEF Phases
<1> QED
  BY <1>8, <1>9, <1>10, <1>11 DEF Phases

-----------------------------------------------------------------------------
(* Who holds a handle. *)

\* Where a handler sees to it that the handle of its fidState is released.
Minding == {"decref", "finish", "io", "release"}

\* Handler p neither opens nor releases a handle; it may take x out of fidOpened, and
\* leaves a fidState whose handle is open to somebody else.
HoldKeep(p, l, c) ==
  /\ Went(p, l, c) /\ table' = table /\ hopen' = hopen /\ usurped \subseteq usurped'
  /\ at[p] \notin {"mark", "swap"} /\ l \notin {"mark", "swap"}
  /\ c.obj \in {Nil, req[p].obj} \/ \E g \in Fid : c.obj = table[g]
  /\ \A o \in Obj : IsLive(o)' =>
       /\ fs'[o].handle = fs[o].handle
       /\ \/ fs'[o].state = fs[o].state
          \/ fs'[o].state = "xattrWrite" /\ fs[o].handle \in usurped' \cup {Nil}
       /\ fs[o].closing => fs'[o].closing
  /\ l \in {"begin", "io"} => c.obj \in Obj /\ fs[c.obj].handle # Nil
  /\ l = "io" => c.handle = fs[c.obj].handle
  /\ l \in {"io", "release"} => c.obj \in Obj /\ fs[c.obj].handle \in hopen \cup {Nil}
  /\ at[p] \in Minding =>
       \/ l \in Minding /\ c.obj = req[p].obj
       \/ IsBound(req[p].obj)
       \/ fs[req[p].obj].handle \in usurped \cup {Nil}
       \/ \E q \in Op \ {p} : at[q] \in Minding /\ req[q].obj = req[p].obj

\* Such a handler leaves every handle where it is.
LEMMA HoldKeepStep ==
  ASSUME FidInv, FidInv', Holding, Accounted, NEW p \in Op, NEW l, NEW c \in Calls,
         HoldKeep(p, l, c)
  PROVE  Holding' /\ Accounted'
<1> USE FidTableAssumption
<1>1. \A q \in Op : /\ at'[q] = IF q = p THEN l ELSE at[q]
                    /\ req'[q] = IF q = p THEN c ELSE req[q]
  BY SMT DEF FidInv, HoldKeep, Went
<1>2. \A q \in Op : req'[q].obj \in Obj \cup {Nil} /\ req[q].obj \in Obj \cup {Nil}
  BY DEF FidInv, Calls
<1>3. \A o : IsBound(o)' <=> IsBound(o)
  BY DEF IsBound, HoldKeep
<1>4. \A o \in Obj : IsLive(o)' => IsLive(o)
  BY <1>1, <1>3, SMT DEF IsLive, HoldKeep, IsBound
<1>5. ASSUME NEW o \in LiveObj'
      PROVE  /\ o \in LiveObj /\ o \in Obj /\ IsLive(o)' /\ fs'[o].handle = fs[o].handle
             /\ fs[o].closing => fs'[o].closing
  <2>1. o \in Obj /\ IsLive(o)'
    BY LiveNext
  <2> QED
    BY <1>4, <2>1, LiveIs DEF HoldKeep
<1>6. Holder' = Holder /\ \A q \in Holder : q # p /\ req'[q] = req[q] /\ q \in Op
  BY <1>1, SMT DEF Holder, HoldKeep
<1>7. ASSUME NEW o \in LiveObj'
      PROVE  /\ fs'[o].state = "opened" => fs'[o].handle # Nil
             /\ fs'[o].handle # Nil =>
                  \/ fs'[o].state = "opened"
                  \/ fs'[o].state = "xattrWrite" /\ fs'[o].handle \in usurped'
  <2>1. \/ fs'[o].state = fs[o].state
        \/ fs'[o].state = "xattrWrite" /\ fs[o].handle \in usurped' \cup {Nil}
    BY <1>5 DEF HoldKeep
  <2>2. usurped \subseteq usurped'
    BY DEF HoldKeep
  <2> QED
    BY <1>5, <2>1, <2>2 DEF Holding
<1>8. ASSUME NEW o \in LiveObj', fs'[o].handle # Nil,
             ~fs'[o].closing \/ On(o, {"io", "release"})' # {}
      PROVE  fs'[o].handle \in hopen'
  <2>0. hopen' = hopen /\ fs'[o].handle = fs[o].handle /\ o \in LiveObj
    BY <1>5 DEF HoldKeep
  <2>1. CASE ~fs'[o].closing
    BY <1>5, <1>8, <2>0, <2>1 DEF Holding
  <2>2. ASSUME NEW q \in Op, at'[q] \in {"io", "release"}, req'[q].obj = o
        PROVE  fs[o].handle \in hopen
    <3>1. CASE q = p
      <4>1. l \in {"io", "release"} /\ c.obj = o
        BY <1>1, <2>2, <3>1
      <4>2. fs[c.obj].handle \in hopen \cup {Nil}
        BY <4>1 DEF HoldKeep
      <4> QED
        BY <1>8, <2>0, <4>1, <4>2
    <3>2. CASE q # p
      <4>1. q \in On(o, {"io", "release"})
        BY <1>1, <2>2, <3>2 DEF On
      <4> QED
        BY <1>8, <2>0, <4>1 DEF Holding
    <3> QED
      BY <3>1, <3>2
  <2> QED
    BY <1>8, <2>0, <2>1, <2>2 DEF On
<1>9. ASSUME NEW o \in LiveObj', NEW x \in LiveObj', fs'[o].handle # Nil, fs'[x].handle = fs'[o].handle
      PROVE  x = o
  BY <1>5, <1>9, SMTT(30) DEF Holding
<1>10. ASSUME NEW o \in LiveObj', NEW q \in Holder'
       PROVE  fs'[o].handle # req'[q].handle
  BY <1>5, <1>6, SMTT(30) DEF Holding
<1>11. ASSUME NEW q \in Holder'
       PROVE  /\ req'[q].handle \in hopen'
              /\ \A r \in Holder' : req'[r].handle = req'[q].handle => r = q
  BY <1>6, SMT DEF Holding, HoldKeep
<1>12. ASSUME NEW q \in Op, NEW o, o = req'[q].obj
       PROVE  /\ at'[q] \in {"begin", "io"} => fs'[o].handle # Nil
              /\ at'[q] = "io" => req'[q].handle = fs'[o].handle
  <2>1. at'[q] \in {"begin", "io"} => o \in Obj /\ IsLive(o)'
    BY <1>12 DEF FidInv, Placed, IsLive
  <2>2. at'[q] \in {"begin", "io"} => fs'[o].handle = fs[o].handle
    BY <2>1 DEF HoldKeep
  <2>3. CASE q = p
    BY <1>1, <1>12, <2>2, <2>3 DEF HoldKeep
  <2>4. CASE q # p
    BY <1>1, <1>12, <2>2, <2>4 DEF Holding
  <2> QED
    BY <2>3, <2>4
<1>13. hopen' \subseteq Handle
  BY DEF HoldKeep, Holding
<1>14. Holding'
  BY <1>7, <1>8, <1>9, <1>10, <1>11, <1>12, <1>13, SMTT(30) DEF Holding
<1>15. ASSUME NEW h \in hopen, h \notin usurped, NEW o \in LiveObj, fs[o].handle = h,
              IsBound(o) \/ On(o, {"decref", "finish", "io", "release"}) # {}
       PROVE  /\ o \in LiveObj' /\ fs'[o].handle = h
              /\ IsBound(o)' \/ On(o, {"decref", "finish", "io", "release"})' # {}
  <2>1. o \in Obj /\ o # Nil /\ h # Nil
    BY <1>15, LiveIs DEF Holding
  <2>2. IsBound(o)' \/ On(o, {"decref", "finish", "io", "release"})' # {}
    <3>1. CASE IsBound(o)
      BY <1>3, <3>1
    <3>2. ASSUME NEW q \in Op, q # p, at[q] \in Minding, req[q].obj = o
          PROVE  On(o, {"decref", "finish", "io", "release"})' # {}
      BY <1>1, <3>2 DEF On, Minding
    <3>3. ASSUME at[p] \in Minding, req[p].obj = o
          PROVE  IsBound(o)' \/ On(o, {"decref", "finish", "io", "release"})' # {}
      <4>1. CASE l \in Minding /\ c.obj = o
        BY <1>1, <4>1 DEF On, Minding
      <4>2. CASE IsBound(o)
        BY <1>3, <4>2
      <4>3. CASE \E q \in Op \ {p} : at[q] \in Minding /\ req[q].obj = o
        BY <3>2, <4>3
      <4> QED
        BY <1>15, <2>1, <3>3, <4>1, <4>2, <4>3 DEF HoldKeep
    <3> QED
      BY <1>15, <3>1, <3>2, <3>3 DEF On, Minding
  <2>3. IsLive(o)'
    BY <2>2 DEF IsLive, On
  <2>4. o \in LiveObj'
    BY <2>1, <2>3 DEF IsLive, IsBound, LiveObj, Bound
  <2> QED
    BY <1>5, <1>15, <2>2, <2>4
<1>16. Accounted'
  <2> SUFFICES ASSUME NEW h \in hopen, h \notin usurped
               PROVE  \/ \E q \in Holder' : req'[q].handle = h
                      \/ \E o \in LiveObj' :
                           /\ fs'[o].handle = h
                           /\ IsBound(o)' \/ On(o, {"decref", "finish", "io", "release"})' # {}
    BY DEF Accounted, HoldKeep
  <2> QED
    BY <1>6, <1>15 DEF Accounted
<1> QED
  BY <1>14, <1>16

\* Open and Create hand the handler a handle nobody has.
LEMMA HoldOpen ==
  ASSUME FidInv, FidInv', Holding, Accounted, NEW p \in Op, NEW l \in {"mark", "swap"},
         NEW c \in Calls, Went(p, l, c), at[p] = "opening", c.obj = req[p].obj,
         NEW h \in FreshHandle, c.handle = h, hopen' = hopen \cup {h},
         UNCHANGED <<table, fs, usurped>>
  PROVE  Holding' /\ Accounted'
<1> USE FidTableAssumption
<1>1. \A q \in Op : /\ at'[q] = IF q = p THEN l ELSE at[q]
                    /\ req'[q] = IF q = p THEN c ELSE req[q]
                    /\ req'[q].obj = req[q].obj
  BY DEF FidInv, Went
<1>2. LiveObj' = LiveObj
  BY <1>1, SMT DEF LiveObj, Bound
<1>3. \A o : IsBound(o)' <=> IsBound(o)
  BY DEF IsBound
<1>4. \A o : /\ On(o, {"io", "release"})' = On(o, {"io", "release"})
             /\ On(o, {"decref", "finish", "io", "release"})' = On(o, {"decref", "finish", "io", "release"})
  BY <1>1, SMT DEF On
<1>5. /\ h \in Handle /\ h # Nil /\ h \notin hopen /\ \A o \in LiveObj : fs[o].handle # h
      /\ \A q \in Op : req[q].handle # h
  BY DEF FreshHandle, Fresh, LiveHandle
<1>6. p \notin Holder /\ \A q \in Op : q \in Holder' <=> q = p \/ q \in Holder
  BY <1>1 DEF Holder
<1>7. \A q \in Holder : q \in Op /\ q # p /\ req'[q] = req[q]
  BY <1>1, <1>6 DEF Holder
<1>8. ASSUME NEW o \in LiveObj'
      PROVE  /\ fs'[o].state = "opened" => fs'[o].handle # Nil
             /\ fs'[o].handle # Nil =>
                  \/ fs'[o].state = "opened"
                  \/ fs'[o].state = "xattrWrite" /\ fs'[o].handle \in usurped'
             /\ fs'[o].handle # Nil /\ (~fs'[o].closing \/ On(o, {"io", "release"})' # {})
                  => fs'[o].handle \in hopen'
             /\ \A x \in LiveObj' : fs'[o].handle # Nil /\ fs'[x].handle = fs'[o].handle => x = o
  BY <1>2, <1>4 DEF Holding
<1>9. \A o \in LiveObj', q \in Holder' : fs'[o].handle # req'[q].handle
  <2>1. ASSUME NEW o \in LiveObj, NEW q \in Op, q \in Holder'
        PROVE  fs[o].handle # req'[q].handle
    <3>1. CASE q = p
      BY <1>1, <1>5, <3>1
    <3>2. CASE q # p
      BY <1>6, <1>7, <2>1, <3>2, SMTT(30) DEF Holding
    <3> QED
      BY <3>1, <3>2
  <2> QED
    BY <1>2, <2>1 DEF Holder
<1>10. ASSUME NEW q \in Holder'
       PROVE  /\ req'[q].handle \in hopen'
              /\ \A r \in Holder' : req'[r].handle = req'[q].handle => r = q
  <2>1. q \in Op /\ req'[p].handle = h
    BY <1>1 DEF Holder
  <2>2. \A r \in Holder : req'[r].handle = req[r].handle /\ req[r].handle # h /\ req[r].handle \in hopen
    BY <1>5, <1>7 DEF Holding
  <2>3. \A r \in Holder' : r = p \/ r \in Holder
    BY <1>6 DEF Holder
  <2> QED
    BY <2>1, <2>2, <2>3, SMT DEF Holding
<1>11. ASSUME NEW q \in Op
       PROVE  /\ at'[q] \in {"begin", "io"} => fs'[req'[q].obj].handle # Nil
              /\ at'[q] = "io" => req'[q].handle = fs'[req'[q].obj].handle
  BY <1>1 DEF Holding
<1>12. hopen' \subseteq Handle
  BY <1>5 DEF Holding
<1>13. Holding'
  BY <1>8, <1>9, <1>10, <1>11, <1>12 DEF Holding
<1>14. Accounted'
  <2>1. ASSUME NEW k \in hopen'
        PROVE  \/ k \in usurped'
               \/ \E q \in Holder' : req'[q].handle = k
               \/ \E o \in LiveObj' :
                    /\ fs'[o].handle = k
                    /\ IsBound(o)' \/ On(o, {"decref", "finish", "io", "release"})' # {}
    <3>1. CASE k = h
      BY <1>1, <1>6, <3>1
    <3>2. CASE k \in hopen
      <4>1. \A q \in Holder : q \in Holder'
        BY <1>6 DEF Holder
      <4> QED
        BY <1>2, <1>3, <1>4, <1>7, <3>2, <4>1 DEF Accounted
    <3> QED
      BY <3>1, <3>2
  <2> QED
    BY <2>1 DEF Accounted
<1> QED
  BY <1>13, <1>14

\* The failure of markOpenedWithHandle and of updateAndOpen.
LEMMA HoldDrop ==
  ASSUME FidInv, FidInv', Holding, Accounted, NEW p \in Op, at[p] \in {"mark", "swap"},
         End(p), hopen' = hopen \ {req[p].handle}, UNCHANGED <<table, usurped>>
  PROVE  Holding' /\ Accounted'
<1> USE FidTableAssumption
<1>0. Went(p, "idle", Idle) /\ Idle.obj = Nil /\ \A o \in Obj : IsLive(o)' => fs'[o] = fs[o]
  BY EndLive DEF End
<1>1. \A q \in Op : /\ at'[q] = IF q = p THEN "idle" ELSE at[q]
                    /\ req'[q] = IF q = p THEN Idle ELSE req[q]
  BY <1>0 DEF FidInv, Went
<1>2. \A q \in Op : req'[q].obj \in Obj \cup {Nil} /\ req[q].obj \in Obj \cup {Nil}
  BY DEF FidInv, Calls
<1>3. \A o : IsBound(o)' <=> IsBound(o)
  BY DEF IsBound
<1>4. ASSUME NEW o \in LiveObj'
      PROVE  o \in LiveObj /\ o \in Obj /\ fs'[o] = fs[o]
  <2>1. o \in Obj /\ IsLive(o)'
    BY LiveNext
  <2>2. IsLive(o)
    BY <1>0, <1>1, <1>3, <2>1 DEF IsLive
  <2> QED
    BY <1>0, <2>1, <2>2, LiveIs
<1>5. \A o : o # Nil =>
             /\ On(o, {"io", "release"})' = On(o, {"io", "release"})
             /\ On(o, {"decref", "finish", "io", "release"})' = On(o, {"decref", "finish", "io", "release"})
  BY <1>1, SMT DEF On
<1>6. p \in Holder /\ \A q \in Op : q \in Holder' <=> q # p /\ q \in Holder
  BY <1>1 DEF Holder
<1>7. \A q \in Holder' : q \in Op /\ q # p /\ q \in Holder /\ req'[q] = req[q]
  BY <1>1, <1>6 DEF Holder
<1>8. ASSUME NEW o \in LiveObj'
      PROVE  /\ fs'[o].state = "opened" => fs'[o].handle # Nil
             /\ fs'[o].handle # Nil =>
                  \/ fs'[o].state = "opened"
                  \/ fs'[o].state = "xattrWrite" /\ fs'[o].handle \in usurped'
             /\ fs'[o].handle # Nil /\ (~fs'[o].closing \/ On(o, {"io", "release"})' # {})
                  => fs'[o].handle \in hopen'
             /\ \A x \in LiveObj' : fs'[o].handle # Nil /\ fs'[x].handle = fs'[o].handle => x = o
  <2>1. fs[o].handle # req[p].handle /\ o # Nil
    BY <1>4, <1>6 DEF Holding
  <2> QED
    BY <1>4, <1>5, <2>1, SMT DEF Holding
<1>9. \A o \in LiveObj', q \in Holder' : fs'[o].handle # req'[q].handle
  BY <1>4, <1>7, SMTT(30) DEF Holding
<1>10. ASSUME NEW q \in Holder'
       PROVE  /\ req'[q].handle \in hopen'
              /\ \A r \in Holder' : req'[r].handle = req'[q].handle => r = q
  BY <1>6, <1>7, SMTT(30) DEF Holding
<1>11. ASSUME NEW q \in Op
       PROVE  /\ at'[q] \in {"begin", "io"} => fs'[req'[q].obj].handle # Nil
              /\ at'[q] = "io" => req'[q].handle = fs'[req'[q].obj].handle
  <2>1. at'[q] \in {"begin", "io"} => q # p /\ req'[q].obj \in LiveObj'
    BY <1>1, <1>2, SMT DEF LiveObj, FidInv, Placed
  <2> QED
    BY <1>1, <1>4, <2>1, SMTT(30) DEF Holding
<1>12. hopen' \subseteq Handle
  BY DEF Holding
<1>13. Holding'
  BY <1>8, <1>9, <1>10, <1>11, <1>12 DEF Holding
<1>14. Accounted'
  <2>1. ASSUME NEW k \in hopen', k \notin usurped
        PROVE  \/ \E q \in Holder' : req'[q].handle = k
               \/ \E o \in LiveObj' :
                    /\ fs'[o].handle = k
                    /\ IsBound(o)' \/ On(o, {"decref", "finish", "io", "release"})' # {}
    <3>1. k \in hopen /\ k # req[p].handle
      BY <2>1
    <3>2. ASSUME NEW q \in Holder, req[q].handle = k
          PROVE  q \in Holder' /\ req'[q].handle = k
      BY <1>1, <1>6, <3>1, <3>2 DEF Holder
    <3>3. ASSUME NEW o \in LiveObj, fs[o].handle = k,
                 IsBound(o) \/ On(o, {"decref", "finish", "io", "release"}) # {}
          PROVE  o \in LiveObj' /\ fs'[o].handle = k
                   /\ (IsBound(o)' \/ On(o, {"decref", "finish", "io", "release"})' # {})
      <4>1. o \in Obj /\ o # Nil
        BY LiveIs
      <4>2. IsBound(o)' \/ On(o, {"decref", "finish", "io", "release"})' # {}
        BY <1>3, <1>5, <3>3, <4>1
      <4>3. o \in LiveObj'
        BY <4>1, <4>2 DEF IsBound, On, LiveObj, Bound
      <4> QED
        BY <1>4, <3>3, <4>2, <4>3
    <3> QED
      BY <2>1, <3>1, <3>2, <3>3 DEF Accounted
  <2> QED
    BY <2>1 DEF Accounted
<1> QED
  BY <1>13, <1>14

\* markOpenedWithHandle and updateAndOpen store the handle in an allocated fidState.
HoldStore(p, l, c, x) ==
  /\ Went(p, l, c) /\ at[p] \in {"mark", "swap"} /\ l \in {"idle", "inc"}
  /\ c.obj \in {Nil, req[p].obj} /\ UNCHANGED <<table, hopen, usurped>>
  /\ x \in Obj /\ IsBound(x) /\ fs[x].state = "allocated"
  /\ fs'[x].handle = req[p].handle /\ fs'[x].state = "opened"
  /\ \A o \in Obj \ {x} : IsLive(o)' => fs'[o] = fs[o]

\* The handle changes hands.
LEMMA HoldStoreStep ==
  ASSUME FidInv, FidInv', Holding, Accounted, NEW p \in Op, NEW l, NEW c \in Calls, NEW x,
         HoldStore(p, l, c, x)
  PROVE  Holding' /\ Accounted'
<1> USE FidTableAssumption
<1>1. \A q \in Op : /\ at'[q] = IF q = p THEN l ELSE at[q]
                    /\ req'[q] = IF q = p THEN c ELSE req[q]
  BY DEF FidInv, HoldStore, Went
<1>2. \A q \in Op : req'[q].obj \in Obj \cup {Nil} /\ req[q].obj \in Obj \cup {Nil}
  BY DEF FidInv, Calls
<1>3. \A o : IsBound(o)' <=> IsBound(o)
  BY DEF IsBound, HoldStore
<1>4. ASSUME NEW o \in LiveObj'
      PROVE  o \in LiveObj /\ o \in Obj /\ (o # x => fs'[o] = fs[o])
  <2>1. o \in Obj /\ IsLive(o)'
    BY LiveNext
  <2>2. IsLive(o)
    BY <1>1, <1>3, <2>1 DEF IsLive, HoldStore
  <2> QED
    BY <2>1, <2>2, LiveIs DEF HoldStore
<1>5. \A o : /\ On(o, {"io", "release"})' = On(o, {"io", "release"})
             /\ On(o, {"decref", "finish", "io", "release"})' = On(o, {"decref", "finish", "io", "release"})
  BY <1>1, SMT DEF On, HoldStore
<1>6. p \in Holder /\ \A q \in Op : q \in Holder' <=> q # p /\ q \in Holder
  BY <1>1 DEF Holder, HoldStore
<1>7. \A q \in Holder' : q \in Op /\ q # p /\ q \in Holder /\ req'[q] = req[q]
  BY <1>1, <1>6 DEF Holder
<1>8. /\ x \in LiveObj /\ x \in LiveObj' /\ fs[x].handle = Nil /\ x \in Obj
      /\ fs'[x].handle = req[p].handle /\ req[p].handle \in hopen /\ req[p].handle # Nil
      /\ fs'[x].state = "opened" /\ hopen' = hopen /\ usurped' = usurped
  <2>1. x \in LiveObj /\ x \in LiveObj'
    BY <1>3, SMT DEF HoldStore, IsBound, LiveObj, Bound
  <2>2. fs[x].handle = Nil
    BY <2>1 DEF HoldStore, Holding
  <2>3. req[p].handle \in hopen /\ req[p].handle # Nil
    BY <1>6 DEF Holding
  <2> QED
    BY <2>1, <2>2, <2>3 DEF HoldStore
<1>9. \A o \in LiveObj : fs[o].handle # req[p].handle
  BY <1>6 DEF Holding
<1>10. ASSUME NEW o \in LiveObj'
       PROVE  /\ fs'[o].state = "opened" => fs'[o].handle # Nil
              /\ fs'[o].handle # Nil =>
                   \/ fs'[o].state = "opened"
                   \/ fs'[o].state = "xattrWrite" /\ fs'[o].handle \in usurped'
              /\ fs'[o].handle # Nil /\ (~fs'[o].closing \/ On(o, {"io", "release"})' # {})
                   => fs'[o].handle \in hopen'
  <2>1. CASE o = x
    BY <1>8, <2>1
  <2>2. CASE o # x
    BY <1>4, <1>5, <1>8, <2>2, SMTT(30) DEF Holding
  <2> QED
    BY <2>1, <2>2
<1>11. \A o, y \in LiveObj' : fs'[o].handle # Nil /\ fs'[y].handle = fs'[o].handle => y = o
  <2> SUFFICES ASSUME NEW o \in LiveObj', NEW y \in LiveObj', fs'[o].handle # Nil,
                      fs'[y].handle = fs'[o].handle, y # o
               PROVE  FALSE
    OBVIOUS
  <2>1. CASE o # x /\ y # x
    BY <1>4, <2>1, SMT DEF Holding
  <2>2. CASE o = x \/ y = x
    BY <1>4, <1>8, <1>9, <2>2
  <2> QED
    BY <2>1, <2>2
<1>12. \A o \in LiveObj', q \in Holder' : fs'[o].handle # req'[q].handle
  <2> SUFFICES ASSUME NEW o \in LiveObj', NEW q \in Holder' PROVE fs'[o].handle # req'[q].handle
    OBVIOUS
  <2>1. CASE o = x
    BY <1>6, <1>7, <1>8, <2>1, SMTT(30) DEF Holding
  <2>2. CASE o # x
    BY <1>4, <1>7, <2>2, SMTT(30) DEF Holding
  <2> QED
    BY <2>1, <2>2
<1>13. ASSUME NEW q \in Holder'
       PROVE  /\ req'[q].handle \in hopen'
              /\ \A r \in Holder' : req'[r].handle = req'[q].handle => r = q
  BY <1>7, <1>8, SMTT(30) DEF Holding
<1>14. ASSUME NEW q \in Op, NEW o, o = req'[q].obj
       PROVE  /\ at'[q] \in {"begin", "io"} => fs'[o].handle # Nil
              /\ at'[q] = "io" => req'[q].handle = fs'[o].handle
  <2>1. at'[q] \in {"begin", "io"} => q # p /\ o \in LiveObj'
    BY <1>1, <1>2, <1>14, SMT DEF LiveObj, FidInv, Placed, HoldStore
  <2>2. at'[q] \in {"begin", "io"} => fs[o].handle # Nil /\ at'[q] = at[q] /\ o = req[q].obj
                                        /\ req'[q] = req[q]
    BY <1>1, <1>14, <2>1 DEF Holding
  <2>3. at'[q] \in {"begin", "io"} => fs'[o] = fs[o]
    BY <1>4, <1>8, <2>1, <2>2
  <2>4. at[q] = "io" => req[q].handle = fs[req[q].obj].handle
    BY DEF Holding
  <2> QED
    BY <2>2, <2>3, <2>4
<1>15. Holding'
  BY <1>8, <1>10, <1>11, <1>12, <1>13, <1>14, SMTT(30) DEF Holding
<1>16. Accounted'
  <2>1. ASSUME NEW k \in hopen', k \notin usurped
        PROVE  \/ \E q \in Holder' : req'[q].handle = k
               \/ \E o \in LiveObj' :
                    /\ fs'[o].handle = k
                    /\ IsBound(o)' \/ On(o, {"decref", "finish", "io", "release"})' # {}
    <3>0. k \in hopen /\ k # Nil
      BY <1>8, <2>1 DEF Holding
    <3>1. CASE k = req[p].handle
      <4>1. IsBound(x)'
        BY <1>3 DEF HoldStore
      <4> QED
        BY <1>8, <3>1, <4>1
    <3>2. ASSUME NEW q \in Holder, req[q].handle = k, k # req[p].handle
          PROVE  q \in Holder' /\ req'[q].handle = k
      BY <1>1, <1>6, <3>2 DEF Holder
    <3>3. ASSUME NEW o \in LiveObj, fs[o].handle = k,
                 IsBound(o) \/ On(o, {"decref", "finish", "io", "release"}) # {}
          PROVE  o \in LiveObj' /\ fs'[o].handle = k
                   /\ (IsBound(o)' \/ On(o, {"decref", "finish", "io", "release"})' # {})
      <4>1. o \in Obj /\ o # Nil /\ o # x
        BY <1>8, <3>0, <3>3, LiveIs
      <4>2. IsBound(o)' \/ On(o, {"decref", "finish", "io", "release"})' # {}
        BY <1>3, <1>5, <3>3, <4>1
      <4>3. o \in LiveObj'
        BY <4>1, <4>2 DEF IsBound, On, LiveObj, Bound
      <4> QED
        BY <1>4, <3>3, <4>1, <4>2, <4>3
    <3> QED
      BY <2>1, <3>0, <3>1, <3>2, <3>3 DEF Accounted
  <2> QED
    BY <1>8, <2>1 DEF Accounted
<1> QED
  BY <1>15, <1>16

\* The release, by the one handler that may.
LEMMA HoldRelease ==
  ASSUME FidInv, FidInv', Phases, Holding, Accounted, NEW p \in Op, ReleaseNow(p)
  PROVE  Holding' /\ Accounted'
<1> USE FidTableAssumption
<1>0. /\ at[p] = "release" /\ UNCHANGED <<table, usurped>>
      /\ Went(p, "idle", Idle) /\ Idle.obj = Nil /\ \A o \in Obj : IsLive(o)' => fs'[o] = fs[o]
  BY EndLive DEF End, ReleaseNow, hist
<1>1. \A q \in Op : /\ at'[q] = IF q = p THEN "idle" ELSE at[q]
                    /\ req'[q] = IF q = p THEN Idle ELSE req[q]
  BY <1>0 DEF FidInv, Went
<1>2. \A q \in Op : req'[q].obj \in Obj \cup {Nil} /\ req[q].obj \in Obj \cup {Nil}
  BY DEF FidInv, Calls
<1>3. \A o : IsBound(o)' <=> IsBound(o)
  BY <1>0 DEF IsBound
<1>4. ASSUME NEW o \in LiveObj'
      PROVE  o \in LiveObj /\ o \in Obj /\ fs'[o] = fs[o]
  <2>1. o \in Obj /\ IsLive(o)'
    BY LiveNext
  <2>2. IsLive(o)
    BY <1>0, <1>1, <1>3, <2>1 DEF IsLive
  <2> QED
    BY <1>0, <2>1, <2>2, LiveIs
<1>5. PICK x \in Obj : /\ x = req[p].obj /\ x \in LiveObj /\ x # Nil /\ fs[x].closing
                       /\ hopen' = hopen \ {fs[x].handle}
                       /\ On(x, {"decref", "finish", "io", "release"}) = {p} /\ ~IsBound(x)
  <2>1. PICK x : x = req[p].obj
    OBVIOUS
  <2>2. Phase(p, x) /\ x \in Obj /\ x # Nil /\ fs[x].closing /\ fs[x].ioRefs = 0
    BY <1>0, <1>2, <2>1 DEF Phases, Phase
  <2>3. x \in LiveObj
    BY <2>1, <2>2 DEF LiveObj
  <2>4. On(x, {"io"}) = {}
    <3>1. Cardinality(On(x, {"io"})) = 0 /\ IsFiniteSet(On(x, {"io"}))
      BY <2>2, <2>3, FS_Subset DEF Phases, On
    <3> QED
      BY <3>1, FS_EmptySet
  <2>5. \A q \in Op : at[q] \in {"decref", "finish", "release"} /\ req[q].obj = x => q = p
    BY <1>0, <2>1, SMT DEF Phases
  <2>6. ~IsBound(x)
    BY <2>2 DEF Phases, IsBound, Bound
  <2>7. On(x, {"decref", "finish", "io", "release"}) = {p}
    BY <1>0, <2>1, <2>4, <2>5, SMT DEF On
  <2> QED
    BY <2>1, <2>2, <2>3, <2>6, <2>7 DEF ReleaseNow
<1>6. \A o : /\ o # x =>
                  /\ On(o, {"io", "release"})' = On(o, {"io", "release"}) \/ o = Nil
                  /\ \/ On(o, {"decref", "finish", "io", "release"})' = On(o, {"decref", "finish", "io", "release"})
                     \/ o = Nil
             /\ On(x, {"io", "release"})' = {}
  <2>1. \A o : o # x /\ o # Nil =>
                  /\ On(o, {"io", "release"})' = On(o, {"io", "release"})
                  /\ On(o, {"decref", "finish", "io", "release"})' = On(o, {"decref", "finish", "io", "release"})
    BY <1>0, <1>1, <1>5, SMTT(30) DEF On
  <2>2. On(x, {"io", "release"})' = {}
    BY <1>1, <1>5, SMT DEF On
  <2> QED
    BY <2>1, <2>2
<1>7. Holder' = Holder /\ \A q \in Holder : q # p /\ req'[q] = req[q] /\ q \in Op
  BY <1>0, <1>1 DEF Holder
<1>8. ASSUME NEW o \in LiveObj'
      PROVE  /\ fs'[o].state = "opened" => fs'[o].handle # Nil
             /\ fs'[o].handle # Nil =>
                  \/ fs'[o].state = "opened"
                  \/ fs'[o].state = "xattrWrite" /\ fs'[o].handle \in usurped'
             /\ fs'[o].handle # Nil /\ (~fs'[o].closing \/ On(o, {"io", "release"})' # {})
                  => fs'[o].handle \in hopen'
             /\ \A y \in LiveObj' : fs'[o].handle # Nil /\ fs'[y].handle = fs'[o].handle => y = o
  <2>1. /\ fs'[o].state = "opened" => fs'[o].handle # Nil
        /\ fs'[o].handle # Nil =>
                  \/ fs'[o].state = "opened"
                  \/ fs'[o].state = "xattrWrite" /\ fs'[o].handle \in usurped'
        /\ \A y \in LiveObj' : fs'[o].handle # Nil /\ fs'[y].handle = fs'[o].handle => y = o
    BY <1>0, <1>4, SMT DEF Holding
  <2>2. CASE o = x
    BY <1>4, <1>5, <1>6, <2>1, <2>2
  <2>3. CASE o # x
    <3>1. o # Nil /\ o \in LiveObj
      BY <1>4
    <3>2. fs[o].handle # Nil => fs[o].handle # fs[x].handle
      BY <1>5, <2>3, <3>1 DEF Holding
    <3>3. On(o, {"io", "release"})' = On(o, {"io", "release"}) /\ fs'[o] = fs[o]
      BY <1>4, <1>6, <2>3, <3>1
    <3> QED
      BY <1>5, <2>1, <3>1, <3>2, <3>3 DEF Holding
  <2> QED
    BY <2>2, <2>3
<1>9. \A o \in LiveObj', q \in Holder' : fs'[o].handle # req'[q].handle
  BY <1>4, <1>7, SMTT(30) DEF Holding
<1>10. ASSUME NEW q \in Holder'
       PROVE  /\ req'[q].handle \in hopen'
              /\ \A r \in Holder' : req'[r].handle = req'[q].handle => r = q
  BY <1>5, <1>7, SMTT(30) DEF Holding
<1>11. ASSUME NEW q \in Op
       PROVE  /\ at'[q] \in {"begin", "io"} => fs'[req'[q].obj].handle # Nil
              /\ at'[q] = "io" => req'[q].handle = fs'[req'[q].obj].handle
  <2>1. at'[q] \in {"begin", "io"} => q # p /\ req'[q].obj \in LiveObj'
    BY <1>1, <1>2 DEF LiveObj, FidInv, Placed
  <2> QED
    BY <1>1, <1>4, <2>1, SMTT(30) DEF Holding
<1>12. hopen' \subseteq Handle
  BY <1>5 DEF Holding
<1>13. Holding'
  BY <1>8, <1>9, <1>10, <1>11, <1>12 DEF Holding
<1>14. Accounted'
  <2>1. ASSUME NEW k \in hopen', k \notin usurped
        PROVE  \/ \E q \in Holder' : req'[q].handle = k
               \/ \E o \in LiveObj' :
                    /\ fs'[o].handle = k
                    /\ IsBound(o)' \/ On(o, {"decref", "finish", "io", "release"})' # {}
    <3>1. k \in hopen /\ k # fs[x].handle
      BY <1>5, <2>1
    <3>3. ASSUME NEW o \in LiveObj, fs[o].handle = k,
                 IsBound(o) \/ On(o, {"decref", "finish", "io", "release"}) # {}
          PROVE  o \in LiveObj' /\ fs'[o].handle = k
                   /\ (IsBound(o)' \/ On(o, {"decref", "finish", "io", "release"})' # {})
      <4>1. o \in Obj /\ o # Nil /\ o # x
        BY <3>1, <3>3, LiveIs
      <4>2. IsBound(o)' \/ On(o, {"decref", "finish", "io", "release"})' # {}
        BY <1>3, <1>6, <3>3, <4>1
      <4>3. o \in LiveObj'
        BY <4>1, <4>2 DEF IsBound, On, LiveObj, Bound
      <4> QED
        BY <1>4, <3>3, <4>2, <4>3
    <3> QED
      BY <1>7, <2>1, <3>1, <3>3 DEF Accounted
  <2> QED
    BY <1>0, <2>1 DEF Accounted
<1> QED
  BY <1>13, <1>14

\* add: a fidState without a handle.
LEMMA HoldAdd ==
  ASSUME FidInv, FidInv', Holding, Accounted, NEW p \in Op, NEW f \in Fid, NEW n, NEW s,
         Add(p, f, n, s), table[f] = Nil, s # "opened", UNCHANGED <<hopen, usurped>>,
         at[p] \notin {"decref", "finish", "release", "io", "mark", "swap"}
  PROVE  Holding' /\ Accounted'
<1> USE FidTableAssumption
<1>1. PICK x \in Obj : /\ x \notin LiveObj /\ table' = [table EXCEPT ![f] = x]
                       /\ fs' = [fs EXCEPT ![x] = NewFidState(n, s)]
  BY DEF Add, Fresh
<1>2. ~IsLive(x) /\ x # Nil
  BY <1>1, LiveIs
<1>3. \A q \in Op : /\ req'[q].obj = req[q].obj /\ req[q].obj \in Obj \cup {Nil} /\ req[q].obj # x
                    /\ req'[q].handle = req[q].handle
                    /\ at'[q] = IF q = p THEN "inc" ELSE at[q]
  BY <1>2, SMT DEF FidInv, Add, Goto, Calls, IsLive
<1>4. /\ table' \in [Fid -> Obj \cup {Nil}] /\ table \in [Fid -> Obj \cup {Nil}]
      /\ table'[f] = x /\ \A g \in Fid : g # f => table'[g] = table[g] /\ table[g] # x
  BY <1>1, <1>2 DEF FidInv, IsLive, IsBound
<1>5. \A o : o # x /\ o # Nil => (IsBound(o)' <=> IsBound(o))
  BY <1>4 DEF IsBound
<1>6. /\ \A o \in Obj : o # x => fs'[o] = fs[o]
      /\ fs'[x].handle = Nil /\ fs'[x].state # "opened"
  BY <1>1 DEF FidInv, NewFidState
<1>7. \A o : /\ On(o, {"io", "release"})' = On(o, {"io", "release"})
             /\ On(o, {"decref", "finish", "io", "release"})' = On(o, {"decref", "finish", "io", "release"})
  BY <1>3, SMT DEF On
<1>8. \A o : o \in LiveObj' <=> o = x \/ o \in LiveObj
  <2>1. \A o : IsLive(o)' /\ o \in Obj <=> o = x \/ (o \in Obj /\ IsLive(o))
    BY <1>2, <1>3, <1>4, <1>5 DEF IsLive, IsBound
  <2>2. \A o : o \in LiveObj' <=> o \in Obj /\ IsLive(o)'
    BY <1>3, <1>4, SMT DEF LiveObj, IsLive, IsBound, Bound
  <2> QED
    BY <1>1, <2>1, <2>2, LiveIs
<1>9. ASSUME NEW o \in LiveObj
      PROVE  o \in Obj /\ o # x /\ fs'[o] = fs[o]
  BY <1>1, <1>6, LiveIs
<1>10. Holder' = Holder /\ \A q \in Holder : q \in Op /\ req'[q].handle = req[q].handle
  BY <1>3 DEF Holder
<1>11. ASSUME NEW o \in LiveObj'
       PROVE  /\ fs'[o].state = "opened" => fs'[o].handle # Nil
              /\ fs'[o].handle # Nil =>
                   \/ fs'[o].state = "opened"
                   \/ fs'[o].state = "xattrWrite" /\ fs'[o].handle \in usurped'
              /\ fs'[o].handle # Nil /\ (~fs'[o].closing \/ On(o, {"io", "release"})' # {})
                   => fs'[o].handle \in hopen'
              /\ \A y \in LiveObj' : fs'[o].handle # Nil /\ fs'[y].handle = fs'[o].handle => y = o
  <2>1. CASE o = x
    BY <1>6, <2>1
  <2>2. CASE o \in LiveObj
    BY <1>6, <1>7, <1>8, <1>9, <2>2, SMTT(30) DEF Holding
  <2> QED
    BY <1>8, <2>1, <2>2
<1>12. \A o \in LiveObj', q \in Holder' : fs'[o].handle # req'[q].handle
  <2>1. \A q \in Holder : req[q].handle # Nil
    BY DEF Holding
  <2> QED
    BY <1>6, <1>8, <1>9, <1>10, <2>1, SMTT(30) DEF Holding
<1>13. ASSUME NEW q \in Holder'
       PROVE  /\ req'[q].handle \in hopen'
              /\ \A r \in Holder' : req'[r].handle = req'[q].handle => r = q
  BY <1>10, SMTT(30) DEF Holding
<1>14. ASSUME NEW q \in Op
       PROVE  /\ at'[q] \in {"begin", "io"} => fs'[req'[q].obj].handle # Nil
              /\ at'[q] = "io" => req'[q].handle = fs'[req'[q].obj].handle
  <2>1. at'[q] \in {"begin", "io"} => at'[q] = at[q]
    BY <1>3
  <2>2. at[q] \in {"begin", "io"} => req[q].obj \in LiveObj
    BY PlacedIs DEF LiveObj, Placed
  <2>3. at[q] \in {"begin", "io"} => fs'[req'[q].obj] = fs[req[q].obj]
    BY <1>3, <1>9, <2>2
  <2> QED
    BY <1>3, <2>1, <2>3 DEF Holding
<1>15. Holding'
  BY <1>11, <1>12, <1>13, <1>14 DEF Holding
<1>16. Accounted'
  <2>1. ASSUME NEW o \in LiveObj, IsBound(o) \/ On(o, {"decref", "finish", "io", "release"}) # {}
        PROVE  /\ o \in LiveObj' /\ fs'[o].handle = fs[o].handle
               /\ IsBound(o)' \/ On(o, {"decref", "finish", "io", "release"})' # {}
    BY <1>5, <1>7, <1>8, <1>9, <2>1
  <2>2. ASSUME NEW k \in hopen, k \notin usurped
        PROVE  \/ \E q \in Holder' : req'[q].handle = k
               \/ \E o \in LiveObj' :
                    /\ fs'[o].handle = k
                    /\ IsBound(o)' \/ On(o, {"decref", "finish", "io", "release"})' # {}
    <3>1. CASE \E q \in Holder : req[q].handle = k
      BY <1>10, <3>1
    <3>2. ASSUME NEW o \in LiveObj, fs[o].handle = k,
                 IsBound(o) \/ On(o, {"decref", "finish", "io", "release"}) # {}
          PROVE  \E y \in LiveObj' :
                    /\ fs'[y].handle = k
                    /\ IsBound(y)' \/ On(y, {"decref", "finish", "io", "release"})' # {}
      BY <2>1, <3>2
    <3> QED
      BY <2>2, <3>1, <3>2 DEF Accounted
  <2> QED
    BY <2>2 DEF Accounted
<1> QED
  BY <1>15, <1>16

\* clunk: the handler that took the fid minds the handle.
LEMMA HoldClunk ==
  ASSUME FidInv, FidInv', Holding, Accounted, NEW p \in Op, NEW k, NEW f \in Fid, Clunk(p, k, f)
  PROVE  Holding' /\ Accounted'
<1> USE FidTableAssumption
<1> DEFINE c == [Idle EXCEPT !.kind = k, !.obj = table[f]]
<1>1. PICK x \in Obj : x = table[f] /\ IsBound(x)
  BY DEF Clunk, FidInv, IsBound
<1>2. \A q \in Op : /\ req'[q] = IF q = p THEN c ELSE req[q]
                    /\ at'[q] = IF q = p THEN "decref" ELSE at[q]
  BY DEF FidInv, Clunk, Goto
<1>3. /\ c.obj = x /\ fs' = fs /\ at[p] = "idle" /\ req[p].obj = Nil
      /\ UNCHANGED <<hopen, usurped>>
  BY <1>1 DEF FidInv, Clunk, Idle, Placed, hist
<1> HIDE DEF c
<1>4. /\ table' \in [Fid -> Obj \cup {Nil}] /\ table \in [Fid -> Obj \cup {Nil}]
      /\ table'[f] = Nil /\ \A g \in Fid : g # f => table'[g] = table[g] /\ table[g] # x
  BY <1>1 DEF FidInv, Bound, Clunk
<1>5. \A o : o # x /\ o # Nil => (IsBound(o)' <=> IsBound(o))
  BY <1>1, <1>4 DEF IsBound
<1>6. \A o : /\ On(o, {"io", "release"})' = On(o, {"io", "release"})
             /\ On(o, {"decref", "finish", "io", "release"}) \subseteq On(o, {"decref", "finish", "io", "release"})'
             /\ p \in On(x, {"decref", "finish", "io", "release"})'
  BY <1>2, <1>3, SMT DEF On
<1>7. LiveObj' = LiveObj
  <2>1. \A q \in Op : req'[q].obj = IF q = p THEN x ELSE req[q].obj
    BY <1>2, <1>3
  <2>2. \A o : o \in LiveObj' => o \in LiveObj
    BY <1>1, <1>4, <2>1, SMTT(30) DEF LiveObj, Bound
  <2>3. \A o : o \in LiveObj => o \in LiveObj'
    BY <1>1, <1>3, <1>4, <2>1, SMT DEF LiveObj, Bound
  <2> QED
    BY <2>2, <2>3
<1>8. Holder' = Holder /\ \A q \in Holder : q \in Op /\ req'[q] = req[q]
  BY <1>2, <1>3 DEF Holder
<1>9. ASSUME NEW q \in Op
       PROVE  /\ at'[q] \in {"begin", "io"} => fs'[req'[q].obj].handle # Nil
              /\ at'[q] = "io" => req'[q].handle = fs'[req'[q].obj].handle
  <2>1. CASE q = p
    BY <1>2, <2>1
  <2>2. CASE q # p
    <3>1. at'[q] = at[q] /\ req'[q] = req[q]
      BY <1>2, <2>2
    <3>2. /\ at[q] \in {"begin", "io"} => fs[req[q].obj].handle # Nil
          /\ at[q] = "io" => req[q].handle = fs[req[q].obj].handle
      BY DEF Holding
    <3> QED
      BY <1>3, <3>1, <3>2
  <2> QED
    BY <2>1, <2>2
<1>10. Holding'
  BY <1>3, <1>6, <1>7, <1>8, <1>9, SMTT(30) DEF Holding
<1>11. Accounted'
  <2>1. ASSUME NEW o \in LiveObj, IsBound(o) \/ On(o, {"decref", "finish", "io", "release"}) # {}
        PROVE  IsBound(o)' \/ On(o, {"decref", "finish", "io", "release"})' # {}
    <3>1. o # Nil
      BY LiveIs
    <3> QED
      BY <1>5, <1>6, <2>1, <3>1
  <2> QED
    BY <1>3, <1>7, <1>8, <2>1 DEF Accounted
<1> QED
  BY <1>10, <1>11

\* The end of the session: only fids have handles by then.
LEMMA HoldClunkAll ==
  ASSUME FidInv, FidInv', Holding, Accounted, ClunkAll
  PROVE  Holding' /\ Accounted'
<1> USE FidTableAssumption
<1>1. \A p \in Op : at[p] = "idle" /\ req[p].obj = Nil
  BY DEF FidInv, ClunkAll, Placed
<1>2. UNCHANGED <<at, req, usurped>> /\ \A f \in Fid : table'[f] = Nil
  BY DEF ClunkAll, hist
<1>3. LiveObj' = {} /\ Holder' = {} /\ Holder = {}
  BY <1>1, <1>2 DEF LiveObj, Bound, Holder
<1>4. hopen' = hopen \ {fs[table[f]].handle : f \in Bound}
  BY DEF ClunkAll
<1>5. Holding'
  BY <1>1, <1>2, <1>3, <1>4 DEF Holding
<1>6. ASSUME NEW h \in hopen', h \notin usurped
      PROVE  FALSE
  <2>1. PICK o \in LiveObj : /\ fs[o].handle = h
                             /\ IsBound(o) \/ On(o, {"decref", "finish", "io", "release"}) # {}
    BY <1>3, <1>4, <1>6 DEF Accounted
  <2>2. IsBound(o) /\ o # Nil
    BY <1>1, <2>1, LiveIs DEF On
  <2> QED
    BY <1>4, <1>6, <2>1, <2>2 DEF IsBound, Bound
<1> QED
  BY <1>2, <1>5, <1>6 DEF Accounted

\* The end of the session leaves no fidState.
LEMMA PhaseClunkAll ==
  ASSUME FidInv, Phases, ClunkAll
  PROVE  Phases'
<1>1. \A p \in Op : at[p] = "idle" /\ req[p].obj = Nil
  BY DEF FidInv, ClunkAll, Placed
<1>2. UNCHANGED <<at, req>> /\ \A f \in Fid : table'[f] = Nil
  BY DEF ClunkAll
<1>3. LiveObj' = {} /\ Bound' = {}
  BY <1>1, <1>2 DEF LiveObj, Bound
<1>4. \A p \in Op : at'[p] = "idle" /\ req'[p].obj = Nil
  BY <1>1, <1>2
<1>5. ASSUME NEW p \in Op PROVE Phase(p, Nil)'
  BY <1>4 DEF Phase
<1>6. \A p \in Op : Phase(p, req[p].obj)'
  BY <1>4, <1>5
<1>7. \A p, q \in Op : ~({at'[p], at'[q]} \subseteq {"decref", "finish", "release"})
  BY <1>4
<1> QED
  BY <1>3, <1>6, <1>7 DEF Phases

-----------------------------------------------------------------------------
(* The steps. *)

HandleInv == Phases /\ Committed /\ Holding /\ Accounted

\* A fidState goes on being committed only if it was, or is closing.
LEMMA CommittedStep ==
  ASSUME FidInv, FidInv', Committed, late' \subseteq late \cup {"raw"},
         \A o \in Obj : IsLive(o)' =>
            \/ fs'[o].committed => fs'[o].closing
            \/ /\ IsLive(o) /\ (fs'[o].committed => fs[o].committed)
               /\ fs[o].closing => fs'[o].closing
  PROVE  Committed'
<1>1. \A q \in Op : req'[q].obj \in Obj \cup {Nil}
  BY DEF FidInv, Calls
<1>2. \A o \in LiveObj' : o \in Obj /\ IsLive(o)'
  BY LiveNext
<1>3. \A o \in LiveObj' : fs'[o].committed => fs'[o].closing
  BY <1>2, LiveIs DEF Committed
<1>4. "buffered" \notin late'
  BY DEF Committed, CommitIsFinalUnlessRaw
<1> QED
  BY <1>3, <1>4 DEF Committed, CommitIsFinalUnlessRaw

\* What a fidState may become without its handle or its life being touched.
Same(y, z) ==
  /\ z.closing <=> y.closing
  /\ z.ioRefs = y.ioRefs /\ z.handle = y.handle
  /\ z.committed <=> y.committed
  /\ \/ z.state = y.state
     \/ z.state = "xattrWrite" /\ y.handle \in usurped' \cup {Nil}

\* Handler p goes on, or returns, without touching a handle or the life of a fidState.
Calmly(p, l, c) ==
  /\ Went(p, l, c) /\ UNCHANGED <<table, hopen>> /\ usurped \subseteq usurped'
  /\ late' \subseteq late \cup {"raw"}
  /\ at[p] \notin {"decref", "finish", "release", "io", "mark", "swap"}
  /\ l \notin {"decref", "finish", "release", "io", "mark", "swap"}
  /\ l \in {"xset", "xwrite"} => c.obj # Nil
  /\ l = "begin" => c.obj \in Obj /\ fs[c.obj].handle # Nil
  /\ c.obj \in {Nil, req[p].obj} \/ \E g \in Fid : c.obj = table[g]
  /\ \A o \in Obj : IsLive(o)' => Same(fs[o], fs'[o])

\* Such a handler keeps the whole invariant.
LEMMA CalmStep ==
  ASSUME FidInv, FidInv', HandleInv, NEW p \in Op, NEW l, NEW c \in Calls, Calmly(p, l, c)
  PROVE  HandleInv'
<1>0. FidInv /\ FidInv' /\ Phases /\ Committed /\ Holding /\ Accounted
  BY DEF HandleInv
<1>1. PhaseQuiet(p, l, c)
  <2>1. {at[p], l} \cap {"decref", "finish", "release", "io"} = {}
    BY DEF Calmly
  <2> QED
    BY <2>1 DEF Calmly, PhaseQuiet, Same
<1>2. HoldKeep(p, l, c)
  <2>1. at[p] \notin Minding /\ l \notin {"io", "release"}
    BY DEF Calmly, Minding
  <2>2. \A o \in Obj : IsLive(o)' =>
       /\ fs'[o].handle = fs[o].handle
       /\ \/ fs'[o].state = fs[o].state
          \/ fs'[o].state = "xattrWrite" /\ fs[o].handle \in usurped' \cup {Nil}
       /\ fs[o].closing => fs'[o].closing
    BY DEF Calmly, Same
  <2> QED
    BY <2>1, <2>2 DEF Calmly, HoldKeep
<1>3. \A o \in Obj : IsLive(o)' => IsLive(o)
  <2>1. \A q \in Op : req'[q] = IF q = p THEN c ELSE req[q]
    BY DEF Calmly, Went, FidInv
  <2>2. \A o : IsBound(o)' <=> IsBound(o)
    BY DEF Calmly, IsBound
  <2> QED
    BY <2>1, <2>2, FidTableAssumption, SMT DEF IsLive, Calmly, IsBound
<1>4. Committed'
  BY <1>0, <1>3, CommittedStep DEF Calmly, Same
<1> QED
  BY <1>0, <1>1, <1>2, <1>4, PhaseQuietStep, HoldKeepStep DEF HandleInv

\* Such a return.
LEMMA CalmEnd ==
  ASSUME FidInv, FidInv', HandleInv, NEW p \in Op, NEW g, EndWith(p, g),
         UNCHANGED <<table, hopen>>, usurped \subseteq usurped', late' \subseteq late \cup {"raw"},
         at[p] \notin {"decref", "finish", "release", "io", "mark", "swap"},
         \A o \in Obj : Same(fs[o], g[o])
  PROVE  HandleInv'
<1>1. /\ Went(p, "idle", Idle) /\ Idle \in Calls /\ Idle.obj = Nil
      /\ \A o \in Obj : IsLive(o)' => fs'[o] = g[o]
  BY EndLive
<1>2. \A o \in Obj : IsLive(o)' => Same(fs[o], fs'[o])
  BY <1>1
<1>3. Calmly(p, "idle", Idle)
  BY <1>1, <1>2 DEF Calmly
<1> QED
  BY <1>1, <1>3, CalmStep

\* A fidState may stay as it is.
LEMMA SameIs == \A y : Same(y, y)
BY DEF Same

\* The walks, the check of an open, and what only counts references.
LEMMA CalmWalk ==
  ASSUME FidInv, FidInv', HandleInv, NEW p \in Op,
         \/ \E f \in Fid, g \in Fid \cup {Nil}, k \in Kinds : Get(p, k, f, g)
         \/ ReadNode(p) \/ WalkFirst(p) \/ WalkOn(p) \/ WalkPartial(p)
         \/ IncRef(p) \/ DecPrev(p) \/ StateCheck(p)
  PROVE  HandleInv'
<1> USE FidTableAssumption
<1>0. /\ req[p] \in Calls /\ at \in [Op -> Labels] /\ req \in [Op -> Calls]
      /\ table \in [Fid -> Obj \cup {Nil}] /\ FreshNode \subseteq Node
  <2>1. FreshNode \subseteq Node
    BY DEF FreshNode, Fresh
  <2> QED
    BY <2>1 DEF FidInv
<1>1. /\ at[p] \in {"idle", "got", "lookup", "bind", "inc", "dec"}
      /\ UNCHANGED <<table, hopen, usurped, late>>
      /\ at[p] \notin {"decref", "finish", "release", "io", "mark", "swap"}
  <2>1. at[p] \in {"idle", "got", "lookup", "bind", "inc", "dec"}
    BY DEF Get, ReadNode, WalkFirst, WalkOn, WalkPartial, IncRef, DecPrev, StateCheck
  <2>2. UNCHANGED <<table, hopen, usurped, late>>
    BY DEF Get, ReadNode, WalkFirst, WalkOn, WalkPartial, IncRef, DecPrev, StateCheck, hist
  <2> QED
    BY <2>1, <2>2
<1>2. CASE End(p)
  BY <1>1, <1>2, CalmEnd, SameIs DEF End
<1>3. ASSUME NEW l \in {"got", "lookup", "bind", "dec", "xset", "opening"}, NEW c \in Calls,
             Went(p, l, c), UNCHANGED fs, l = "xset" => c.obj # Nil,
             c.obj = req[p].obj \/ \E g \in Fid : c.obj = table[g]
      PROVE  HandleInv'
  <2>1. /\ l \notin {"decref", "finish", "release", "io", "mark", "swap"}
        /\ l # "xwrite" /\ l # "begin"
    OBVIOUS
  <2>2. Calmly(p, l, c)
    BY <1>1, <1>3, <2>1, SameIs DEF Calmly
  <2> QED
    BY <2>2, CalmStep
<1>4. ASSUME NEW f \in Fid, NEW g \in Fid \cup {Nil}, NEW k \in Kinds, Get(p, k, f, g)
      PROVE  HandleInv'
  <2> DEFINE c == [Idle EXCEPT !.kind = k, !.fid = f, !.new = g, !.obj = table[f]]
  <2>1. Went(p, "got", c) /\ UNCHANGED fs
    BY <1>4 DEF Get, Goto, Went
  <2>2. c \in Calls /\ c.obj = table[f]
    BY <1>0 DEF Idle, Calls
  <2> HIDE DEF c
  <2> QED
    BY <1>3, <2>1, <2>2
<1>5. CASE ReadNode(p)
  <2> DEFINE c == [req[p] EXCEPT !.node = fs[req[p].obj].node]
  <2>1. /\ UNCHANGED fs /\ req[p].obj \in Obj /\ \E l \in {"lookup", "bind"} : Went(p, l, c)
    BY <1>0, <1>5 DEF ReadNode, Goto, Went, FidInv, Placed
  <2>2. c \in Calls /\ c.obj = req[p].obj
    BY <1>0, <2>1 DEF FidInv, Calls, Fids
  <2> HIDE DEF c
  <2> QED
    BY <1>3, <2>1, <2>2
<1>6. CASE WalkFirst(p) /\ ~End(p)
  <2>1. PICK n \in FreshNode : req' = [req EXCEPT ![p].node = n, ![p].prev = req[p].node]
    BY <1>6 DEF WalkFirst
  <2> DEFINE c == [req[p] EXCEPT !.node = n, !.prev = req[p].node]
  <2>2. Went(p, "bind", c) /\ UNCHANGED fs
    BY <1>0, <1>6, <2>1 DEF WalkFirst, Goto, Went
  <2>3. c \in Calls /\ c.obj = req[p].obj
    BY <1>0 DEF Calls
  <2> HIDE DEF c
  <2> QED
    BY <1>3, <2>2, <2>3
<1>7. CASE WalkOn(p)
  <2>1. PICK n \in FreshNode : req' = [req EXCEPT ![p].node = n]
    BY <1>7 DEF WalkOn
  <2> DEFINE c == [req[p] EXCEPT !.node = n]
  <2>2. Went(p, "bind", c) /\ UNCHANGED fs
    BY <1>0, <1>7, <2>1 DEF WalkOn, Went
  <2>3. c \in Calls /\ c.obj = req[p].obj
    BY <1>0 DEF Calls
  <2> HIDE DEF c
  <2> QED
    BY <1>3, <2>2, <2>3
<1>8. CASE (IncRef(p) \/ StateCheck(p)) /\ ~End(p)
  <2>1. req' = [req EXCEPT ![p] = req[p]]
    BY <1>0, <1>8 DEF IncRef, StateCheck
  <2>2. \E l \in {"dec", "xset", "opening"} : at' = [at EXCEPT ![p] = l] /\ UNCHANGED fs
                                            /\ (l = "xset" => at[p] = "got")
    BY <1>8 DEF IncRef, StateCheck, Goto
  <2>3. at[p] = "got" => req[p].obj # Nil
    BY PlacedIs, FidTableAssumption DEF Placed
  <2> QED
    BY <1>0, <1>3, <2>1, <2>2, <2>3 DEF Went
<1> QED
  BY <1>2, <1>4, <1>5, <1>6, <1>7, <1>8 DEF WalkPartial, DecPrev

\* add, by an attach or at the end of a walk, and update.
LEMMA HandleBind ==
  ASSUME FidInv, FidInv', HandleInv, NEW p \in Op,
         (\E f \in Fid : Attach(p, f)) \/ BindNew(p) \/ Update(p)
  PROVE  HandleInv'
<1> USE FidTableAssumption
<1>0. /\ req[p] \in Calls /\ at \in [Op -> Labels] /\ req \in [Op -> Calls]
      /\ table \in [Fid -> Obj \cup {Nil}] /\ fs \in [Obj -> Fids]
  BY DEF FidInv
<1>1. /\ at[p] \in {"idle", "bind"} /\ UNCHANGED <<hopen, usurped, late>>
      /\ at[p] \notin {"decref", "finish", "release", "io", "mark", "swap"}
  BY DEF Attach, BindNew, Update, hist
<1>2. ASSUME NEW f \in Fid, NEW n, NEW s \in {"allocated", "xattrRead"}, Add(p, f, n, s),
             table[f] = Nil
      PROVE  HandleInv'
  <2>0. Phases /\ Committed /\ Holding /\ Accounted
    BY DEF HandleInv
  <2>1. PICK x \in Obj : /\ x \notin LiveObj /\ table' = [table EXCEPT ![f] = x]
                         /\ fs' = [fs EXCEPT ![x] = NewFidState(n, s)]
    BY <1>2 DEF Add, Fresh
  <2>2. ASSUME NEW o \in Obj, IsLive(o)'
        PROVE  \/ fs'[o].committed => fs'[o].closing
               \/ /\ IsLive(o) /\ (fs'[o].committed => fs[o].committed)
                  /\ fs[o].closing => fs'[o].closing
    <3>1. CASE o = x
      BY <1>0, <2>1, <3>1 DEF NewFidState
    <3>2. CASE o # x
      <4>1. fs'[o] = fs[o]
        BY <1>0, <2>1, <3>2
      <4>2. \A q \in Op : req'[q].obj = req[q].obj
        BY <1>0, <1>2, SMT DEF Add, Calls
      <4>3. IsLive(o)
        BY <1>0, <2>1, <2>2, <3>2, <4>2 DEF IsLive, IsBound
      <4> QED
        BY <4>1, <4>3
    <3> QED
      BY <3>1, <3>2
  <2>3. Committed'
    BY <1>1, <2>0, <2>2, CommittedStep
  <2>4. Phases'
    BY <1>1, <1>2, <2>0, PhaseAdd
  <2>5. s # "opened"
    OBVIOUS
  <2>6. Holding' /\ Accounted'
    BY <1>1, <1>2, <2>0, <2>5, HoldAdd
  <2> QED
    BY <2>3, <2>4, <2>6 DEF HandleInv
<1>3. CASE End(p) /\ UNCHANGED table
  BY <1>1, <1>3, CalmEnd, SameIs DEF End
<1>4. CASE \E f \in Fid : Attach(p, f)
  BY <1>2, <1>4 DEF Attach, MayAdd
<1>5. CASE BindNew(p) /\ ~(End(p) /\ UNCHANGED table)
  <2>1. req[p].new \in Fid
    BY <1>5 DEF FidInv, Placed, BindNew
  <2> QED
    BY <1>2, <1>5, <2>1 DEF BindNew, MayAdd
<1>6. CASE Update(p) /\ ~(End(p) /\ UNCHANGED table)
  <2>0. /\ at[p] = "bind" /\ UNCHANGED table /\ at' = [at EXCEPT ![p] = "inc"]
        /\ table[req[p].fid] # Nil
        /\ fs' = [fs EXCEPT ![table[req[p].fid]].node = req[p].node]
        /\ req' = [req EXCEPT ![p].prev = fs[table[req[p].fid]].node]
    BY <1>6 DEF Update, Displaced, Goto
  <2>1. PICK o \in Obj : o = table[req[p].fid]
    BY <1>0, <2>0 DEF FidInv, Placed
  <2> DEFINE c == [req[p] EXCEPT !.prev = fs[o].node]
  <2>2. c \in Calls /\ c.obj = req[p].obj /\ Went(p, "inc", c)
    BY <1>0, <2>0, <2>1 DEF Calls, Fids, Went
  <2> HIDE DEF c
  <2>3. /\ \A x \in Obj : x # o => fs'[x] = fs[x]
        /\ fs'[o] = [fs[o] EXCEPT !.node = req[p].node] /\ fs[o] \in Fids
    BY <1>0, <2>0, <2>1
  <2>4. Same(fs[o], fs'[o])
    BY <2>3 DEF Same, Fids
  <2>5. Calmly(p, "inc", c)
    BY <1>1, <2>0, <2>2, <2>3, <2>4, SameIs DEF Calmly
  <2> QED
    BY <2>2, <2>5, CalmStep
<1> QED
  BY <1>3, <1>4, <1>5, <1>6

\* Open and Create, and the handle they return.
LEMMA HandleOpen ==
  ASSUME FidInv, FidInv', HandleInv, NEW p \in Op, CallOpen(p) \/ MarkOpened(p) \/ UpdateAndOpen(p)
  PROVE  HandleInv'
<1> USE FidTableAssumption
<1>0. /\ req[p] \in Calls /\ at \in [Op -> Labels] /\ req \in [Op -> Calls]
      /\ table \in [Fid -> Obj \cup {Nil}] /\ fs \in [Obj -> Fids] /\ Placed(at[p], req[p])
      /\ FreshNode \subseteq Node /\ FreshHandle \subseteq Handle
      /\ Phases /\ Committed /\ Holding /\ Accounted
  BY SMT DEF FidInv, FreshNode, FreshHandle, Fresh, HandleInv
<1>1. /\ at[p] \in {"opening", "mark", "swap"} /\ UNCHANGED <<table, usurped, late>>
      /\ at[p] \notin {"decref", "finish", "release", "io"}
  BY DEF CallOpen, MarkOpened, UpdateAndOpen, hist
<1>2. ASSUME NEW l \in {"mark", "swap", "idle", "inc"}, NEW c \in Calls, Went(p, l, c),
             c.obj \in {Nil, req[p].obj},
             \A o \in Obj : IsLive(o)' =>
               (fs'[o].closing <=> fs[o].closing) /\ fs'[o].ioRefs = fs[o].ioRefs
                 /\ (fs'[o].committed <=> fs[o].committed)
      PROVE  Phases' /\ Committed'
  <2>1. {at[p], l} \cap {"decref", "finish", "release", "io"} = {} /\ l \notin {"xset", "xwrite"}
    BY <1>1
  <2>2. PhaseQuiet(p, l, c)
    BY <1>1, <1>2, <2>1 DEF PhaseQuiet
  <2>3. \A o \in Obj : IsLive(o)' => IsLive(o)
    <3>1. \A q \in Op : req'[q] = IF q = p THEN c ELSE req[q]
      BY <1>0, <1>2 DEF Went
    <3>2. \A o : IsBound(o)' <=> IsBound(o)
      BY <1>1 DEF IsBound
    <3> QED
      BY <1>2, <3>1, <3>2 DEF IsLive
  <2>4. Committed'
    BY <1>0, <1>1, <1>2, <2>3, CommittedStep
  <2> QED
    BY <1>0, <2>2, <2>4, PhaseQuietStep
<1>3. CASE CallOpen(p) /\ End(p) /\ UNCHANGED hopen
  BY <1>1, <1>3, CalmEnd, SameIs DEF End, CallOpen
<1>4. CASE CallOpen(p) /\ ~(End(p) /\ UNCHANGED hopen)
  <2>1. PICK h \in FreshHandle :
          /\ hopen' = hopen \cup {h} /\ UNCHANGED fs /\ at[p] = "opening"
          /\ \/ at' = [at EXCEPT ![p] = "mark"] /\ req' = [req EXCEPT ![p].handle = h]
             \/ \E n \in FreshNode : /\ at' = [at EXCEPT ![p] = "swap"]
                                     /\ req' = [req EXCEPT ![p].handle = h, ![p].node = n]
    BY <1>4 DEF CallOpen, Goto
  <2>2. \E l \in {"mark", "swap"}, c \in Calls : Went(p, l, c) /\ c.handle = h /\ c.obj = req[p].obj
    <3>1. CASE at' = [at EXCEPT ![p] = "mark"] /\ req' = [req EXCEPT ![p].handle = h]
      <4> DEFINE c == [req[p] EXCEPT !.handle = h]
      <4>1. c \in Calls /\ c.handle = h /\ c.obj = req[p].obj /\ Went(p, "mark", c)
        BY <1>0, <3>1 DEF Calls, Went
      <4> QED
        BY <4>1
    <3>2. ASSUME NEW n \in FreshNode, at' = [at EXCEPT ![p] = "swap"],
                 req' = [req EXCEPT ![p].handle = h, ![p].node = n]
          PROVE  \E l \in {"mark", "swap"}, c \in Calls :
                   Went(p, l, c) /\ c.handle = h /\ c.obj = req[p].obj
      <4> DEFINE c == [req[p] EXCEPT !.handle = h, !.node = n]
      <4>1. c \in Calls /\ c.handle = h /\ c.obj = req[p].obj /\ Went(p, "swap", c)
        BY <1>0, <3>2 DEF Calls, Went
      <4> QED
        BY <4>1
    <3> QED
      BY <2>1, <3>1, <3>2
  <2>3. PICK l \in {"mark", "swap"}, c \in Calls :
          Went(p, l, c) /\ c.handle = h /\ c.obj = req[p].obj
    BY <2>2
  <2>4. Phases' /\ Committed'
    BY <1>2, <2>1, <2>3
  <2>5. Holding' /\ Accounted'
    BY <1>0, <1>1, <2>1, <2>3, HoldOpen, SMTT(30)
  <2> QED
    BY <2>4, <2>5 DEF HandleInv
<1>5. CASE (MarkOpened(p) \/ UpdateAndOpen(p)) /\ ~MayOpen(req[p].fid)
  <2>1. End(p) /\ hopen' = hopen \ {req[p].handle} /\ at[p] \in {"mark", "swap"}
    BY <1>5 DEF MarkOpened, UpdateAndOpen
  <2>2. /\ Went(p, "idle", Idle) /\ Idle \in Calls /\ Idle.obj = Nil
        /\ \A o \in Obj : IsLive(o)' => fs'[o] = fs[o]
    BY <1>1, <2>1, EndLive DEF End
  <2>3. Phases' /\ Committed'
    BY <1>2, <2>2
  <2>4. Holding' /\ Accounted'
    BY <1>0, <1>1, <2>1, HoldDrop
  <2> QED
    BY <2>3, <2>4 DEF HandleInv
<1>6. CASE (MarkOpened(p) \/ UpdateAndOpen(p)) /\ MayOpen(req[p].fid)
  <2>1. PICK x \in Obj : /\ x = table[req[p].fid] /\ IsBound(x) /\ fs[x].state = "allocated"
                         /\ UNCHANGED hopen /\ at[p] \in {"mark", "swap"}
    BY <1>0, <1>6 DEF MayOpen, MarkOpened, UpdateAndOpen, Placed, IsBound
  <2> DEFINE y == [fs[x] EXCEPT !.state = "opened", !.handle = req[p].handle]
             z == [fs[x] EXCEPT !.node = req[p].node, !.state = "opened", !.handle = req[p].handle]
  <2>2. fs[x] \in Fids
    BY <1>0
  <2>3. /\ y.handle = req[p].handle /\ y.state = "opened" /\ y.closing = fs[x].closing
        /\ y.ioRefs = fs[x].ioRefs /\ y.committed = fs[x].committed
    BY <2>2 DEF Fids
  <2>4. /\ z.handle = req[p].handle /\ z.state = "opened" /\ z.closing = fs[x].closing
        /\ z.ioRefs = fs[x].ioRefs /\ z.committed = fs[x].committed
    BY <2>2 DEF Fids
  <2>5. \E l \in {"idle", "inc"}, c \in Calls, v \in {y, z} :
          /\ Went(p, l, c) /\ c.obj \in {Nil, req[p].obj} /\ fs'[x] = v
          /\ \A o \in Obj \ {x} : IsLive(o)' => fs'[o] = fs[o]
    <3>1. CASE MarkOpened(p)
      <4> DEFINE g == [fs EXCEPT ![x].state = "opened", ![x].handle = req[p].handle]
      <4>1. EndWith(p, g)
        BY <1>6, <2>1, <3>1 DEF MarkOpened
      <4>2. g[x] = y /\ \A o \in Obj \ {x} : g[o] = fs[o]
        BY <1>0
      <4> HIDE DEF g, y
      <4>3. /\ Went(p, "idle", Idle) /\ Idle \in Calls /\ Idle.obj = Nil
            /\ \A o \in Obj : IsLive(o)' => fs'[o] = g[o]
        BY <1>1, <4>1, EndLive
      <4>4. IsLive(x)'
        BY <1>1, <2>1 DEF IsLive, IsBound
      <4> QED
        BY <4>2, <4>3, <4>4
    <3>2. CASE UpdateAndOpen(p)
      <4> DEFINE c == [req[p] EXCEPT !.prev = fs[x].node, !.handle = Nil]
      <4>1. /\ fs' = [fs EXCEPT ![x].node = req[p].node, ![x].state = "opened",
                                ![x].handle = req[p].handle]
            /\ req' = [req EXCEPT ![p].prev = fs[x].node, ![p].handle = Nil]
            /\ at' = [at EXCEPT ![p] = "inc"]
        BY <1>6, <2>1, <3>2 DEF UpdateAndOpen, Goto
      <4>2. c \in Calls /\ c.obj = req[p].obj /\ Went(p, "inc", c)
        BY <1>0, <2>2, <4>1 DEF Calls, Fids, Went
      <4>3. fs'[x] = z /\ \A o \in Obj \ {x} : fs'[o] = fs[o]
        BY <1>0, <4>1
      <4> HIDE DEF c, z
      <4> QED
        BY <4>2, <4>3
    <3> QED
      BY <1>6, <3>1, <3>2
  <2> HIDE DEF y, z
  <2>6. PICK l \in {"idle", "inc"}, c \in Calls, v \in {y, z} :
          /\ Went(p, l, c) /\ c.obj \in {Nil, req[p].obj} /\ fs'[x] = v
          /\ \A o \in Obj \ {x} : IsLive(o)' => fs'[o] = fs[o]
    BY <2>5
  <2>7. /\ fs'[x].handle = req[p].handle /\ fs'[x].state = "opened"
        /\ fs'[x].closing = fs[x].closing
        /\ fs'[x].ioRefs = fs[x].ioRefs /\ fs'[x].committed = fs[x].committed
    BY <2>3, <2>4, <2>6
  <2>8. ASSUME NEW o \in Obj, IsLive(o)'
        PROVE (fs'[o].closing <=> fs[o].closing) /\ fs'[o].ioRefs = fs[o].ioRefs
                 /\ (fs'[o].committed <=> fs[o].committed)
    <3>1. CASE o = x
      BY <2>7, <3>1
    <3>2. CASE o # x
      BY <2>6, <2>8, <3>2
    <3> QED
      BY <3>1, <3>2
  <2>9. Phases' /\ Committed'
    BY <1>2, <2>6, <2>8
  <2>10. HoldStore(p, l, c, x)
    BY <1>1, <2>1, <2>6, <2>7 DEF HoldStore
  <2> QED
    BY <1>0, <2>9, <2>10, HoldStoreStep DEF HandleInv
<1> QED
  BY <1>3, <1>4, <1>5, <1>6

\* The extended attributes, and what leads to an I/O call.
LEMMA HandleXattr ==
  ASSUME FidInv, FidInv', HandleInv, NEW p \in Op,
         IOCheck(p) \/ RawXattrWrite(p) \/ XattrCreate(p) \/ (BeginIO(p) /\ fs[req[p].obj].closing)
  PROVE  HandleInv'
<1> USE FidTableAssumption
<1>0. /\ req[p] \in Calls /\ at \in [Op -> Labels] /\ req \in [Op -> Calls]
      /\ fs \in [Obj -> Fids] /\ Placed(at[p], req[p])
      /\ Phases /\ Committed /\ Holding /\ Accounted
  BY DEF FidInv, HandleInv
<1>1. /\ at[p] \in {"got", "xwrite", "xset", "begin"} /\ UNCHANGED <<table, hopen>>
      /\ at[p] \notin {"decref", "finish", "release", "io", "mark", "swap"}
      /\ usurped \subseteq usurped'
  BY DEF IOCheck, RawXattrWrite, BeginIO, XattrCreate, hist
<1>2. PICK x \in Obj : x = req[p].obj /\ x \in LiveObj
  <2>1. req[p].obj \in Obj
    BY <1>0, <1>1 DEF Placed, Phases, Phase, Calls
  <2> QED
    BY <2>1 DEF LiveObj
<1>3. late' \subseteq late \cup {"raw"}
  <2>1. CASE IOCheck(p)
    <3>1. MayAppend(x) => ~fs[x].committed
      BY <1>0, <1>2 DEF MayAppend, Committed
    <3> QED
      BY <1>2, <2>1, <3>1 DEF IOCheck, Late
  <2> QED
    BY <2>1 DEF RawXattrWrite, XattrCreate, BeginIO, Late, hist
<1>4. CASE End(p)
  BY <1>1, <1>3, <1>4, CalmEnd, SameIs DEF End
<1>5. ASSUME NEW y, Same(fs[x], y), EndWith(p, [fs EXCEPT ![x] = y])
      PROVE  HandleInv'
  <2>1. \A o \in Obj : Same(fs[o], [fs EXCEPT ![x] = y][o])
    BY <1>0, <1>5, SameIs
  <2> QED
    BY <1>1, <1>3, <1>5, <2>1, CalmEnd
<1>6. CASE IOCheck(p) /\ ~End(p)
  <2>1. CASE EndWith(p, [fs EXCEPT ![x].xdata = @ + 1])
    <3> DEFINE y == [fs[x] EXCEPT !.xdata = @ + 1]
    <3>1. Same(fs[x], y)
      BY <1>0, SMT DEF Same, Fids
    <3>2. [fs EXCEPT ![x].xdata = @ + 1] = [fs EXCEPT ![x] = y]
      BY <1>0
    <3> HIDE DEF y
    <3> QED
      BY <1>5, <2>1, <3>1, <3>2
  <2>2. CASE ~EndWith(p, [fs EXCEPT ![x].xdata = @ + 1])
    <3>1. /\ UNCHANGED <<fs, req>> /\ at[p] = "got"
          /\ \E l \in {"begin", "xwrite"} : /\ at' = [at EXCEPT ![p] = l]
                                            /\ l = "begin" => fs[x].state = "opened"
      BY <1>2, <1>6, <2>2 DEF IOCheck, Goto
    <3>2. PICK l \in {"begin", "xwrite"} : /\ at' = [at EXCEPT ![p] = l]
                                           /\ l = "begin" => fs[x].state = "opened"
      BY <3>1
    <3>3. Went(p, l, req[p])
      BY <1>0, <3>1, <3>2 DEF Went
    <3>4. l = "begin" => fs[x].handle # Nil
      BY <1>0, <1>2, <3>2 DEF Holding
    <3>5. l \notin {"decref", "finish", "release", "io", "mark", "swap"}
      BY <3>2
    <3>6. Calmly(p, l, req[p])
      BY <1>1, <1>2, <1>3, <3>1, <3>3, <3>4, <3>5, SameIs DEF Calmly
    <3> QED
      BY <1>0, <3>6, CalmStep
  <2> QED
    BY <2>1, <2>2
<1>7. CASE XattrCreate(p) /\ ~End(p)
  <2>1. PICK z \in 0 .. MaxXattr, w \in BOOLEAN :
          EndWith(p, [fs EXCEPT ![x].state = "xattrWrite", ![x].raw = w, ![x].xsize = z,
                                ![x].xdata = 0])
    BY <1>2, <1>7 DEF XattrCreate
  <2>2. fs[x].handle \in usurped' \cup {Nil}
    BY <1>2, <1>7 DEF XattrCreate
  <2> DEFINE y == [fs[x] EXCEPT !.state = "xattrWrite", !.raw = w, !.xsize = z, !.xdata = 0]
  <2>3. Same(fs[x], y)
    <3>1. fs[x] \in Fids
      BY <1>0
    <3>2. /\ y.closing = fs[x].closing /\ y.ioRefs = fs[x].ioRefs /\ y.handle = fs[x].handle
          /\ y.committed = fs[x].committed /\ y.state = "xattrWrite"
      BY <3>1 DEF Fids
    <3> HIDE DEF y
    <3> QED
      BY <2>2, <3>2 DEF Same
  <2>4. [fs EXCEPT ![x].state = "xattrWrite", ![x].raw = w, ![x].xsize = z, ![x].xdata = 0]
          = [fs EXCEPT ![x] = y]
    BY <1>0
  <2> HIDE DEF y
  <2> QED
    BY <1>5, <2>1, <2>3, <2>4
<1> QED
  BY <1>4, <1>6, <1>7 DEF RawXattrWrite, BeginIO

\* A handler that works on the life of fidState x.
HandleMove(p, l, c, x) ==
  /\ PhaseMove(p, l, c, x) /\ HoldKeep(p, l, c) /\ UNCHANGED late
  /\ \A o \in Obj : IsLive(o)' =>
       (fs'[o].committed => fs'[o].closing) \/ (fs'[o].committed => fs[o].committed)

\* Such a handler keeps the whole invariant.
LEMMA HandleMoveStep ==
  ASSUME FidInv, FidInv', HandleInv, NEW p \in Op, NEW l, NEW c \in Calls, NEW x,
         HandleMove(p, l, c, x)
  PROVE  HandleInv'
<1>0. /\ Phases /\ Committed /\ Holding /\ Accounted
      /\ PhaseMove(p, l, c, x) /\ HoldKeep(p, l, c) /\ UNCHANGED late
  BY DEF HandleInv, HandleMove
<1>1. \A o \in Obj : IsLive(o)' => IsLive(o)
  <2>1. \A q \in Op : req'[q] = IF q = p THEN c ELSE req[q]
    BY <1>0 DEF FidInv, PhaseMove, Went
  <2>2. \A o : IsBound(o)' <=> IsBound(o)
    BY <1>0 DEF PhaseMove, IsBound
  <2>3. \A o \in Obj : c.obj = o => req[p].obj = o
    BY <1>0, FidTableAssumption DEF PhaseMove
  <2> QED
    BY <2>1, <2>2, <2>3 DEF IsLive
<1>2. Committed'
  <2>1. \A o \in Obj : IsLive(o)' => (fs[o].closing => fs'[o].closing)
    BY <1>0 DEF HoldKeep
  <2> QED
    BY <1>0, <1>1, <2>1, CommittedStep DEF HandleMove
<1> QED
  BY <1>0, <1>2, PhaseMoveStep, HoldKeepStep DEF HandleInv

\* A step on fidState x that changes at most its ioRefs and raises its flags.
Touch(p, l, c, x) ==
  /\ Went(p, l, c) /\ UNCHANGED <<table, hopen, usurped, late>>
  /\ x = req[p].obj /\ x \in Obj
  /\ c.obj = x \/ (c.obj = Nil /\ l = "idle")
  /\ \A o \in Obj \ {x} : IsLive(o)' => fs'[o] = fs[o]
  /\ IsLive(x)' => /\ fs'[x].handle = fs[x].handle /\ fs'[x].state = fs[x].state
                   /\ fs[x].closing => fs'[x].closing
                   /\ (fs'[x].committed => fs'[x].closing) \/ (fs'[x].committed => fs[x].committed)

\* Such a step keeps the handles accounted for.
LEMMA TouchStep ==
  ASSUME FidInv, FidInv', HandleInv, NEW p \in Op, NEW l, NEW c \in Calls, NEW x,
         Touch(p, l, c, x), PhaseMove(p, l, c, x),
         at[p] \in {"begin", "io", "decref", "finish"},
         l = "io" => c.handle = fs[x].handle /\ fs[x].handle # Nil,
         l \in {"io", "release"} => fs[x].handle \in hopen \cup {Nil},
         at[p] = "begin" => l = "io",
         \/ l # "idle"
         \/ IsBound(x) \/ fs[x].handle \in usurped \cup {Nil}
         \/ \E q \in Op \ {p} : at[q] \in Minding /\ req[q].obj = x
  PROVE  HandleInv'
<1> USE FidTableAssumption
<1>1. \A o \in Obj : IsLive(o)' =>
       /\ fs'[o].handle = fs[o].handle /\ fs'[o].state = fs[o].state
       /\ fs[o].closing => fs'[o].closing
       /\ (fs'[o].committed => fs'[o].closing) \/ (fs'[o].committed => fs[o].committed)
  <2> SUFFICES ASSUME NEW o \in Obj, IsLive(o)'
               PROVE  /\ fs'[o].handle = fs[o].handle /\ fs'[o].state = fs[o].state
                      /\ fs[o].closing => fs'[o].closing
                      /\ \/ fs'[o].committed => fs'[o].closing
                         \/ fs'[o].committed => fs[o].committed
    OBVIOUS
  <2>1. CASE o = x
    BY <2>1 DEF Touch
  <2>2. CASE o # x
    <3>1. fs'[o] = fs[o]
      BY <2>2 DEF Touch
    <3> QED
      BY <3>1
  <2> QED
    BY <2>1, <2>2
<1>2. /\ x = req[p].obj /\ x \in Obj /\ at[p] \notin {"mark", "swap"} /\ l \notin {"mark", "swap", "begin"}
      /\ l \in {"idle", "io", "finish", "release"}
      /\ l # "idle" => c.obj = x /\ l \in Minding
  BY DEF Touch, PhaseMove, Minding
<1>3. /\ l \in {"begin", "io"} => c.obj \in Obj /\ fs[c.obj].handle # Nil
      /\ l = "io" => c.handle = fs[c.obj].handle
      /\ l \in {"io", "release"} => c.obj \in Obj /\ fs[c.obj].handle \in hopen \cup {Nil}
  <2>1. l \in {"io", "release"} => c.obj = x
    BY <1>2
  <2> QED
    BY <1>2, <2>1
<1>4. at[p] \in Minding =>
       \/ l \in Minding /\ c.obj = req[p].obj
       \/ IsBound(req[p].obj)
       \/ fs[req[p].obj].handle \in usurped \cup {Nil}
       \/ \E q \in Op \ {p} : at[q] \in Minding /\ req[q].obj = req[p].obj
  BY <1>2
<1>5. HoldKeep(p, l, c)
  <2>1. c.obj \in {Nil, req[p].obj}
    BY <1>2 DEF Touch
  <2> QED
    BY <1>1, <1>2, <1>3, <1>4, <2>1 DEF HoldKeep, Touch
<1>6. HandleMove(p, l, c, x)
  BY <1>1, <1>5 DEF HandleMove, Touch
<1> QED
  BY <1>6, HandleMoveStep

\* beginIO and endIO.
LEMMA HandleIO ==
  ASSUME FidInv, FidInv', HandleInv, NEW p \in Op,
         (BeginIO(p) /\ ~fs[req[p].obj].closing) \/ EndIO(p)
  PROVE  HandleInv'
<1> USE FidTableAssumption
<1>0. /\ req[p] \in Calls /\ at \in [Op -> Labels] /\ req \in [Op -> Calls]
      /\ fs \in [Obj -> Fids] /\ Placed(at[p], req[p])
      /\ Phases /\ Committed /\ Holding /\ Accounted
  BY DEF FidInv, HandleInv
<1>1. /\ at[p] \in {"begin", "io"} /\ UNCHANGED <<table, hopen, usurped, late>>
  BY DEF BeginIO, EndIO, hist
<1>2. PICK x \in Obj : /\ x = req[p].obj /\ x \in LiveObj /\ fs[x] \in Fids /\ fs[x].ioRefs \in Int
                       /\ fs[x].handle # Nil /\ Phase(p, x)
  <2>1. req[p].obj \in Obj /\ fs[req[p].obj].handle # Nil /\ Phase(p, req[p].obj)
    BY <1>0, <1>1 DEF Placed, Holding, Phases
  <2> QED
    BY <1>0, <2>1 DEF LiveObj, Fids
<1>3. ASSUME NEW k \in Int,
             LET y == [fs[x] EXCEPT !.ioRefs = k] IN
             \/ fs' = [fs EXCEPT ![x] = y] \/ EndWith(p, [fs EXCEPT ![x] = y])
      PROVE  /\ \A o \in Obj \ {x} : IsLive(o)' => fs'[o] = fs[o]
             /\ IsLive(x)' => /\ fs'[x].handle = fs[x].handle /\ fs'[x].state = fs[x].state
                              /\ fs'[x].closing = fs[x].closing
                              /\ fs'[x].committed = fs[x].committed
                              /\ fs'[x].ioRefs = k
  <2> DEFINE y == [fs[x] EXCEPT !.ioRefs = k]
  <2>1. /\ y.handle = fs[x].handle /\ y.state = fs[x].state /\ y.closing = fs[x].closing
        /\ y.committed = fs[x].committed /\ y.ioRefs = k
    BY <1>2 DEF Fids
  <2>2. \/ fs' = [fs EXCEPT ![x] = y] \/ EndWith(p, [fs EXCEPT ![x] = y])
    BY <1>3
  <2> HIDE DEF y
  <2>3. \A o \in Obj : IsLive(o)' => fs'[o] = [fs EXCEPT ![x] = y][o]
    BY <1>1, <2>2, EndLive
  <2> QED
    BY <1>0, <2>1, <2>3
<1>4. CASE BeginIO(p) /\ ~fs[req[p].obj].closing
  <2> DEFINE c == [req[p] EXCEPT !.handle = fs[x].handle]
             k == fs[x].ioRefs + 1
  <2>1. /\ at[p] = "begin" /\ ~fs[x].closing /\ at' = [at EXCEPT ![p] = "io"]
        /\ fs' = [fs EXCEPT ![x].ioRefs = @ + 1]
        /\ req' = [req EXCEPT ![p].handle = fs[x].handle]
    BY <1>2, <1>4 DEF BeginIO, Goto
  <2>2. c \in Calls /\ c.obj = x /\ c.handle = fs[x].handle /\ Went(p, "io", c)
    BY <1>0, <1>2, <2>1 DEF Calls, Fids, Went
  <2>3. fs' = [fs EXCEPT ![x] = [fs[x] EXCEPT !.ioRefs = k]]
    BY <1>0, <2>1
  <2>4. k \in Int /\ k = fs[x].ioRefs + One("io" = "io") - One(at[p] = "io")
    BY <1>2, <2>1, SMT DEF One
  <2> HIDE DEF c, k
  <2>5. /\ \A o \in Obj \ {x} : IsLive(o)' => fs'[o] = fs[o]
        /\ IsLive(x)' => /\ fs'[x].handle = fs[x].handle /\ fs'[x].state = fs[x].state
                         /\ fs'[x].closing = fs[x].closing
                         /\ fs'[x].committed = fs[x].committed
                         /\ fs'[x].ioRefs = k
    BY <1>3, <2>3, <2>4
  <2>6. fs[x].handle \in hopen
    BY <1>0, <1>2, <2>1 DEF Holding
  <2>7. Touch(p, "io", c, x)
    BY <1>1, <1>2, <2>2, <2>5 DEF Touch
  <2>8. PhaseMove(p, "io", c, x)
    BY <1>1, <1>2, <2>1, <2>2, <2>4, <2>5 DEF PhaseMove, Clunking
  <2> QED
    BY <1>2, <2>1, <2>2, <2>6, <2>7, <2>8, TouchStep
<1>5. CASE EndIO(p)
  <2> DEFINE k == fs[x].ioRefs - 1
             y == [fs[x] EXCEPT !.ioRefs = k]
             c == [req[p] EXCEPT !.last = fs[x].closeNode, !.handle = Nil]
  <2>1. /\ at[p] = "io"
        /\ IF fs[x].closing /\ fs[x].ioRefs = 1
           THEN /\ fs' = [fs EXCEPT ![x].ioRefs = @ - 1] /\ at' = [at EXCEPT ![p] = "release"]
                /\ req' = [req EXCEPT ![p].last = fs[x].closeNode, ![p].handle = Nil]
           ELSE EndWith(p, [fs EXCEPT ![x].ioRefs = @ - 1])
    BY <1>2, <1>5 DEF EndIO, Goto
  <2>2. [fs EXCEPT ![x].ioRefs = @ - 1] = [fs EXCEPT ![x] = y]
    BY <1>0
  <2>3. c \in Calls /\ c.obj = x
    BY <1>0, <1>2 DEF Calls, Fids
  <2>4. k \in Int /\ fs[x].ioRefs = Cardinality(On(x, {"io"})) /\ p \in On(x, {"io"})
        /\ IsFiniteSet(On(x, {"io"}))
    <3>1. k \in Int
      BY <1>2, SMT
    <3> QED
      BY <1>0, <1>2, <2>1, <3>1, FS_Subset DEF Phases, On
  <2>5. fs[x].ioRefs # 0
    BY <2>4, FS_EmptySet
  <2>6. /\ k = fs[x].ioRefs + One("release" = "io") - One(at[p] = "io")
        /\ k = fs[x].ioRefs + One("idle" = "io") - One(at[p] = "io")
        /\ fs[x].ioRefs = 1 => k = 0
    BY <1>2, <2>1, SMT DEF One
  <2>7. fs[x].handle \in hopen
    <3>1. p \in On(x, {"io", "release"})
      BY <1>2, <2>1 DEF On
    <3> QED
      BY <1>0, <1>2, <3>1 DEF Holding
  <2> HIDE DEF c, k
  <2>8. /\ \A o \in Obj \ {x} : IsLive(o)' => fs'[o] = fs[o]
        /\ IsLive(x)' => /\ fs'[x].handle = fs[x].handle /\ fs'[x].state = fs[x].state
                         /\ fs'[x].closing = fs[x].closing
                         /\ fs'[x].committed = fs[x].committed
                         /\ fs'[x].ioRefs = k
    <3>1. fs' = [fs EXCEPT ![x] = y] \/ EndWith(p, [fs EXCEPT ![x] = y])
      BY <2>1, <2>2
    <3> QED
      BY <1>3, <2>4, <3>1
  <2> HIDE DEF y
  <2>9. CASE fs[x].closing /\ fs[x].ioRefs = 1
    <3>1. Went(p, "release", c)
      BY <1>0, <2>1, <2>9 DEF Went, c
    <3>2. IsLive(x)'
      BY <1>0, <2>3, <3>1 DEF IsLive, Went
    <3>3. Touch(p, "release", c, x)
      BY <1>1, <1>2, <2>3, <2>8, <3>1 DEF Touch
    <3>4. PhaseMove(p, "release", c, x)
      BY <1>1, <1>2, <2>1, <2>3, <2>5, <2>6, <2>8, <2>9, <3>1, <3>2 DEF PhaseMove, Clunking
    <3> QED
      BY <1>2, <2>1, <2>3, <2>7, <3>3, <3>4, TouchStep
  <2>10. CASE ~(fs[x].closing /\ fs[x].ioRefs = 1)
    <3>1. Went(p, "idle", Idle) /\ Idle \in Calls /\ Idle.obj = Nil
      BY <1>1, <2>1, <2>10, EndLive
    <3>2. Touch(p, "idle", Idle, x)
      BY <1>1, <1>2, <2>8, <3>1 DEF Touch
    <3>3. PhaseMove(p, "idle", Idle, x)
      BY <1>1, <1>2, <2>1, <2>5, <2>6, <2>8, <3>1 DEF PhaseMove, Clunking
    <3>4. IsBound(x) \/ \E q \in Op \ {p} : at[q] \in Minding /\ req[q].obj = x
      <4>1. CASE ~fs[x].closing
        <5>1. IsBound(x) \/ On(x, {"decref", "finish"}) # {}
          BY <1>2, <4>1 DEF Phase
        <5> QED
          BY <2>1, <5>1 DEF On, Minding
      <4>2. CASE fs[x].ioRefs # 1
        <5>1. On(x, {"io"}) # {p}
          BY <2>4, <4>2, FS_Singleton
        <5> QED
          BY <2>4, <5>1 DEF On, Minding
      <4> QED
        BY <2>10, <4>1, <4>2
    <3> QED
      BY <1>2, <2>1, <3>1, <3>2, <3>3, <3>4, TouchStep
  <2> QED
    BY <2>9, <2>10
<1> QED
  BY <1>4, <1>5

\* The rest of a clunk: the count, then the commit or the release.
LEMMA HandleFinish ==
  ASSUME FidInv, FidInv', HandleInv, NEW p \in Op, DecRef(p) \/ CommitXattr(p) \/ FinishClunk(p)
  PROVE  HandleInv'
<1> USE FidTableAssumption
<1>0. /\ req[p] \in Calls /\ at \in [Op -> Labels] /\ req \in [Op -> Calls]
      /\ fs \in [Obj -> Fids] /\ Placed(at[p], req[p])
      /\ Phases /\ Committed /\ Holding /\ Accounted
  BY DEF FidInv, HandleInv
<1>1. /\ at[p] \in {"decref", "finish"} /\ UNCHANGED <<table, hopen, usurped, late>>
  BY DEF DecRef, CommitXattr, FinishClunk, hist
<1>2. PICK x \in Obj : /\ x = req[p].obj /\ x \in LiveObj /\ fs[x] \in Fids /\ fs[x].ioRefs \in Int
                       /\ Phase(p, x) /\ ~fs[x].closing /\ ~IsBound(x)
                       /\ fs[x].handle \in hopen \cup {Nil}
  <2>1. /\ req[p].obj \in Obj /\ Phase(p, req[p].obj) /\ ~IsBound(req[p].obj)
        /\ ~fs[req[p].obj].closing /\ req[p].obj \in LiveObj
    BY <1>0, <1>1 DEF Placed, Phases, Phase, LiveObj
  <2>2. fs[req[p].obj] \in Fids /\ fs[req[p].obj].ioRefs \in Int
    BY <1>0, <2>1 DEF Fids
  <2>3. fs[req[p].obj].handle \in hopen \cup {Nil}
    BY <1>0, <2>1 DEF Holding
  <2> QED
    BY <2>1, <2>2, <2>3
<1>3. ASSUME NEW y, fs' = [fs EXCEPT ![x] = y] \/ EndWith(p, [fs EXCEPT ![x] = y]),
             /\ y.handle = fs[x].handle /\ y.state = fs[x].state /\ y.ioRefs = fs[x].ioRefs
             /\ y.closing = TRUE
      PROVE  /\ \A o \in Obj \ {x} : IsLive(o)' => fs'[o] = fs[o]
             /\ IsLive(x)' => /\ fs'[x].handle = fs[x].handle /\ fs'[x].state = fs[x].state
                              /\ fs'[x].closing = TRUE /\ fs'[x].ioRefs = fs[x].ioRefs
  <2>1. \A o \in Obj : IsLive(o)' => fs'[o] = [fs EXCEPT ![x] = y][o]
    BY <1>1, <1>3, EndLive
  <2> QED
    BY <1>0, <1>3, <2>1
<1>4. \A l \in {"idle", "finish", "release"} :
        at[p] \in {"decref", "finish"} => fs[x].ioRefs = fs[x].ioRefs + One(l = "io") - One(at[p] = "io")
  BY <1>2, SMT DEF One
<1>5. CASE DecRef(p)
  <2> DEFINE c == [req[p] EXCEPT !.last = refs[fs[x].node] = 1]
  <2>1. /\ at[p] = "decref" /\ UNCHANGED fs /\ Went(p, "finish", c)
    BY <1>0, <1>2, <1>5 DEF DecRef, Goto, Went
  <2>2. c \in Calls /\ c.obj = x
    BY <1>0, <1>2 DEF Calls
  <2> HIDE DEF c
  <2>3. Touch(p, "finish", c, x)
    BY <1>1, <1>2, <2>1, <2>2 DEF Touch
  <2>4. PhaseMove(p, "finish", c, x)
    BY <1>1, <1>2, <1>4, <2>1, <2>2 DEF PhaseMove, Clunking
  <2> QED
    BY <1>2, <2>1, <2>2, <2>3, <2>4, TouchStep
<1>6. ASSUME NEW y, EndWith(p, [fs EXCEPT ![x] = y]), at[p] = "finish",
             /\ y.handle = fs[x].handle /\ y.state = fs[x].state /\ y.ioRefs = fs[x].ioRefs
             /\ y.closing = TRUE,
             \/ fs[x].handle \in usurped \cup {Nil}
             \/ \E q \in Op \ {p} : at[q] \in Minding /\ req[q].obj = x
      PROVE  HandleInv'
  <2>1. Went(p, "idle", Idle) /\ Idle \in Calls /\ Idle.obj = Nil
    BY <1>1, <1>6, EndLive
  <2>2. /\ \A o \in Obj \ {x} : IsLive(o)' => fs'[o] = fs[o]
        /\ IsLive(x)' => /\ fs'[x].handle = fs[x].handle /\ fs'[x].state = fs[x].state
                         /\ fs'[x].closing = TRUE /\ fs'[x].ioRefs = fs[x].ioRefs
    BY <1>3, <1>6
  <2>3. Touch(p, "idle", Idle, x)
    BY <1>1, <1>2, <2>1, <2>2 DEF Touch
  <2>4. PhaseMove(p, "idle", Idle, x)
    BY <1>1, <1>2, <1>4, <1>6, <2>1, <2>2 DEF PhaseMove, Clunking
  <2> QED
    BY <1>2, <1>6, <2>1, <2>3, <2>4, TouchStep
<1>7. CASE CommitXattr(p)
  <2> DEFINE y == [fs[x] EXCEPT !.closing = TRUE, !.committed = TRUE]
  <2>1. /\ EndWith(p, [fs EXCEPT ![x].closing = TRUE, ![x].committed = TRUE])
        /\ at[p] = "finish" /\ fs[x].state = "xattrWrite"
    BY <1>2, <1>7 DEF CommitXattr
  <2>2. [fs EXCEPT ![x].closing = TRUE, ![x].committed = TRUE] = [fs EXCEPT ![x] = y]
    BY <1>0
  <2>3. /\ y.handle = fs[x].handle /\ y.state = fs[x].state /\ y.ioRefs = fs[x].ioRefs
        /\ y.closing = TRUE
    BY <1>2 DEF Fids
  <2>4. fs[x].handle \in usurped \cup {Nil}
    BY <1>0, <1>2, <2>1 DEF Holding
  <2> HIDE DEF y
  <2> QED
    BY <1>6, <2>1, <2>2, <2>3, <2>4
<1>8. CASE FinishClunk(p)
  <2> DEFINE y == [fs[x] EXCEPT !.closing = TRUE, !.closeNode = req[p].last]
             g == [fs EXCEPT ![x].closing = TRUE, ![x].closeNode = req[p].last]
  <2>1. /\ at[p] = "finish"
        /\ IF fs[x].ioRefs = 0 THEN fs' = g /\ at' = [at EXCEPT ![p] = "release"] /\ UNCHANGED req
                               ELSE EndWith(p, g)
    BY <1>2, <1>8 DEF FinishClunk, ReleasesNow, Goto
  <2>2. g = [fs EXCEPT ![x] = y]
    BY <1>0
  <2>3. /\ y.handle = fs[x].handle /\ y.state = fs[x].state /\ y.ioRefs = fs[x].ioRefs
        /\ y.closing = TRUE
    BY <1>2 DEF Fids
  <2> HIDE DEF y, g
  <2>4. CASE fs[x].ioRefs # 0
    <3>1. On(x, {"io"}) # {}
      BY <1>0, <1>2, <2>4, FS_EmptySet DEF Phases
    <3>2. \E q \in Op \ {p} : at[q] \in Minding /\ req[q].obj = x
      BY <2>1, <3>1 DEF On, Minding
    <3> QED
      BY <1>6, <2>1, <2>2, <2>3, <2>4, <3>2
  <2>5. CASE fs[x].ioRefs = 0
    <3>1. Went(p, "release", req[p]) /\ req[p] \in Calls
      BY <1>0, <2>1, <2>5 DEF Went
    <3>2. /\ \A o \in Obj \ {x} : IsLive(o)' => fs'[o] = fs[o]
          /\ IsLive(x)' => /\ fs'[x].handle = fs[x].handle /\ fs'[x].state = fs[x].state
                           /\ fs'[x].closing = TRUE /\ fs'[x].ioRefs = fs[x].ioRefs
      BY <1>3, <2>1, <2>2, <2>3, <2>5
    <3>3. IsLive(x)'
      BY <1>2, <2>1, <2>5 DEF IsLive
    <3>4. Touch(p, "release", req[p], x)
      BY <1>1, <1>2, <3>1, <3>2 DEF Touch
    <3>5. fs[x].ioRefs \in Int /\ One(FALSE) = 0 /\ \A k \in Int : k = k + 0 - 0
      BY <1>2, SMT DEF Fids, One
    <3>6. fs'[x].ioRefs = fs[x].ioRefs + One("release" = "io") - One(at[p] = "io")
      BY <2>1, <3>2, <3>3, <3>5
    <3>7. PhaseMove(p, "release", req[p], x)
      BY <1>1, <1>2, <2>1, <2>5, <3>1, <3>2, <3>3, <3>6 DEF PhaseMove, Clunking
    <3> QED
      BY <1>2, <2>1, <3>1, <3>4, <3>7, TouchStep
  <2> QED
    BY <2>4, <2>5
<1> QED
  BY <1>5, <1>7, <1>8

\* The release, the clunk and the end of the session.
LEMMA HandleEnd ==
  ASSUME FidInv, FidInv', HandleInv,
         \/ \E p \in Op : ReleaseNow(p)
         \/ \E p \in Op, k \in Kinds, f \in Fid : Clunk(p, k, f)
         \/ ClunkAll
  PROVE  HandleInv'
<1> USE FidTableAssumption
<1>0. Phases /\ Committed /\ Holding /\ Accounted /\ fs \in [Obj -> Fids] /\ req \in [Op -> Calls]
  BY DEF FidInv, HandleInv
<1>1. ASSUME NEW p \in Op, ReleaseNow(p)
      PROVE  HandleInv'
  <2>1. Holding' /\ Accounted'
    BY <1>0, <1>1, HoldRelease
  <2>2. /\ at[p] = "release" /\ End(p) /\ UNCHANGED <<table, late>>
    BY <1>1 DEF ReleaseNow, hist
  <2>3. /\ Went(p, "idle", Idle) /\ Idle \in Calls /\ Idle.obj = Nil
        /\ \A o \in Obj : IsLive(o)' => fs'[o] = fs[o]
    BY <2>2, EndLive DEF End
  <2>4. PICK x \in Obj : x = req[p].obj /\ fs[x] \in Fids /\ fs[x].ioRefs \in Int
    BY <1>0, <2>2 DEF Phases, Phase, Calls, Fids
  <2>5. fs[x].ioRefs = fs[x].ioRefs + One("idle" = "io") - One(at[p] = "io")
    BY <2>2, <2>4, SMT DEF One
  <2>6. PhaseMove(p, "idle", Idle, x)
    BY <2>2, <2>3, <2>4, <2>5 DEF PhaseMove, Clunking
  <2>7. \A o \in Obj : IsLive(o)' => IsLive(o)
    <3>1. \A q \in Op : req'[q] = IF q = p THEN Idle ELSE req[q]
      BY <1>0, <2>3 DEF Went
    <3>2. \A o : IsBound(o)' <=> IsBound(o)
      BY <2>2 DEF IsBound
    <3> QED
      BY <2>3, <3>1, <3>2 DEF IsLive
  <2>8. Committed'
    BY <1>0, <2>2, <2>3, <2>7, CommittedStep
  <2> QED
    BY <1>0, <2>1, <2>3, <2>6, <2>8, PhaseMoveStep DEF HandleInv
<1>2. ASSUME NEW p \in Op, NEW k \in Kinds, NEW f \in Fid, Clunk(p, k, f)
      PROVE  HandleInv'
  <2>1. Phases' /\ Holding' /\ Accounted'
    BY <1>0, <1>2, PhaseClunk, HoldClunk
  <2>2. UNCHANGED <<fs, late>> /\ table[f] # Nil
    BY <1>2 DEF Clunk, hist
  <2>3. \A o \in Obj : IsLive(o)' => IsLive(o)
    <3> DEFINE c == [Idle EXCEPT !.kind = k, !.obj = table[f]]
    <3>1. \A q \in Op : req'[q] = IF q = p THEN c ELSE req[q]
      BY <1>0, <1>2 DEF Clunk
    <3>2. c.obj = table[f]
      BY DEF Idle
    <3> HIDE DEF c
    <3>3. \A o : o # Nil => (IsBound(o)' => IsBound(o))
      BY <1>2 DEF IsBound, Clunk, FidInv
    <3> QED
      BY <3>1, <3>2, <3>3 DEF IsLive, IsBound
  <2>4. Committed'
    BY <1>0, <2>2, <2>3, CommittedStep
  <2> QED
    BY <2>1, <2>4 DEF HandleInv
<1>3. CASE ClunkAll
  <2>1. UNCHANGED late /\ \A o \in Obj : fs'[o] = Blank
    BY <1>3 DEF ClunkAll, hist
  <2>2. ~Blank.committed
    BY DEF Blank, NewFidState
  <2>3. Committed'
    BY <1>0, <2>1, <2>2, CommittedStep
  <2> QED
    BY <1>0, <1>3, <2>3, PhaseClunkAll, HoldClunkAll DEF HandleInv
<1> QED
  BY <1>1, <1>2, <1>3

\* A new connection has neither fids nor handles.
LEMMA HandleInit == Init => HandleInv
<1> SUFFICES ASSUME Init PROVE HandleInv
  OBVIOUS
<1>1. /\ \A p \in Op : at[p] = "idle" /\ req[p].obj = Nil
      /\ \A f \in Fid : table[f] = Nil
      /\ hopen = {} /\ late = {}
  BY DEF Init, Idle
<1>2. LiveObj = {} /\ Bound = {} /\ Holder = {}
  BY <1>1 DEF LiveObj, Bound, Holder
<1>3. \A p \in Op : Phase(p, req[p].obj)
  BY <1>1 DEF Phase
<1>4. Phases
  BY <1>1, <1>2, <1>3 DEF Phases
<1> QED
  BY <1>1, <1>2, <1>4 DEF HandleInv, Committed, CommitIsFinalUnlessRaw, Holding, Accounted

\* One step of any handler, or the end of the session.
LEMMA HandleStep == FidInv /\ HandleInv /\ FidInv' /\ [Next]_vars => HandleInv'
<1> SUFFICES ASSUME FidInv, FidInv', HandleInv, [Next]_vars PROVE HandleInv'
  BY SMT
<1>1. CASE UNCHANGED vars
  <2>1. UNCHANGED <<table, fs, at, req, hopen, usurped, late>>
    BY <1>1 DEF vars, hist
  <2>2. /\ LiveObj' = LiveObj /\ Bound' = Bound /\ Holder' = Holder
        /\ \A o : (IsBound(o)' <=> IsBound(o)) /\ \A L : On(o, L)' = On(o, L)
    BY <2>1 DEF LiveObj, Bound, Holder, IsBound, On
  <2>3. \A p \in Op : Phase(p, req[p].obj) => Phase(p, req[p].obj)'
    BY <2>1, <2>2 DEF Phase
  <2>4. Phases'
    BY <2>1, <2>2, <2>3 DEF HandleInv, Phases
  <2>5. Committed'
    BY <2>1, <2>2 DEF HandleInv, Committed, CommitIsFinalUnlessRaw
  <2>6. Holding'
    BY <2>1, <2>2 DEF HandleInv, Holding
  <2>7. Accounted'
    BY <2>1, <2>2 DEF HandleInv, Accounted
  <2> QED
    BY <2>4, <2>5, <2>6, <2>7 DEF HandleInv
<1>2. ASSUME NEW p \in Op, Request(p)
      PROVE  HandleInv'
  <2>1. ASSUME NEW f \in Fid, Attach(p, f)
        PROVE  HandleInv'
    BY <2>1, HandleBind
  <2>2. ASSUME NEW f \in Fid, NEW g \in Fid \cup {Nil}, NEW k \in Kinds, Get(p, k, f, g)
        PROVE  HandleInv'
    BY <2>2, CalmWalk
  <2>3. ASSUME NEW f \in Fid, NEW k \in {"clunk", "remove"}, Clunk(p, k, f)
        PROVE  HandleInv'
    BY <2>3, HandleEnd DEF Kinds
  <2> QED
    BY <1>2, <2>1, <2>2, <2>3 DEF Request, Kinds
<1>3. ASSUME NEW p \in Op, Step(p)
      PROVE  HandleInv'
  BY <1>3, CalmWalk, HandleBind, HandleOpen, HandleXattr, HandleIO, HandleFinish, HandleEnd DEF Step
<1> QED
  BY <1>1, <1>2, <1>3, HandleEnd DEF Next

\* No handler is left with a handle that a clunk has released, none is released
\* twice, and every open one is going to be released, unless Txattrcreate took the fid
\* over after it was opened (beginIO, endIO, finishClunk, markOpenedWithHandle).
THEOREM HandlesAccounted == Spec => []HandleAccountedUnlessUsurped
<1>1. FidInv /\ HandleInv => HandleAccountedUnlessUsurped
  <2> SUFFICES ASSUME FidInv, Phases, Holding, Accounted PROVE HandleAccountedUnlessUsurped
    BY DEF HandleInv
  <2>1. \A p \in Op : req[p].obj # Nil => req[p].obj \in LiveObj
    BY DEF LiveObj
  <2>2. ASSUME NEW p \in Op, at[p] \in {"io", "release"}, fs[req[p].obj].handle # Nil
        PROVE  fs[req[p].obj].handle \in hopen
    <3>1. req[p].obj # Nil
      BY <2>2, FidTableAssumption, NilPlaces DEF FidInv, Placed
    <3>2. p \in On(req[p].obj, {"io", "release"})
      BY <2>2 DEF On
    <3> QED
      BY <2>1, <2>2, <3>1, <3>2 DEF Holding
  <2>3. HandleReleasedOnce
    BY <2>2 DEF HandleReleasedOnce, Holding
  <2>4. NoHandleLeakUnlessUsurped
    BY DEF NoHandleLeakUnlessUsurped, Accounted, LiveHandle, Holder
  <2> QED
    BY <2>3, <2>4 DEF HandleAccountedUnlessUsurped
<1> QED
  BY <1>1, FidInit, FidStep, HandleInit, HandleStep, PTL DEF Spec

\* No buffered write of an extended attribute is acknowledged after handleClunk took the
\* buffer: the flag that keeps writers out is raised in the same critical section.
THEOREM CommitFinal == Spec => []CommitIsFinalUnlessRaw
<1>1. HandleInv => CommitIsFinalUnlessRaw
  BY DEF HandleInv, Committed
<1> QED
  BY <1>1, FidInit, FidStep, HandleInit, HandleStep, PTL DEF Spec
=============================================================================
