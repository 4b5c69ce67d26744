--------------------------- MODULE FidNodeProofs ---------------------------
(***************************************************************************)
(* Every node is closed when the last fid has left it and not before, for  *)
(* any number of handlers, fids, fidStates, nodes and handles.  With exact *)
(* counts (FidTableProofs), who sees zero knows that no fid has the node;  *)
(* the node of a walk is nobody else's until it is bound (NodeInv).        *)
(***************************************************************************)
EXTENDS FidTableProofs

USE Zenon   \* a leaf that needs arithmetic names SMT

(* When a node is closed. *)

\* Handlers that have a node nobody else has: a walk that has looked it up, a create.
Walked(p) == at[p] = "swap" \/ (at[p] = "bind" /\ req[p].kind = "walk")

\* Such a node is open, and neither a fidState nor another handler has it.  Only
\* walks look up.
Private ==
  \A p \in Op :
    /\ at[p] = "lookup" => req[p].kind = "walk"
    /\ Walked(p) =>
         /\ req[p].node \in nopen \ {Root, req[p].prev}
         /\ \A o \in LiveObj : fs[o].node # req[p].node
         /\ \A q \in Op \ {p} : req[p].node # req[q].node /\ req[p].node # req[q].prev

\* Handler p has seen the last reference to n go, or will close n for who has.
Closes(p, n) ==
  /\ \/ at[p] \in {"finish", "release"} /\ req[p].last
     \/ at[p] = "io" /\ fs[req[p].obj].closeNode
  /\ fs[req[p].obj].node = n

\* Handler p has n in its hands or is to count it.
Minds(p, n) ==
  \/ Walked(p) /\ req[p].node = n
  \/ at[p] \in {"inc", "dec"} /\ req[p].prev = n
  \/ at[p] = "inc" /\ req[p].node = n
  \/ at[p] = "decref" /\ fs[req[p].obj].node = n

\* Node n is or may yet be bound; it is to be closed; somebody will see to it.
Usable(n) == BoundTo(n) # {} \/ Binding(n) # {}
Doomed(n) == \E p \in Op : Closes(p, n)
Kept(n) == BoundTo(n) # {} \/ \E p \in Op : Closes(p, n) \/ Minds(p, n)

\* A node that a fid has or may get is open, and nobody is about to close it.
NodesOpen ==
  \A n \in Node \ (raced \cup {Root}) : Usable(n) => n \in nopen /\ ~Doomed(n)

\* An open node has a fid, or a handler that will close it or find it counted.
NodesKept == \A n \in nopen : n \in spilled \cup {Root} \/ Kept(n)

\* Only the last reference makes the last I/O call close the node.
Flags == \A o \in LiveObj : fs[o].closeNode => fs[o].closing

NodeInv == nopen \subseteq Node /\ Flags /\ Private /\ NodesOpen /\ NodesKept

-----------------------------------------------------------------------------
(* Counting *)

\* A node that no fid has and nobody is to count has no references.
LEMMA NoneCounted ==
  ASSUME FidInv, NEW n \in Node, BoundTo(n) = {}, Incs(n) = {}, Decs(n) = {}, Prevs(n) = {}
  PROVE  refs[n] = 0
<1>1. refs[n] + Cardinality({}) = Cardinality({}) + (Cardinality({}) + Cardinality({}))
  BY DEF FidInv, RefsExact, Count, Dropping, Incs, Decs, Prevs
<1>2. refs[n] \in Int
  BY DEF FidInv
<1> QED
  BY <1>1, <1>2, FS_EmptySet, SMT

\* The same after a step.
LEMMA NoneCountedNext ==
  ASSUME FidInv', NEW n \in Node, BoundTo(n)' = {}, Incs(n)' = {}, Decs(n)' = {}, Prevs(n)' = {}
  PROVE  refs'[n] = 0
<1>1. refs'[n] + Cardinality({}) = Cardinality({}) + (Cardinality({}) + Cardinality({}))
  BY DEF FidInv, RefsExact, Count, Dropping, Incs, Decs, Prevs
<1>2. refs'[n] \in Int
  BY DEF FidInv
<1> QED
  BY <1>1, <1>2, FS_EmptySet, SMT

\* If three numbers add up to 0, the first is 0.
LEMMA SumZero ==
  ASSUME NEW i \in Nat, NEW j \in Nat, NEW k \in Nat, NEW z, z = 0, 0 + z = i + (j + k)
  PROVE  i = 0
  BY SMT

\* A node without references, which nobody is about to count, has no fid.
LEMMA ZeroUnbound ==
  ASSUME FidInv', NEW n \in Node, refs'[n] = 0, Incs(n)' = {}
  PROVE  BoundTo(n)' = {}
<1>1. /\ IsFiniteSet(BoundTo(n)') /\ IsFiniteSet(Decs(n)') /\ IsFiniteSet(Prevs(n)')
  BY FidTableAssumption, FS_Subset DEF BoundTo, Bound, Decs, Prevs
<1>2. /\ Cardinality(BoundTo(n)') \in Nat /\ Cardinality(Decs(n)') \in Nat
      /\ Cardinality(Prevs(n)') \in Nat /\ Cardinality({}) = 0
  BY <1>1, FS_CardinalityType, FS_EmptySet
<1>3. 0 + Cardinality({}) = Cardinality(BoundTo(n)') + (Cardinality(Decs(n)') + Cardinality(Prevs(n)'))
  BY DEF FidInv, RefsExact, Count, Dropping, Incs, Decs, Prevs
<1>4. Cardinality(BoundTo(n)') = 0
  BY <1>2, <1>3, SumZero
<1> QED
  BY <1>1, <1>4, FS_EmptySet

\* The same where nobody minds the node.
LEMMA UnmindedNext ==
  ASSUME FidInv', NEW n \in Node, BoundTo(n)' = {}, \A q \in Op : ~Minds(q, n)'
  PROVE  refs'[n] = 0
<1>1. Incs(n)' = {} /\ Decs(n)' = {} /\ Prevs(n)' = {}
  BY DEF Incs, Decs, Prevs, Minds
<1> QED
  BY <1>1, NoneCountedNext

\* A handler's fidState is live where its handler looks at it.
LEMMA HasObj ==
  ASSUME FidInv, Phases, NEW q \in Op, at[q] \in {"got", "begin", "io", "decref", "finish", "release"}
  PROVE  req[q].obj \in LiveObj /\ req[q].obj \in Obj
<1>1. req[q].obj \in Obj \cup {Nil} /\ Placed(at[q], req[q]) /\ Phase(q, req[q].obj)
  BY DEF FidInv, Calls, Phases
<1>2. req[q].obj # Nil
  BY <1>1, FidTableAssumption DEF Placed, Phase
<1> QED
  BY <1>1, <1>2 DEF LiveObj

\* Who closes, counts or may bind a node has it in its locals or in a live fidState.
LEMMA HasNode ==
  ASSUME FidInv, Phases, NEW q \in Op, NEW n, Closes(q, n) \/ Minds(q, n) \/ q \in Binding(n)
  PROVE  n \in {req[q].node, req[q].prev} \/ \E o \in LiveObj : fs[o].node = n
<1>1. CASE fs[req[q].obj].node = n /\ at[q] \in {"got", "io", "decref", "finish", "release"}
  BY <1>1, HasObj
<1>2. CASE ~(fs[req[q].obj].node = n /\ at[q] \in {"got", "io", "decref", "finish", "release"})
  BY <1>2 DEF Closes, Minds, Binding, Walked
<1> QED
  BY <1>1, <1>2

\* Only handlers bind.
LEMMA BindingNext == \A n : Binding(n)' \subseteq Op
  BY DEF Binding

\* Nobody has a node that the file system can return.
LEMMA FreshApart ==
  ASSUME FidInv, Phases, NEW m \in FreshNode
  PROVE  /\ m \in Node \ (nopen \cup {Root, Nil})
         /\ \A o \in LiveObj : fs[o].node # m
         /\ \A q \in Op : req[q].node # m /\ req[q].prev # m
         /\ \A q \in Op : ~Closes(q, m) /\ ~Minds(q, m) /\ q \notin Binding(m)
         /\ BoundTo(m) = {}
<1>1. m \in Node \ (nopen \cup LiveNode \cup {Root})
  BY DEF FreshNode, Fresh
<1>2. \A o \in LiveObj : fs[o].node # m
  BY <1>1 DEF LiveNode
<1>3. \A q \in Op : req[q].node # m /\ req[q].prev # m
  <2>1. \A S \in {{req[q].node, req[q].prev} : q \in Op} : m \notin S
    BY <1>1 DEF LiveNode
  <2> QED
    BY <2>1
<1>4. \A q \in Op : ~Closes(q, m) /\ ~Minds(q, m) /\ q \notin Binding(m)
  <2> SUFFICES ASSUME NEW q \in Op, Closes(q, m) \/ Minds(q, m) \/ q \in Binding(m) PROVE FALSE
    OBVIOUS
  <2>1. m \in {req[q].node, req[q].prev} \/ \E o \in LiveObj : fs[o].node = m
    BY HasNode
  <2> QED
    BY <1>2, <1>3, <2>1
<1>5. BoundTo(m) = {}
  BY <1>2 DEF BoundTo, LiveObj
<1> QED
  BY <1>1, <1>2, <1>3, <1>4, <1>5, FidTableAssumption

\* Nobody else has the node of a walk, and it has no references.
LEMMA PrivateApart ==
  ASSUME FidInv, Phases, Private, nopen \subseteq Node, NEW p \in Op, Walked(p)
  PROVE  LET m == req[p].node IN
         /\ m \in Node /\ m \in nopen /\ m # Root
         /\ \A o \in LiveObj : fs[o].node # m
         /\ \A q \in Op \ {p} : ~Closes(q, m) /\ ~Minds(q, m) /\ q \notin Binding(m)
         /\ ~Closes(p, m) /\ BoundTo(m) = {} /\ Unbound(m, req[p].prev) = {m}
<1> DEFINE m == req[p].node
<1>1. /\ m \in nopen \ {Root, req[p].prev} /\ \A o \in LiveObj : fs[o].node # m
      /\ \A q \in Op \ {p} : m # req[q].node /\ m # req[q].prev
      /\ at[p] \in {"swap", "bind"}
  BY DEF Private, Walked
<1> HIDE DEF m
<1>2. \A q \in Op \ {p} : ~Closes(q, m) /\ ~Minds(q, m) /\ q \notin Binding(m)
  BY <1>1, HasNode
<1>3. BoundTo(m) = {}
  BY <1>1 DEF BoundTo, LiveObj
<1>4. ~Closes(p, m)
  BY <1>1 DEF Closes
<1>5. Incs(m) = {} /\ Decs(m) = {} /\ Prevs(m) = {}
  <2>1. \A q \in Op : q \in Incs(m) \cup Decs(m) \cup Prevs(m) => Minds(q, m) /\ at[q] \in {"inc", "dec", "decref"}
    BY DEF Incs, Decs, Prevs, Minds
  <2> QED
    BY <1>1, <1>2, <2>1 DEF Incs, Decs, Prevs
<1>6. refs[m] = 0
  BY <1>1, <1>3, <1>5, NoneCounted
<1> QED
  BY <1>1, <1>2, <1>3, <1>4, <1>6 DEF m, Unbound

-----------------------------------------------------------------------------
(* What one handler's step leaves alone. *)

\* Whatever handler p does, the others stay where they are with what they have.
Undisturbed(p) ==
  \A q \in Op \ {p} :
    /\ at'[q] = at[q] /\ req'[q] = req[q]
    /\ \A n \in Node : (Closes(q, n)' <=> Closes(q, n)) /\ (Minds(q, n)' <=> Minds(q, n))

\* Handler p, going to l with c, takes no node from a walk, and gets its own from the
\* file system if it walks.
PrivateKept(p, l, c) ==
  /\ Went(p, l, c) /\ nopen' \subseteq Node
  /\ \A m \in nopen \ nopen' : (Walked(p) /\ m = req[p].node) \/ \E o \in LiveObj : fs[o].node = m
  /\ \A v \in {c.node, c.prev} :
       \/ v \in {Nil, Root, req[p].node, req[p].prev} \/ v \in FreshNode
       \/ \E o \in LiveObj : fs[o].node = v
  /\ l = "swap" \/ (l = "bind" /\ c.kind = "walk") =>
       c.node \in FreshNode /\ c.node \in nopen' /\ c.prev # c.node
  /\ l = "lookup" => c.kind = "walk"
  /\ \A o \in LiveObj' : \/ fs'[o].node \in {Root, req[p].node}
                         \/ \E x \in LiveObj : fs[x].node = fs'[o].node

\* Such a step leaves every walk its node.
LEMMA PrivateStep ==
  ASSUME FidInv, Phases, nopen \subseteq Node, Private,
         NEW p \in Op, NEW l, NEW c, PrivateKept(p, l, c)
  PROVE  Private'
<1> USE FidTableAssumption
<1>1. \A q \in Op : at'[q] = (IF q = p THEN l ELSE at[q]) /\ req'[q] = IF q = p THEN c ELSE req[q]
  BY DEF FidInv, PrivateKept, Went
<1>2. ASSUME NEW q \in Op \ {p}, Walked(q)'
      PROVE  /\ req'[q].node \in nopen' \ {Root, req'[q].prev}
             /\ \A o \in LiveObj' : fs'[o].node # req'[q].node
             /\ \A r \in Op \ {q} : req'[q].node # req'[r].node /\ req'[q].node # req'[r].prev
  <2> DEFINE m == req[q].node
  <2>1. Walked(q) /\ at'[q] = at[q] /\ req'[q] = req[q]
    BY <1>1, <1>2 DEF Walked
  <2>2. /\ m \in nopen /\ m # Root /\ m # req[q].prev /\ m # Nil
        /\ \A o \in LiveObj : fs[o].node # m
        /\ \A r \in Op \ {q} : m # req[r].node /\ m # req[r].prev
    BY <2>1 DEF Private
  <2>3. m \notin FreshNode
    BY FreshApart
  <2> HIDE DEF m
  <2>4. m # req[p].node /\ m # req[p].prev
    BY <2>2
  <2>5. m \in nopen'
    BY <2>2, <2>4 DEF PrivateKept
  <2>6. \A o \in LiveObj' : fs'[o].node # m
    BY <2>2, <2>4 DEF PrivateKept
  <2>7. m # c.node /\ m # c.prev
    BY <2>2, <2>3, <2>4 DEF PrivateKept
  <2>8. \A r \in Op \ {q} : m # req'[r].node /\ m # req'[r].prev
    BY <1>1, <2>2, <2>7
  <2> QED
    BY <2>1, <2>2, <2>5, <2>6, <2>8 DEF m
<1>3. ASSUME Walked(p)'
      PROVE  /\ req'[p].node \in nopen' \ {Root, req'[p].prev}
             /\ \A o \in LiveObj' : fs'[o].node # req'[p].node
             /\ \A r \in Op \ {p} : req'[p].node # req'[r].node /\ req'[p].node # req'[r].prev
  <2>1. c.node \in FreshNode /\ c.node \in nopen' /\ c.prev # c.node /\ req'[p] = c
    BY <1>1, <1>3 DEF Walked, PrivateKept
  <2>2. /\ c.node # Root /\ \A o \in LiveObj : fs[o].node # c.node
        /\ \A q \in Op : req[q].node # c.node /\ req[q].prev # c.node
    BY <2>1, FreshApart
  <2>3. ASSUME NEW o \in LiveObj' PROVE fs'[o].node # c.node
    <3>1. fs'[o].node \in {Root, req[p].node} \/ \E x \in LiveObj : fs[x].node = fs'[o].node
      BY DEF PrivateKept
    <3> QED
      BY <2>2, <3>1
  <2> QED
    BY <1>1, <2>1, <2>2, <2>3
<1>4. \A q \in Op : at'[q] = "lookup" => req'[q].kind = "walk"
  BY <1>1 DEF Private, PrivateKept
<1> QED
  BY <1>2, <1>3, <1>4 DEF Private

\* Whatever is usable after the step was so before, or is a node that p alone had.
OpenKept(p) ==
  \A n \in Node \ (raced' \cup {Root}) : Usable(n)' =>
    \/ n \in nopen' /\ ~Closes(p, n)' /\ \A q \in Op \ {p} : ~Closes(q, n)
    \/ n \notin raced /\ Usable(n) /\ (n \in nopen => n \in nopen') /\ (Closes(p, n)' => Closes(p, n))

\* Then every usable node is open.
LEMMA OpenStep ==
  ASSUME NodesOpen, NEW p \in Op, Undisturbed(p), OpenKept(p)
  PROVE  NodesOpen'
<1> SUFFICES ASSUME NEW n \in Node, n \notin raced', n # Root, Usable(n)'
             PROVE  n \in nopen' /\ \A q \in Op : ~Closes(q, n)'
  BY DEF NodesOpen, Doomed
<1>1. \A q \in Op \ {p} : Closes(q, n)' <=> Closes(q, n)
  BY DEF Undisturbed
<1>2. CASE n \in nopen' /\ ~Closes(p, n)' /\ \A q \in Op \ {p} : ~Closes(q, n)
  BY <1>1, <1>2
<1>3. CASE n \notin raced /\ Usable(n) /\ (n \in nopen => n \in nopen') /\ (Closes(p, n)' => Closes(p, n))
  <2>1. n \in nopen /\ \A q \in Op : ~Closes(q, n)
    BY <1>3 DEF NodesOpen, Doomed
  <2> QED
    BY <1>1, <1>3, <2>1
<1> QED
  BY <1>2, <1>3 DEF OpenKept

\* What p kept is bound, or p still keeps it, or it is closed.
LeakKept(p) ==
  \A n \in nopen' :
    \/ n \in spilled' \cup {Root}
    \/ BoundTo(n)' # {} \/ Closes(p, n)' \/ Minds(p, n)'
    \/ n \in nopen /\ n \notin spilled /\ BoundTo(n) = {} /\ ~Closes(p, n) /\ ~Minds(p, n)

\* Then every open node is kept by somebody.
LEMMA LeakStep ==
  ASSUME NodesKept, NEW p \in Op, Undisturbed(p), LeakKept(p), nopen' \subseteq Node
  PROVE  NodesKept'
<1> SUFFICES ASSUME NEW n \in nopen' PROVE n \in spilled' \cup {Root} \/ Kept(n)'
  BY DEF NodesKept
<1>1. \A q \in Op \ {p} : (Closes(q, n)' <=> Closes(q, n)) /\ (Minds(q, n)' <=> Minds(q, n))
  BY DEF Undisturbed
<1>2. CASE BoundTo(n)' # {} \/ Closes(p, n)' \/ Minds(p, n)'
  BY <1>2 DEF Kept
<1>3. CASE n # Root /\ n \in nopen /\ n \notin spilled /\ BoundTo(n) = {} /\ ~Closes(p, n) /\ ~Minds(p, n)
  <2>1. \E q \in Op \ {p} : Closes(q, n) \/ Minds(q, n)
    BY <1>3 DEF NodesKept, Kept
  <2> QED
    BY <1>1, <2>1 DEF Kept
<1> QED
  BY <1>2, <1>3 DEF LeakKept

\* All of it together.
LEMMA NodeStep1 ==
  ASSUME FidInv, Phases, NodeInv, NEW p \in Op, NEW l, NEW c,
         PrivateKept(p, l, c), Undisturbed(p), OpenKept(p), LeakKept(p), Flags'
  PROVE  NodeInv'
<1>1. nopen' \subseteq Node
  BY DEF PrivateKept
<1>2. Private'
  BY PrivateStep DEF NodeInv
<1>3. NodesOpen'
  BY OpenStep DEF NodeInv
<1>4. NodesKept'
  BY <1>1, LeakStep DEF NodeInv
<1> QED
  BY <1>1, <1>2, <1>3, <1>4 DEF NodeInv

\* What a fidState may become without its node or its closing being put off.
Alike(y, z) ==
  /\ z.node = y.node /\ (z.closeNode <=> y.closeNode) /\ (y.closing => z.closing)

\* Handler p, going to l with c, leaves the table and every node where they are.
Still(p, l, c) ==
  /\ Went(p, l, c) /\ table' = table /\ c \in Calls
  /\ c.obj \in {Nil, req[p].obj} \/ \E g \in Fid : c.obj = table[g]
  /\ \A o \in Obj : IsLive(o)' => Alike(fs[o], fs'[o])

\* Then only what p itself minds, closes or may bind can change.
LEMMA StillStep ==
  ASSUME FidInv, FidInv', Phases, Flags, NEW p \in Op, NEW l, NEW c, Still(p, l, c)
  PROVE  /\ Undisturbed(p) /\ Flags' /\ at'[p] = l /\ req'[p] = c
         /\ \A o \in LiveObj' : o \in LiveObj /\ Alike(fs[o], fs'[o])
         /\ \A n : BoundTo(n)' = BoundTo(n)
         /\ \A n : \A q \in Op \ {p} : q \in Binding(n)' <=> q \in Binding(n)
<1> USE FidTableAssumption
<1>1. \A q \in Op : at'[q] = (IF q = p THEN l ELSE at[q]) /\ req'[q] = IF q = p THEN c ELSE req[q]
  BY DEF FidInv, Still, Went
<1>2. \A o : IsBound(o)' <=> IsBound(o)
  BY DEF IsBound, Still
<1>3. \A o \in LiveObj' : o \in LiveObj /\ Alike(fs[o], fs'[o])
  <2> SUFFICES ASSUME NEW o \in LiveObj' PROVE o \in LiveObj /\ Alike(fs[o], fs'[o])
    OBVIOUS
  <2>1. o \in Obj /\ IsLive(o)'
    BY LiveNext
  <2>2. IsLive(o)
    BY <1>1, <1>2, <2>1, SMT DEF IsLive, Still, IsBound
  <2> QED
    BY <2>1, <2>2, LiveIs DEF Still
<1>4. Flags'
  BY <1>3 DEF Flags, Alike
<1>5. ASSUME NEW q \in Op \ {p}, at[q] \in {"got", "io", "decref", "finish", "release"}
      PROVE  /\ fs'[req[q].obj].node = fs[req[q].obj].node
             /\ fs'[req[q].obj].closeNode <=> fs[req[q].obj].closeNode
  <2>1. PICK o \in Obj : o = req[q].obj
    BY <1>5, HasObj
  <2>2. IsLive(o)'
    BY <1>1, <2>1 DEF IsLive
  <2> QED
    BY <2>1, <2>2 DEF Still, Alike
<1>6. ASSUME NEW q \in Op \ {p}, NEW n
      PROVE  /\ Closes(q, n)' <=> Closes(q, n)
             /\ Minds(q, n)' <=> Minds(q, n)
             /\ q \in Binding(n)' <=> q \in Binding(n)
  <2>1. at'[q] = at[q] /\ req'[q] = req[q]
    BY <1>1
  <2>2. CASE at[q] \in {"got", "io", "decref", "finish", "release"}
    BY <1>5, <2>1, <2>2 DEF Closes, Minds, Binding, Walked
  <2>3. CASE at[q] \notin {"got", "io", "decref", "finish", "release"}
    BY <2>1, <2>3 DEF Closes, Minds, Binding, Walked
  <2> QED
    BY <2>2, <2>3
<1>7. ASSUME NEW n PROVE BoundTo(n)' = BoundTo(n)
  <2>1. ASSUME NEW f \in Fid, table[f] # Nil PROVE fs'[table[f]].node = fs[table[f]].node
    <3>1. PICK o \in Obj : o = table[f]
      BY <2>1 DEF FidInv
    <3>2. IsLive(o)'
      BY <3>1 DEF IsLive, IsBound, Still
    <3> QED
      BY <3>1, <3>2 DEF Still, Alike
  <2> QED
    BY <2>1 DEF BoundTo, Bound, Still
<1> QED
  BY <1>1, <1>3, <1>4, <1>6, <1>7 DEF Undisturbed

-----------------------------------------------------------------------------
(* Steps that neither count, close nor bind. *)

\* Handler p neither closes nor minds any node.
Clear(p) == \A n \in Node : ~Closes(p, n) /\ ~Minds(p, n)

\* The places where that is so.
Dull(l, c) ==
  \/ l \in {"idle", "got", "lookup", "opening", "mark", "begin", "xset", "xwrite"}
  \/ l = "bind" /\ c.kind # "walk"

\* A handler in such a place is clear.
LEMMA DullClear ==
  /\ \A p \in Op : Dull(at[p], req[p]) => Clear(p)
  /\ \A p \in Op : Dull(at'[p], req'[p]) => Clear(p)'
BY DEF Dull, Clear, Closes, Minds, Walked

\* Handler p goes to l with c, and gets no node but that of a fidState.
Quiet(p, l, c) ==
  /\ Still(p, l, c) /\ UNCHANGED <<nopen, raced, spilled>>
  /\ l # "swap" /\ ~(l = "bind" /\ c.kind = "walk") /\ (l = "lookup" => c.kind = "walk")
  /\ \A v \in {c.node, c.prev} : \/ v \in {Nil, req[p].node, req[p].prev}
                                 \/ \E o \in LiveObj : fs[o].node = v
  /\ \A n \in Node : p \in Binding(n)' => Usable(n)

\* A clear handler that stays clear keeps the nodes as they are.
LEMMA QuietNodes ==
  ASSUME FidInv, FidInv', Phases, NodeInv, NEW p \in Op, NEW l, NEW c, Quiet(p, l, c),
         Clear(p), Clear(p)'
  PROVE  NodeInv'
<1>0. Still(p, l, c) /\ Flags /\ nopen \subseteq Node /\ UNCHANGED <<nopen, raced, spilled>>
  BY DEF Quiet, NodeInv
<1>1. /\ Undisturbed(p) /\ Flags' /\ at'[p] = l /\ req'[p] = c
      /\ \A o \in LiveObj' : o \in LiveObj /\ Alike(fs[o], fs'[o])
      /\ \A n : BoundTo(n)' = BoundTo(n)
      /\ \A n : \A q \in Op \ {p} : q \in Binding(n)' <=> q \in Binding(n)
  BY <1>0, StillStep
<1>2. PrivateKept(p, l, c)
  <2>1. \A o \in LiveObj' : \E x \in LiveObj : fs[x].node = fs'[o].node
    BY <1>1 DEF Alike
  <2> QED
    BY <1>0, <2>1 DEF PrivateKept, Quiet, Still
<1>3. OpenKept(p)
  <2> SUFFICES ASSUME NEW n \in Node, Usable(n)', n \notin raced'
               PROVE  n \notin raced /\ Usable(n) /\ (n \in nopen => n \in nopen') /\ ~Closes(p, n)'
    BY DEF OpenKept
  <2>1. Usable(n)
    <3>1. CASE BoundTo(n)' # {}
      BY <1>1, <3>1 DEF Usable
    <3>2. ASSUME NEW q \in Binding(n)' PROVE Usable(n)
      <4>1. q \in Op
        BY DEF Binding
      <4> QED
        BY <1>1, <4>1 DEF Usable, Quiet
    <3> QED
      BY <3>1, <3>2 DEF Usable
  <2> QED
    BY <1>0, <2>1 DEF Clear
<1>4. LeakKept(p)
  BY <1>0, <1>1 DEF LeakKept, Clear
<1> QED
  BY <1>1, <1>2, <1>3, <1>4, NodeStep1

\* The return of a handler that touches no node.
LEMMA EndStill ==
  ASSUME FidInv, NEW p \in Op, NEW g, EndWith(p, g), UNCHANGED table,
         \A o \in Obj : Alike(fs[o], g[o])
  PROVE  /\ Still(p, "idle", Idle) /\ Idle.node = Nil /\ Idle.prev = Nil
         /\ at'[p] = "idle" /\ req'[p] = Idle /\ Clear(p)' /\ \A n : p \notin Binding(n)'
<1>1. /\ Went(p, "idle", Idle) /\ Idle \in Calls /\ Idle.obj = Nil
      /\ \A o \in Obj : IsLive(o)' => fs'[o] = g[o]
  BY EndLive
<1>2. Idle.node = Nil /\ Idle.prev = Nil
  BY DEF Idle
<1>3. at'[p] = "idle" /\ req'[p] = Idle
  BY <1>1 DEF FidInv, Went
<1>4. Clear(p)'
  BY <1>3, DullClear DEF Dull
<1> QED
  BY <1>1, <1>2, <1>3, <1>4 DEF Still, Binding

\* Such a return from a place where the handler is clear.
LEMMA QuietEnd ==
  ASSUME FidInv, FidInv', Phases, NodeInv, NEW p \in Op, NEW g, EndWith(p, g),
         UNCHANGED <<table, nopen, raced, spilled>>, \A o \in Obj : Alike(fs[o], g[o]), Clear(p)
  PROVE  NodeInv'
<1>1. /\ Still(p, "idle", Idle) /\ Idle.node = Nil /\ Idle.prev = Nil
      /\ Clear(p)' /\ \A n : p \notin Binding(n)'
  BY EndStill
<1>2. Quiet(p, "idle", Idle)
  BY <1>1 DEF Quiet
<1> QED
  BY <1>1, <1>2, QuietNodes

\* A handler that goes on with the fidStates as they are.
LEMMA QuietGo ==
  ASSUME FidInv, FidInv', Phases, NodeInv, NEW p \in Op, NEW l, NEW c \in Calls, Went(p, l, c),
         UNCHANGED <<table, fs, nopen, raced, spilled>>, Dull(at[p], req[p]), Dull(l, c),
         c.obj = req[p].obj \/ \E f \in Fid : c.obj = table[f], l = "lookup" => c.kind = "walk",
         \A v \in {c.node, c.prev} : \/ v \in {Nil, req[p].node, req[p].prev}
                                     \/ \E o \in LiveObj : fs[o].node = v,
         \A n \in Node : p \in Binding(n)' => Usable(n)
  PROVE  NodeInv'
<1>1. at'[p] = l /\ req'[p] = c
  BY DEF Went, FidInv
<1>2. Clear(p) /\ Clear(p)'
  BY <1>1, DullClear
<1>3. Still(p, l, c)
  BY DEF Still, Alike
<1>4. Quiet(p, l, c)
  BY <1>3 DEF Quiet, Dull
<1> QED
  BY <1>2, <1>4, QuietNodes

\* A fidState may stay as it is, or get another state.
LEMMA AlikeIs ==
  /\ \A y : Alike(y, y)
  /\ \A y \in Fids : \A s, h : Alike(y, [y EXCEPT !.state = s, !.handle = h])
  /\ \A y \in Fids : \A s, w, z, d :
       Alike(y, [y EXCEPT !.state = s, !.raw = w, !.xsize = z, !.xdata = d])
  /\ \A y \in Fids : \A d : Alike(y, [y EXCEPT !.xdata = d])
  /\ \A y \in Fids : \A d : Alike(y, [y EXCEPT !.ioRefs = d])
  /\ \A y \in Fids : Alike(y, [y EXCEPT !.closing = TRUE, !.committed = TRUE])
<1>1. \A y : Alike(y, y)
  BY DEF Alike
<1>2. ASSUME NEW y \in Fids, NEW s, NEW h PROVE Alike(y, [y EXCEPT !.state = s, !.handle = h])
  BY DEF Alike, Fids
<1>3. ASSUME NEW y \in Fids, NEW s, NEW w, NEW z, NEW d
      PROVE  Alike(y, [y EXCEPT !.state = s, !.raw = w, !.xsize = z, !.xdata = d])
  BY DEF Alike, Fids
<1>4. ASSUME NEW y \in Fids, NEW d
      PROVE  Alike(y, [y EXCEPT !.xdata = d]) /\ Alike(y, [y EXCEPT !.ioRefs = d])
  BY DEF Alike, Fids
<1>5. ASSUME NEW y \in Fids PROVE Alike(y, [y EXCEPT !.closing = TRUE, !.committed = TRUE])
  BY DEF Alike, Fids
<1> QED
  BY <1>1, <1>2, <1>3, <1>4, <1>5

\* Storing such a fidState.
LEMMA AlikeStore ==
  ASSUME FidInv, NEW o, NEW y, o \in Obj => Alike(fs[o], y)
  PROVE  \A x \in Obj : Alike(fs[x], [fs EXCEPT ![o] = y][x])
BY AlikeIs DEF FidInv

\* The requests on existing fids up to the lookups, the opens and the xattrs.
LEMMA QuietSteps ==
  ASSUME FidInv, FidInv', Phases, NodeInv, NEW p \in Op,
         \/ \E f \in Fid, g \in Fid \cup {Nil}, k \in Kinds : Get(p, k, f, g)
         \/ ReadNode(p) \/ (WalkFirst(p) /\ End(p) /\ UNCHANGED <<nopen, raced, spilled>>)
         \/ StateCheck(p) \/ MarkOpened(p)
         \/ IOCheck(p) \/ RawXattrWrite(p) \/ XattrCreate(p)
  PROVE  NodeInv'
<1> USE FidTableAssumption
<1>0. /\ req[p] \in Calls /\ at \in [Op -> Labels] /\ req \in [Op -> Calls]
      /\ table \in [Fid -> Obj \cup {Nil}] /\ fs \in [Obj -> Fids] /\ Placed(at[p], req[p])
  BY DEF FidInv
<1>1. /\ at[p] \in {"idle", "got", "lookup", "mark", "xset", "xwrite"}
      /\ UNCHANGED <<table, nopen, raced, spilled>>
  <2>1. at[p] \in {"idle", "got", "lookup", "mark", "xset", "xwrite"}
    BY DEF Get, ReadNode, WalkFirst, StateCheck, MarkOpened, IOCheck, RawXattrWrite, XattrCreate
  <2>2. UNCHANGED <<table, nopen, raced, spilled>>
    BY DEF Get, ReadNode, WalkFirst, StateCheck, MarkOpened, IOCheck, RawXattrWrite, XattrCreate, hist
  <2> QED
    BY <2>1, <2>2
<1>2. Dull(at[p], req[p])
  BY <1>1 DEF Dull
<1>3. Clear(p)
  BY <1>2, DullClear
<1>4. CASE End(p)
  BY <1>1, <1>3, <1>4, QuietEnd, AlikeIs DEF End
<1>5. ASSUME NEW o, NEW y, EndWith(p, [fs EXCEPT ![o] = y]), o \in Obj => Alike(fs[o], y)
      PROVE  NodeInv'
  <2> DEFINE g == [fs EXCEPT ![o] = y]
  <2>1. EndWith(p, g) /\ \A x \in Obj : Alike(fs[x], g[x])
    BY <1>5, AlikeStore
  <2> HIDE DEF g
  <2> QED
    BY <1>1, <1>3, <2>1, QuietEnd
<1>6. ASSUME NEW f \in Fid, NEW g \in Fid \cup {Nil}, NEW k \in Kinds, Get(p, k, f, g)
      PROVE  NodeInv'
  <2> DEFINE c == [Idle EXCEPT !.kind = k, !.fid = f, !.new = g, !.obj = table[f]]
  <2>1. Went(p, "got", c) /\ UNCHANGED fs /\ table[f] # Nil
    BY <1>6 DEF Get, Goto, Went
  <2>2. c \in Calls /\ c.obj = table[f] /\ c.node = Nil /\ c.prev = Nil
    BY <1>0 DEF Idle, Calls
  <2> HIDE DEF c
  <2>3. at'[p] = "got" /\ req'[p] = c /\ Dull("got", c)
    BY <1>0, <2>1 DEF Went, Dull
  <2>4. \A n \in Node : p \in Binding(n)' => Usable(n)
    BY <2>1, <2>2, <2>3 DEF Binding, Usable, BoundTo, Bound
  <2> QED
    BY <1>1, <1>2, <2>1, <2>2, <2>3, <2>4, QuietGo
<1>7. CASE ReadNode(p)
  <2> DEFINE c == [req[p] EXCEPT !.node = fs[req[p].obj].node]
  <2>1. /\ UNCHANGED fs /\ req[p].obj \in Obj /\ at[p] = "got"
        /\ req[p].kind \in {"clone", "walk", "xattrwalk"}
        /\ \/ req[p].kind = "walk" /\ Went(p, "lookup", c)
           \/ req[p].kind # "walk" /\ Went(p, "bind", c)
    BY <1>0, <1>7 DEF ReadNode, Goto, Went, Placed
  <2>2. /\ c \in Calls /\ c.obj = req[p].obj /\ c.prev = req[p].prev
        /\ c.kind = req[p].kind /\ c.node = fs[req[p].obj].node
    BY <1>0, <2>1 DEF Calls, Fids
  <2> HIDE DEF c
  <2>3. req[p].obj \in LiveObj
    BY <2>1 DEF LiveObj
  <2>4. PICK l \in {"lookup", "bind"} : Went(p, l, c) /\ Dull(l, c) /\ (l = "lookup" => c.kind = "walk")
    BY <2>1, <2>2 DEF Dull
  <2>5. at'[p] = l /\ req'[p] = c
    BY <1>0, <2>4 DEF Went
  <2>6. \A n \in Node : p \in Binding(n)' => p \in Binding(n)
    BY <2>1, <2>2, <2>5 DEF Binding
  <2>7. \A n \in Node : p \in Binding(n)' => Usable(n)
    BY <2>6 DEF Usable
  <2> QED
    BY <1>1, <1>2, <2>1, <2>2, <2>3, <2>4, <2>7, QuietGo
<1>8. ASSUME ~End(p), StateCheck(p) \/ IOCheck(p), UNCHANGED <<req, fs>>,
             \E l \in {"xset", "opening", "begin", "xwrite"} : at' = [at EXCEPT ![p] = l]
      PROVE  NodeInv'
  <2>1. PICK l \in {"xset", "opening", "begin", "xwrite"} : at' = [at EXCEPT ![p] = l]
    BY <1>8
  <2>2. Went(p, l, req[p]) /\ at'[p] = l
    BY <1>0, <1>8, <2>1 DEF Went
  <2>3. Dull(l, req[p]) /\ \A n : p \notin Binding(n)'
    BY <2>2 DEF Dull, Binding
  <2> QED
    BY <1>0, <1>1, <1>2, <1>8, <2>2, <2>3, QuietGo
<1>9. CASE StateCheck(p)
  BY <1>4, <1>8, <1>9 DEF StateCheck, Goto
<1>10. CASE MarkOpened(p)
  <2> DEFINE o == table[req[p].fid]
             y == [fs[o] EXCEPT !.state = "opened", !.handle = req[p].handle]
  <2>1. End(p) \/ EndWith(p, [fs EXCEPT ![o].state = "opened", ![o].handle = req[p].handle])
    BY <1>10 DEF MarkOpened
  <2>2. [fs EXCEPT ![o].state = "opened", ![o].handle = req[p].handle] = [fs EXCEPT ![o] = y]
    BY <1>0
  <2>3. o \in Obj => Alike(fs[o], y)
    BY <1>0, AlikeIs
  <2> HIDE DEF o, y
  <2> QED
    BY <1>4, <1>5, <2>1, <2>2, <2>3
<1>11. CASE IOCheck(p)
  <2> DEFINE o == req[p].obj
             y == [fs[o] EXCEPT !.xdata = @ + 1]
  <2>1. \/ End(p) \/ EndWith(p, [fs EXCEPT ![o].xdata = @ + 1])
        \/ UNCHANGED <<req, fs>> /\ \E l \in {"begin", "xwrite"} : at' = [at EXCEPT ![p] = l]
    BY <1>11 DEF IOCheck, Goto
  <2>2. [fs EXCEPT ![o].xdata = @ + 1] = [fs EXCEPT ![o] = y]
    BY <1>0
  <2>3. o \in Obj => Alike(fs[o], y)
    BY <1>0, AlikeIs
  <2> HIDE DEF o, y
  <2> QED
    BY <1>4, <1>5, <1>8, <1>11, <2>1, <2>2, <2>3
<1>12. CASE XattrCreate(p) /\ ~End(p)
  <2> DEFINE o == req[p].obj
  <2>1. PICK z \in 0..MaxXattr, w \in BOOLEAN :
          EndWith(p, [fs EXCEPT ![o].state = "xattrWrite", ![o].raw = w, ![o].xsize = z,
                                     ![o].xdata = 0])
    BY <1>12 DEF XattrCreate
  <2> DEFINE y == [fs[o] EXCEPT !.state = "xattrWrite", !.raw = w, !.xsize = z, !.xdata = 0]
  <2>2. [fs EXCEPT ![o].state = "xattrWrite", ![o].raw = w, ![o].xsize = z, ![o].xdata = 0]
          = [fs EXCEPT ![o] = y]
    BY <1>0
  <2>3. o \in Obj => Alike(fs[o], y)
    BY <1>0, AlikeIs
  <2> HIDE DEF o, y
  <2> QED
    BY <1>5, <2>1, <2>2, <2>3
<1> QED
  BY <1>4, <1>6, <1>7, <1>9, <1>10, <1>11, <1>12 DEF RawXattrWrite

-----------------------------------------------------------------------------
(* Steps that count or close. *)

\* Handler p leaves the table, the nodes and who may bind them where they are.
Settles(p, l, c) ==
  /\ Still(p, l, c) /\ l \in {"idle", "dec", "finish", "release"}
  /\ ~Walked(p) /\ raced \subseteq raced'
  /\ \A v \in {c.node, c.prev} : v \in {Nil, req[p].node, req[p].prev}

\* Then nothing becomes usable, and no walk loses its node.
LEMMA SettleStep ==
  ASSUME FidInv, FidInv', Phases, NodeInv, NEW p \in Op, NEW l, NEW c, Settles(p, l, c),
         nopen' \subseteq nopen, \A m \in nopen \ nopen' : \E o \in LiveObj : fs[o].node = m
  PROVE  /\ Undisturbed(p) /\ Flags' /\ Private' /\ nopen' \subseteq Node
         /\ at'[p] = l /\ req'[p] = c
         /\ \A n : Usable(n)' => Usable(n)
         /\ \A n : BoundTo(n)' = BoundTo(n)
         /\ \A n : Binding(n)' \subseteq Binding(n)
<1>0. Still(p, l, c) /\ Flags /\ nopen \subseteq Node /\ Private /\ nopen' \subseteq Node
  BY DEF Settles, NodeInv
<1>1. /\ Undisturbed(p) /\ Flags' /\ at'[p] = l /\ req'[p] = c
      /\ \A o \in LiveObj' : o \in LiveObj /\ Alike(fs[o], fs'[o])
      /\ \A n : BoundTo(n)' = BoundTo(n)
      /\ \A n : \A q \in Op \ {p} : q \in Binding(n)' <=> q \in Binding(n)
  BY <1>0, StillStep
<1>2. PrivateKept(p, l, c)
  <2>1. \A o \in LiveObj' : \E x \in LiveObj : fs[x].node = fs'[o].node
    BY <1>1 DEF Alike
  <2>2. l # "swap" /\ l # "bind" /\ l # "lookup"
    BY DEF Settles
  <2> QED
    BY <1>0, <2>1, <2>2 DEF PrivateKept, Settles, Still
<1>3. Private'
  BY <1>0, <1>2, PrivateStep
<1>4. \A n : Binding(n)' \subseteq Binding(n)
  <2> SUFFICES ASSUME NEW n, NEW q \in Binding(n)' PROVE q \in Binding(n)
    OBVIOUS
  <2>1. q \in Op /\ at'[q] \in {"lookup", "bind", "inc", "swap", "got"}
    BY DEF Binding
  <2>2. q # p
    BY <1>1, <2>1 DEF Settles
  <2> QED
    BY <1>1, <2>1, <2>2
<1>5. \A n : Usable(n)' => Usable(n)
  BY <1>1, <1>4 DEF Usable
<1> QED
  BY <1>0, <1>1, <1>3, <1>4, <1>5

\* incRefNode, and decRefNode of a displaced node: a node that nobody minds any more
\* has a count of zero, and the code has not looked.
LEMMA NodeCount ==
  ASSUME FidInv, FidInv', Phases, NodeInv, NEW p \in Op, IncRef(p) \/ DecPrev(p)
  PROVE  NodeInv'
<1> USE FidTableAssumption
<1>0. /\ req[p] \in Calls /\ at \in [Op -> Labels] /\ req \in [Op -> Calls]
      /\ Placed(at[p], req[p]) /\ refs \in [Node -> Int] /\ refs' \in [Node -> Int]
  BY DEF FidInv
<1>1. /\ at[p] \in {"inc", "dec"} /\ UNCHANGED <<table, nopen, raced>> /\ spilled \subseteq spilled'
  BY DEF IncRef, DecPrev, Spill
<1>2. PICK l \in {"idle", "dec"}, c \in {Idle, req[p]} :
        /\ Still(p, l, c) /\ Idle.node = Nil /\ Idle.prev = Nil
        /\ (l = "idle" => at[p] = "dec" \/ req[p].prev = Nil) /\ (l = "dec" => c = req[p])
  <2>1. CASE End(p)
    <3>1. Still(p, "idle", Idle) /\ Idle.node = Nil /\ Idle.prev = Nil
      BY <1>1, <2>1, EndStill, AlikeIs DEF End
    <3>2. at[p] = "dec" \/ req[p].prev = Nil
      <4>1. CASE req[p].prev # Nil /\ IncRef(p)
        <5>1. at[p] = "inc" /\ at' = [at EXCEPT ![p] = "dec"] /\ at' = [at EXCEPT ![p] = "idle"]
          BY <2>1, <4>1 DEF IncRef, Goto, End, EndWith
        <5> QED
          BY <1>0, <5>1
      <4> QED
        BY <4>1 DEF DecPrev
    <3> QED
      BY <3>1, <3>2
  <2>2. CASE IncRef(p) /\ ~End(p)
    <3>1. Went(p, "dec", req[p]) /\ UNCHANGED fs
      BY <1>0, <2>2 DEF IncRef, Goto, Went
    <3>2. Still(p, "dec", req[p]) /\ Idle.node = Nil /\ Idle.prev = Nil
      BY <1>0, <1>1, <3>1, AlikeIs DEF Still, Idle
    <3> QED
      BY <3>2
  <2> QED
    BY <2>1, <2>2 DEF DecPrev
<1>3. Settles(p, l, c)
  <2>1. ~Walked(p)
    BY <1>1 DEF Walked
  <2> QED
    BY <1>1, <1>2, <2>1 DEF Settles
<1>4. /\ Undisturbed(p) /\ Flags' /\ Private' /\ nopen' \subseteq Node
      /\ at'[p] = l /\ req'[p] = c
      /\ \A n : Usable(n)' => Usable(n)
      /\ \A n : BoundTo(n)' = BoundTo(n)
  BY <1>1, <1>3, SettleStep
<1>5. NodesOpen'
  <2>1. \A n : ~Closes(p, n)'
    BY <1>2, <1>4 DEF Closes
  <2>2. OpenKept(p)
    BY <1>1, <1>4, <2>1 DEF OpenKept
  <2> QED
    BY <1>4, <2>2, OpenStep DEF NodeInv
<1>6. ASSUME NEW n \in nopen, n \notin spilled', n # Root PROVE Kept(n)'
  <2>0. n \in Node /\ n \notin spilled
    BY <1>1, <1>6 DEF NodeInv
  <2>1. CASE refs'[n] # 0
    BY <2>0, <2>1, UnmindedNext DEF Kept
  <2>2. CASE refs'[n] = 0 /\ refs[n] # 0
    <3>1. /\ IncRef(p) => /\ refs' = [refs EXCEPT ![req[p].node] = @ + 1]
                          /\ req[p].node = n /\ refs[n] = -1 => n \in spilled'
          /\ DecPrev(p) => /\ refs' = [refs EXCEPT ![req[p].prev] = @ - 1]
                           /\ req[p].prev = n /\ refs[n] = 1 => n \in spilled'
      BY <1>6 DEF IncRef, DecPrev, Spill
    <3>2. refs[n] \in Int
      BY <1>0, <2>0
    <3>3. CASE IncRef(p)
      <4>1. refs'[n] = IF req[p].node = n THEN refs[n] + 1 ELSE refs[n]
        BY <1>0, <2>0, <3>1, <3>3
      <4> QED
        BY <1>6, <2>2, <3>1, <3>2, <3>3, <4>1, SMT
    <3>4. CASE DecPrev(p)
      <4>1. refs'[n] = IF req[p].prev = n THEN refs[n] - 1 ELSE refs[n]
        BY <1>0, <2>0, <3>1, <3>4
      <4> QED
        BY <1>6, <2>2, <3>1, <3>2, <3>4, <4>1, SMT
    <3> QED
      BY <3>3, <3>4
  <2>3. CASE refs'[n] = refs[n]
    <3>1. req[p].node # n \/ at[p] # "inc"
      BY <1>0, <2>0, <2>3, SMT DEF IncRef, DecPrev
    <3>2. req[p].prev # n \/ at[p] # "dec"
      BY <1>0, <2>0, <2>3, SMT DEF IncRef, DecPrev
    <3>3. ~Closes(p, n)
      BY <1>1 DEF Closes
    <3>4. Minds(p, n) => Minds(p, n)'
      <4>1. Minds(p, n) => at[p] = "inc" /\ req[p].prev = n
        BY <1>1, <3>1, <3>2 DEF Minds, Walked
      <4>2. n # Nil
        BY <2>0
      <4> QED
        BY <1>2, <1>4, <4>1, <4>2 DEF Minds
    <3>5. Kept(n)
      BY <1>6, <2>0 DEF NodeInv, NodesKept
    <3>6. ASSUME NEW q \in Op, Closes(q, n) \/ Minds(q, n) PROVE Closes(q, n)' \/ Minds(q, n)'
      <4>1. CASE q = p
        BY <3>3, <3>4, <3>6, <4>1
      <4>2. CASE q # p
        BY <1>4, <2>0, <3>6, <4>2 DEF Undisturbed
      <4> QED
        BY <4>1, <4>2
    <3> QED
      BY <1>4, <3>5, <3>6 DEF Kept
  <2> QED
    BY <2>1, <2>2, <2>3
<1>7. NodesKept'
  BY <1>1, <1>6 DEF NodesKept
<1> QED
  BY <1>4, <1>5, <1>7 DEF NodeInv

\* decRefNode in a clunk: the handler that sees the last reference go closes the node,
\* and nobody can bind it any more unless somebody already had hold of it.
LEMMA NodeDecRef ==
  ASSUME FidInv, FidInv', Phases, NodeInv, NEW p \in Op, DecRef(p)
  PROVE  NodeInv'
<1> USE FidTableAssumption
<1>0. /\ req[p] \in Calls /\ at \in [Op -> Labels] /\ req \in [Op -> Calls]
      /\ Placed(at[p], req[p]) /\ refs \in [Node -> Int]
  BY DEF FidInv
<1>m. PICK m : m = fs[req[p].obj].node
  OBVIOUS
<1> DEFINE c == [req[p] EXCEPT !.last = refs[m] = 1]
<1>1. /\ at[p] = "decref" /\ UNCHANGED <<table, fs, nopen, spilled>> /\ raced \subseteq raced'
      /\ refs' = [refs EXCEPT ![m] = @ - 1] /\ Went(p, "finish", c)
      /\ refs[m] = 1 /\ Binding(m) # {} => m \in raced' \cup {Root}
  BY <1>0, <1>m DEF DecRef, Goto, Went
<1>2. m \in Node
  BY <1>0, <1>1, <1>m DEF FidInv, Placed
<1>3. c \in Calls /\ c.obj = req[p].obj /\ c.node = req[p].node /\ c.prev = req[p].prev
      /\ (c.last <=> refs[m] = 1)
  <2>1. c.last <=> refs[m] = 1
    BY <1>0 DEF Calls
  <2>2. c \in Calls
    BY <1>0 DEF Calls
  <2>3. c.obj = req[p].obj /\ c.node = req[p].node /\ c.prev = req[p].prev
    BY <1>0 DEF Calls
  <2> QED
    BY <2>1, <2>2, <2>3
<1> HIDE DEF c
<1>4. Still(p, "finish", c)
  BY <1>1, <1>3, AlikeIs DEF Still
<1>5. Settles(p, "finish", c)
  <2>1. ~Walked(p)
    BY <1>1 DEF Walked
  <2> QED
    BY <1>1, <1>3, <1>4, <2>1 DEF Settles
<1>6. /\ Undisturbed(p) /\ Flags' /\ Private' /\ nopen' \subseteq Node
      /\ at'[p] = "finish" /\ req'[p] = c
      /\ \A n : Usable(n)' => Usable(n)
      /\ \A n : BoundTo(n)' = BoundTo(n)
      /\ \A n : Binding(n)' \subseteq Binding(n)
  BY <1>1, <1>5, SettleStep
<1>7. \A n : Closes(p, n)' <=> n = m /\ refs[m] = 1
  BY <1>1, <1>3, <1>6, <1>m DEF Closes
<1>8. refs[m] \in Int /\ refs'[m] = refs[m] - 1 /\ \A n \in Node \ {m} : refs'[n] = refs[n]
  BY <1>0, <1>1, <1>2
<1>9. OpenKept(p)
  <2> SUFFICES ASSUME NEW n \in Node, n \notin raced', n # Root, Usable(n)'
               PROVE  ~Closes(p, n)'
    BY <1>1, <1>6 DEF OpenKept
  <2> SUFFICES ASSUME n = m, refs[m] = 1 PROVE FALSE
    BY <1>7
  <2>1. Binding(m) = {}
    BY <1>1
  <2>2. Binding(m)' = {}
    BY <1>6, <2>1
  <2>3. Incs(m)' = {}
    BY <2>2 DEF Incs, Binding
  <2>4. refs'[m] = 0
    BY <1>8, SMT
  <2>5. BoundTo(m)' = {}
    BY <1>2, <2>3, <2>4, ZeroUnbound
  <2> QED
    BY <2>2, <2>5 DEF Usable
<1>10. ASSUME NEW n \in nopen, n \notin spilled, n # Root PROVE Kept(n)'
  <2>0. n \in Node /\ Kept(n)
    BY <1>10 DEF NodeInv, NodesKept
  <2>1. CASE n = m /\ refs[m] = 1
    BY <1>7, <2>1 DEF Kept
  <2>2. CASE n = m /\ refs[m] # 1
    <3>1. refs'[m] # 0
      BY <1>8, <2>2, SMT
    <3> QED
      BY <1>2, <2>2, <3>1, UnmindedNext DEF Kept
  <2>3. CASE n # m
    <3>1. ~Closes(p, n) /\ ~Minds(p, n)
      BY <1>1, <1>m, <2>3 DEF Closes, Minds, Walked
    <3> QED
      BY <1>6, <2>0, <3>1 DEF Kept, Undisturbed
  <2> QED
    BY <2>1, <2>2, <2>3
<1>11. NodesKept'
  BY <1>1, <1>10 DEF NodesKept
<1>12. NodesOpen'
  BY <1>6, <1>9, OpenStep DEF NodeInv
<1> QED
  BY <1>6, <1>11, <1>12 DEF NodeInv

\* Handler p closes what it closed before, or has handed that on, and minds nothing.
LEMMA CloseStep ==
  ASSUME FidInv, FidInv', Phases, NodeInv, NEW p \in Op, NEW l, NEW c, Settles(p, l, c),
         nopen' \subseteq nopen, raced' = raced, spilled \subseteq spilled',
         \A n \in nopen \ nopen' : Closes(p, n),
         \A n \in Node : ~Minds(p, n) /\ (Closes(p, n)' => Closes(p, n)),
         \A n \in Node : Closes(p, n) =>
           \/ Closes(p, n)' \/ n \notin nopen' \/ n \in spilled' \cup {Root}
           \/ \E q \in Op \ {p} : Closes(q, n)
  PROVE  NodeInv'
<1>0. nopen \subseteq Node /\ NodesOpen /\ NodesKept
  BY DEF NodeInv
<1>1. \A m \in nopen \ nopen' : \E o \in LiveObj : fs[o].node = m
  BY HasObj DEF Closes
<1>2. /\ Undisturbed(p) /\ Flags' /\ Private' /\ nopen' \subseteq Node
      /\ \A n : Usable(n)' => Usable(n)
      /\ \A n : BoundTo(n)' = BoundTo(n)
  BY <1>1, SettleStep
<1>3. OpenKept(p)
  <2> SUFFICES ASSUME NEW n \in Node, n \notin raced, n # Root, Usable(n)
               PROVE  n \in nopen => n \in nopen'
    BY <1>2 DEF OpenKept
  <2> QED
    BY <1>0 DEF NodesOpen, Doomed
<1>4. NodesOpen'
  BY <1>0, <1>2, <1>3, OpenStep
<1>5. ASSUME NEW n \in nopen', n \notin spilled', n # Root PROVE Kept(n)'
  <2>1. n \in Node /\ Kept(n)
    BY <1>0, <1>5 DEF NodesKept
  <2>2. CASE Closes(p, n)
    <3>1. Closes(p, n)' \/ \E q \in Op \ {p} : Closes(q, n)
      BY <1>5, <2>1, <2>2
    <3> QED
      BY <1>2, <2>1, <3>1 DEF Kept, Undisturbed
  <2>3. CASE ~Closes(p, n)
    BY <1>2, <2>1, <2>3 DEF Kept, Undisturbed
  <2> QED
    BY <2>2, <2>3
<1>6. NodesKept'
  BY <1>5 DEF NodesKept
<1> QED
  BY <1>2, <1>4, <1>6 DEF NodeInv

\* beginIO and endIO.
LEMMA NodeIO ==
  ASSUME FidInv, FidInv', Phases, NodeInv, NEW p \in Op, BeginIO(p) \/ EndIO(p)
  PROVE  NodeInv'
<1> USE FidTableAssumption
<1>0. /\ req[p] \in Calls /\ at \in [Op -> Labels] /\ req \in [Op -> Calls]
      /\ fs \in [Obj -> Fids] /\ at[p] \in {"begin", "io"}
      /\ UNCHANGED <<table, nopen, raced, spilled>>
  BY DEF FidInv, BeginIO, EndIO, hist
<1>1. PICK x \in Obj : x = req[p].obj /\ x \in LiveObj /\ fs[x] \in Fids
  BY <1>0, HasObj
<1>2. \A n : ~Minds(p, n) /\ p \notin Binding(n) /\ ~Walked(p)
  BY <1>0 DEF Minds, Binding, Walked
<1>3. fs[x].closeNode => fs[x].closing
  BY <1>1 DEF NodeInv, Flags
<1>4. CASE BeginIO(p)
  <2>1. at[p] = "begin" /\ Clear(p)
    BY <1>4, DullClear DEF BeginIO, Dull
  <2>2. CASE fs[x].closing
    <3>1. End(p)
      BY <1>1, <1>4, <2>2 DEF BeginIO
    <3> QED
      BY <1>0, <2>1, <3>1, QuietEnd, AlikeIs DEF End
  <2>3. CASE ~fs[x].closing
    <3> DEFINE y == [fs[x] EXCEPT !.ioRefs = @ + 1]
               c == [req[p] EXCEPT !.handle = fs[x].handle]
    <3>1. /\ fs' = [fs EXCEPT ![x] = y] /\ Went(p, "io", c)
      BY <1>0, <1>1, <1>4, <2>3 DEF BeginIO, Goto, Went
    <3>2. c \in Calls /\ c.obj = x /\ c.node = req[p].node /\ c.prev = req[p].prev
      BY <1>0, <1>1 DEF Calls, Fids
    <3>3. Alike(fs[x], y)
      BY <1>1, AlikeIs
    <3> HIDE DEF c, y
    <3>4. \A o \in Obj : Alike(fs[o], fs'[o])
      BY <3>1, <3>3, AlikeStore
    <3>5. at'[p] = "io" /\ req'[p] = c
      BY <1>0, <3>1 DEF Went
    <3>6. Clear(p)'
      BY <1>1, <1>3, <2>3, <3>2, <3>4, <3>5 DEF Clear, Closes, Minds, Walked, Alike
    <3>7. \A n : p \notin Binding(n)'
      BY <3>5 DEF Binding
    <3>8. Quiet(p, "io", c)
      BY <1>0, <1>1, <3>1, <3>2, <3>4, <3>7 DEF Quiet, Still
    <3> QED
      BY <2>1, <3>6, <3>8, QuietNodes
  <2> QED
    BY <2>2, <2>3
<1>5. CASE EndIO(p)
  <2> DEFINE y == [fs[x] EXCEPT !.ioRefs = @ - 1]
             c == [req[p] EXCEPT !.last = fs[x].closeNode, !.handle = Nil]
  <2>1. at[p] = "io" /\ [fs EXCEPT ![x].ioRefs = @ - 1] = [fs EXCEPT ![x] = y]
    BY <1>0, <1>5 DEF EndIO
  <2>2. IF fs[x].closing /\ fs[x].ioRefs = 1
        THEN fs' = [fs EXCEPT ![x] = y] /\ Went(p, "release", c)
        ELSE EndWith(p, [fs EXCEPT ![x] = y])
    BY <1>0, <1>1, <1>5, <2>1 DEF EndIO, Goto, Went
  <2>3. c \in Calls /\ c.obj = x /\ c.node = req[p].node /\ c.prev = req[p].prev
        /\ c.last = fs[x].closeNode
    BY <1>0, <1>1 DEF Calls, Fids
  <2>4. Alike(fs[x], y)
    BY <1>1, AlikeIs
  <2> HIDE DEF c, y
  <2> DEFINE g == [fs EXCEPT ![x] = y]
  <2>5. \A o \in Obj : Alike(fs[o], g[o])
    BY <2>4, AlikeStore
  <2> HIDE DEF g
  <2>6. \A n : Closes(p, n) <=> fs[x].closeNode /\ fs[x].node = n
    BY <1>1, <2>1 DEF Closes
  <2>7. CASE fs[x].closing /\ fs[x].ioRefs = 1
    <3>1. fs' = g /\ Went(p, "release", c)
      BY <2>2, <2>7 DEF g
    <3>2. Still(p, "release", c)
      BY <1>0, <1>1, <2>3, <2>5, <3>1 DEF Still
    <3>3. Settles(p, "release", c)
      BY <1>0, <1>2, <2>3, <3>2 DEF Settles
    <3>4. at'[p] = "release" /\ req'[p] = c
      BY <1>0, <3>1 DEF Went
    <3>5. \A n : Closes(p, n)' <=> Closes(p, n)
      BY <1>1, <2>3, <2>5, <2>6, <3>1, <3>4 DEF Closes, Alike
    <3> QED
      BY <1>0, <1>2, <3>3, <3>5, CloseStep
  <2>8. CASE ~(fs[x].closing /\ fs[x].ioRefs = 1)
    <3>1. EndWith(p, g)
      BY <2>2, <2>8 DEF g
    <3>2. /\ Still(p, "idle", Idle) /\ Idle.node = Nil /\ Idle.prev = Nil
          /\ Clear(p)' /\ \A n : p \notin Binding(n)'
      BY <1>0, <2>5, <3>1, EndStill
    <3>3. Settles(p, "idle", Idle)
      BY <1>0, <1>2, <3>2 DEF Settles
    <3>4. ASSUME NEW n, Closes(p, n) PROVE \E q \in Op \ {p} : Closes(q, n)
      <4>1. fs[x].closeNode /\ fs[x].node = n /\ fs[x].ioRefs # 1
        BY <1>3, <2>6, <2>8, <3>4
      <4>2. fs[x].ioRefs = Cardinality(On(x, {"io"})) /\ p \in On(x, {"io"})
        BY <1>1, <2>1 DEF Phases, On
      <4>3. On(x, {"io"}) # {p}
        BY <4>1, <4>2, FS_Singleton
      <4>4. PICK q \in Op \ {p} : at[q] = "io" /\ req[q].obj = x
        BY <4>2, <4>3 DEF On
      <4> QED
        BY <4>1, <4>4 DEF Closes
    <3> QED
      BY <1>0, <1>2, <3>2, <3>3, <3>4, CloseStep DEF Clear
  <2> QED
    BY <2>7, <2>8
<1> QED
  BY <1>4, <1>5

\* The commit of an xattr fid, which closes nothing, and the release.
LEMMA NodeRelease ==
  ASSUME FidInv, FidInv', Phases, NodeInv, NEW p \in Op, CommitXattr(p) \/ ReleaseNow(p)
  PROVE  NodeInv'
<1> USE FidTableAssumption
<1>0. /\ fs \in [Obj -> Fids] /\ at[p] \in {"finish", "release"}
      /\ UNCHANGED <<table, raced>> /\ nopen' \subseteq nopen /\ spilled \subseteq spilled'
  BY DEF FidInv, CommitXattr, ReleaseNow, Spill, hist
<1>1. PICK x \in Obj : x = req[p].obj /\ x \in LiveObj /\ fs[x] \in Fids
  BY <1>0, HasObj
<1>2. \A n : ~Minds(p, n) /\ p \notin Binding(n) /\ ~Walked(p)
  BY <1>0 DEF Minds, Binding, Walked
<1>3. \A n : Closes(p, n) <=> req[p].last /\ fs[x].node = n
  BY <1>0, <1>1 DEF Closes
<1>4. PICK g : EndWith(p, g) /\ \A o \in Obj : Alike(fs[o], g[o])
  <2>1. CASE ReleaseNow(p)
    BY <2>1, AlikeIs DEF ReleaseNow, End
  <2>2. CASE CommitXattr(p)
    <3> DEFINE y == [fs[x] EXCEPT !.closing = TRUE, !.committed = TRUE]
    <3>1. EndWith(p, [fs EXCEPT ![x].closing = TRUE, ![x].committed = TRUE])
      BY <1>1, <2>2 DEF CommitXattr
    <3>2. [fs EXCEPT ![x].closing = TRUE, ![x].committed = TRUE] = [fs EXCEPT ![x] = y]
      BY <1>0
    <3>3. Alike(fs[x], y)
      BY <1>1, AlikeIs
    <3> HIDE DEF y
    <3>4. \A o \in Obj : Alike(fs[o], [fs EXCEPT ![x] = y][o])
      BY <3>3, AlikeStore
    <3> QED
      BY <3>1, <3>2, <3>4
  <2> QED
    BY <2>1, <2>2
<1>5. /\ Still(p, "idle", Idle) /\ Idle.node = Nil /\ Idle.prev = Nil
      /\ Clear(p)' /\ \A n : p \notin Binding(n)'
  BY <1>0, <1>4, EndStill
<1>6. Settles(p, "idle", Idle)
  BY <1>0, <1>2, <1>5 DEF Settles
<1>7. \A n \in nopen \ nopen' : Closes(p, n)
  <2>1. nopen' = IF ReleaseNow(p) /\ req[p].last THEN nopen \ {fs[x].node} ELSE nopen
    <3>1. CASE ReleaseNow(p)
      BY <1>1, <3>1 DEF ReleaseNow
    <3>2. CASE CommitXattr(p) /\ ~ReleaseNow(p)
      BY <3>2 DEF CommitXattr
    <3> QED
      BY <3>1, <3>2
  <2> QED
    BY <1>3, <2>1
<1>8. \A n : Closes(p, n) => n \notin nopen' \/ n \in spilled' \cup {Root}
  BY <1>1, <1>3 DEF CommitXattr, ReleaseNow, Spill
<1> QED
  BY <1>0, <1>2, <1>5, <1>6, <1>7, <1>8, CloseStep DEF Clear

\* finishClunk: the close of the node goes to the release or to the I/O calls that are
\* left, and there is one of those unless the handler releases itself.
LEMMA NodeFinish ==
  ASSUME FidInv, FidInv', Phases, NodeInv, NEW p \in Op, FinishClunk(p)
  PROVE  NodeInv'
<1> USE FidTableAssumption
<1>0. /\ req[p] \in Calls /\ at \in [Op -> Labels] /\ req \in [Op -> Calls]
      /\ fs \in [Obj -> Fids] /\ at[p] = "finish" /\ UNCHANGED <<table, nopen, raced, spilled>>
  BY DEF FidInv, FinishClunk, hist
<1>1. PICK x \in Obj : x = req[p].obj /\ x \in LiveObj /\ fs[x] \in Fids
  BY <1>0, HasObj
<1> DEFINE y == [fs[x] EXCEPT !.closing = TRUE, !.closeNode = req[p].last]
           g == [fs EXCEPT ![x] = y]
<1>2. IF fs[x].ioRefs = 0 THEN fs' = g /\ Went(p, "release", req[p]) ELSE EndWith(p, g)
  <2>1. [fs EXCEPT ![x].closing = TRUE, ![x].closeNode = req[p].last] = g
    BY <1>0
  <2> QED
    BY <1>0, <1>1, <2>1 DEF FinishClunk, ReleasesNow, Goto, Went
<1>3. y.node = fs[x].node /\ y.closing = TRUE /\ y.closeNode = req[p].last
  BY <1>1 DEF Fids
<1>4. g[x] = y /\ \A o \in Obj \ {x} : g[o] = fs[o]
  BY <1>0
<1> HIDE DEF y, g
<1>5. PICK l \in {"idle", "release"}, c \in {Idle, req[p]} :
        /\ Went(p, l, c) /\ c.obj \in {Nil, x} /\ \A v \in {c.node, c.prev} : v \in {Nil, req[p].node, req[p].prev}
        /\ l = "release" <=> fs[x].ioRefs = 0
        /\ l = "release" => c = req[p]
        /\ \A o \in Obj : IsLive(o)' => fs'[o] = g[o]
  <2>1. CASE fs[x].ioRefs = 0
    BY <1>1, <1>2, <2>1
  <2>2. CASE fs[x].ioRefs # 0
    <3>1. /\ Went(p, "idle", Idle) /\ Idle.obj = Nil /\ \A o \in Obj : IsLive(o)' => fs'[o] = g[o]
      BY <1>0, <1>2, <2>2, EndLive
    <3>2. Idle.node = Nil /\ Idle.prev = Nil
      BY DEF Idle
    <3> QED
      BY <2>2, <3>1, <3>2
  <2> QED
    BY <2>1, <2>2
<1>6. \A q \in Op : at'[q] = (IF q = p THEN l ELSE at[q]) /\ req'[q] = IF q = p THEN c ELSE req[q]
  BY <1>0, <1>5 DEF Went
<1>7. /\ ~IsBound(x) /\ ~fs[x].closing /\ ~fs[x].closeNode
      /\ \A q \in Op \ {p} : req[q].obj = x => at[q] \notin {"decref", "finish", "release"}
  <2>1. ~IsBound(x) /\ ~fs[x].closing
    BY <1>0, <1>1 DEF Phases, Phase
  <2>2. \A q \in Op \ {p} : req[q].obj = x => at[q] \notin {"decref", "finish", "release"}
    BY <1>0, <1>1 DEF Phases
  <2> QED
    BY <1>1, <2>1, <2>2 DEF NodeInv, Flags
<1>8. \A o \in LiveObj' : o \in LiveObj /\ fs'[o] = g[o]
  <2> SUFFICES ASSUME NEW o \in LiveObj' PROVE o \in LiveObj /\ fs'[o] = g[o]
    OBVIOUS
  <2>1. o \in Obj /\ IsLive(o)'
    BY LiveNext
  <2>2. IsBound(o)' => IsBound(o)
    BY <1>0 DEF IsBound
  <2>3. IsLive(o)
    BY <1>1, <1>5, <1>6, <2>1, <2>2 DEF IsLive
  <2> QED
    BY <1>5, <2>1, <2>3, LiveIs
<1>9. \A o \in Obj : g[o].node = fs[o].node
  BY <1>3, <1>4
<1>10. ASSUME NEW q \in Op \ {p}, at[q] \in {"got", "io", "decref", "finish", "release"}
       PROVE  req[q].obj \in Obj /\ fs'[req[q].obj] = g[req[q].obj]
  <2>1. PICK o \in Obj : o = req[q].obj
    BY <1>10, HasObj
  <2>2. IsLive(o)'
    BY <1>6, <2>1 DEF IsLive
  <2> QED
    BY <1>5, <2>1, <2>2
<1>11. ASSUME NEW q \in Op \ {p}, NEW n
       PROVE  /\ Closes(q, n)' <=> Closes(q, n) \/ (at[q] = "io" /\ req[q].obj = x /\ Closes(p, n))
              /\ Minds(q, n)' <=> Minds(q, n)
              /\ q \in Binding(n)' <=> q \in Binding(n)
  <2>1. at'[q] = at[q] /\ req'[q] = req[q]
    BY <1>6
  <2>2. CASE at[q] \notin {"got", "io", "decref", "finish", "release"}
    BY <2>1, <2>2 DEF Closes, Minds, Binding, Walked
  <2>3. CASE at[q] \in {"got", "io", "decref", "finish", "release"}
    <3>1. fs'[req[q].obj].node = fs[req[q].obj].node
      BY <1>9, <1>10, <2>3
    <3>2. (Minds(q, n)' <=> Minds(q, n)) /\ (q \in Binding(n)' <=> q \in Binding(n))
      BY <2>1, <3>1 DEF Minds, Binding, Walked
    <3>3. CASE req[q].obj # x
      <4>1. fs'[req[q].obj] = fs[req[q].obj]
        BY <1>4, <1>10, <2>3, <3>3
      <4> QED
        BY <2>1, <3>2, <3>3, <4>1 DEF Closes
    <3>4. CASE req[q].obj = x
      <4>1. fs'[x] = y
        BY <1>4, <1>10, <2>3, <3>4
      <4>2. ~Closes(q, n)
        BY <1>7, <3>4 DEF Closes
      <4>3. Closes(q, n)' <=> at[q] = "io" /\ req[p].last /\ fs[x].node = n
        BY <1>3, <1>7, <2>1, <3>4, <4>1 DEF Closes
      <4>4. Closes(p, n) <=> req[p].last /\ fs[x].node = n
        BY <1>0, <1>1 DEF Closes
      <4> QED
        BY <3>2, <3>4, <4>2, <4>3, <4>4
    <3> QED
      BY <3>3, <3>4
  <2> QED
    BY <2>2, <2>3
<1>12. \A n : ~Minds(p, n) /\ p \notin Binding(n)'
  BY <1>0, <1>5, <1>6 DEF Minds, Binding, Walked
<1>13. \A n : Closes(p, n)' <=> l = "release" /\ Closes(p, n)
  <2>1. CASE l = "idle"
    BY <1>6, <2>1 DEF Closes
  <2>2. CASE l = "release"
    <3>1. at'[p] = "release" /\ req'[p] = req[p] /\ fs'[x].node = fs[x].node
      BY <1>1, <1>2, <1>5, <1>6, <1>9, <2>2
    <3> QED
      BY <1>0, <1>1, <2>2, <3>1 DEF Closes
  <2> QED
    BY <1>5, <2>1, <2>2
<1>14. \A n : BoundTo(n)' = BoundTo(n)
  <2>1. ASSUME NEW f \in Fid, table[f] # Nil PROVE fs'[table[f]].node = fs[table[f]].node
    <3>1. PICK o \in Obj : o = table[f]
      BY <2>1 DEF FidInv
    <3>2. IsLive(o)'
      BY <1>0, <3>1 DEF IsLive, IsBound
    <3> QED
      BY <1>5, <1>9, <3>1, <3>2
  <2> QED
    BY <1>0, <2>1 DEF BoundTo, Bound
<1>15. nopen \subseteq Node /\ Private /\ NodesOpen /\ NodesKept
  BY DEF NodeInv
<1>16. Private'
  <2>1. \A o \in LiveObj' : \E z \in LiveObj : fs[z].node = fs'[o].node
    BY <1>8, <1>9, LiveIs
  <2>2. l # "swap" /\ l # "bind" /\ l # "lookup"
    BY <1>5
  <2>3. PrivateKept(p, l, c)
    BY <1>0, <1>5, <1>15, <2>1, <2>2 DEF PrivateKept
  <2> QED
    BY <1>15, <2>3, PrivateStep
<1>17. Flags'
  <2> SUFFICES ASSUME NEW o \in LiveObj', fs'[o].closeNode PROVE fs'[o].closing
    BY DEF Flags
  <2>1. o \in LiveObj /\ fs'[o] = g[o] /\ o \in Obj
    BY <1>8, LiveIs
  <2>2. CASE o = x
    BY <1>3, <1>4, <2>1, <2>2
  <2>3. CASE o # x
    BY <1>4, <2>1, <2>3 DEF NodeInv, Flags
  <2> QED
    BY <2>2, <2>3
<1>18. \A n : Usable(n)' => Usable(n)
  <2>1. \A n : Binding(n)' \subseteq Binding(n)
    BY <1>11, <1>12 DEF Binding
  <2> QED
    BY <1>14, <2>1 DEF Usable
<1>19. \A n : Doomed(n)' => Doomed(n)
  BY <1>11, <1>13 DEF Doomed
<1>20. NodesOpen'
  BY <1>0, <1>15, <1>18, <1>19 DEF NodesOpen
<1>21. ASSUME NEW n, Closes(p, n) PROVE \E q \in Op : Closes(q, n)'
  <2>1. CASE l = "release"
    BY <1>13, <1>21, <2>1
  <2>2. CASE l # "release"
    <3>1. fs[x].ioRefs # 0 /\ fs[x].ioRefs = Cardinality(On(x, {"io"}))
      BY <1>1, <1>5, <2>2 DEF Phases
    <3>2. On(x, {"io"}) # {}
      BY <3>1, FS_EmptySet
    <3>3. PICK q \in Op : at[q] = "io" /\ req[q].obj = x
      BY <3>2 DEF On
    <3> QED
      BY <1>0, <1>11, <1>21, <3>3
  <2> QED
    BY <2>1, <2>2
<1>22. NodesKept'
  <2> SUFFICES ASSUME NEW n \in nopen, n \notin spilled, n # Root PROVE Kept(n)'
    BY <1>0 DEF NodesKept
  <2>1. Kept(n)
    BY <1>15 DEF NodesKept
  <2> QED
    BY <1>11, <1>12, <1>14, <1>21, <2>1 DEF Kept
<1> QED
  BY <1>0, <1>15, <1>16, <1>17, <1>20, <1>22 DEF NodeInv

-----------------------------------------------------------------------------
(* Steps that get, drop or bind a node. *)

\* Lookup and Create: handler p gets node m, closing the one it stepped past.
Gets(p, l, c, m) ==
  /\ Went(p, l, c) /\ c \in Calls /\ c.obj = req[p].obj /\ UNCHANGED <<table, fs>>
  /\ m \in FreshNode /\ c.node = m /\ c.prev \in {req[p].node, req[p].prev}
  /\ l = "swap" \/ (l = "bind" /\ c.kind = "walk")
  /\ at[p] \in {"lookup", "opening"} \/ Walked(p)
  /\ nopen' = (nopen \ (IF Walked(p) THEN {req[p].node} ELSE {})) \cup {m}
  /\ Forget(m)

\* The new node has no past, and the one stepped past was only p's.
LEMMA GetStep ==
  ASSUME FidInv, FidInv', Phases, NodeInv, NEW p \in Op, NEW l, NEW c, NEW m, Gets(p, l, c, m)
  PROVE  NodeInv'
<1> USE FidTableAssumption
<1>0. nopen \subseteq Node /\ Private /\ Flags
  BY DEF NodeInv
<1>1. /\ m \in Node \ (nopen \cup {Root, Nil})
      /\ \A o \in LiveObj : fs[o].node # m
      /\ \A q \in Op : req[q].node # m /\ req[q].prev # m
      /\ \A q \in Op : ~Closes(q, m) /\ ~Minds(q, m) /\ q \notin Binding(m)
      /\ BoundTo(m) = {}
  BY FreshApart DEF Gets
<1>2. Still(p, l, c)
  BY AlikeIs DEF Still, Gets
<1>3. /\ Undisturbed(p) /\ Flags' /\ at'[p] = l /\ req'[p] = c
      /\ \A o \in LiveObj' : o \in LiveObj /\ Alike(fs[o], fs'[o])
      /\ \A n : BoundTo(n)' = BoundTo(n)
      /\ \A n : \A q \in Op \ {p} : q \in Binding(n)' <=> q \in Binding(n)
  BY <1>0, <1>2, StillStep
<1>4. raced' = raced \ {m} /\ spilled' = spilled \ {m} /\ m \in nopen'
  BY DEF Gets, Forget, New
<1>5. \A n : (p \in Binding(n)' => n = m) /\ ~Closes(p, n)'
  BY <1>3 DEF Binding, Closes, Gets
<1>6. Minds(p, m)'
  BY <1>3 DEF Minds, Walked, Gets
<1>7. \A n : n \in nopen /\ n \notin nopen' <=> n \in nopen /\ Walked(p) /\ n = req[p].node
  BY <1>1 DEF Gets
<1>8. PrivateKept(p, l, c)
  <2>1. \A o \in LiveObj' : \E z \in LiveObj : fs[z].node = fs'[o].node
    BY <1>3 DEF Alike
  <2>2. nopen' \subseteq Node
    BY <1>0, <1>1 DEF Gets
  <2>3. c.prev # c.node
    BY <1>1 DEF Gets
  <2> QED
    BY <1>4, <1>7, <2>1, <2>2, <2>3 DEF PrivateKept, Gets
<1>9. OpenKept(p)
  <2> SUFFICES ASSUME NEW n \in Node, n \notin raced', Usable(n)'
               PROVE  \/ n \in nopen' /\ ~Closes(p, n)' /\ \A q \in Op \ {p} : ~Closes(q, n)
                      \/ n \notin raced /\ Usable(n) /\ (n \in nopen => n \in nopen')
                           /\ (Closes(p, n)' => Closes(p, n))
    BY DEF OpenKept
  <2>1. CASE n = m
    BY <1>1, <1>4, <1>5, <2>1
  <2>2. CASE n # m
    <3>1. BoundTo(n) # {} \/ \E q \in Op \ {p} : q \in Binding(n)
      BY <1>3, <1>5, <2>2, BindingNext DEF Usable
    <3>2. n \notin raced
      BY <1>4, <2>2
    <3>3. Usable(n)
      BY <3>1 DEF Usable
    <3>4. Walked(p) => n # req[p].node
      BY <1>0, <3>1, PrivateApart
    <3> QED
      BY <1>5, <1>7, <3>2, <3>3, <3>4
  <2> QED
    BY <2>1, <2>2
<1>10. LeakKept(p)
  <2> SUFFICES ASSUME NEW n \in nopen', n \notin spilled', n # m, BoundTo(n)' = {}
               PROVE  n \in nopen /\ n \notin spilled /\ BoundTo(n) = {} /\ ~Closes(p, n) /\ ~Minds(p, n)
    BY <1>6 DEF LeakKept
  <2>1. n \in nopen /\ (Walked(p) => n # req[p].node)
    BY DEF Gets
  <2>2. ~Closes(p, n) /\ ~Minds(p, n)
    BY <2>1 DEF Closes, Minds, Gets, Walked
  <2> QED
    BY <1>3, <1>4, <2>1, <2>2
<1> QED
  BY <1>3, <1>8, <1>9, <1>10, NodeStep1

\* closeUnboundNode, and the close of a child that could not be bound.
LEMMA DropStep ==
  ASSUME FidInv, FidInv', Phases, NodeInv, NEW p \in Op, Walked(p), End(p),
         nopen' = nopen \ {req[p].node}, UNCHANGED <<table, raced, spilled>>
  PROVE  NodeInv'
<1> USE FidTableAssumption
<1> DEFINE m == req[p].node
<1>0. nopen \subseteq Node /\ Private /\ Flags
  BY DEF NodeInv
<1>1. /\ BoundTo(m) = {} /\ \A q \in Op \ {p} : q \notin Binding(m)
  BY <1>0, PrivateApart
<1>2. /\ Still(p, "idle", Idle) /\ Idle.node = Nil /\ Idle.prev = Nil
      /\ Clear(p)' /\ \A n : p \notin Binding(n)'
  BY EndStill, AlikeIs DEF End
<1>3. /\ Undisturbed(p) /\ Flags'
      /\ \A o \in LiveObj' : o \in LiveObj /\ Alike(fs[o], fs'[o])
      /\ \A n : BoundTo(n)' = BoundTo(n)
      /\ \A n : \A q \in Op \ {p} : q \in Binding(n)' <=> q \in Binding(n)
  BY <1>0, <1>2, StillStep
<1>4. PrivateKept(p, "idle", Idle)
  <2>1. \A o \in LiveObj' : \E z \in LiveObj : fs[z].node = fs'[o].node
    BY <1>3 DEF Alike
  <2> QED
    BY <1>0, <1>2, <2>1 DEF PrivateKept, Still
<1>5. OpenKept(p)
  <2> SUFFICES ASSUME NEW n \in Node, n \notin raced', Usable(n)'
               PROVE  n # m /\ Usable(n) /\ ~Closes(p, n)'
    BY DEF OpenKept
  <2>1. BoundTo(n) # {} \/ \E q \in Op \ {p} : q \in Binding(n)
    BY <1>2, <1>3, BindingNext DEF Usable
  <2> QED
    BY <1>1, <1>2, <2>1 DEF Usable, Clear
<1>6. LeakKept(p)
  <2>1. \A n : n # m => ~Closes(p, n) /\ ~Minds(p, n)
    BY DEF Closes, Minds, Walked
  <2> QED
    BY <1>3, <2>1 DEF LeakKept
<1> QED
  BY <1>3, <1>4, <1>5, <1>6, NodeStep1

\* add: the fid has the root, or the node that p has hold of.
LEMMA NodeAdd ==
  ASSUME FidInv, FidInv', Phases, NodeInv, NEW p \in Op, NEW f \in Fid, NEW n \in Node, NEW s,
         Add(p, f, n, s), table[f] = Nil, UNCHANGED <<nopen, raced, spilled>>,
         \/ at[p] = "idle" /\ n = Root
         \/ at[p] = "bind" /\ n = req[p].node
  PROVE  NodeInv'
<1> USE FidTableAssumption
<1> DEFINE c == [req[p] EXCEPT !.node = n, !.prev = Nil]
<1>0. /\ req[p] \in Calls /\ at \in [Op -> Labels] /\ req \in [Op -> Calls]
      /\ fs \in [Obj -> Fids] /\ table \in [Fid -> Obj \cup {Nil}]
      /\ nopen \subseteq Node /\ Private /\ Flags
  BY DEF FidInv, NodeInv
<1>1. PICK x \in Obj : /\ x \notin LiveObj /\ table' = [table EXCEPT ![f] = x]
                       /\ fs' = [fs EXCEPT ![x] = NewFidState(n, s)] /\ Went(p, "inc", c)
  BY <1>0 DEF Add, Fresh, Goto, Went
<1>2. c.obj = req[p].obj /\ c.node = n /\ c.prev = Nil
  BY <1>0 DEF Calls
<1> HIDE DEF c
<1>3. \A q \in Op : at'[q] = (IF q = p THEN "inc" ELSE at[q]) /\ req'[q] = IF q = p THEN c ELSE req[q]
  BY <1>0, <1>1 DEF Went
<1>4. /\ fs'[x].node = n /\ ~fs'[x].closeNode /\ \A o \in Obj \ {x} : fs'[o] = fs[o]
      /\ table'[f] = x /\ \A g \in Fid \ {f} : table'[g] = table[g]
  BY <1>0, <1>1 DEF NewFidState
<1>5. \A o \in LiveObj : o \in Obj /\ fs'[o] = fs[o]
  BY <1>1, <1>4, LiveIs
<1>6. \A o \in LiveObj' : o = x \/ o \in LiveObj
  <2> SUFFICES ASSUME NEW o \in LiveObj', o # x PROVE o \in LiveObj
    OBVIOUS
  <2>1. o \in Obj /\ IsLive(o)'
    BY LiveNext
  <2>2. IsBound(o)' => IsBound(o)
    BY <1>4 DEF IsBound
  <2>3. IsLive(o)
    BY <1>2, <1>3, <2>1, <2>2 DEF IsLive
  <2> QED
    BY <2>1, <2>3, LiveIs
<1>7. Flags'
  BY <1>0, <1>4, <1>5, <1>6 DEF Flags
<1>8. ASSUME NEW q \in Op \ {p}, NEW m
      PROVE  /\ Closes(q, m)' <=> Closes(q, m)
             /\ Minds(q, m)' <=> Minds(q, m)
             /\ q \in Binding(m)' <=> q \in Binding(m)
  <2>1. at'[q] = at[q] /\ req'[q] = req[q]
    BY <1>3
  <2>2. CASE at[q] \in {"got", "io", "decref", "finish", "release"}
    <3>1. fs'[req[q].obj] = fs[req[q].obj]
      BY <1>5, <2>2, HasObj
    <3> QED
      BY <2>1, <3>1 DEF Closes, Minds, Binding, Walked
  <2>3. CASE at[q] \notin {"got", "io", "decref", "finish", "release"}
    BY <2>1, <2>3 DEF Closes, Minds, Binding, Walked
  <2> QED
    BY <2>2, <2>3
<1>9. Undisturbed(p)
  BY <1>3, <1>8 DEF Undisturbed
<1>10. \A m : /\ BoundTo(m) \subseteq BoundTo(m)'
              /\ m # n => BoundTo(m)' \subseteq BoundTo(m)
              /\ f \in BoundTo(n)'
  <2>1. \A g \in Fid : table[g] # Nil => fs'[table[g]] = fs[table[g]] /\ g # f
    BY <1>5 DEF LiveObj, Bound
  <2>2. x # Nil /\ table' = [table EXCEPT ![f] = x]
    BY <1>1
  <2>3. f \in BoundTo(n)'
    BY <1>4, <2>2 DEF BoundTo, Bound
  <2>4. ASSUME NEW m, NEW g \in Fid, g # f PROVE g \in BoundTo(m)' <=> g \in BoundTo(m)
    <3>1. table'[g] = table[g]
      BY <1>4, <2>4
    <3> QED
      BY <2>1, <3>1 DEF BoundTo, Bound
  <2>5. ASSUME NEW m PROVE BoundTo(m) \subseteq Fid \ {f} /\ BoundTo(m)' \subseteq Fid /\ (f \in BoundTo(m)' => m = n)
    BY <1>4 DEF BoundTo, Bound
  <2>6. ASSUME NEW m PROVE BoundTo(m) \subseteq BoundTo(m)'
    BY <2>4, <2>5
  <2>7. ASSUME NEW m, m # n PROVE BoundTo(m)' \subseteq BoundTo(m)
    BY <2>4, <2>5, <2>7
  <2> QED
    BY <2>3, <2>6, <2>7
<1>11. \A m : (p \in Binding(m)' => m = n) /\ ~Closes(p, m)' /\ (Minds(p, m) => m = n) /\ ~Closes(p, m)
  BY <1>2, <1>3 DEF Binding, Closes, Minds, Walked
<1>12. PrivateKept(p, "inc", c)
  <2>1. \A o \in LiveObj' : fs'[o].node \in {Root, req[p].node} \/ \E z \in LiveObj : fs[z].node = fs'[o].node
    BY <1>4, <1>5, <1>6
  <2> QED
    BY <1>0, <1>1, <1>2, <2>1 DEF PrivateKept
<1>13. OpenKept(p)
  <2> SUFFICES ASSUME NEW m \in Node, m \notin raced', m # Root, Usable(m)' PROVE Usable(m)
    BY <1>11 DEF OpenKept
  <2>1. CASE m = n
    BY <2>1 DEF Usable, Binding
  <2>2. CASE m # n
    <3>1. Binding(m)' \subseteq Binding(m)
      BY <1>8, <1>11, <2>2, BindingNext
    <3> QED
      BY <1>10, <2>2, <3>1 DEF Usable
  <2> QED
    BY <2>1, <2>2
<1>14. LeakKept(p)
  BY <1>10, <1>11 DEF LeakKept
<1> QED
  BY <1>7, <1>9, <1>12, <1>13, <1>14, NodeStep1

\* update and updateAndOpen: the fid moves to p's own node, and p drops the displaced one.
LEMMA NodeRebind ==
  ASSUME FidInv, FidInv', Phases, NodeInv, NEW p \in Op, Walked(p), NEW f \in Fid, NEW y,
         NEW c \in Calls, Rebinds(p, f, y, c), y.node = req[p].node,
         y.closing = fs[table[f]].closing, y.closeNode = fs[table[f]].closeNode,
         UNCHANGED <<nopen, raced, spilled>>
  PROVE  NodeInv'
<1> USE FidTableAssumption
<1>m. PICK m, x, d : m = req[p].node /\ x = table[f] /\ d = fs[x].node
  OBVIOUS
<1>0. /\ at \in [Op -> Labels] /\ req \in [Op -> Calls] /\ x \in Obj /\ x \in LiveObj /\ IsBound(x)
      /\ fs \in [Obj -> Fids] /\ nopen \subseteq Node /\ Private /\ Flags
  BY <1>m DEF FidInv, NodeInv, Rebinds, LiveObj, Bound, IsBound
<1>1. /\ m \in Node /\ m \in nopen /\ m # Root
      /\ \A o \in LiveObj : fs[o].node # m
      /\ \A q \in Op \ {p} : ~Closes(q, m) /\ ~Minds(q, m) /\ q \notin Binding(m)
      /\ BoundTo(m) = {}
  BY <1>0, <1>m, PrivateApart
<1>2. /\ Went(p, "inc", c) /\ c.node = m /\ c.prev = d /\ c.obj = req[p].obj /\ table' = table
      /\ fs'[x] = y /\ y.node = m /\ \A o \in Obj \ {x} : fs'[o] = fs[o]
  BY <1>0, <1>m DEF Rebinds, Went
<1>3. \A g \in Fid \ {f} : table[g] # x
  BY <1>0, <1>m DEF FidInv, Bound, Rebinds
<1>4. ~fs[x].closing /\ ~fs[x].closeNode /\ ~y.closeNode
  <2>1. ~fs[x].closing
    BY <1>m DEF Phases, Bound, Rebinds
  <2> QED
    BY <1>0, <1>m, <2>1 DEF Flags
<1>5. \A q \in Op : at'[q] = (IF q = p THEN "inc" ELSE at[q]) /\ req'[q] = IF q = p THEN c ELSE req[q]
  BY <1>0, <1>2 DEF Went
<1>6. \A o \in LiveObj' : o \in LiveObj /\ o \in Obj
  <2> SUFFICES ASSUME NEW o \in LiveObj' PROVE o \in LiveObj /\ o \in Obj
    OBVIOUS
  <2>1. o \in Obj /\ IsLive(o)'
    BY LiveNext
  <2>2. IsLive(o)
    BY <1>2, <1>5, <2>1 DEF IsLive, IsBound
  <2> QED
    BY <2>1, <2>2, LiveIs
<1>7. Flags'
  BY <1>0, <1>2, <1>4, <1>6 DEF Flags
<1>8. ASSUME NEW q \in Op \ {p}, NEW n
      PROVE  /\ Closes(q, n)' <=> Closes(q, n)
             /\ Minds(q, n)' <=> Minds(q, n)
             /\ q \in Binding(n)' => q \in Binding(n) \/ n = m
  <2>1. at'[q] = at[q] /\ req'[q] = req[q]
    BY <1>5
  <2>2. CASE at[q] \notin {"got", "io", "decref", "finish", "release"}
    BY <2>1, <2>2 DEF Closes, Minds, Binding, Walked
  <2>3. CASE at[q] \in {"got", "io", "decref", "finish", "release"} /\ req[q].obj # x
    <3>1. fs'[req[q].obj] = fs[req[q].obj]
      BY <1>2, <2>3, HasObj
    <3> QED
      BY <2>1, <3>1 DEF Closes, Minds, Binding, Walked
  <2>4. CASE req[q].obj = x /\ at[q] \in {"got", "io"}
    BY <1>2, <1>4, <2>1, <2>4 DEF Closes, Minds, Binding, Walked
  <2>5. CASE req[q].obj = x /\ at[q] \in {"decref", "finish", "release"}
    BY <1>0, <1>4, <2>5 DEF Phases, Phase
  <2> QED
    BY <2>2, <2>3, <2>4, <2>5
<1>9. Undisturbed(p)
  BY <1>5, <1>8 DEF Undisturbed
<1>10. /\ f \in BoundTo(m)'
       /\ \A n : n # m => BoundTo(n)' \subseteq BoundTo(n)
       /\ \A n : n # d => BoundTo(n) \subseteq BoundTo(n)'
  <2>1. \A g \in Fid : table[g] \in Obj \cup {Nil}
    BY DEF FidInv
  <2>2. \A g \in Fid \ {f} : table[g] # Nil => fs'[table[g]] = fs[table[g]]
    BY <1>2, <1>3, <2>1
  <2>3. table[f] = x /\ x # Nil
    BY <1>0, <1>m, FidTableAssumption
  <2> QED
    BY <1>2, <1>m, <2>2, <2>3 DEF BoundTo, Bound
<1>11. \A n : /\ p \in Binding(n)' => n = m
              /\ ~Closes(p, n)' /\ ~Closes(p, n)
              /\ Minds(p, n) => n = m
              /\ n = d => Minds(p, n)'
  <2>1. at'[p] = "inc" /\ req'[p] = c /\ at[p] \in {"swap", "bind"}
    BY <1>5 DEF Walked
  <2> QED
    BY <1>2, <1>m, <2>1 DEF Binding, Closes, Minds, Walked
<1>12. PrivateKept(p, "inc", c)
  <2>1. \A o \in LiveObj' : fs'[o].node \in {Root, req[p].node} \/ \E z \in LiveObj : fs[z].node = fs'[o].node
    BY <1>2, <1>6, <1>m
  <2>2. \A v \in {c.node, c.prev} : v = req[p].node \/ \E o \in LiveObj : fs[o].node = v
    <3>1. c.node = req[p].node /\ c.prev = fs[x].node /\ x \in LiveObj
      BY <1>0, <1>2, <1>m
    <3> QED
      BY <3>1
  <2>3. "inc" # "swap" /\ "inc" # "bind" /\ "inc" # "lookup"
    OBVIOUS
  <2>4. nopen' = nopen
    OBVIOUS
  <2> QED
    BY <1>0, <1>2, <2>1, <2>2, <2>3, <2>4 DEF PrivateKept
<1>13. OpenKept(p)
  <2> SUFFICES ASSUME NEW n \in Node, n \notin raced', Usable(n)'
               PROVE  \/ n \in nopen' /\ ~Closes(p, n)' /\ \A q \in Op \ {p} : ~Closes(q, n)
                      \/ n \notin raced /\ Usable(n) /\ (n \in nopen => n \in nopen')
                           /\ (Closes(p, n)' => Closes(p, n))
    BY DEF OpenKept
  <2>1. CASE n = m
    BY <1>1, <1>11, <2>1
  <2>2. CASE n # m
    <3>1. Binding(n)' \subseteq Binding(n)
      BY <1>8, <1>11, <2>2, BindingNext
    <3>2. Usable(n)
      BY <1>10, <2>2, <3>1 DEF Usable
    <3> QED
      BY <1>11, <3>2
  <2> QED
    BY <2>1, <2>2
<1>14. LeakKept(p)
  <2> SUFFICES ASSUME NEW n \in nopen, n \notin spilled, n # d, n # m, BoundTo(n)' = {}
               PROVE  BoundTo(n) = {} /\ ~Closes(p, n) /\ ~Minds(p, n)
    BY <1>10, <1>11 DEF LeakKept
  <2> QED
    BY <1>10, <1>11
<1> QED
  BY <1>7, <1>9, <1>12, <1>13, <1>14, NodeStep1

\* clunk: the handler that took the fid minds its node until it has counted it.
LEMMA NodeClunk ==
  ASSUME FidInv, FidInv', Phases, NodeInv, NEW p \in Op, NEW k \in Kinds, NEW f \in Fid,
         Clunk(p, k, f)
  PROVE  NodeInv'
<1> USE FidTableAssumption
<1> DEFINE c == [Idle EXCEPT !.kind = k, !.obj = table[f]]
<1>0. /\ at \in [Op -> Labels] /\ req \in [Op -> Calls] /\ table \in [Fid -> Obj \cup {Nil}]
      /\ nopen \subseteq Node /\ Private /\ Flags
  BY DEF FidInv, NodeInv
<1>1. /\ at[p] = "idle" /\ table[f] # Nil /\ table' = [table EXCEPT ![f] = Nil]
      /\ Went(p, "decref", c) /\ UNCHANGED <<fs, nopen, raced, spilled>>
  BY DEF Clunk, Goto, Went, hist
<1>2. c.obj = table[f] /\ c.node = Nil /\ c.prev = Nil
  BY DEF Idle
<1> HIDE DEF c
<1>3. \A q \in Op : at'[q] = (IF q = p THEN "decref" ELSE at[q]) /\ req'[q] = IF q = p THEN c ELSE req[q]
  BY <1>0, <1>1 DEF Went
<1>4. \A o \in LiveObj' : o \in LiveObj
  <2> SUFFICES ASSUME NEW o \in LiveObj' PROVE o \in LiveObj
    OBVIOUS
  <2>1. o \in Obj /\ IsLive(o)'
    BY LiveNext
  <2>2. IsBound(o)' => IsBound(o)
    BY <1>0, <1>1, <2>1 DEF IsBound
  <2>3. IsLive(o)
    BY <1>2, <1>3, <2>1, <2>2 DEF IsLive, IsBound
  <2> QED
    BY <2>1, <2>3, LiveIs
<1>5. Flags'
  BY <1>0, <1>1, <1>4 DEF Flags
<1>6. ASSUME NEW q \in Op \ {p}, NEW n
      PROVE  /\ Closes(q, n)' <=> Closes(q, n)
             /\ Minds(q, n)' <=> Minds(q, n)
             /\ q \in Binding(n)' <=> q \in Binding(n)
  <2>1. at'[q] = at[q] /\ req'[q] = req[q] /\ fs' = fs
    BY <1>1, <1>3
  <2> QED
    BY <2>1 DEF Closes, Minds, Binding, Walked
<1>7. Undisturbed(p)
  BY <1>3, <1>6 DEF Undisturbed
<1>8. \A n : BoundTo(n)' \subseteq BoundTo(n) /\ BoundTo(n) \subseteq BoundTo(n)' \cup {f}
  BY <1>0, <1>1 DEF BoundTo, Bound
<1>9. \A n : /\ p \notin Binding(n)' /\ ~Closes(p, n)' /\ ~Closes(p, n) /\ ~Minds(p, n)
             /\ f \in BoundTo(n) => Minds(p, n)'
  BY <1>1, <1>2, <1>3 DEF Binding, Closes, Minds, Walked, BoundTo
<1>10. PrivateKept(p, "decref", c)
  BY <1>0, <1>1, <1>2, <1>4 DEF PrivateKept
<1>11. OpenKept(p)
  <2> SUFFICES ASSUME NEW n \in Node, Usable(n)' PROVE Usable(n)
    BY <1>1, <1>9 DEF OpenKept
  <2>1. Binding(n)' \subseteq Binding(n)
    BY <1>6, <1>9, BindingNext
  <2> QED
    BY <1>8, <2>1 DEF Usable
<1>12. LeakKept(p)
  BY <1>1, <1>8, <1>9 DEF LeakKept
<1> QED
  BY <1>5, <1>7, <1>10, <1>11, <1>12, NodeStep1

\* The end of the session closes what the fids had, and nobody else had anything.
LEMMA NodeClunkAll ==
  ASSUME FidInv, FidInv', NodeInv, ClunkAll
  PROVE  NodeInv'
<1>1. \A p \in Op : at[p] = "idle" /\ at'[p] = "idle"
  BY DEF ClunkAll
<1>2. \A n : \A p \in Op : /\ ~Closes(p, n) /\ ~Closes(p, n)' /\ ~Minds(p, n)
                           /\ p \notin Binding(n)' /\ ~Walked(p)'
  BY <1>1 DEF Closes, Minds, Binding, Walked
<1>3. \A n : BoundTo(n)' = {} /\ Binding(n)' = {}
  <2>1. \A n : BoundTo(n)' = {}
    BY DEF ClunkAll, BoundTo, Bound
  <2> QED
    BY <1>2, <2>1 DEF Binding
<1>4. Private' /\ NodesOpen'
  BY <1>1, <1>2, <1>3 DEF Private, NodesOpen, Usable
<1>5. Flags'
  <2>1. \A o \in LiveObj' : o \in Obj /\ fs'[o] = Blank
    BY LiveNext DEF ClunkAll
  <2>2. ~Blank.closeNode
    BY DEF Blank, NewFidState
  <2> QED
    BY <2>1, <2>2 DEF Flags
<1>6. ASSUME NEW n \in nopen' PROVE n \in spilled' \cup {Root}
  <2>1. n \in nopen /\ n \in Node /\ UNCHANGED spilled
        /\ ~(BoundTo(n) # {} /\ refs[n] - Cardinality(BoundTo(n)) = 0)
    BY <1>6 DEF ClunkAll, NodeInv, hist
  <2>2. Incs(n)' = {} /\ Decs(n)' = {} /\ Prevs(n)' = {}
    BY <1>1 DEF Incs, Decs, Prevs
  <2>3. refs'[n] = 0
    BY <1>3, <2>1, <2>2, NoneCountedNext
  <2>4. refs'[n] = refs[n] - Cardinality(BoundTo(n))
    BY <2>1 DEF ClunkAll
  <2>5. BoundTo(n) = {}
    BY <2>1, <2>3, <2>4
  <2> QED
    BY <1>2, <2>1, <2>5 DEF NodeInv, NodesKept, Kept
<1>7. NodesKept' /\ nopen' \subseteq Node
  BY <1>6 DEF NodesKept, ClunkAll, NodeInv
<1> QED
  BY <1>4, <1>5, <1>7 DEF NodeInv

\* The walks from the first Lookup to the bind, Create, and what binds.
LEMMA NodeBind ==
  ASSUME FidInv, FidInv', Phases, NodeInv, NEW p \in Op,
         \/ \E f \in Fid : Attach(p, f)
         \/ WalkFirst(p) \/ WalkOn(p) \/ WalkPartial(p) \/ BindNew(p) \/ Update(p)
         \/ CallOpen(p) \/ UpdateAndOpen(p)
  PROVE  NodeInv'
<1> USE FidTableAssumption
<1>0. /\ req[p] \in Calls /\ at \in [Op -> Labels] /\ req \in [Op -> Calls]
      /\ table \in [Fid -> Obj \cup {Nil}] /\ fs \in [Obj -> Fids] /\ Placed(at[p], req[p])
      /\ FreshNode \subseteq Node /\ FreshHandle \subseteq Handle
      /\ nopen \subseteq Node /\ Private
  <2>1. FreshNode \subseteq Node /\ FreshHandle \subseteq Handle
    BY DEF FreshNode, FreshHandle, Fresh
  <2> QED
    BY <2>1 DEF FidInv, NodeInv
<1>1. Walked(p) => Unbound(req[p].node, req[p].prev) = {req[p].node}
  BY <1>0, PrivateApart
<1>2. ASSUME NEW f \in Fid, Attach(p, f) PROVE NodeInv'
  BY <1>2, NodeAdd DEF Attach, MayAdd, hist
<1>3. CASE WalkFirst(p)
  <2>1. at[p] = "lookup" /\ req[p].kind = "walk" /\ ~Walked(p) /\ UNCHANGED table
    BY <1>0, <1>3 DEF WalkFirst, Walked, Private
  <2>2. CASE End(p) /\ UNCHANGED <<nopen, raced, spilled>>
    BY <1>3, <2>2, QuietSteps
  <2>3. ASSUME NEW m \in FreshNode,
               /\ req' = [req EXCEPT ![p].node = m, ![p].prev = req[p].node]
               /\ nopen' = nopen \cup {m} /\ Forget(m) /\ Goto(p, "bind") /\ UNCHANGED fs
        PROVE  NodeInv'
    <3> DEFINE c == [req[p] EXCEPT !.node = m, !.prev = req[p].node]
    <3>1. /\ Went(p, "bind", c)
      BY <1>0, <2>3 DEF Goto, Went
    <3>2. /\ c \in Calls /\ c.obj = req[p].obj /\ c.node = m /\ c.prev = req[p].node
          /\ c.kind = req[p].kind
      BY <1>0 DEF Calls
    <3> HIDE DEF c
    <3>3. Gets(p, "bind", c, m)
      BY <2>1, <2>3, <3>1, <3>2 DEF Gets
    <3> QED
      BY <3>3, GetStep
  <2> QED
    BY <1>3, <2>2, <2>3 DEF WalkFirst
<1>4. CASE WalkOn(p)
  <2>1. PICK m \in FreshNode :
               /\ req' = [req EXCEPT ![p].node = m]
               /\ nopen' = (nopen \ Unbound(req[p].node, req[p].prev)) \cup {m} /\ Forget(m)
    BY <1>4 DEF WalkOn
  <2> DEFINE c == [req[p] EXCEPT !.node = m]
  <2>2. /\ at[p] = "bind" /\ req[p].kind = "walk" /\ Went(p, "bind", c) /\ UNCHANGED <<table, fs>>
    BY <1>0, <1>4, <2>1 DEF WalkOn, Went
  <2>3. c \in Calls /\ c.obj = req[p].obj /\ c.node = m /\ c.prev = req[p].prev /\ c.kind = "walk"
    BY <1>0, <2>2 DEF Calls
  <2> HIDE DEF c
  <2>4. Walked(p)
    BY <2>2 DEF Walked
  <2>5. Gets(p, "bind", c, m)
    BY <1>1, <2>1, <2>2, <2>3, <2>4 DEF Gets
  <2> QED
    BY <2>5, GetStep
<1>5. CASE WalkPartial(p)
  <2>1. Walked(p) /\ End(p) /\ UNCHANGED <<table, raced, spilled>>
        /\ nopen' = nopen \ Unbound(req[p].node, req[p].prev)
    BY <1>5 DEF WalkPartial, Walked, hist
  <2> QED
    BY <1>1, <2>1, DropStep
<1>6. CASE BindNew(p)
  <2>1. at[p] = "bind" /\ req[p].new \in Fid /\ req[p].node \in Node /\ UNCHANGED <<raced, spilled>>
    BY <1>0, <1>6 DEF BindNew, Placed, hist
  <2>2. CASE MayAdd(req[p].new)
    BY <1>6, <2>1, <2>2, NodeAdd DEF BindNew, MayAdd
  <2>3. CASE ~MayAdd(req[p].new)
    <3>1. /\ End(p) /\ UNCHANGED table
          /\ nopen' = IF req[p].kind = "walk" THEN nopen \ Unbound(req[p].node, req[p].prev) ELSE nopen
      BY <1>6, <2>3 DEF BindNew
    <3>2. CASE req[p].kind = "walk"
      <4>1. Walked(p)
        BY <2>1, <3>2 DEF Walked
      <4> QED
        BY <1>1, <2>1, <3>1, <3>2, <4>1, DropStep
    <3>3. CASE req[p].kind # "walk"
      <4>1. Clear(p)
        BY <2>1, <3>3, DullClear DEF Dull
      <4> QED
        BY <2>1, <3>1, <3>3, <4>1, QuietEnd, AlikeIs DEF End
    <3> QED
      BY <3>2, <3>3
  <2> QED
    BY <2>2, <2>3
<1>7. CASE Update(p)
  <2> DEFINE x == table[req[p].fid]
  <2>1. /\ at[p] = "bind" /\ Walked(p) /\ req[p].fid \in Fid /\ req[p].node \in Node
        /\ UNCHANGED <<table, refs, raced, spilled>>
    BY <1>0, <1>7 DEF Update, Walked, Placed, hist
  <2>2. CASE x = Nil
    <3>1. End(p) /\ nopen' = nopen \ Unbound(req[p].node, req[p].prev)
      BY <1>7, <2>2 DEF Update
    <3> QED
      BY <1>1, <2>1, <3>1, DropStep
  <2>3. CASE x # Nil
    <3> DEFINE y == [fs[x] EXCEPT !.node = req[p].node]
               c == [req[p] EXCEPT !.prev = fs[x].node]
    <3>1. /\ x \in Obj /\ fs' = [fs EXCEPT ![x].node = req[p].node] /\ UNCHANGED nopen
          /\ req' = [req EXCEPT ![p].prev = fs[x].node] /\ at' = [at EXCEPT ![p] = "inc"]
      BY <1>0, <1>7, <2>1, <2>3 DEF Update, Displaced, Goto
    <3>2. /\ y.node = req[p].node /\ fs' = [fs EXCEPT ![x] = y]
          /\ y.closing = fs[x].closing /\ y.closeNode = fs[x].closeNode
      <4>1. fs \in [Obj -> Fids] /\ fs[x] \in Fids
        BY <1>0, <3>1
      <4> QED
        BY <2>1, <3>1, <4>1, SMT DEF Fids
    <3>3. /\ c \in Calls /\ c.node = req[p].node /\ c.prev = fs[x].node /\ c.obj = req[p].obj
          /\ req' = [req EXCEPT ![p] = c]
      BY <1>0, <3>1 DEF Calls, Fids
    <3>4. at[p] \in Calm
      BY <2>1 DEF Calm, Labels
    <3> HIDE DEF y, c
    <3>5. Rebinds(p, req[p].fid, y, c)
      BY <2>1, <2>3, <3>1, <3>2, <3>3, <3>4 DEF Rebinds
    <3> QED
      BY <2>1, <3>1, <3>2, <3>3, <3>5, NodeRebind
  <2> QED
    BY <2>2, <2>3
<1>8. CASE CallOpen(p)
  <2>1. at[p] = "opening" /\ ~Walked(p) /\ UNCHANGED table /\ Clear(p) /\ Dull(at[p], req[p])
    BY <1>8, DullClear DEF CallOpen, Walked, Dull
  <2>2. CASE End(p) /\ UNCHANGED <<nopen, raced, spilled>>
    BY <2>1, <2>2, QuietEnd, AlikeIs DEF End
  <2>3. ASSUME NEW h \in FreshHandle, Goto(p, "mark"), req' = [req EXCEPT ![p].handle = h],
               UNCHANGED <<nopen, fs, raced, spilled>>
        PROVE  NodeInv'
    <3> DEFINE c == [req[p] EXCEPT !.handle = h]
    <3>1. Went(p, "mark", c)
      BY <1>0, <2>3 DEF Goto, Went
    <3>2. c \in Calls /\ c.obj = req[p].obj /\ c.node = req[p].node /\ c.prev = req[p].prev
      BY <1>0 DEF Calls
    <3> HIDE DEF c
    <3>3. Dull("mark", c) /\ at'[p] = "mark"
      BY <1>0, <3>1 DEF Dull, Went
    <3>4. \A n \in Node : p \notin Binding(n)'
      BY <3>3 DEF Binding
    <3> QED
      BY <2>1, <2>3, <3>1, <3>2, <3>3, <3>4, QuietGo
  <2>4. ASSUME NEW h \in FreshHandle, NEW m \in FreshNode, Goto(p, "swap"),
               req' = [req EXCEPT ![p].handle = h, ![p].node = m],
               nopen' = nopen \cup {m}, Forget(m), UNCHANGED fs
        PROVE  NodeInv'
    <3> DEFINE c == [req[p] EXCEPT !.handle = h, !.node = m]
    <3>1. Went(p, "swap", c)
      BY <1>0, <2>4 DEF Goto, Went
    <3>2. c \in Calls /\ c.obj = req[p].obj /\ c.node = m /\ c.prev = req[p].prev
      BY <1>0 DEF Calls
    <3> HIDE DEF c
    <3>3. Gets(p, "swap", c, m)
      BY <2>1, <2>4, <3>1, <3>2 DEF Gets
    <3> QED
      BY <3>3, GetStep
  <2> QED
    BY <1>8, <2>2, <2>3, <2>4 DEF CallOpen
<1>9. CASE UpdateAndOpen(p)
  <2> DEFINE x == table[req[p].fid]
  <2>1. /\ at[p] = "swap" /\ Walked(p) /\ req[p].fid \in Fid /\ req[p].node \in Node
        /\ UNCHANGED <<table, refs, raced, spilled>>
    BY <1>0, <1>9 DEF UpdateAndOpen, Walked, Placed, hist
  <2>2. CASE ~MayOpen(req[p].fid)
    <3>1. End(p) /\ nopen' = nopen \ {req[p].node}
      BY <1>9, <2>2 DEF UpdateAndOpen
    <3> QED
      BY <2>1, <3>1, DropStep
  <2>3. CASE MayOpen(req[p].fid)
    <3> DEFINE y == [fs[x] EXCEPT !.node = req[p].node, !.state = "opened", !.handle = req[p].handle]
               c == [req[p] EXCEPT !.prev = fs[x].node, !.handle = Nil]
    <3>1. /\ x \in Obj /\ UNCHANGED nopen
          /\ fs' = [fs EXCEPT ![x].node = req[p].node, ![x].state = "opened",
                              ![x].handle = req[p].handle]
          /\ req' = [req EXCEPT ![p].prev = fs[x].node, ![p].handle = Nil]
          /\ at' = [at EXCEPT ![p] = "inc"]
      BY <1>0, <1>9, <2>1, <2>3 DEF UpdateAndOpen, MayOpen, Goto
    <3>2. /\ c \in Calls /\ c.node = req[p].node /\ c.prev = fs[x].node /\ c.obj = req[p].obj
          /\ req' = [req EXCEPT ![p] = c]
      BY <1>0, <3>1 DEF Calls, Fids
    <3>3. at[p] \in Calm /\ fs[x] \in Fids /\ x # Nil
      BY <1>0, <2>1, <3>1 DEF Calm, Labels
    <3> HIDE DEF x, c
    <3>4. /\ y.node = req[p].node /\ y.closing = fs[x].closing /\ y.closeNode = fs[x].closeNode
      BY <3>3 DEF Fids
    <3>5. fs' = [fs EXCEPT ![x] = y]
      BY <1>0, <3>1
    <3> HIDE DEF y
    <3>6. Rebinds(p, req[p].fid, y, c)
      BY <2>1, <3>1, <3>2, <3>3, <3>4, <3>5 DEF Rebinds, x
    <3> QED
      BY <2>1, <3>1, <3>2, <3>4, <3>6, NodeRebind DEF x
  <2> QED
    BY <2>2, <2>3
<1> QED
  BY <1>2, <1>3, <1>4, <1>5, <1>6, <1>7, <1>8, <1>9

\* One step of any handler, or the end of the session.
LEMMA NodeStep == FidInv /\ HandleInv /\ NodeInv /\ FidInv' /\ [Next]_vars => NodeInv'
<1> SUFFICES ASSUME FidInv, FidInv', Phases, NodeInv, [Next]_vars PROVE NodeInv'
  BY SMT DEF HandleInv
<1>1. CASE UNCHANGED vars
  <2>1. UNCHANGED <<table, fs, at, req, nopen, raced, spilled>>
    BY <1>1 DEF vars, hist
  <2>2. /\ LiveObj' = LiveObj
        /\ \A n : BoundTo(n)' = BoundTo(n) /\ Binding(n)' = Binding(n)
        /\ \A n : \A p \in Op : /\ Closes(p, n)' <=> Closes(p, n)
                                /\ Minds(p, n)' <=> Minds(p, n)
                                /\ Walked(p)' <=> Walked(p)
    <3>1. LiveObj' = LiveObj
      BY <2>1 DEF LiveObj, Bound
    <3>2. \A n : BoundTo(n)' = BoundTo(n)
      BY <2>1 DEF BoundTo, Bound
    <3>3. \A n : Binding(n)' = Binding(n)
      BY <2>1 DEF Binding
    <3>4. \A p \in Op : Walked(p)' <=> Walked(p)
      BY <2>1 DEF Walked
    <3>5. \A n : \A p \in Op : (Closes(p, n)' <=> Closes(p, n)) /\ (Minds(p, n)' <=> Minds(p, n))
      BY <2>1, <3>4 DEF Closes, Minds
    <3> QED
      BY <3>1, <3>2, <3>3, <3>4, <3>5
  <2>3. \A n : /\ Usable(n)' <=> Usable(n)
               /\ Doomed(n)' <=> Doomed(n)
               /\ Kept(n)' <=> Kept(n)
    BY <2>2 DEF Usable, Doomed, Kept
  <2>4. Private' /\ Flags'
    BY <2>1, <2>2 DEF NodeInv, Private, Flags
  <2> QED
    BY <2>1, <2>3, <2>4 DEF NodeInv, NodesOpen, NodesKept
<1>2. ASSUME NEW p \in Op, Request(p) PROVE NodeInv'
  <2>1. ASSUME NEW f \in Fid, Attach(p, f) PROVE NodeInv'
    BY <2>1, NodeBind
  <2>2. ASSUME NEW f \in Fid, NEW g \in Fid \cup {Nil}, NEW k \in Kinds, Get(p, k, f, g)
        PROVE  NodeInv'
    BY <2>2, QuietSteps
  <2>3. ASSUME NEW f \in Fid, NEW k \in {"clunk", "remove"}, Clunk(p, k, f)
        PROVE  NodeInv'
    BY <2>3, NodeClunk DEF Kinds
  <2> QED
    BY <1>2, <2>1, <2>2, <2>3 DEF Request, Kinds
<1>3. ASSUME NEW p \in Op, Step(p) PROVE NodeInv'
  BY <1>3, QuietSteps, NodeBind, NodeCount, NodeIO, NodeDecRef, NodeRelease, NodeFinish DEF Step
<1> QED
  BY <1>1, <1>2, <1>3, NodeClunkAll DEF Next

\* A new connection has the root open and no fids.
LEMMA NodeInit == Init => NodeInv
<1> SUFFICES ASSUME Init PROVE NodeInv
  OBVIOUS
<1>1. /\ \A p \in Op : at[p] = "idle" /\ req[p].obj = Nil
      /\ \A f \in Fid : table[f] = Nil
      /\ nopen = {Root}
  BY DEF Init, Idle
<1>2. LiveObj = {} /\ Bound = {} /\ \A n : BoundTo(n) = {} /\ Binding(n) = {}
  BY <1>1 DEF LiveObj, Bound, BoundTo, Binding
<1>3. Flags /\ Private /\ NodesOpen /\ NodesKept
  BY <1>1, <1>2 DEF Flags, Private, Walked, NodesOpen, Usable, NodesKept
<1> QED
  BY <1>1, <1>3, FidTableAssumption DEF NodeInv

\* The node of a bound fid is open, however clunks, walks, creates and the end of the
\* session interleave, unless the last reference went while a handler that was to bind the
\* node had not counted it yet (decRefNode, closeUnboundNode, finishClunk, clunkAll).
THEOREM BoundNodesOpen == Spec => []BoundNodeOpenUnlessRaced
<1>1. FidInv /\ NodeInv => BoundNodeOpenUnlessRaced
  <2> SUFFICES ASSUME FidInv, NodesOpen, NEW f \in Bound
               PROVE  fs[table[f]].node \in nopen \cup raced \cup {Root}
    BY DEF NodeInv, BoundNodeOpenUnlessRaced
  <2>1. fs[table[f]].node \in Node /\ f \in BoundTo(fs[table[f]].node)
    BY DEF FidInv, BoundTo
  <2> QED
    BY <2>1 DEF NodesOpen, Usable
<1> QED
  BY <1>1, FidInit, FidStep, HandleInit, HandleStep, NodeInit, NodeStep, PTL DEF Spec

\* No open node is forgotten: it is the root's, a fid's or a handler's that will close or
\* count it, unless its count reached zero where the code does not look (handleWalk and
\* handleLcreate drop decRefNode's result, an xattr commit returns before the close).
THEOREM NodesNotLeaked == Spec => []NoNodeLeakUnlessSpilled
<1>1. FidInv /\ HandleInv /\ NodeInv => NoNodeLeakUnlessSpilled
  <2> SUFFICES ASSUME FidInv, Phases, NodesKept, NEW n \in nopen, n \notin spilled \cup {Root}
               PROVE  n \in LiveNode
    BY DEF HandleInv, NodeInv, NoNodeLeakUnlessSpilled
  <2>1. CASE BoundTo(n) # {}
    BY <2>1 DEF BoundTo, LiveNode, LiveObj
  <2>2. ASSUME NEW p \in Op, Closes(p, n) \/ Minds(p, n) PROVE n \in LiveNode
    BY <2>2, HasNode DEF LiveNode
  <2> QED
    BY <2>1, <2>2 DEF NodesKept, Kept
<1> QED
  BY <1>1, FidInit, FidStep, HandleInit, HandleStep, NodeInit, NodeStep, PTL DEF Spec
=============================================================================
