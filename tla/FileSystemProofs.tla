-------------------------- MODULE FileSystemProofs --------------------------
(***************************************************************************)
(* The two file systems that come with the server, for any number of       *)
(* requests.                                                               *)
(*                                                                         *)
(* FileTree implements Namespace, for any number of Inodes and names.  A   *)
(* handler's second update of the tree must find what its first one left;  *)
(* it does because whoever touches the name in between marks it as         *)
(* overlapped.  And the order in which Inodes were made orders their       *)
(* locks.                                                                  *)
(*                                                                         *)
(* Passthrough keeps exact account of its descriptors, for any number of   *)
(* them: every step hands one from holder to holder, opens or closes it.   *)
(***************************************************************************)
EXTENDS FileTree, Passthrough, FiniteSetTheorems, TLAPS

USE Zenon   \* a leaf that needs arithmetic or long case splits names SMT

Ops == [st : States, dir : Obj \cup {None}, name : Name \cup {None}, node : Obj \cup {None}]

Adding == {"register", "created"}
Removing == {"unlinked", "removed"}

\* A handler in mid-operation knows the name it works on, and a node to add or
\* remove, which exists.
Placed(r) ==
  /\ r.st = "idle" => r.dir = None
  /\ r.st \in Adding \cup Removing \cup {"scanned"} => r.dir \in Obj /\ r.name \in Name
  /\ r.st \in Adding \cup {"scanned"} => r.node \in Obj
  /\ r.st \in Adding => kind[r.dir] = "dir" /\ kind[r.node] # "unused"

\* What it has left under that name.
Left(r) ==
  /\ r.st \in Adding \cup {"scanned"} => children[r.dir][r.name] = r.node
  /\ r.st \in Removing => children[r.dir][r.name] = None

\* Two handlers on one name have overlapped, and a name without overlap is as
\* its handler left it.
Mine ==
  /\ \A v, w \in Worker :
       /\ v # w /\ Pending(v) /\ Pending(w) /\ op[v].dir \in Obj
       /\ op[v].dir = op[w].dir /\ op[v].name = op[w].name
       => <<op[v].dir, op[v].name>> \in overlaps
  /\ \A w \in Worker : <<op[w].dir, op[w].name>> \notin overlaps => Left(op[w])

\* Only directories have children, and all of them exist.
Grown ==
  \A d \in Obj, n \in Name :
    children[d][n] # None => kind[d] = "dir" /\ kind[children[d][n]] # "unused"

\* d is, or is about to be made, the parent of c.
Over(d, c) ==
  \/ \E n \in Name : children[d][n] = c
  \/ \E w \in Worker : op[w].st \in Adding /\ op[w].dir = d /\ op[w].node = c

\* No two Inodes are above each other, and nobody holds a lock for good.
Ordered == locked = {} /\ \A d, c \in Obj : ~(Over(d, c) /\ Over(c, d))

TreeInv ==
  /\ kind \in [Obj -> {"unused", "dir", "file"}]
  /\ children \in [Obj -> [Name -> Obj \cup {None}]]
  /\ parent \in [Obj -> Obj \cup {None}]
  /\ op \in [Worker -> Ops]
  /\ overlaps \subseteq Obj \X Name
  /\ \A w \in Worker : Placed(op[w])
  /\ Mine /\ Grown
  /\ rebound \/ Ordered

-----------------------------------------------------------------------------
\* Handler w acts on the name n of d, which means x afterwards; r is what it has
\* still to do.
Acts(w, d, n, x, r) ==
  /\ children' = [children EXCEPT ![d][n] = x]
  /\ op' = [op EXCEPT ![w] = r]
  /\ overlaps \subseteq overlaps' /\ overlaps' \subseteq overlaps \cup {<<d, n>>}
  /\ Meets(w, d, n) => <<d, n>> \in overlaps'
  /\ r.st # "idle" => /\ r.dir = d /\ r.name = n
                      /\ \/ <<d, n>> \in overlaps'
                         \/ /\ r.st \in Adding \cup {"scanned"} => x = r.node
                            /\ r.st \in Removing => x = None

\* Every action of a handler leaves the others' names alone or marks them.
LEMMA ActsMine ==
  ASSUME TreeInv, NEW w \in Worker, NEW d \in Obj, NEW n \in Name, NEW x \in Obj \cup {None},
         NEW r \in Ops, Acts(w, d, n, x, r), Placed(r)'
  PROVE  /\ children' \in [Obj -> [Name -> Obj \cup {None}]]
         /\ op' \in [Worker -> Ops]
         /\ Mine'
<1>1. /\ children \in [Obj -> [Name -> Obj \cup {None}]] /\ op \in [Worker -> Ops]
      /\ \A v \in Worker : Placed(op[v])
  BY DEF TreeInv
<1>2. /\ children' \in [Obj -> [Name -> Obj \cup {None}]] /\ /\ children'[d][n] = x
      /\ \A e \in Obj, m \in Name : <<e, m>> # <<d, n>> => children'[e][m] = children[e][m]
  BY <1>1 DEF Acts
<1>3. /\ op' \in [Worker -> Ops] /\ op'[w] = r /\ \A v \in Worker \ {w} : op'[v] = op[v]
  BY <1>1 DEF Acts
<1>4. ASSUME NEW v \in Worker \ {w}, Pending(v), op[v].dir = d, op[v].name = n
      PROVE  <<d, n>> \in overlaps'
  BY <1>4 DEF Acts, Meets
<1>5. ASSUME NEW u \in Worker, NEW v \in Worker, u # v, Pending(u)', Pending(v)',
             op'[u].dir \in Obj, op'[u].dir = op'[v].dir, op'[u].name = op'[v].name
      PROVE  <<op'[u].dir, op'[u].name>> \in overlaps'
  <2>1. CASE u # w /\ v # w
    BY <1>3, <1>5, <2>1 DEF TreeInv, Mine, Pending, Acts
  <2>2. CASE u = w
    BY <1>3, <1>4, <1>5, <2>2, SMT DEF Pending, Acts
  <2>3. CASE v = w
    BY <1>3, <1>4, <1>5, <2>3, SMT DEF Pending, Acts
  <2> QED
    BY <2>1, <2>2, <2>3
<1>6. ASSUME NEW v \in Worker, <<op'[v].dir, op'[v].name>> \notin overlaps'
      PROVE  Left(op[v])'
  <2>1. CASE v = w
    BY <1>2, <1>3, <1>6, <2>1 DEF Left, Acts, Adding, Removing
  <2>2. CASE v # w /\ op[v].st = "idle"
    BY <1>3, <2>2 DEF Left, Adding, Removing
  <2>3. CASE v # w /\ op[v].st # "idle"
    <3>1. op'[v] = op[v] /\ Left(op[v])
      BY <1>3, <1>6, <2>3 DEF TreeInv, Mine, Acts
    <3>2. <<op[v].dir, op[v].name>> # <<d, n>>
      BY <1>4, <1>6, <2>3, <3>1 DEF Pending
    <3> QED
      BY <1>1, <1>2, <3>1, <3>2, SMT DEF Left, Placed
  <2> QED
    BY <2>1, <2>2, <2>3
<1>7. (\A v \in Worker : <<op[v].dir, op[v].name>> \notin overlaps => Left(op[v]))'
  BY <1>6
<1> QED
  BY <1>2, <1>3, <1>5, <1>7 DEF Mine

\* A step that makes nobody a parent keeps the order.
LEMMA ActsOrdered ==
  ASSUME TreeInv, NEW w \in Worker, NEW d \in Obj, NEW n \in Name, NEW x \in Obj \cup {None},
         NEW r \in Ops, Acts(w, d, n, x, r), UNCHANGED <<locked, rebound>>,
         x # None => Over(d, x), r.st \in Adding => Over(r.dir, r.node)
  PROVE  (rebound \/ Ordered)'
<1>1. /\ children \in [Obj -> [Name -> Obj \cup {None}]] /\ op \in [Worker -> Ops]
  BY DEF TreeInv
<1>2. /\ children'[d][n] = x
      /\ \A e \in Obj, m \in Name : <<e, m>> # <<d, n>> => children'[e][m] = children[e][m]
  BY <1>1 DEF Acts
<1>3. op'[w] = r /\ \A v \in Worker \ {w} : op'[v] = op[v]
  BY <1>1 DEF Acts
<1>4. ASSUME NEW e \in Obj, NEW c \in Obj, Over(e, c)'
      PROVE  Over(e, c)
  <2>1. ASSUME NEW m \in Name, children'[e][m] = c
        PROVE  Over(e, c)
    BY <1>2, <2>1, FileTreeAssumption, SMT DEF Over
  <2>2. ASSUME NEW v \in Worker, op'[v].st \in Adding, op'[v].dir = e, op'[v].node = c
        PROVE  Over(e, c)
    BY <1>3, <2>2 DEF Over
  <2> QED
    BY <1>4, <2>1, <2>2 DEF Over
<1> QED
  BY <1>4 DEF TreeInv, Ordered

\* The invariant after a step, given its order.
LEMMA ActsInv ==
  ASSUME TreeInv, NEW w \in Worker, NEW d \in Obj, NEW n \in Name, NEW x \in Obj \cup {None},
         NEW r \in Ops, Acts(w, d, n, x, r), Placed(r)',
         kind' \in [Obj -> {"unused", "dir", "file"}], parent' \in [Obj -> Obj \cup {None}],
         \A o \in Obj : kind[o] # "unused" => kind'[o] = kind[o],
         x # None => kind'[d] = "dir" /\ kind'[x] # "unused",
         (rebound \/ Ordered)'
  PROVE  TreeInv'
<1>1. /\ children \in [Obj -> [Name -> Obj \cup {None}]] /\ op \in [Worker -> Ops]
      /\ \A v \in Worker : Placed(op[v])
  BY DEF TreeInv
<1>2. /\ children'[d][n] = x
      /\ \A e \in Obj, m \in Name : <<e, m>> # <<d, n>> => children'[e][m] = children[e][m]
  BY <1>1 DEF Acts
<1>3. op'[w] = r /\ \A v \in Worker \ {w} : op'[v] = op[v]
  BY <1>1 DEF Acts
<1>4. ASSUME NEW v \in Worker
      PROVE  Placed(op[v])'
  <2>1. CASE v = w
    BY <1>3, <2>1 DEF Placed
  <2>2. CASE v # w
    BY <1>1, <1>3, <2>2, SMT DEF Placed, Adding
  <2> QED
    BY <2>1, <2>2
<1>5. Grown'
  <2> SUFFICES ASSUME NEW e \in Obj, NEW m \in Name, children'[e][m] # None
               PROVE  kind'[e] = "dir" /\ kind'[children'[e][m]] # "unused"
    BY DEF Grown
  <2>1. CASE <<e, m>> = <<d, n>>
    BY <1>2, <2>1
  <2>2. CASE <<e, m>> # <<d, n>>
    BY <1>1, <1>2, <2>2, SMT DEF TreeInv, Grown
  <2> QED
    BY <2>1, <2>2
<1>6. overlaps' \subseteq Obj \X Name
  BY SMT DEF Acts, TreeInv
<1>7. /\ children' \in [Obj -> [Name -> Obj \cup {None}]] /\ op' \in [Worker -> Ops] /\ Mine'
  BY ActsMine
<1> QED
  BY <1>4, <1>5, <1>6, <1>7 DEF TreeInv

-----------------------------------------------------------------------------
\* A step as the abstract tree sees it.
Abstract == NS!Next \/ UNCHANGED <<Masked, Used>>

\* It changes at most the one entry.
LEMMA ActsMasked ==
  ASSUME TreeInv, NEW w \in Worker, NEW d \in Obj, NEW n \in Name, NEW x \in Obj \cup {None},
         NEW r \in Ops, Acts(w, d, n, x, r)
  PROVE  Masked' = [Masked EXCEPT ![d][n] = IF <<d, n>> \in overlaps' THEN Any ELSE x]
<1> DEFINE y == IF <<d, n>> \in overlaps' THEN Any ELSE x
           M == [Masked EXCEPT ![d][n] = y]
<1>1. children \in [Obj -> [Name -> Obj \cup {None}]]
  BY DEF TreeInv
<1>2. /\ children'[d][n] = x
      /\ \A e \in Obj, m \in Name : <<e, m>> # <<d, n>> => children'[e][m] = children[e][m]
  BY <1>1 DEF Acts
<1>3. ASSUME NEW e \in Obj
      PROVE  Masked'[e] = M[e]
  <2>1. ASSUME NEW m \in Name
        PROVE  Masked'[e][m] = IF e = d /\ m = n THEN y ELSE Masked[e][m]
    BY <1>2, SMT DEF Masked, Acts
  <2>2. M[e] = IF e = d THEN [Masked[d] EXCEPT ![n] = y] ELSE Masked[e]
    BY DEF Masked
  <2>3. /\ Masked'[e] = [m \in Name |-> Masked'[e][m]]
        /\ Masked[e] = [m \in Name |-> Masked[e][m]]
    BY DEF Masked
  <2> HIDE DEF y, M
  <2> QED
    BY <2>1, <2>2, <2>3, SMT
<1>4. /\ Masked' = [e \in Obj |-> Masked'[e]] /\ M = [e \in Obj |-> M[e]]
  BY DEF Masked
<1> HIDE DEF M
<1>5. Masked' = M
  BY <1>3, <1>4
<1> QED
  BY <1>5 DEF M

\* What happens to an overlapped name is allowed, and so is no change.
LEMMA ActsAbstract ==
  ASSUME TreeInv, NEW w \in Worker, NEW d \in Obj, NEW n \in Name, NEW x \in Obj \cup {None},
         NEW r \in Ops, Acts(w, d, n, x, r),
         \/ <<d, n>> \in overlaps' /\ Used' \in {Used} \cup {Used \cup {o} : o \in Obj}
         \/ x = children[d][n] /\ UNCHANGED Used
  PROVE  Abstract
<1>1. Masked' = [Masked EXCEPT ![d][n] = IF <<d, n>> \in overlaps' THEN Any ELSE x]
  BY ActsMasked, SMT
<1>2. CASE <<d, n>> \in overlaps' /\ Used' \in {Used} \cup {Used \cup {o} : o \in Obj}
  BY <1>1, <1>2 DEF Abstract, NS!Next, NS!Overlap
<1>3. CASE <<d, n>> \notin overlaps' /\ x = children[d][n] /\ UNCHANGED Used
  <2>1. Masked[d][n] = x
    BY <1>3 DEF Masked, Acts
  <2>2. Masked' = [Masked EXCEPT ![d] = [Masked[d] EXCEPT ![n] = Masked[d][n]]]
    BY <1>1, <1>3, <2>1
  <2>3. Masked' = Masked
    BY <2>2, ZenonT(40) DEF Masked
  <2> QED
    BY <1>3, <2>3 DEF Abstract
<1>4. CASE <<d, n>> \in overlaps' /\ UNCHANGED Used
  BY <1>2, <1>4
<1> QED
  BY <1>2, <1>3, <1>4

-----------------------------------------------------------------------------
\* Mkdir and Create: the new Inode has nobody above or below it yet.
LEMMA MakeStep ==
  ASSUME TreeInv, NEW w \in Worker, NEW d \in Obj, NEW c \in Obj, NEW n \in Name,
         NEW k \in {"dir", "file"}, NEW st \in Adding, Make(d, n, c, k),
         Goto(w, st, d, n, c), Note(w, d, n), UNCHANGED <<locked, rebound>>
  PROVE  TreeInv' /\ Abstract
<1> USE FileTreeAssumption
<1> DEFINE r == [st |-> st, dir |-> d, name |-> n, node |-> c]
<1>1. /\ children \in [Obj -> [Name -> Obj \cup {None}]] /\ op \in [Worker -> Ops]
      /\ kind \in [Obj -> {"unused", "dir", "file"}] /\ parent \in [Obj -> Obj \cup {None}]
      /\ \A v \in Worker : Placed(op[v])
  BY DEF TreeInv
<1>2. /\ kind[d] = "dir" /\ kind[c] = "unused" /\ d # c /\ children[d][n] = None
      /\ children' = [children EXCEPT ![d][n] = c] /\ op' = [op EXCEPT ![w] = r]
      /\ kind' = [kind EXCEPT ![c] = k] /\ parent' = [parent EXCEPT ![c] = d]
  BY DEF Make, TryAddChild, AddChild, Goto
<1>3. /\ r \in Ops /\ r.st = st /\ r.dir = d /\ r.name = n /\ r.node = c /\ st # "idle"
      /\ st \notin Removing
  BY DEF Ops, Adding, States, Removing
<1> HIDE DEF r
<1>4. Acts(w, d, n, c, r)
  BY <1>2, <1>3 DEF Acts, Note
<1>5. /\ kind' \in [Obj -> {"unused", "dir", "file"}] /\ parent' \in [Obj -> Obj \cup {None}]
      /\ \A o \in Obj : kind[o] # "unused" => kind'[o] = kind[o]
      /\ kind'[d] = "dir" /\ kind'[c] # "unused"
  BY <1>1, <1>2
<1>6. Placed(r)'
  BY <1>3, <1>5 DEF Placed, Adding
<1>7. \A e \in Obj : ~Over(c, e)
  BY <1>1, <1>2 DEF Over, TreeInv, Grown, Placed
<1>8. ASSUME NEW e \in Obj, NEW f \in Obj, Over(e, f)'
      PROVE  Over(e, f) \/ (e = d /\ f = c)
  <2>1. ASSUME NEW m \in Name, children'[e][m] = f
        PROVE  Over(e, f) \/ (e = d /\ f = c)
    BY <1>1, <1>2, <2>1 DEF Over
  <2>2. ASSUME NEW v \in Worker, op'[v].st \in Adding, op'[v].dir = e, op'[v].node = f
        PROVE  Over(e, f) \/ (e = d /\ f = c)
    BY <1>1, <1>2, <1>3, <2>2 DEF Over
  <2> QED
    BY <1>8, <2>1, <2>2 DEF Over
<1>9. (rebound \/ Ordered)'
  BY <1>2, <1>7, <1>8, SMT DEF TreeInv, Ordered
<1>10. TreeInv'
  BY <1>3, <1>4, <1>5, <1>6, <1>9, ActsInv
<1>11. Used' = Used \cup {c} /\ c \notin Used /\ d \in Used
  BY <1>1, <1>2, SMT DEF Used
<1>12. CASE <<d, n>> \in overlaps'
  <2>1. Used' \in {Used} \cup {Used \cup {o} : o \in Obj}
    BY <1>11
  <2> QED
    BY <1>3, <1>4, <1>10, <1>12, <2>1, ActsAbstract
<1>13. CASE <<d, n>> \notin overlaps'
  <2>1. Masked' = [Masked EXCEPT ![d][n] = c]
    BY <1>3, <1>4, <1>13, ActsMasked, SMT
  <2>2. Masked[d][n] = None
    BY <1>2, <1>4, <1>13 DEF Masked, Acts
  <2> QED
    BY <1>10, <1>11, <2>1, <2>2 DEF Abstract, NS!Next, NS!Create
<1> QED
  BY <1>12, <1>13

\* A step that keeps the tree as it is, or whose name has been overlapped.
LEMMA QuietStep ==
  ASSUME TreeInv, NEW w \in Worker, NEW d \in Obj, NEW n \in Name, NEW x \in Obj \cup {None},
         NEW r \in Ops, Acts(w, d, n, x, r), Placed(r)', r.st \notin Adding,
         <<d, n>> \in overlaps' \/ x = children[d][n],
         x # None => Over(d, x), parent' \in [Obj -> Obj \cup {None}],
         UNCHANGED <<kind, locked, rebound>>
  PROVE  TreeInv' /\ Abstract
<1>1. kind \in [Obj -> {"unused", "dir", "file"}] /\ \A v \in Worker : Placed(op[v])
  BY DEF TreeInv
<1>2. x # None => kind[d] = "dir" /\ kind[x] # "unused"
  BY <1>1, SMT DEF Over, TreeInv, Grown, Placed
<1>3. (rebound \/ Ordered)'
  BY ActsOrdered
<1>4. TreeInv'
  BY <1>1, <1>2, <1>3, ActsInv
<1>5. Used' = Used
  BY DEF Used
<1> QED
  BY <1>4, <1>5, ActsAbstract

\* Idle, as a record.
LEMMA IdleType == Idle \in Ops /\ Idle.st = "idle" /\ Idle.dir = None
BY DEF Idle, Ops, States

\* The handler's second update finds what its first one left.
LEMMA AgainStep ==
  ASSUME TreeInv, NEW w \in Worker, CreateAbandoned(w) \/ RegisterChild(w) \/ RemoveAgain(w)
  PROVE  TreeInv' /\ Abstract
<1> USE FileTreeAssumption
<1> DEFINE d == op[w].dir
           n == op[w].name
           x == children'[d][n]
<1>1. /\ children \in [Obj -> [Name -> Obj \cup {None}]] /\ op \in [Worker -> Ops]
      /\ parent \in [Obj -> Obj \cup {None}] /\ Placed(op[w])
  BY DEF TreeInv
<1>2. /\ d \in Obj /\ n \in Name /\ op' = [op EXCEPT ![w] = Idle] /\ Pending(w)
      /\ UNCHANGED <<kind, overlaps, locked, rebound>>
  BY <1>1 DEF CreateAbandoned, RegisterChild, RemoveAgain, Reply, Placed, Adding, Removing, Pending
<1>3. Meets(w, d, n) => <<d, n>> \in overlaps
  BY <1>2 DEF Meets, TreeInv, Mine
<1>4. <<d, n>> \notin overlaps => Left(op[w])
  BY DEF TreeInv, Mine
<1>5. Placed(Idle)'
  BY IdleType DEF Placed, Adding, Removing
<1>6. /\ children' = [children EXCEPT ![d][n] = x] /\ x \in Obj \cup {None}
      /\ parent' \in [Obj -> Obj \cup {None}]
      /\ x # None => Over(d, x)
      /\ <<d, n>> \in overlaps' \/ x = children[d][n]
  <2>1. CASE CreateAbandoned(w)
    <3>1. children' = children /\ parent' = parent
      BY <2>1 DEF CreateAbandoned
    <3> QED
      BY <1>1, <1>2, <3>1, SMT DEF Over
  <2>2. CASE RegisterChild(w)
    <3>1. /\ op[w].st \in Adding /\ op[w].node \in Obj
          /\ children' = [children EXCEPT ![d][n] = op[w].node]
          /\ parent' = [parent EXCEPT ![op[w].node] = d]
      BY <1>1, <2>2 DEF RegisterChild, AddChild, Placed, Adding
    <3>2. x = op[w].node
      BY <1>1, <1>2, <3>1
    <3> QED
      BY <1>1, <1>2, <1>4, <3>1, <3>2 DEF Over, Left
  <2>3. CASE RemoveAgain(w)
    <3>1. /\ op[w].st \in Removing /\ parent' = parent
          /\ children' = [children EXCEPT ![d][n] = None]
      BY <2>3 DEF RemoveAgain, RemoveChild, Removing
    <3>2. x = None
      BY <1>1, <1>2, <3>1
    <3> QED
      BY <1>1, <1>2, <1>4, <3>1, <3>2 DEF Left
  <2> QED
    BY <2>1, <2>2, <2>3
<1> HIDE DEF d, n, x
<1>7. Acts(w, d, n, x, Idle)
  BY <1>2, <1>3, <1>6, IdleType DEF Acts
<1> QED
  BY <1>2, <1>5, <1>6, <1>7, IdleType, QuietStep DEF Adding

\* A node that may be unlinked has no children.
LEMMA Childless ==
  ASSUME TreeInv, NEW c \in Obj, NEW rd \in BOOLEAN, MayUnlink(c, rd)
  PROVE  \A m \in Name : children[c][m] = None
<1> DEFINE S == {m \in Name : children[c][m] # None}
<1>1. CASE rd
  <2>1. IsFiniteSet(S) /\ Cardinality(S) = 0
    BY <1>1, FS_Subset, FileTreeAssumption DEF MayUnlink, Count
  <2>2. S = {}
    BY <2>1, FS_EmptySet
  <2> QED
    BY <2>2
<1>2. CASE ~rd
  BY <1>2 DEF MayUnlink, TreeInv, Grown
<1> QED
  BY <1>1, <1>2

\* Unlink, by handleUnlinkat and by removeViaInodeTree.
LEMMA CutStep ==
  ASSUME TreeInv, NEW w \in Worker, NEW d \in Obj, NEW n \in Name, NEW rd \in BOOLEAN,
         children[d][n] \in Obj, MayUnlink(children[d][n], rd),
         RemoveChildIf(d, n, {children[d][n]}), NEW r \in Ops, op' = [op EXCEPT ![w] = r],
         r.st \in Removing, r.dir = d, r.name = n, Note(w, d, n),
         UNCHANGED <<kind, locked, rebound>>
  PROVE  TreeInv' /\ Abstract
<1> USE FileTreeAssumption
<1> DEFINE c == children[d][n]
<1>1. /\ children \in [Obj -> [Name -> Obj \cup {None}]]
      /\ kind \in [Obj -> {"unused", "dir", "file"}] /\ parent \in [Obj -> Obj \cup {None}]
  BY DEF TreeInv
<1>2. /\ children' = [children EXCEPT ![d][n] = None]
      /\ parent' = [parent EXCEPT ![c] = None]
  BY DEF RemoveChildIf, RemoveChild
<1>3. Acts(w, d, n, None, r)
  BY <1>2 DEF Acts, Note, Adding, Removing
<1>4. Placed(r)' /\ r.st \notin Adding
  BY DEF Placed, Adding, Removing
<1>5. parent' \in [Obj -> Obj \cup {None}]
  BY <1>1, <1>2
<1>6. (rebound \/ Ordered)'
  BY <1>3, <1>4, ActsOrdered
<1>7. TreeInv'
  BY <1>1, <1>3, <1>4, <1>5, <1>6, ActsInv
<1>8. Used' = Used
  BY DEF Used
<1>9. CASE <<d, n>> \in overlaps'
  BY <1>3, <1>7, <1>8, <1>9, ActsAbstract
<1>10. CASE <<d, n>> \notin overlaps'
  <2>1. Masked' = [Masked EXCEPT ![d][n] = None]
    BY <1>3, <1>10, ActsMasked, SMT
  <2>2. Masked[d][n] = c
    BY <1>3, <1>10 DEF Masked, Acts
  <2>3. \A m \in Name : Masked[c][m] \in {None, Any}
    BY Childless DEF Masked
  <2> HIDE DEF c
  <2>4. NS!Remove(d, n)
    BY <1>8, <2>1, <2>2, <2>3 DEF NS!Remove, c
  <2> QED
    BY <1>7, <2>4 DEF Abstract, NS!Next
<1> QED
  BY <1>9, <1>10

\* Tunlinkat.
LEMMA UnlinkStep ==
  ASSUME TreeInv, NEW w \in Worker, NEW d \in Obj, NEW n \in Name, NEW rd \in BOOLEAN,
         Unlink(w, d, n, rd)
  PROVE  TreeInv' /\ Abstract
<1> DEFINE r == [st |-> "unlinked", dir |-> d, name |-> n, node |-> None]
<1>1. /\ children[d][n] \in Obj /\ MayUnlink(children[d][n], rd)
      /\ RemoveChildIf(d, n, {children[d][n]}) /\ op' = [op EXCEPT ![w] = r]
      /\ Note(w, d, n) /\ UNCHANGED <<kind, locked, rebound>>
  BY DEF Unlink, RemoveChildIf, Goto
<1>2. r \in Ops /\ r.st \in Removing /\ r.dir = d /\ r.name = n
  BY DEF Ops, States, Removing
<1> HIDE DEF r
<1> QED
  BY <1>1, <1>2, CutStep

\* Tremove: the scan, and the Unlink of what it found.
LEMMA RemoveStep ==
  ASSUME TreeInv, NEW w \in Worker,
         RemoveUnlink(w) \/ \E c \in Obj, n \in Name : RemoveScan(w, c, n)
  PROVE  TreeInv' /\ Abstract
<1> USE FileTreeAssumption
<1>0. /\ children \in [Obj -> [Name -> Obj \cup {None}]] /\ op \in [Worker -> Ops]
      /\ parent \in [Obj -> Obj \cup {None}] /\ Placed(op[w])
  BY DEF TreeInv
<1>1. ASSUME NEW c \in Obj, NEW n \in Name, RemoveScan(w, c, n)
      PROVE  TreeInv' /\ Abstract
  <2>0. PICK d \in Obj : d = parent[c]
    BY <1>0, <1>1 DEF RemoveScan, Scanned
  <2> DEFINE r == [st |-> "scanned", dir |-> d, name |-> n, node |-> c]
  <2>1. /\ children[d][n] = c /\ op' = [op EXCEPT ![w] = r] /\ Note(w, d, n)
        /\ UNCHANGED <<kind, children, parent, locked, rebound>>
    BY <1>1, <2>0 DEF RemoveScan, Scanned, Goto
  <2>2. /\ r \in Ops /\ r.st = "scanned" /\ r.dir = d /\ r.name = n /\ r.node = c
    BY <2>1 DEF Ops, States
  <2> HIDE DEF r
  <2>3. children' = [children EXCEPT ![d][n] = c]
    BY <1>0, <2>1
  <2>4. Acts(w, d, n, c, r)
    BY <2>1, <2>2, <2>3 DEF Acts, Note, Adding, Removing
  <2>5. Placed(r)' /\ r.st \notin Adding /\ Over(d, c)
    BY <2>1, <2>2 DEF Placed, Adding, Removing, Over
  <2> QED
    BY <1>0, <2>1, <2>2, <2>4, <2>5, QuietStep
<1>2. CASE RemoveUnlink(w)
  <2> DEFINE d == op[w].dir
             n == op[w].name
             c == children[d][n]
             r == [op[w] EXCEPT !.st = "removed"]
  <2>1. /\ op[w].st = "scanned" /\ d \in Obj /\ n \in Name /\ c \in Obj \cup {None}
        /\ UNCHANGED <<kind, locked, rebound>>
    BY <1>0, <1>2, SMT DEF RemoveUnlink, Placed
  <2>2. CASE c # None /\ MayUnlink(c, FALSE)
    <3>1. /\ c \in Obj /\ RemoveChildIf(d, n, {c}) /\ op' = [op EXCEPT ![w] = r]
          /\ Note(w, d, n)
      BY <1>0, <1>2, <2>1, <2>2 DEF RemoveUnlink
    <3>2. r \in Ops /\ r.st \in Removing /\ r.dir = d /\ r.name = n
      BY <1>0, ZenonT(40) DEF Ops, States, Removing
    <3> HIDE DEF r
    <3> QED
      BY <2>1, <2>2, <3>1, <3>2, CutStep
  <2>3. CASE ~(c # None /\ MayUnlink(c, FALSE))
    <3>1. op' = [op EXCEPT ![w] = Idle] /\ UNCHANGED <<children, parent, overlaps>>
      BY <1>2, <2>3 DEF RemoveUnlink, Reply
    <3>2. Meets(w, d, n) => <<d, n>> \in overlaps
      BY <2>1 DEF Meets, TreeInv, Mine, Pending
    <3>3. children' = [children EXCEPT ![d][n] = c]
      BY <1>0, <2>1, <3>1
    <3>4. Acts(w, d, n, c, Idle)
      BY <3>1, <3>2, <3>3, IdleType DEF Acts
    <3>5. Placed(Idle)' /\ Idle.st \notin Adding /\ (c # None => Over(d, c))
      BY <2>1, IdleType DEF Placed, Adding, Removing, Over
    <3> QED
      BY <1>0, <2>1, <3>1, <3>4, <3>5, IdleType, QuietStep
  <2> QED
    BY <2>2, <2>3
<1> QED
  BY <1>1, <1>2

\* A fid walked away: the handler goes on under a name that is given up.
LEMMA RebindStep ==
  ASSUME TreeInv, NEW w \in Worker, NEW m \in Name, Rebind(w, m)
  PROVE  TreeInv' /\ Abstract
<1> USE FileTreeAssumption
<1>0. /\ children \in [Obj -> [Name -> Obj \cup {None}]] /\ op \in [Worker -> Ops]
      /\ kind \in [Obj -> {"unused", "dir", "file"}] /\ parent \in [Obj -> Obj \cup {None}]
      /\ Placed(op[w])
  BY DEF TreeInv
<1>1. op[w].st \in {"register", "unlinked"} /\ op[w].dir \in Obj /\ op[w].name \in Name
  BY <1>0 DEF Rebind, Placed, Adding, Removing
<1>2. PICK d \in Obj : d = children[op[w].dir][m]
  BY <1>0, <1>1, SMT DEF Rebind
<1>3. PICK n \in Name : n = op[w].name
  BY <1>1
<1>4. PICK r \in Ops : /\ r.st = op[w].st /\ r.dir = d /\ r.name = n /\ r.node = op[w].node
                       /\ r = [op[w] EXCEPT !.dir = d]
  <2> DEFINE q == [op[w] EXCEPT !.dir = d]
  <2>1. q \in Ops /\ q.st = op[w].st /\ q.dir = d /\ q.name = n /\ q.node = op[w].node
    BY <1>0, <1>3, SMT DEF Ops
  <2> QED
    BY <2>1
<1>5. /\ kind[d] = "dir" /\ op' = [op EXCEPT ![w] = r] /\ rebound' = TRUE
      /\ overlaps' = overlaps \cup {<<d, n>>}
      /\ UNCHANGED <<kind, children, parent, locked>>
  BY <1>0, <1>2, <1>3, <1>4 DEF Rebind
<1>6. PICK x \in Obj \cup {None} : x = children[d][n]
  BY <1>0, SMT
<1>7. children' = [children EXCEPT ![d][n] = x]
  BY <1>0, <1>5, <1>6
<1>8. Acts(w, d, n, x, r)
  BY <1>4, <1>5, <1>7 DEF Acts
<1>9. Placed(r)'
  BY <1>0, <1>1, <1>4, <1>5 DEF Placed, Adding, Removing
<1>10. x # None => kind[d] = "dir" /\ kind[x] # "unused"
  BY <1>6 DEF TreeInv, Grown
<1>11. TreeInv'
  BY <1>0, <1>5, <1>8, <1>9, <1>10, ActsInv
<1>12. Used' = Used
  BY <1>5 DEF Used
<1> QED
  BY <1>6, <1>8, <1>11, <1>12, ActsAbstract

\* Handlers that take two Inode locks find them in order, unless a fid was walked away.
LEMMA StuckStep ==
  ASSUME TreeInv, NEW v \in Worker, NEW w \in Worker, NEW d \in Obj, NEW c \in Obj,
         Hang(w, d, c) \/ Cross(v, w, d, c)
  PROVE  TreeInv' /\ Abstract
<1> USE FileTreeAssumption
<1>0. /\ children \in [Obj -> [Name -> Obj \cup {None}]] /\ op \in [Worker -> Ops]
      /\ \A u \in Worker : Placed(op[u])
  BY DEF TreeInv
<1>1. ASSUME NEW u \in Worker, NEW a \in Obj, NEW b \in Obj, <<a, b>> \in Locking(u)
      PROVE  Over(a, b)
  <2>1. CASE op[u].st \in Adding
    BY <1>1, <2>1, SMT DEF Locking, Over, Adding
  <2>2. CASE op[u].st = "scanned"
    BY <1>0, <1>1, <2>2, SMT DEF Locking, Over, Placed
  <2>3. CASE op[u].st = "idle"
    BY <1>1, <2>3, SMT DEF Locking, Over
  <2>4. CASE op[u].st \notin Adding \cup {"scanned", "idle"}
    BY <1>1, <2>4, SMT DEF Locking, Adding
  <2> QED
    BY <2>1, <2>2, <2>3, <2>4
<1>2. rebound
  BY <1>1 DEF Hang, Cross, TreeInv, Ordered
<1>3. UNCHANGED <<kind, children, parent, overlaps, rebound>>
  BY DEF Hang, Cross
<1>4. PICK S \in SUBSET Worker : op' = [u \in Worker |-> IF u \in S
                                    THEN [op[u] EXCEPT !.st = "stuck"] ELSE op[u]]
  <2>1. CASE Hang(w, d, c)
    <3>1. op' = [u \in Worker |-> IF u \in {w} THEN [op[u] EXCEPT !.st = "stuck"] ELSE op[u]]
      BY <1>0, <2>1 DEF Hang
    <3> QED
      BY <3>1
  <2>2. CASE Cross(v, w, d, c)
    <3>1. op' = [u \in Worker |-> IF u \in {v, w}
                                    THEN [op[u] EXCEPT !.st = "stuck"] ELSE op[u]]
      BY <1>0, <2>2 DEF Cross
    <3> QED
      BY <3>1
  <2> QED
    BY <2>1, <2>2
<1>5. ASSUME NEW u \in Worker
      PROVE  /\ op'[u] \in Ops /\ op'[u].dir = op[u].dir /\ op'[u].name = op[u].name
             /\ op'[u].st = "stuck" \/ op'[u] = op[u]
  <2>1. CASE u \in S
    <3> DEFINE q == [op[u] EXCEPT !.st = "stuck"]
    <3>1. op'[u] = q
      BY <1>4, <2>1
    <3>2. op[u] \in Ops
      BY <1>0
    <3>3. q \in Ops /\ q.dir = op[u].dir /\ q.name = op[u].name /\ q.st = "stuck"
      BY <3>2 DEF Ops, States
    <3> HIDE DEF q
    <3> QED
      BY <3>1, <3>3
  <2>2. CASE u \notin S
    BY <1>0, <1>4, <2>2
  <2> QED
    BY <2>1, <2>2
<1>6. op' \in [Worker -> Ops]
  BY <1>4, <1>5
<1>7. \A u \in Worker : Placed(op[u])'
  BY <1>0, <1>3, <1>5, SMT DEF Placed, Adding, Removing
<1>8. ASSUME NEW t \in Worker, NEW u \in Worker, t # u, Pending(t)', Pending(u)',
             op'[t].dir \in Obj, op'[t].dir = op'[u].dir, op'[t].name = op'[u].name
      PROVE  <<op'[t].dir, op'[t].name>> \in overlaps'
  <2>1. Pending(t) /\ Pending(u)
    BY <1>0, <1>5, <1>8, SMT DEF Placed, Pending
  <2> QED
    BY <1>3, <1>5, <1>8, <2>1 DEF TreeInv, Mine
<1>9. ASSUME NEW u \in Worker, <<op'[u].dir, op'[u].name>> \notin overlaps'
      PROVE  Left(op[u])'
  BY <1>3, <1>5, <1>9 DEF TreeInv, Mine, Left, Adding, Removing
<1>10. Mine'
  <2>1. (\A u \in Worker : <<op[u].dir, op[u].name>> \notin overlaps => Left(op[u]))'
    BY <1>9
  <2> QED
    BY <1>8, <2>1 DEF Mine
<1>11. TreeInv'
  BY <1>2, <1>3, <1>6, <1>7, <1>10 DEF TreeInv, Grown
<1>12. UNCHANGED <<Masked, Used>>
  BY <1>3 DEF Masked, Used
<1> QED
  BY <1>11, <1>12 DEF Abstract

\* An empty tree.
LEMMA TreeInvInit == TreeInit => TreeInv /\ NS!Init
<1> SUFFICES ASSUME TreeInit PROVE TreeInv /\ NS!Init
  OBVIOUS
<1> USE FileTreeAssumption
<1>1. /\ op \in [Worker -> Ops] /\ \A w \in Worker : op[w].st = "idle" /\ op[w].dir = None
  BY IdleType DEF TreeInit
<1>2. /\ \A d \in Obj, n \in Name : children[d][n] = None
      /\ children \in [Obj -> [Name -> Obj \cup {None}]]
  BY DEF TreeInit
<1>3. /\ kind \in [Obj -> {"unused", "dir", "file"}] /\ parent \in [Obj -> Obj \cup {None}]
      /\ locked = {} /\ overlaps = {}
  BY DEF TreeInit
<1>4. /\ \A w \in Worker : Placed(op[w])
      /\ \A d, c \in Obj : ~Over(d, c)
      /\ Mine /\ Grown
  BY <1>1, <1>2 DEF Placed, Over, Mine, Left, Grown, Pending, Adding, Removing
<1>5. Masked = [d \in Obj |-> [n \in Name |-> None]]
  BY <1>2, <1>3 DEF Masked
<1>6. Used = {Root}
  BY DEF Used, TreeInit
<1> QED
  BY <1>1, <1>2, <1>3, <1>4, <1>5, <1>6 DEF TreeInv, Ordered, NS!Init

\* Every step keeps the invariant and is a step of the abstract tree.
LEMMA TreeStep == TreeInv /\ [TreeNext]_treeVars => TreeInv' /\ Abstract
<1> SUFFICES ASSUME TreeInv, [TreeNext]_treeVars PROVE TreeInv' /\ Abstract
  OBVIOUS
<1>1. CASE UNCHANGED treeVars
  <2>1. UNCHANGED <<Masked, Used>>
    BY <1>1 DEF treeVars, Masked, Used
  <2>2. TreeInv'
    BY <1>1, SMT DEF treeVars, TreeInv, Placed, Mine, Left, Grown, Ordered, Over, Pending
  <2> QED
    BY <2>1, <2>2 DEF Abstract
<1>2. ASSUME NEW w \in Worker, NEW d \in Obj, NEW c \in Obj, NEW n \in Name,
             Mkdir(w, d, n, c) \/ Create(w, d, n, c)
      PROVE  TreeInv' /\ Abstract
  BY <1>2, MakeStep DEF Mkdir, Create, Adding
<1> QED
  BY <1>1, <1>2, UnlinkStep, RemoveStep, RebindStep, StuckStep, AgainStep DEF TreeNext

-----------------------------------------------------------------------------
\* The handlers implement the file tree a client expects, outside names on which
\* they overlap, however many of them run.
THEOREM TreeRefines == TreeSpec => TreeUnlessOverlap
<1>1. Abstract => [NS!Next]_<<Masked, Used>>
  BY DEF Abstract
<1> QED
  BY <1>1, TreeInvInit, TreeStep, PTL DEF TreeSpec, TreeUnlessOverlap, NS!Spec

\* Tremove removes the file of its fid and no other that took its name.
THEOREM RemovesOwn == TreeSpec => RemovesItsFileUnlessOverlap
<1>1. TreeInv /\ [TreeNext]_treeVars =>
        [\A w \in Worker : /\ op[w].st = "scanned" /\ op'[w].st = "removed"
                           /\ <<op[w].dir, op[w].name>> \notin overlaps
                           => children[op[w].dir][op[w].name] = op[w].node]_treeVars
  BY DEF TreeInv, Mine, Left
<1> QED
  BY <1>1, TreeInvInit, TreeStep, PTL DEF TreeSpec, RemovesItsFileUnlessOverlap

\* Handlers that lock a parent and its child never wait for each other, unless the
\* fid of a Tmkdir or Tunlinkat was walked away under its handler.
THEOREM NobodyStuck == TreeSpec => []NobodyStuckUnlessRebound
<1>1. TreeInv => NobodyStuckUnlessRebound
  BY DEF TreeInv, Ordered, NobodyStuckUnlessRebound
<1> QED
  BY <1>1, TreeInvInit, TreeStep, PTL DEF TreeSpec

-----------------------------------------------------------------------------
(* The descriptors of the passthrough file system *)

Inos == Ino \cup {Dir}
OptFd == Fd \cup {Nil}
Calls == [op : {"none", "Lookup", "Parent", "Make", "Create", "Borrow"},
          at : {"idle", "open", "stat", "dup", "anchor", "chown", "undo", "use"},
          name : Entry \cup {Nil}, fd : OptFd, path : OptFd, parentFd : OptFd,
          ino : Inos \cup {Nil}]

\* The types of the state.
PassthroughType ==
  /\ entry \in [Entry -> Ino \cup {Nil}]
  /\ fdt \in [Fd -> {Nil} \cup [ino : Inos, io : BOOLEAN]]
  /\ nodes \subseteq [fd : Fd, parentFd : OptFd, ino : Inos]
  /\ handles \subseteq [fd : Fd, ino : Inos, node : Fd, lock : BOOLEAN]
  /\ req \in [Req -> Calls]

\* Which descriptors a call holds at each of its steps, and when it knows the file.
Stage(c) ==
  /\ c.at = "idle" => c = NoCall
  /\ c.at \in {"open", "undo"} => c.fd = Nil /\ c.path = Nil /\ c.parentFd = Nil
  /\ c.at = "open" => c.ino = Nil /\ c.op \in {"Lookup", "Parent", "Make"}
  /\ c.at = "open" /\ c.op # "Parent" => c.name \in Entry
  /\ c.at = "stat" => c.ino = Nil /\ c.parentFd = Nil
  /\ c.at = "stat" /\ c.op = "Create" => c.fd # Nil /\ c.path = Nil
  /\ c.at = "stat" /\ c.op # "Create" => c.fd = Nil /\ c.path # Nil
  /\ c.at = "dup" => c.op = "Create" /\ c.fd # Nil /\ c.path = Nil /\ c.parentFd = Nil
  /\ c.at = "anchor" => c.path # Nil /\ c.parentFd = Nil /\ (c.fd # Nil <=> c.op = "Create")
  /\ c.at = "chown" => c.path # Nil /\ (c.fd # Nil <=> c.op = "Create")
  /\ c.at \in {"dup", "anchor", "chown"} => c.ino # Nil
  /\ c.at = "use" => c.path = Nil /\ c.parentFd = Nil

Stages == \A r \in Req : Stage(req[r])

FdInv == PassthroughType /\ Stages /\ FdOwnedOnce

-----------------------------------------------------------------------------
(* What a step may do to the descriptors *)

\* A descriptor that is opened gets one holder.
LEMMA Opened ==
  ASSUME FdInv, NEW f \in Fd, fdt[f] = Nil, NEW i \in Inos, NEW io \in BOOLEAN,
         fdt' = [fdt EXCEPT ![f] = [ino |-> i, io |-> io]],
         NEW h, h \in Holdings', h[3] = f, h[4] \in {Nil, i},
         \A x \in Holdings' : x[3] = Nil \/ x \in Holdings \/ x = h,
         \A x \in Holdings : x[3] = Nil \/ x \in Holdings',
         \A x \in Holdings : x[3] \in OptFd
  PROVE  FdOwnedOnce'
<1> USE PassthroughAssumption DEF Inos, OptFd
<1> HIDE DEF Holdings
<1>1. fdt'[f] = [ino |-> i, io |-> io] /\ fdt'[f] # Nil /\ fdt'[f].ino = i
  BY SMT DEF FdInv, PassthroughType
<1>2. \A g \in Fd : g # f => fdt'[g] = fdt[g]
  BY SMT DEF FdInv, PassthroughType
<1>3. \A x \in Holdings : x[3] # f
  BY DEF FdInv, FdOwnedOnce
<1>4. \A g \in Fd : fdt'[g] # Nil => \E x \in Holdings' : x[3] = g
  BY <1>2, SMT DEF FdInv, FdOwnedOnce
<1>5. ASSUME NEW x \in Holdings', x[3] # Nil
      PROVE  /\ fdt'[x[3]] # Nil /\ x[4] \in {Nil, fdt'[x[3]].ino}
             /\ \A y \in Holdings' : y[3] = x[3] => y = x
  BY <1>1, <1>2, <1>3, <1>5, SMT DEF FdInv, FdOwnedOnce
<1> QED
  BY <1>4, <1>5 DEF FdOwnedOnce

\* Descriptors are closed by the one that holds them.
LEMMA Closed ==
  ASSUME FdInv, NEW fds, fdt' = [f \in Fd |-> IF f \in fds THEN Nil ELSE fdt[f]],
         \A x \in Holdings' : x[3] # Nil => x \in Holdings /\ x[3] \notin fds,
         \A x \in Holdings : x[3] \in fds \/ x[3] = Nil \/ x \in Holdings',
         \A x \in Holdings : x[3] \in OptFd
  PROVE  FdOwnedOnce'
<1> USE DEF OptFd
<1>1. \A f \in Fd : fdt'[f] # Nil => \E x \in Holdings' : x[3] = f
  BY PassthroughAssumption, SMT DEF FdInv, FdOwnedOnce
<1>2. ASSUME NEW x \in Holdings', x[3] # Nil
      PROVE  /\ fdt'[x[3]] # Nil /\ x[4] \in {Nil, fdt'[x[3]].ino}
             /\ \A y \in Holdings' : y[3] = x[3] => y = x
  BY <1>2 DEF FdInv, FdOwnedOnce
<1> QED
  BY <1>1, <1>2 DEF FdOwnedOnce

\* A step that touches no descriptor and changes no holder of one.
LEMMA Untouched ==
  ASSUME FdInv, UNCHANGED fdt,
         \A x \in Holdings' : x[3] # Nil => x \in Holdings,
         \A x \in Holdings : x[3] = Nil \/ x \in Holdings'
  PROVE  FdOwnedOnce'
<1>1. \A f \in Fd : fdt'[f] # Nil => \E x \in Holdings' : x[3] = f
  BY PassthroughAssumption, SMT DEF FdInv, FdOwnedOnce
<1>2. ASSUME NEW x \in Holdings', x[3] # Nil
      PROVE  /\ fdt'[x[3]] # Nil /\ x[4] \in {Nil, fdt'[x[3]].ino}
             /\ \A y \in Holdings' : y[3] = x[3] => y = x
  BY <1>2 DEF FdInv, FdOwnedOnce
<1> QED
  BY <1>1, <1>2 DEF FdOwnedOnce

\* Every holder names a descriptor number, or none.
LEMMA HoldingsType == FdInv => \A x \in Holdings : x[3] \in OptFd
BY SMT DEF FdInv, PassthroughType, Holdings, Calls, OptFd
-----------------------------------------------------------------------------
(* The steps *)

\* No descriptor is open when the server starts.
LEMMA FdInit == HostInit => FdInv
<1> SUFFICES ASSUME HostInit PROVE FdInv
  OBVIOUS
<1> USE PassthroughAssumption DEF HostInit
<1>1. PassthroughType
  BY DEF PassthroughType, NoCall, Calls, OptFd
<1>2. Stages
  BY DEF Stages, Stage, NoCall
<1>3. FdOwnedOnce
  BY SMT DEF FdOwnedOnce, Holdings, NoCall
<1> QED
  BY <1>1, <1>2, <1>3 DEF FdInv

\* A call that is replaced by another one of the right shape keeps types and stages.
LEMMA GoesKeeps ==
  ASSUME FdInv, NEW r \in Req, NEW c \in Calls, Goes(r, c), Stage(c)
  PROVE  req' \in [Req -> Calls] /\ Stages' /\ req'[r] = c /\ \A q \in Req \ {r} : req'[q] = req[q]
BY DEF FdInv, PassthroughType, Stages, Goes

\* The steps that open nothing and close nothing.
LEMMA QuietSteps ==
  ASSUME FdInv, NEW r \in Req, NEW n \in Entry \cup {Nil},
         \/ n \in Entry /\ (Lookup(r, n) \/ MakeNode(r, n))
         \/ LookupParent(r) \/ Undo(r)
  PROVE  FdInv'
<1> USE PassthroughAssumption
<1>1. PICK c \in Calls : /\ Goes(r, c) /\ Stage(c) /\ c.fd = Nil /\ c.path = Nil /\ c.parentFd = Nil
                         /\ req[r].fd = Nil /\ req[r].path = Nil /\ req[r].parentFd = Nil
  <2> USE DEF FdInv, PassthroughType, Stages, Stage, NoCall, Calls, OptFd
  <2> DEFINE l == [NoCall EXCEPT !.op = "Lookup", !.at = "open", !.name = n]
            p == [NoCall EXCEPT !.op = "Parent", !.at = "open"]
            m == [NoCall EXCEPT !.op = "Make", !.at = "open", !.name = n]
  <2>1. /\ l \in Calls /\ (n \in Entry => Stage(l)) /\ l.fd = Nil /\ l.path = Nil /\ l.parentFd = Nil
        /\ p \in Calls /\ Stage(p) /\ p.fd = Nil /\ p.path = Nil /\ p.parentFd = Nil
        /\ m \in Calls /\ (n \in Entry => Stage(m)) /\ m.fd = Nil /\ m.path = Nil /\ m.parentFd = Nil
        /\ NoCall \in Calls /\ Stage(NoCall) /\ NoCall.fd = Nil /\ NoCall.path = Nil /\ NoCall.parentFd = Nil
    OBVIOUS
  <2>2. req[r].fd = Nil /\ req[r].path = Nil /\ req[r].parentFd = Nil
    BY SMT DEF Lookup, LookupParent, MakeNode, Undo
  <2>3. (n \in Entry /\ (Goes(r, l) \/ Goes(r, m))) \/ Goes(r, p) \/ Goes(r, NoCall)
    BY DEF Lookup, LookupParent, MakeNode, Undo, Returns
  <2> HIDE DEF l, p, m, NoCall, Stage, Calls
  <2> QED
    BY <2>1, <2>2, <2>3
<1>2. UNCHANGED <<fdt, nodes, handles>> /\ entry' \in [Entry -> Ino \cup {Nil}]
  BY SMT DEF FdInv, PassthroughType, Calls, Lookup, LookupParent, MakeNode, Undo, host
<1>3. FdOwnedOnce'
  <2>1. \A x \in Holdings' : x[3] # Nil => x \in Holdings
    BY <1>1, <1>2, GoesKeeps, SMT DEF Holdings
  <2>2. \A x \in Holdings : x[3] = Nil \/ x \in Holdings'
    BY <1>1, <1>2, GoesKeeps, SMT DEF Holdings
  <2> QED
    BY <1>2, <2>1, <2>2, Untouched
<1> QED
  BY <1>1, <1>2, <1>3, GoesKeeps DEF FdInv, PassthroughType

\* The steps that only change an entry.
LEMMA EntrySteps ==
  ASSUME FdInv, NEW n \in Entry, UnlinkEntry(n) \/ Rename(n) \/ \E x \in nodes : Link(x, n)
  PROVE  FdInv'
<1>1. UNCHANGED <<fdt, nodes, handles, req>>
  BY DEF UnlinkEntry, Rename, Link
<1>2. entry' \in [Entry -> Ino \cup {Nil}]
  <2>1. ASSUME NEW x \in nodes, Link(x, n) PROVE fdt[x.fd].ino \in Ino
    <3>1. <<x, "node", x.fd, x.ino>> \in Holdings
      BY DEF Holdings
    <3>2. x.fd \in Fd /\ fdt[x.fd] # Nil
      BY <3>1, PassthroughAssumption, SMT DEF FdInv, PassthroughType, FdOwnedOnce, OptFd
    <3> QED
      BY <2>1, <3>2 DEF Link, FdInv, PassthroughType, Inos
  <2> QED
    BY <2>1 DEF UnlinkEntry, Rename, Link, FdInv, PassthroughType
<1> QED
  BY <1>1, <1>2, SMT DEF FdInv, PassthroughType, Stages, FdOwnedOnce, Holdings

\* A call opens a descriptor and keeps it in a variable that held none.
LEMMA CallOpens ==
  ASSUME FdInv, NEW r \in Req, NEW c \in Calls, Goes(r, c), Stage(c),
         NEW f \in Fd, NEW i \in Inos, NEW io \in BOOLEAN, Openat(f, i, io),
         UNCHANGED <<nodes, handles>>, entry' \in [Entry -> Ino \cup {Nil}],
         \/ /\ req[r].fd = Nil /\ req[r].path = Nil /\ req[r].parentFd = Nil
            /\ c.fd = f /\ c.path = Nil /\ c.parentFd = Nil /\ c.ino \in {Nil, i}
         \/ /\ req[r].path = Nil /\ c.path = f
            /\ c.fd = req[r].fd /\ c.parentFd = req[r].parentFd
            /\ c.ino = req[r].ino /\ c.ino \in {Nil, i}
         \/ /\ req[r].parentFd = Nil /\ c.parentFd = f
            /\ c.fd = req[r].fd /\ c.path = req[r].path /\ c.ino = req[r].ino /\ i = Dir
  PROVE  FdInv'
<1> USE PassthroughAssumption
<1>1. /\ req' \in [Req -> Calls] /\ Stages' /\ req'[r] = c
      /\ \A q \in Req \ {r} : req'[q] = req[q]
  BY GoesKeeps
<1>2. /\ fdt[f] = Nil /\ fdt' = [fdt EXCEPT ![f] = [ino |-> i, io |-> io]]
  BY DEF Openat
<1>3. PassthroughType'
  BY <1>1, <1>2 DEF FdInv, PassthroughType
<1>4. PICK h : /\ h \in Holdings' /\ h[3] = f /\ h[4] \in {Nil, i}
               /\ \A x \in Holdings' : x[3] = Nil \/ x \in Holdings \/ x = h
               /\ \A x \in Holdings : x[3] = Nil \/ x \in Holdings'
  <2>1. CASE c.fd = f /\ c.path = Nil /\ c.parentFd = Nil /\ c.ino \in {Nil, i}
             /\ req[r].fd = Nil /\ req[r].path = Nil /\ req[r].parentFd = Nil
    <3> WITNESS <<r, "fd", f, c.ino>>
    <3> QED
      BY <1>1, <2>1, SMT DEF Holdings
  <2>2. CASE req[r].path = Nil /\ c.path = f /\ c.fd = req[r].fd /\ c.parentFd = req[r].parentFd
             /\ c.ino = req[r].ino /\ c.ino \in {Nil, i}
    <3> WITNESS <<r, "path", f, c.ino>>
    <3> QED
      BY <1>1, <2>2, SMT DEF Holdings
  <2>3. CASE req[r].parentFd = Nil /\ c.parentFd = f
             /\ c.fd = req[r].fd /\ c.path = req[r].path /\ c.ino = req[r].ino /\ i = Dir
    <3> WITNESS <<r, "parentFd", f, Dir>>
    <3> QED
      BY <1>1, <2>3, SMT DEF Holdings
  <2> QED
    BY <2>1, <2>2, <2>3
<1> QED
  BY <1>1, <1>2, <1>3, <1>4, Opened, HoldingsType, ZenonT(40) DEF FdInv

\* What a node has open is the file it is.
LEMMA NodeIsOpen ==
  ASSUME FdInv, NEW x \in nodes
  PROVE  x.fd \in Fd /\ x.ino \in Inos /\ fdt[x.fd] # Nil /\ fdt[x.fd].ino = x.ino
<1>1. <<x, "node", x.fd, x.ino>> \in Holdings
  BY DEF Holdings
<1> QED
  BY <1>1, PassthroughAssumption, SMT DEF FdInv, PassthroughType, FdOwnedOnce, OptFd, Inos

\* The steps that open a descriptor.
LEMMA OpenSteps ==
  ASSUME FdInv, NEW r \in Req,
         \/ (\E n \in Entry : CreateFile(r, n)) \/ OpenChild(r) \/ Dup(r) \/ Anchor(r)
         \/ \E x \in nodes : Borrow(r, x)
  PROVE  FdInv'
<1> USE PassthroughAssumption DEF Calls, OptFd, Inos
<1>0. req[r] \in Calls /\ Stage(req[r])
  BY DEF FdInv, PassthroughType, Stages
<1>1. ASSUME NEW n \in Entry, CreateFile(r, n) PROVE FdInv'
  <2>1. PICK f \in Fd, i \in Ino :
          /\ Openat(f, i, TRUE) /\ entry' = [entry EXCEPT ![n] = i]
          /\ Goes(r, [NoCall EXCEPT !.op = "Create", !.at = "stat", !.name = n, !.fd = f])
    BY <1>1 DEF CreateFile, FdInv, PassthroughType
  <2> DEFINE c == [NoCall EXCEPT !.op = "Create", !.at = "stat", !.name = n, !.fd = f]
  <2>2. /\ c \in Calls /\ Stage(c) /\ c.fd = f /\ c.path = Nil /\ c.parentFd = Nil /\ c.ino = Nil
        /\ i \in Inos
    BY DEF NoCall, Stage
  <2>4. req[r].fd = Nil /\ req[r].path = Nil /\ req[r].parentFd = Nil
    <3>1. req[r] = NoCall
      BY <1>1 DEF CreateFile
    <3> QED
      BY <3>1, SMT DEF NoCall
  <2>3. UNCHANGED <<nodes, handles>> /\ entry' \in [Entry -> Ino \cup {Nil}]
    BY <1>1, <2>1 DEF CreateFile, FdInv, PassthroughType
  <2>c. Goes(r, c)
    BY <2>1
  <2> HIDE DEF c, Calls, Stage, OptFd, Inos
  <2> QED
    BY <2>c, <2>1, <2>2, <2>3, <2>4, CallOpens
<1>2. CASE OpenChild(r)
  <2> DEFINE i == IF req[r].op = "Parent" THEN Dir ELSE entry[req[r].name]
  <2>1. i \in Inos
    BY <1>0, <1>2 DEF OpenChild, Stage, FdInv, PassthroughType
  <2>2. PICK f \in Fd : /\ Openat(f, i, req[r].op = "Parent")
                        /\ Goes(r, [req[r] EXCEPT !.at = "stat", !.path = f])
    BY <1>2 DEF OpenChild
  <2> DEFINE c == [req[r] EXCEPT !.at = "stat", !.path = f]
  <2>3. /\ c \in Calls /\ Stage(c) /\ req[r].path = Nil /\ c.path = f
        /\ c.fd = req[r].fd /\ c.parentFd = req[r].parentFd /\ c.ino = req[r].ino /\ c.ino = Nil
    BY <1>0, <1>2 DEF OpenChild, Stage
  <2>4. UNCHANGED <<nodes, handles>> /\ entry' \in [Entry -> Ino \cup {Nil}]
    BY <1>2 DEF OpenChild, FdInv, PassthroughType
  <2>5. (req[r].op = "Parent") \in BOOLEAN
    OBVIOUS
  <2>c. Goes(r, c)
    BY <2>2
  <2> HIDE DEF c, i, Calls, Stage, OptFd, Inos
  <2> QED
    BY <2>c, <2>1, <2>2, <2>3, <2>4, <2>5, CallOpens
<1>3. CASE Dup(r)
  <2>1. /\ <<r, "fd", req[r].fd, req[r].ino>> \in Holdings /\ req[r].fd \in Fd
        /\ req[r].ino \in Inos /\ req[r].path = Nil
    BY <1>0, <1>3 DEF Dup, Holdings, Stage
  <2>2. fdt[req[r].fd].ino = req[r].ino
    BY <2>1 DEF FdInv, FdOwnedOnce
  <2>3. PICK f \in Fd : /\ Openat(f, req[r].ino, TRUE)
                        /\ Goes(r, [req[r] EXCEPT !.at = "anchor", !.path = f])
    BY <1>3, <2>2 DEF Dup
  <2> DEFINE c == [req[r] EXCEPT !.at = "anchor", !.path = f]
  <2>4. /\ c \in Calls /\ Stage(c) /\ c.path = f
        /\ c.fd = req[r].fd /\ c.parentFd = req[r].parentFd /\ c.ino = req[r].ino
    BY <1>0, <1>3 DEF Dup, Stage
  <2>5. UNCHANGED <<nodes, handles>> /\ entry' \in [Entry -> Ino \cup {Nil}]
    BY <1>3 DEF Dup, FdInv, PassthroughType
  <2>c. Goes(r, c)
    BY <2>3
  <2> HIDE DEF c, Calls, Stage, OptFd, Inos
  <2> QED
    BY <2>c, <2>1, <2>3, <2>4, <2>5, CallOpens
<1>4. CASE Anchor(r)
  <2>1. PICK f \in Fd : /\ Openat(f, Dir, TRUE)
                        /\ Goes(r, [req[r] EXCEPT !.at = "chown", !.parentFd = f])
    BY <1>4 DEF Anchor
  <2> DEFINE c == [req[r] EXCEPT !.at = "chown", !.parentFd = f]
  <2>2. /\ c \in Calls /\ Stage(c) /\ req[r].parentFd = Nil /\ c.parentFd = f
        /\ c.fd = req[r].fd /\ c.path = req[r].path /\ c.ino = req[r].ino /\ Dir \in Inos
    BY <1>0, <1>4, ZenonT(40) DEF Anchor, Stage
  <2>3. UNCHANGED <<nodes, handles>> /\ entry' \in [Entry -> Ino \cup {Nil}]
    BY <1>4 DEF Anchor, FdInv, PassthroughType
  <2>c. Goes(r, c)
    BY <2>1
  <2> HIDE DEF c, Calls, Stage, OptFd, Inos
  <2> QED
    BY <2>c, <2>1, <2>2, <2>3, CallOpens
<1>5. ASSUME NEW x \in nodes, Borrow(r, x) PROVE FdInv'
  <2>1. PICK f \in Fd :
          /\ Openat(f, x.ino, TRUE)
          /\ Goes(r, [NoCall EXCEPT !.op = "Borrow", !.at = "use", !.fd = f, !.ino = x.ino])
    BY <1>5, NodeIsOpen DEF Borrow
  <2> DEFINE c == [NoCall EXCEPT !.op = "Borrow", !.at = "use", !.fd = f, !.ino = x.ino]
  <2>2. x.ino \in Inos
    BY NodeIsOpen
  <2>3. /\ c \in Calls /\ Stage(c) /\ c.fd = f /\ c.path = Nil /\ c.parentFd = Nil /\ c.ino = x.ino
    BY <2>2 DEF NoCall, Stage
  <2>5. req[r].fd = Nil /\ req[r].path = Nil /\ req[r].parentFd = Nil
    <3>1. req[r] = NoCall
      BY <1>5 DEF Borrow
    <3> QED
      BY <3>1, SMT DEF NoCall
  <2>4. UNCHANGED <<nodes, handles>> /\ entry' \in [Entry -> Ino \cup {Nil}]
    BY <1>5 DEF Borrow, FdInv, PassthroughType
  <2>c. Goes(r, c)
    BY <2>1
  <2> HIDE DEF c, Calls, Stage, OptFd, Inos
  <2> QED
    BY <2>c, <2>1, <2>2, <2>3, <2>4, <2>5, CallOpens
<1> QED
  BY <1>1, <1>2, <1>3, <1>4, <1>5

\* Open makes a handle.
LEMMA OpenStep ==
  ASSUME FdInv, NEW r \in Req, NEW x \in nodes, Open(r, x)
  PROVE  FdInv'
<1> USE PassthroughAssumption
<1>1. PICK f \in Fd :
        /\ Openat(f, x.ino, TRUE)
        /\ handles' = handles \cup {[fd |-> f, ino |-> x.ino, node |-> x.fd, lock |-> FALSE]}
  BY NodeIsOpen DEF Open
<1>2. UNCHANGED <<entry, nodes, req>> /\ x.ino \in Inos /\ x.fd \in Fd
  BY NodeIsOpen DEF Open
<1> DEFINE k == [fd |-> f, ino |-> x.ino, node |-> x.fd, lock |-> FALSE]
           h == <<k, "handle", f, x.ino>>
<1>0. /\ k \in [fd : Fd, ino : Inos, node : Fd, lock : BOOLEAN] /\ handles' = handles \cup {k}
      /\ k.fd = f /\ k.ino = x.ino
  BY <1>1, <1>2
<1> HIDE DEF k
<1>7. fdt[f] = Nil /\ fdt' = [fdt EXCEPT ![f] = [ino |-> x.ino, io |-> TRUE]]
  BY <1>1 DEF Openat
<1>3. PassthroughType' /\ Stages'
  BY <1>0, <1>2, <1>7 DEF FdInv, PassthroughType, Stages
<1>4. h \in Holdings' /\ h[3] = f /\ h[4] = x.ino
  BY <1>0 DEF Holdings
<1>5. \A y \in Holdings' : y \in Holdings \/ y = h
  BY <1>0, <1>2 DEF Holdings
<1>6. \A y \in Holdings : y \in Holdings'
  BY <1>0, <1>2 DEF Holdings
<1> HIDE DEF h
<1>8. FdOwnedOnce'
  BY <1>2, <1>4, <1>5, <1>6, <1>7, Opened, HoldingsType
<1> QED
  BY <1>3, <1>8 DEF FdInv

\* A table of descriptors of which some are closed.
LEMMA CloseType ==
  ASSUME FdInv, NEW fds, CloseFds(fds)
  PROVE  /\ fdt' = [f \in Fd |-> IF f \in fds THEN Nil ELSE fdt[f]]
         /\ fdt' \in [Fd -> {Nil} \cup [ino : Inos, io : BOOLEAN]]
BY DEF FdInv, PassthroughType, CloseFds

\* What a call holds, as holdings.
HeldBy(r) == {<<r, "fd", req[r].fd, req[r].ino>>, <<r, "path", req[r].path, req[r].ino>>,
            <<r, "parentFd", req[r].parentFd, Dir>>}

\* A call closes all it holds.
LEMMA CallCloses ==
  ASSUME FdInv, NEW r \in Req, NEW c \in Calls, Goes(r, c), Stage(c), CloseFds(Locals(req[r])),
         UNCHANGED <<entry, nodes, handles>>, c.fd = Nil, c.path = Nil, c.parentFd = Nil
  PROVE  FdInv'
<1> USE PassthroughAssumption
<1> DEFINE fds == Locals(req[r])
<1>1. /\ req' \in [Req -> Calls] /\ Stages' /\ req'[r] = c
      /\ \A q \in Req \ {r} : req'[q] = req[q]
  BY GoesKeeps
<1>2. PassthroughType'
  BY <1>1, CloseType DEF FdInv, PassthroughType
<1>3. \A y \in Holdings' : y[3] # Nil => y \in Holdings /\ y \notin HeldBy(r)
  BY <1>1, SMT DEF Holdings, HeldBy
<1>4. \A y \in Holdings : y \in HeldBy(r) \/ y \in Holdings'
  BY <1>1, SMT DEF Holdings, HeldBy
<1>5. /\ HeldBy(r) \subseteq Holdings /\ \A y \in HeldBy(r) : y[3] \in fds
      /\ \A f \in fds : \E y \in HeldBy(r) : y[3] = f
  BY SMT DEF Holdings, Locals, HeldBy
<1> HIDE DEF fds
<1>6. \A y \in Holdings' : y[3] # Nil => y[3] \notin fds
  BY <1>3, <1>5, SMT DEF FdInv, FdOwnedOnce
<1>7. FdOwnedOnce'
  BY <1>3, <1>4, <1>5, <1>6, CloseType, Closed, HoldingsType, SMT DEF fds
<1> QED
  BY <1>1, <1>2, <1>7 DEF FdInv

\* The steps that close what a call holds.
LEMMA CloseSteps ==
  ASSUME FdInv, NEW r \in Req, CallFails(r) \/ ChownFails(r) \/ Return(r)
  PROVE  FdInv'
<1> USE PassthroughAssumption
<1>0. req[r] \in Calls
  BY DEF FdInv, PassthroughType
<1> DEFINE u == [req[r] EXCEPT !.at = "undo", !.fd = Nil, !.path = Nil, !.parentFd = Nil]
<1>1. /\ u \in Calls /\ u.fd = Nil /\ u.path = Nil /\ u.parentFd = Nil /\ u.at = "undo"
  BY <1>0 DEF Calls, OptFd
<1>3. Stage(u)
  <2> HIDE DEF u
  <2> QED
    BY <1>1 DEF Stage
<1>4. NoCall \in Calls /\ Stage(NoCall) /\ NoCall.fd = Nil /\ NoCall.path = Nil /\ NoCall.parentFd = Nil
  BY DEF Calls, Stage, NoCall, OptFd
<1>2. /\ CloseFds(Locals(req[r])) /\ UNCHANGED <<entry, nodes, handles>>
      /\ Goes(r, u) \/ Goes(r, NoCall)
  BY DEF CallFails, ChownFails, Return, Returns
<1> HIDE DEF u
<1> QED
  BY <1>1, <1>2, <1>3, <1>4, CallCloses

\* A node or a handle that is closed held its descriptors alone.
LEMMA ReleaseSteps ==
  ASSUME FdInv, (\E x \in nodes : CloseNode(x)) \/ (\E h \in handles : Release(h))
  PROVE  FdInv'
<1> USE PassthroughAssumption
<1>1. ASSUME NEW x \in nodes, CloseNode(x) PROVE FdInv'
  <2> DEFINE fds == {x.fd, x.parentFd}
            Its == {<<x, "node", x.fd, x.ino>>, <<x, "anchor", x.parentFd, Dir>>}
  <2>1. nodes' = nodes \ {x} /\ CloseFds(fds) /\ UNCHANGED <<entry, handles, req>>
    BY <1>1 DEF CloseNode
  <2>2. PassthroughType' /\ Stages'
    BY <2>1, CloseType DEF FdInv, PassthroughType, Stages
  <2>3. \A y \in Holdings' : y \in Holdings /\ y \notin Its
    BY <2>1, SMT DEF Holdings
  <2>4. \A y \in Holdings : y \in Its \/ y \in Holdings'
    BY <2>1 DEF Holdings
  <2>5. /\ Its \subseteq Holdings /\ \A y \in Its : y[3] \in fds
        /\ \A f \in fds : \E y \in Its : y[3] = f
    BY SMT DEF Holdings
  <2> HIDE DEF Its, fds
  <2>6. \A y \in Holdings' : y[3] # Nil => y[3] \notin fds
    BY <2>3, <2>5, SMT DEF FdInv, FdOwnedOnce
  <2>7. FdOwnedOnce'
    BY <2>1, <2>3, <2>4, <2>5, <2>6, CloseType, Closed, HoldingsType, SMT
  <2> QED
    BY <2>2, <2>7 DEF FdInv
<1>2. ASSUME NEW h \in handles, Release(h) PROVE FdInv'
  <2> DEFINE fds == {h.fd}
            its == <<h, "handle", h.fd, h.ino>>
  <2>1. handles' = handles \ {h} /\ CloseFds(fds) /\ UNCHANGED <<entry, nodes, req>>
    BY <1>2 DEF Release
  <2>2. PassthroughType' /\ Stages'
    BY <2>1, CloseType DEF FdInv, PassthroughType, Stages
  <2>3. \A y \in Holdings' : y \in Holdings /\ y # its
    BY <2>1, SMT DEF Holdings
  <2>4. \A y \in Holdings : y = its \/ y \in Holdings'
    BY <2>1 DEF Holdings
  <2>5. its \in Holdings /\ its[3] = h.fd
    BY DEF Holdings
  <2> HIDE DEF its
  <2>6. \A y \in Holdings' : y[3] # Nil => y[3] \notin fds
    BY <2>3, <2>5, SMT DEF FdInv, FdOwnedOnce
  <2>7. FdOwnedOnce'
    BY <2>1, <2>3, <2>4, <2>5, <2>6, CloseType, Closed, HoldingsType, SMT
  <2> QED
    BY <2>2, <2>7 DEF FdInv
<1> QED
  BY <1>1, <1>2

\* The holdings Old are replaced by the holdings New of the same descriptors.
Moves(Old, New) ==
  /\ Old \subseteq Holdings
  /\ \A x \in Holdings' : x[3] = Nil \/ (x \in Holdings /\ x \notin Old) \/ x \in New
  /\ \A x \in New : x[3] # Nil =>
       (\E y \in Old : y[3] = x[3]) /\ x[4] \in {Nil, fdt[x[3]].ino}
  /\ \A x, y \in New : x[3] # Nil /\ x[3] = y[3] => x = y
  /\ \A y \in Holdings : y[3] = Nil \/ \E x \in Holdings' : x[3] = y[3]

\* Descriptors change hands.
LEMMA Moved ==
  ASSUME FdInv, UNCHANGED fdt, NEW Old, NEW New, Moves(Old, New)
  PROVE  FdOwnedOnce'
<1>1. \A f \in Fd : fdt'[f] # Nil => \E x \in Holdings' : x[3] = f
  BY PassthroughAssumption, SMT DEF FdInv, FdOwnedOnce, Moves
<1>2. ASSUME NEW x \in Holdings', x[3] # Nil PROVE fdt[x[3]] # Nil /\ x[4] \in {Nil, fdt[x[3]].ino}
  BY <1>2, SMT DEF FdInv, FdOwnedOnce, Moves
<1>3. ASSUME NEW x \in Holdings', NEW y \in Holdings', x[3] # Nil, y[3] = x[3] PROVE y = x
  <2>1. CASE x \in New /\ y \in New
    BY <1>3, <2>1 DEF Moves
  <2>2. CASE x \in Holdings /\ x \notin Old
    BY <1>3, <2>2, SMT DEF FdInv, FdOwnedOnce, Moves
  <2>3. CASE y \in Holdings /\ y \notin Old
    BY <1>3, <2>3, SMT DEF FdInv, FdOwnedOnce, Moves
  <2> QED
    BY <1>3, <2>1, <2>2, <2>3 DEF Moves
<1> QED
  BY <1>1, <1>2, <1>3 DEF FdOwnedOnce

\* fstat tells the call which file it has.
LEMMA FstatStep ==
  ASSUME FdInv, NEW r \in Req, Fstat(r)
  PROVE  FdInv'
<1> USE PassthroughAssumption
<1> DEFINE f == IF req[r].op = "Create" THEN req[r].fd ELSE req[r].path
           c == [req[r] EXCEPT !.ino = fdt[f].ino,
                   !.at = IF req[r].op = "Create" THEN "dup"
                          ELSE IF req[r].op = "Parent" THEN "chown" ELSE "anchor"]
<1>0. req[r] \in Calls /\ Stage(req[r]) /\ req[r].at = "stat"
  BY DEF Fstat, FdInv, PassthroughType, Stages
<1>1. HeldBy(r) \subseteq Holdings
  BY DEF HeldBy, Holdings
<1>2. f \in Fd /\ fdt[f] # Nil /\ fdt[f].ino \in Inos
  <2>1. f \in Fd /\ \E x \in HeldBy(r) : x[3] = f
    BY <1>0 DEF Stage, Calls, OptFd, HeldBy
  <2> QED
    BY <1>1, <2>1, SMT DEF FdInv, FdOwnedOnce, PassthroughType
<1>3. /\ c \in Calls /\ c.ino = fdt[f].ino /\ c.op = req[r].op /\ c.fd = req[r].fd
      /\ c.path = req[r].path /\ c.parentFd = req[r].parentFd
      /\ c.at = IF c.op = "Create" THEN "dup" ELSE IF c.op = "Parent" THEN "chown" ELSE "anchor"
  BY <1>0, <1>2, ZenonT(40) DEF Calls
<1>4. Goes(r, c) /\ UNCHANGED <<entry, fdt, plock, nodes, handles>>
  BY DEF Fstat, host
<1> HIDE DEF c
<1>5. Stage(c)
  <2>1. c.ino # Nil /\ c.at \in {"dup", "chown", "anchor"}
    BY <1>2, <1>3 DEF Inos
  <2> QED
    BY <1>0, <1>3, <2>1 DEF Stage
<1>6. /\ req' \in [Req -> Calls] /\ Stages' /\ req'[r] = c
      /\ \A q \in Req \ {r} : req'[q] = req[q]
  BY <1>3, <1>4, <1>5, GoesKeeps
<1> DEFINE New == {<<r, "fd", c.fd, c.ino>>, <<r, "path", c.path, c.ino>>,
                   <<r, "parentFd", c.parentFd, Dir>>}
<1>7. \A x \in Holdings' : (x \in Holdings /\ x \notin HeldBy(r)) \/ x \in New
  BY <1>4, <1>6, SMT DEF Holdings, HeldBy
<1>8. New \subseteq Holdings'
  BY <1>6 DEF Holdings
<1>9. \A y \in Holdings : y \in Holdings' \/ \E x \in New : x[3] = y[3]
  BY <1>3, <1>4, <1>6, SMT DEF Holdings
<1>10. \A x \in New : x[3] # Nil => x[3] = f /\ x[4] = fdt[f].ino /\ \E y \in HeldBy(r) : y[3] = x[3]
  BY <1>0, <1>3, SMT DEF Stage, HeldBy
<1>11. \A x, y \in New : x[3] # Nil /\ x[3] = y[3] => x = y
  BY <1>0, <1>3, SMT DEF Stage
<1> HIDE DEF New
<1>12. Moves(HeldBy(r), New)
  BY <1>1, <1>7, <1>8, <1>9, <1>10, <1>11 DEF Moves
<1>13. FdOwnedOnce'
  BY <1>4, <1>12, Moved
<1> QED
  BY <1>4, <1>6, <1>13 DEF FdInv, PassthroughType

\* The result of a call is the server's now.
LEMMA PublishStep ==
  ASSUME FdInv, NEW r \in Req, Publish(r)
  PROVE  FdInv'
<1> USE PassthroughAssumption
<1> DEFINE c == req[r]
           n == [fd |-> c.path, parentFd |-> c.parentFd, ino |-> c.ino]
           k == [fd |-> c.fd, ino |-> c.ino, node |-> c.path, lock |-> FALSE]
<1>0. /\ c \in Calls /\ c.path \in Fd /\ c.ino \in Inos /\ c.parentFd \in OptFd
      /\ IF c.op = "Create" THEN c.fd \in Fd ELSE c.fd = Nil
  BY DEF Publish, FdInv, PassthroughType, Stages, Stage, Calls, OptFd
<1>1. /\ nodes' = nodes \cup {n} /\ handles' = IF c.op = "Create" THEN handles \cup {k} ELSE handles
      /\ Goes(r, NoCall) /\ UNCHANGED <<entry, fdt, plock>>
  BY DEF Publish, Returns, host
<1>2. /\ n \in [fd : Fd, parentFd : OptFd, ino : Inos] /\ n.fd = c.path
      /\ n.parentFd = c.parentFd /\ n.ino = c.ino
  BY <1>0
<1>3. /\ c.op = "Create" => k \in [fd : Fd, ino : Inos, node : Fd, lock : BOOLEAN]
      /\ k.fd = c.fd /\ k.ino = c.ino
  BY <1>0
<1>4. NoCall \in Calls /\ Stage(NoCall) /\ NoCall.fd = Nil /\ NoCall.path = Nil /\ NoCall.parentFd = Nil
  BY DEF Calls, Stage, NoCall, OptFd
<1>5. /\ req' \in [Req -> Calls] /\ Stages' /\ req'[r] = NoCall
      /\ \A q \in Req \ {r} : req'[q] = req[q]
  BY <1>1, <1>4, GoesKeeps
<1> HIDE DEF n, k
<1> DEFINE New == {<<n, "node", c.path, c.ino>>, <<n, "anchor", c.parentFd, Dir>>,
                   <<k, "handle", c.fd, c.ino>>}
<1>6. HeldBy(r) \subseteq Holdings
  BY DEF HeldBy, Holdings
<1>7. \A x \in Holdings' : x[3] = Nil \/ (x \in Holdings /\ x \notin HeldBy(r)) \/ x \in New
  BY <1>1, <1>2, <1>3, <1>4, <1>5, SMT DEF Holdings, HeldBy
<1>8. \A x \in New : x[3] = Nil \/ x \in Holdings'
  BY <1>0, <1>1, <1>2, <1>3, SMT DEF Holdings
<1>9. \A y \in Holdings : y \in Holdings' \/ \E x \in New : x[3] = y[3]
  BY <1>1, <1>5, SMT DEF Holdings
<1>10. /\ c.fd # Nil => c.fd # c.path /\ c.fd # c.parentFd /\ fdt[c.fd].ino = c.ino
       /\ c.path # c.parentFd /\ fdt[c.path].ino = c.ino
       /\ c.parentFd # Nil => fdt[c.parentFd].ino = Dir
  <2>1. /\ <<r, "fd", c.fd, c.ino>> \in Holdings /\ <<r, "path", c.path, c.ino>> \in Holdings
        /\ <<r, "parentFd", c.parentFd, Dir>> \in Holdings
    BY DEF Holdings
  <2>2. c.path # Nil /\ c.ino # Nil
    BY <1>0 DEF Inos
  <2> QED
    BY <2>1, <2>2 DEF FdInv, FdOwnedOnce
<1>11. \A x \in New : x[3] # Nil =>
         (\E y \in HeldBy(r) : y[3] = x[3]) /\ x[4] \in {Nil, fdt[x[3]].ino}
  BY <1>10, SMT DEF HeldBy
<1>12. \A x, y \in New : x[3] # Nil /\ x[3] = y[3] => x = y
  BY <1>10, SMT
<1> HIDE DEF New
<1>13. Moves(HeldBy(r), New)
  BY <1>6, <1>7, <1>8, <1>9, <1>11, <1>12 DEF Moves
<1>15. FdOwnedOnce'
  BY <1>1, <1>13, Moved
<1>14. PassthroughType'
  BY <1>1, <1>2, <1>3, <1>5 DEF FdInv, PassthroughType
<1> QED
  BY <1>5, <1>14, <1>15 DEF FdInv

\* A lock changes nothing but the handle's record of it.
LEMMA LockSteps ==
  ASSUME FdInv, NEW h \in handles, Lock(h) \/ Unlock(h)
  PROVE  FdInv'
<1>1. PICK b \in BOOLEAN :
        /\ handles' = (handles \ {h}) \cup {[h EXCEPT !.lock = b]}
        /\ UNCHANGED <<entry, fdt, nodes, req>>
  BY DEF Lock, Unlock
<1> DEFINE k == [h EXCEPT !.lock = b]
           Old == {<<h, "handle", h.fd, h.ino>>}
           New == {<<k, "handle", h.fd, h.ino>>}
<1>2. /\ k \in [fd : Fd, ino : Inos, node : Fd, lock : BOOLEAN] /\ k.fd = h.fd /\ k.ino = h.ino
      /\ handles' = (handles \ {h}) \cup {k}
  BY <1>1 DEF FdInv, PassthroughType
<1> HIDE DEF k
<1>3. Old \subseteq Holdings /\ New \subseteq Holdings'
  BY <1>2 DEF Holdings
<1>4. \A x \in Holdings' : (x \in Holdings /\ x \notin Old) \/ x \in New
  BY <1>1, <1>2, SMT DEF Holdings
<1>5. \A y \in Holdings : y \in Holdings' \/ \E x \in New : x[3] = y[3]
  BY <1>1, <1>2, SMT DEF Holdings
<1>6. \A x \in New : x[3] # Nil =>
         (\E y \in Old : y[3] = x[3]) /\ x[4] \in {Nil, fdt[x[3]].ino}
  BY <1>3, SMT DEF FdInv, FdOwnedOnce
<1>7. \A x, y \in New : x = y
  OBVIOUS
<1> HIDE DEF Old, New
<1>8. Moves(Old, New)
  BY <1>3, <1>4, <1>5, <1>6, <1>7 DEF Moves
<1>9. FdOwnedOnce'
  BY <1>1, <1>8, Moved
<1> QED
  BY <1>1, <1>2, <1>9 DEF FdInv, PassthroughType, Stages

-----------------------------------------------------------------------------
(* The theorems *)

\* The invariant holds in every state of the server.
LEMMA FdInvariant == HostSpec => []FdInv
<1>1. ASSUME FdInv, [HostNext]_hostVars PROVE FdInv'
  <2>1. CASE UNCHANGED hostVars
    BY <1>1, <2>1, SMT DEF hostVars, FdInv, PassthroughType, Stages, FdOwnedOnce, Holdings
  <2>2. CASE HostNext
    <3>1. ASSUME NEW r \in Req, LookupParent(r) \/ Undo(r) PROVE FdInv'
      BY <1>1, <3>1, QuietSteps
    <3> QED
      BY <1>1, <2>2, <3>1, QuietSteps, EntrySteps, OpenSteps, OpenStep, CloseSteps, ReleaseSteps,
         FstatStep, PublishStep, LockSteps DEF HostNext
  <2> QED
    BY <1>1, <2>1, <2>2
<1> QED
  BY <1>1, FdInit, PTL DEF HostSpec

\* Every error path of every call closes exactly what the call has opened.
THEOREM FdsOwned == HostSpec => []FdOwnedOnce
<1>1. FdInv => FdOwnedOnce
  BY DEF FdInv
<1> QED
  BY <1>1, FdInvariant, PTL

\* The node and the handle that Create returns are the same file, whatever happens
\* to the entry meanwhile.
THEOREM CreateOneFile == HostSpec => []CreateReturnsOneFile
<1>1. FdInv => CreateReturnsOneFile
  <2> SUFFICES ASSUME FdInv, NEW r \in Req, req[r].op = "Create", req[r].at = "chown"
               PROVE  fdt[req[r].fd].ino = fdt[req[r].path].ino
    BY DEF CreateReturnsOneFile
  <2>1. /\ <<r, "fd", req[r].fd, req[r].ino>> \in Holdings
        /\ <<r, "path", req[r].path, req[r].ino>> \in Holdings
    BY DEF Holdings
  <2>2. req[r].fd # Nil /\ req[r].path # Nil /\ req[r].ino # Nil
    BY DEF FdInv, Stages, Stage
  <2> QED
    BY <2>1, <2>2 DEF FdInv, FdOwnedOnce
<1> QED
  BY <1>1, FdInvariant, PTL
=============================================================================
