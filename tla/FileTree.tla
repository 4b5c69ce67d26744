------------------------------ MODULE FileTree ------------------------------
(***************************************************************************)
(* The Inode tree (server/inode.go) as the store of the in-memory file     *)
(* system (server/memfs), changed by the handlers of concurrent requests   *)
(* (server/bridge.go, dispatch.go).                                        *)
(*                                                                         *)
(* A handler first calls the node: MemDir.Mkdir, Create or Unlink changes  *)
(* the tree under the Inode locks.  Then the handler itself updates the    *)
(* tree, as it must for nodes that leave that to the server: registerChild *)
(* after a create, RemoveChild after an unlink.  The two are separate      *)
(* critical sections, and other requests run between them.                 *)
(*                                                                         *)
(* AddChild and RemoveChildIf hold the parent's lock while they take the   *)
(* child's.  A handler that waits for a lock nobody will release is stuck, *)
(* and what it holds stays locked.                                         *)
(***************************************************************************)
EXTENDS Integers, FiniteSets

CONSTANTS Worker,     \* requests that run at the same time
          Obj,        \* Inodes, Root among them
          Root,
          Name,
          None, Any

VARIABLES kind,       \* per Inode: "unused" before it is made, "dir" or "file"
          children,   \* Inode.children
          parent,     \* Inode.parent
          op,         \* per worker: what its handler has still to do
          locked,     \* Inodes whose lock is held by a stuck handler
          overlaps,   \* history: names on which operations overlapped
          rebound     \* history: a fid was walked away under its handler

treeVars == <<kind, children, parent, op, locked, overlaps, rebound>>

ASSUME FileTreeAssumption ==
  /\ Root \in Obj /\ None \notin Obj /\ Any \notin Obj \cup {None} /\ IsFiniteSet(Name)

Idle == [st |-> "idle", dir |-> None, name |-> None, node |-> None]
States == {"idle", "register", "created", "unlinked", "scanned", "removed", "stuck"}
Pending(w) == op[w].st # "idle"

\* The shape of the tree and of the handlers: a pending handler keeps the
\* directory, name and node of its second update.
TypeOK ==
  /\ kind \in [Obj -> {"unused", "dir", "file"}]
  /\ children \in [Obj -> [Name -> Obj \cup {None}]]
  /\ parent \in [Obj -> Obj \cup {None}]
  /\ op \in [Worker -> [st : States, dir : Obj \cup {None}, name : Name \cup {None},
                        node : Obj \cup {None}]]
  /\ locked \subseteq Obj
  /\ overlaps \subseteq Obj \X Name
  /\ rebound \in BOOLEAN

TreeInit ==
  /\ kind = [o \in Obj |-> IF o = Root THEN "dir" ELSE "unused"]
  /\ children = [o \in Obj |-> [n \in Name |-> None]]
  /\ parent = [o \in Obj |-> None]
  /\ op = [w \in Worker |-> Idle]
  /\ locked = {} /\ overlaps = {} /\ rebound = FALSE

-----------------------------------------------------------------------------
\* The operations of an Inode, each under its lock.

Count(o) == Cardinality({n \in Name : children[o][n] # None})

AddChild(d, n, c) ==
  /\ {d, c} \cap locked = {} /\ d # c
  /\ children' = [children EXCEPT ![d][n] = c]
  /\ parent' = [parent EXCEPT ![c] = d]

MutTryAddChild(d, n, c) == AddChild(d, n, c)

TryAddChild(d, n, c) == children[d][n] = None /\ AddChild(d, n, c)

RemoveChild(d, n) == d \notin locked /\ children' = [children EXCEPT ![d][n] = None]

\* The check is the set of the children it lets go.
RemoveChildIf(d, n, check) ==
  LET c == children[d][n] IN
  /\ c \in check /\ c \notin locked
  /\ RemoveChild(d, n)
  /\ parent' = [parent EXCEPT ![c] = None]

-----------------------------------------------------------------------------
\* The handlers.

\* The name is in use by another request's handler.
Meets(w, d, n) ==
  \E v \in Worker \ {w} : Pending(v) /\ op[v].dir = d /\ op[v].name = n
Note(w, d, n) ==
  overlaps' = IF Meets(w, d, n) THEN overlaps \cup {<<d, n>>} ELSE overlaps

Goto(w, st, d, n, c) ==
  op' = [op EXCEPT ![w] = [st |-> st, dir |-> d, name |-> n, node |-> c]]
Reply(w) == op' = [op EXCEPT ![w] = Idle]

\* MemDir.Mkdir and MemDir.Create; a name that is taken is EEXIST.
Make(d, n, c, k) ==
  /\ kind[d] = "dir" /\ kind[c] = "unused"
  /\ TryAddChild(d, n, c)
  /\ kind' = [kind EXCEPT ![c] = k]

\* handleMkdir, up to registerChild.
Mkdir(w, d, n, c) ==
  /\ ~Pending(w) /\ Make(d, n, c, "dir")
  /\ Goto(w, "register", d, n, c) /\ Note(w, d, n)
  /\ UNCHANGED <<locked, rebound>>

\* handleLcreate and handleUCreate, up to registerChild.
Create(w, d, n, c) ==
  /\ ~Pending(w) /\ Make(d, n, c, "file")
  /\ Goto(w, "created", d, n, c) /\ Note(w, d, n)
  /\ UNCHANGED <<locked, rebound>>

\* handleLcreate finds its fid clunked during Create: the file stays.
CreateAbandoned(w) ==
  /\ op[w].st = "created"
  /\ Reply(w)
  /\ UNCHANGED <<kind, children, parent, locked, overlaps, rebound>>

\* registerChild and the reply, in the directory the fid has now.
RegisterChild(w) ==
  /\ op[w].st \in {"register", "created"}
  /\ AddChild(op[w].dir, op[w].name, op[w].node)
  /\ Reply(w)
  /\ UNCHANGED <<kind, locked, overlaps, rebound>>

\* MemDir.Unlink's check.
MayUnlink(c, removeDir) == IF removeDir THEN kind[c] = "dir" /\ Count(c) = 0
                                        ELSE kind[c] = "file"

\* handleUnlinkat: Unlink; a missing name or a failed check is its error.
Unlink(w, d, n, removeDir) ==
  /\ ~Pending(w) /\ kind[d] = "dir"
  /\ RemoveChildIf(d, n, {c \in Obj : MayUnlink(c, removeDir)})
  /\ Goto(w, "unlinked", d, n, None) /\ Note(w, d, n)
  /\ UNCHANGED <<kind, locked, rebound>>

\* The fid of a Tmkdir or Tunlinkat is walked in place while its handler runs.
Rebind(w, n) ==
  LET d == children[op[w].dir][n] IN
  /\ op[w].st \in {"register", "unlinked"} /\ d # None /\ kind[d] = "dir"
  /\ op[w].dir \notin locked
  /\ op' = [op EXCEPT ![w].dir = d]
  /\ overlaps' = overlaps \cup {<<d, op[w].name>>}
  /\ rebound' = TRUE
  /\ UNCHANGED <<kind, children, parent, locked>>

MutScanned(c) ==
  {n \in Name : parent[c] # None /\ children[parent[c]][n] # None}

\* removeViaInodeTree: the name its parent has for the fid's node.
Scanned(c) ==
  {n \in Name : parent[c] # None /\ children[parent[c]][n] = c}

RemoveScan(w, c, n) ==
  /\ ~Pending(w) /\ kind[c] # "unused" /\ n \in Scanned(c)
  /\ {c, parent[c]} \cap locked = {}
  /\ Goto(w, "scanned", parent[c], n, c) /\ Note(w, parent[c], n)
  /\ UNCHANGED <<kind, children, parent, locked, rebound>>

\* Its Unlink, with flags 0, of whatever the name means by now.
RemoveUnlink(w) ==
  LET d == op[w].dir
      n == op[w].name
      c == children[d][n] IN
  /\ op[w].st = "scanned" /\ d \notin locked /\ c \notin locked
  /\ IF c # None /\ MayUnlink(c, FALSE)
       THEN /\ RemoveChildIf(d, n, {c})
            /\ op' = [op EXCEPT ![w].st = "removed"] /\ Note(w, d, n)
       ELSE Reply(w) /\ UNCHANGED <<children, parent, overlaps>>
  /\ UNCHANGED <<kind, locked, rebound>>

\* RemoveChild after a successful Unlink, and the reply.
RemoveAgain(w) ==
  /\ op[w].st \in {"unlinked", "removed"}
  /\ RemoveChild(op[w].dir, op[w].name)
  /\ Reply(w)
  /\ UNCHANGED <<kind, parent, locked, overlaps, rebound>>

MutLocking(w) ==
  CASE op[w].st \in {"register", "created"} -> {<<op[w].dir, op[w].node>>}
    [] op[w].st = "scanned" -> {<<children[op[w].dir][op[w].name], op[w].dir>>}
    [] op[w].st = "idle"    -> {<<children[d][n], d>> : d \in Obj, n \in Name}
    [] OTHER -> {}

\* The parent and child that a handler's next call locks, in this order.
Locking(w) ==
  CASE op[w].st \in {"register", "created"} -> {<<op[w].dir, op[w].node>>}
    [] op[w].st = "scanned" -> {<<op[w].dir, children[op[w].dir][op[w].name]>>}
    [] op[w].st = "idle"    -> {<<d, children[d][n]>> : d \in Obj, n \in Name}
    [] OTHER -> {}

\* It gets the first lock and waits for the second forever.
Hang(w, d, c) ==
  /\ <<d, c>> \in Locking(w) /\ d \notin locked /\ (c = d \/ c \in locked)
  /\ locked' = locked \cup {d}
  /\ op' = [op EXCEPT ![w].st = "stuck"]
  /\ UNCHANGED <<kind, children, parent, overlaps, rebound>>

\* Two handlers each hold the lock the other one waits for.
Cross(v, w, d, c) ==
  /\ v # w /\ <<d, c>> \in Locking(v) /\ <<c, d>> \in Locking(w)
  /\ {d, c} \cap locked = {} /\ d # c
  /\ locked' = locked \cup {d, c}
  /\ op' = [op EXCEPT ![v].st = "stuck", ![w].st = "stuck"]
  /\ UNCHANGED <<kind, children, parent, overlaps, rebound>>

TreeNext ==
  \E w \in Worker :
    \/ \E d, c \in Obj, n \in Name : Mkdir(w, d, n, c) \/ Create(w, d, n, c)
    \/ \E d \in Obj, n \in Name, r \in BOOLEAN : Unlink(w, d, n, r)
    \/ \E c \in Obj, n \in Name : RemoveScan(w, c, n)
    \/ \E n \in Name : Rebind(w, n)
    \/ \E d, c \in Obj : Hang(w, d, c) \/ \E v \in Worker : Cross(v, w, d, c)
    \/ CreateAbandoned(w) \/ RegisterChild(w) \/ RemoveUnlink(w) \/ RemoveAgain(w)

TreeSpec == TreeInit /\ [][TreeNext]_treeVars

-----------------------------------------------------------------------------
(* Properties *)

\* The tree without the names on which operations overlapped.
Masked == [d \in Obj |-> [n \in Name |->
             IF <<d, n>> \in overlaps THEN Any ELSE children[d][n]]]
Used == {o \in Obj : kind[o] # "unused"}

NS == INSTANCE Namespace WITH entry <- Masked, used <- Used

\* The handlers implement the file tree a client expects, although each of them
\* changes the tree twice: a created entry stays until it is removed, a removed
\* one stays away, nothing is replaced, a non-empty directory is kept.  No
\* promise is made for a name on which handlers overlap, nor for one that a
\* handler reaches through a fid walked away under it.
TreeUnlessOverlap == NS!Spec

\* Tremove removes the file of its fid and no other that took its name.
RemovesItsFileUnlessOverlap ==
  [][\A w \in Worker :
       /\ op[w].st = "scanned" /\ op'[w].st = "removed"
       /\ <<op[w].dir, op[w].name>> \notin overlaps
       => children[op[w].dir][op[w].name] = op[w].node]_treeVars

\* "Lock ordering: parent lock acquired before child lock to avoid deadlock"
\* (Inode.AddChild): handlers wait for each other's Inode locks only while somebody runs, although
\* they take two at a time: the tree orders the locks.  The exception is a Tmkdir
\* whose fid was walked into the tree below the new directory.
NobodyStuckUnlessRebound == rebound \/ locked = {}
=============================================================================
