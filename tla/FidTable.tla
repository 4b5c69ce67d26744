------------------------------ MODULE FidTable ------------------------------
(***************************************************************************)
(* The fids of one server connection (server/fid.go) under concurrent      *)
(* request handlers (server/dispatch.go, server/bridge.go) and the node    *)
(* reference counts that decide when a node is closed (server/inode.go).   *)
(*                                                                         *)
(* A handler is a process.  Each action is the code of one critical        *)
(* section (ft.mu, fs.mu, one atomic) or one call into the file system; a  *)
(* handler keeps the *fidState it looked up while others clunk, rebind or  *)
(* reopen the fid.  Handles, nodes and fidStates are allocated from finite *)
(* sets and may be allocated again once nothing refers to them.            *)
(*                                                                         *)
(* Nodes embed Inode, so they are counted.  Lookup makes a new node each   *)
(* time, as the passthrough file system does.                              *)
(***************************************************************************)
EXTENDS Integers, FiniteSets

CONSTANTS Op, Fid, Obj, Node, Handle,
          Root,       \* the attach root
          Nil,
          MaxFids,    \* WithMaxFids
          MaxXattr,   \* bound on declared xattr sizes, in writes
          Requests    \* the requests on existing fids that clients send

ASSUME FidTableAssumption ==
    /\ Root \in Node /\ MaxFids \in Nat \ {0} /\ MaxXattr \in Nat
    /\ Nil \notin Obj \cup Node \cup Handle \cup Fid
    /\ IsFiniteSet(Fid) /\ IsFiniteSet(Op)

VARIABLES
    table,   \* table[f]: the *fidState bound to fid f
    fs,      \* fs[o]: the fields of fidState o
    refs,    \* refs[n]: Inode.refs of node n
    nopen,   \* nodes whose backing resource is open
    hopen,   \* file handles that are open
    at,      \* at[p]: where handler p is
    req,     \* req[p]: the request and the locals of its handler
    raced,   \* history: nodes whose last reference went while a handler that
             \* may bind them had hold of them without counting
    usurped, \* history: handles of fids that xattrcreate took out of fidOpened
    spilled, \* history: nodes whose count reached zero where the code does not
             \* look for that
    late     \* history: the xattr paths on which a write was acknowledged after
             \* the commit

hist == <<raced, usurped, spilled, late>>
vars == <<table, fs, refs, nopen, hopen, at, req, hist>>

Status == {"allocated", "opened", "xattrRead", "xattrWrite"}

FidState == [node : Node \cup {Nil}, state : Status, handle : Handle \cup {Nil},
             ioRefs : Nat, closing : BOOLEAN, closeNode : BOOLEAN,
             raw : BOOLEAN, xdata : Nat, xsize : Nat, committed : BOOLEAN]

NewFidState(n, s) == [node |-> n, state |-> s, handle |-> Nil, ioRefs |-> 0,
                      closing |-> FALSE, closeNode |-> FALSE,
                      raw |-> FALSE, xdata |-> 0, xsize |-> 0, committed |-> FALSE]

Blank == NewFidState(Nil, "allocated")

Idle == [kind |-> "none", fid |-> Nil, new |-> Nil, obj |-> Nil, node |-> Nil,
         prev |-> Nil, handle |-> Nil, last |-> FALSE]

Kinds == {"clone", "walk", "open", "create", "io", "xattrwalk", "xattrcreate",
          "clunk", "remove"}

Labels == {"idle", "got", "lookup", "bind", "inc", "dec", "decref", "finish", "release",
           "opening", "mark", "swap", "begin", "io", "xset", "xwrite"}

\* The shape of the fid table: fids map to fidStates (whose I/O counts are never
\* negative), requests are at a point of their handler.
TypeOK ==
    /\ table \in [Fid -> Obj \cup {Nil}]
    /\ fs \in [Obj -> FidState]
    /\ refs \in [Node -> Int]
    /\ nopen \in SUBSET Node /\ hopen \in SUBSET Handle
    /\ at \in [Op -> Labels]
    /\ req \in [Op -> [kind : Kinds \cup {"none"}, fid : Fid \cup {Nil}, new : Fid \cup {Nil},
                       obj : Obj \cup {Nil}, node : Node \cup {Nil},
                       prev : Node \cup {Nil}, handle : Handle \cup {Nil},
                       last : BOOLEAN]]
    /\ raced \in SUBSET Node /\ usurped \in SUBSET Handle /\ spilled \in SUBSET Node
    /\ late \in SUBSET {"raw", "buffered"}

Init ==
    /\ table = [f \in Fid |-> Nil]
    /\ fs = [o \in Obj |-> Blank]
    /\ refs = [n \in Node |-> 0]
    /\ nopen = {Root} /\ hopen = {}
    /\ at = [p \in Op |-> "idle"] /\ req = [p \in Op |-> Idle]
    /\ raced = {} /\ usurped = {} /\ spilled = {} /\ late = {}

-----------------------------------------------------------------------------
(* What the heap still refers to. *)

Bound == {f \in Fid : table[f] # Nil}
BoundTo(n) == {f \in Bound : fs[table[f]].node = n}

LiveObj == {table[f] : f \in Bound} \cup ({req[p].obj : p \in Op} \ {Nil})

\* Handlers that may go on to bind node n and have not counted it yet.
Binding(n) ==
    {p \in Op : \/ at[p] \in {"lookup", "bind", "inc", "swap"} /\ req[p].node = n
                \/ at[p] = "got" /\ req[p].kind \in {"clone", "walk", "xattrwalk"}
                     /\ fs[req[p].obj].node = n}

LiveNode == {fs[o].node : o \in LiveObj} \cup UNION {{req[p].node, req[p].prev} : p \in Op}
LiveHandle == {fs[o].handle : o \in LiveObj} \cup {req[p].handle : p \in Op}

\* The nodes and handles the file system can return from Lookup, Create, Open.
\* One unused value stands for any.
Fresh(S) == IF S = {} THEN {} ELSE {CHOOSE x \in S : TRUE}
FreshNode == Fresh(Node \ (nopen \cup LiveNode \cup {Root}))
FreshHandle == Fresh(Handle \ (hopen \cup LiveHandle))

Goto(p, l) == at' = [at EXCEPT ![p] = l]

\* The handler returns; a fidState nothing refers to any more is reclaimed.
EndWith(p, g) ==
    /\ at' = [at EXCEPT ![p] = "idle"] /\ req' = [req EXCEPT ![p] = Idle]
    /\ fs' = [o \in Obj |-> IF \/ \E f \in Fid : table[f] = o
                               \/ \E q \in Op \ {p} : req[q].obj = o
                           THEN g[o] ELSE Blank]
End(p) == EndWith(p, fs)

\* A new node has no history.
New(c) == IF c \in FreshNode THEN {c} ELSE {}
Forget(c) == raced' = raced \ New(c) /\ spilled' = spilled \ New(c)

Spill(n, zero) == IF zero /\ n # Root THEN spilled \cup {n} ELSE spilled

\* closeUnboundNode, on the node a walk stepped past or could not bind.
\* Nodes with live references are left alone.
MutUnbound(n, start) == {}
Unbound(n, start) == IF n = start \/ refs[n] # 0 THEN {} ELSE {n}

-----------------------------------------------------------------------------
(* fidTable.add and the handlers that bind a new fid. *)

MayAdd(f) == Cardinality(Bound) < MaxFids /\ table[f] = Nil

\* add under ft.mu; the reference is counted afterwards.
Add(p, f, n, s) ==
    \E o \in Fresh(Obj \ LiveObj) :
        /\ table' = [table EXCEPT ![f] = o]
        /\ fs' = [fs EXCEPT ![o] = NewFidState(n, s)]
        /\ Goto(p, "inc")
        /\ req' = [req EXCEPT ![p].node = n, ![p].prev = Nil]

Attach(p, f) ==
    /\ at[p] = "idle" /\ MayAdd(f)
    /\ Add(p, f, Root, "allocated")
    /\ UNCHANGED <<refs, nopen, hopen, hist>>

\* A request on an existing fid: get under ft.mu, EBADF if absent.
Get(p, k, f, g) ==
    /\ at[p] = "idle" /\ table[f] # Nil
    /\ Goto(p, "got")
    /\ req' = [req EXCEPT ![p] = [Idle EXCEPT !.kind = k, !.fid = f, !.new = g,
                                              !.obj = table[f]]]
    /\ UNCHANGED <<table, fs, refs, nopen, hopen, hist>>

\* nodeAndPath or currentNode, then on to the lookups or to the bind.
ReadNode(p) ==
    /\ at[p] = "got" /\ req[p].kind \in {"clone", "walk", "xattrwalk"}
    /\ req' = [req EXCEPT ![p].node = fs[req[p].obj].node]
    /\ Goto(p, IF req[p].kind = "walk" THEN "lookup" ELSE "bind")
    /\ UNCHANGED <<table, fs, refs, nopen, hopen, hist>>

\* The first Lookup of handleWalk.  req.prev remembers walkStart.
WalkFirst(p) ==
    /\ at[p] = "lookup"
    /\ \/ \E c \in FreshNode :
            /\ req' = [req EXCEPT ![p].node = c, ![p].prev = req[p].node]
            /\ nopen' = nopen \cup {c} /\ Forget(c)
            /\ Goto(p, "bind") /\ UNCHANGED fs
       \/ End(p) /\ UNCHANGED <<nopen, raced, spilled>>
    /\ UNCHANGED <<table, refs, hopen, usurped, late>>

\* A further component: the node stepped past is closed unless it is the start,
\* the child itself, or referenced.
WalkOn(p) ==
    LET cur == req[p].node
        start == req[p].prev
    IN
    /\ at[p] = "bind" /\ req[p].kind = "walk"
    /\ \E c \in FreshNode :
         /\ req' = [req EXCEPT ![p].node = c]
         /\ nopen' = (nopen \ Unbound(cur, start)) \cup {c}
         /\ Forget(c)
    /\ UNCHANGED <<table, fs, refs, hopen, at, usurped, late>>

\* A failed Lookup ends a partial walk.
WalkPartial(p) ==
    /\ at[p] = "bind" /\ req[p].kind = "walk"
    /\ nopen' = nopen \ Unbound(req[p].node, req[p].prev)
    /\ End(p)
    /\ UNCHANGED <<table, refs, hopen, hist>>

\* The end of Twalk to a new fid, of a clone, and addXattrReadFid.
BindNew(p) ==
    LET r == req[p] IN
    /\ at[p] = "bind" /\ r.fid # r.new
    /\ IF MayAdd(r.new)
       THEN /\ Add(p, r.new, r.node, IF r.kind = "xattrwalk" THEN "xattrRead" ELSE "allocated")
            /\ UNCHANGED nopen
       ELSE /\ nopen' = IF r.kind = "walk" THEN nopen \ Unbound(r.node, r.prev) ELSE nopen
            /\ End(p) /\ UNCHANGED table
    /\ UNCHANGED <<refs, hopen, hist>>

\* fidTable.update: the node is swapped by fid number and the displaced one
\* returned from the same critical section.  (The mutant drops the node the
\* walk started from.)
MutDisplaced(p) == req[p].prev
Displaced(p) == fs[table[req[p].fid]].node

Update(p) ==
    LET r == req[p]
        o == table[r.fid]
    IN
    /\ at[p] = "bind" /\ r.fid = r.new /\ r.kind = "walk"
    /\ IF o # Nil
       THEN /\ fs' = [fs EXCEPT ![o].node = r.node]
            /\ req' = [req EXCEPT ![p].prev = Displaced(p)]
            /\ Goto(p, "inc") /\ UNCHANGED nopen
       ELSE nopen' = nopen \ Unbound(r.node, r.prev) /\ End(p)
    /\ UNCHANGED <<table, refs, hopen, hist>>

\* incRefNode; a rebinding handler goes on to drop the displaced node.  A fid
\* clunked since it was bound has already been counted down.
IncRef(p) ==
    /\ at[p] = "inc"
    /\ refs' = [refs EXCEPT ![req[p].node] = @ + 1]
    /\ spilled' = Spill(req[p].node, refs[req[p].node] = -1)
    /\ IF req[p].prev = Nil THEN End(p) ELSE Goto(p, "dec") /\ UNCHANGED <<req, fs>>
    /\ UNCHANGED <<table, nopen, hopen, raced, usurped, late>>

\* decRefNode(prev): handleWalk and handleLcreate ignore its result.
DecPrev(p) ==
    /\ at[p] = "dec"
    /\ refs' = [refs EXCEPT ![req[p].prev] = @ - 1]
    /\ spilled' = Spill(req[p].prev, refs[req[p].prev] = 1)
    /\ End(p)
    /\ UNCHANGED <<table, nopen, hopen, raced, usurped, late>>

-----------------------------------------------------------------------------
(* Tlopen, Topen, Tlcreate and Tcreate. *)

\* currentState and currentNode.
StateCheck(p) ==
    /\ at[p] = "got" /\ req[p].kind \in {"open", "create", "xattrcreate"}
    /\ IF fs[req[p].obj].state = "allocated"
       THEN Goto(p, IF req[p].kind = "xattrcreate" THEN "xset" ELSE "opening")
              /\ UNCHANGED <<req, fs>>
       ELSE End(p)
    /\ UNCHANGED <<table, refs, nopen, hopen, hist>>

\* Open returns a handle, Create a child and a handle, or either fails.
CallOpen(p) ==
    /\ at[p] = "opening"
    /\ \/ \E h \in FreshHandle :
            /\ hopen' = hopen \cup {h}
            /\ \/ /\ req[p].kind = "open" /\ Goto(p, "mark")
                  /\ req' = [req EXCEPT ![p].handle = h]
                  /\ UNCHANGED <<nopen, fs, raced, spilled>>
               \/ \E c \in FreshNode :
                    /\ req[p].kind = "create" /\ Goto(p, "swap")
                    /\ req' = [req EXCEPT ![p].handle = h, ![p].node = c]
                    /\ nopen' = nopen \cup {c} /\ Forget(c) /\ UNCHANGED fs
       \/ End(p) /\ UNCHANGED <<nopen, hopen, raced, spilled>>
    /\ UNCHANGED <<table, refs, usurped, late>>

\* The test markOpenedWithHandle and updateAndOpen make under both locks, on
\* whatever fidState the fid number has now.
MutMayOpen(f) == table[f] # Nil
MayOpen(f) == table[f] # Nil /\ fs[table[f]].state = "allocated"

\* markOpenedWithHandle; on failure the handle is released.
MarkOpened(p) ==
    LET r == req[p]
        o == table[r.fid]
    IN
    /\ at[p] = "mark"
    /\ IF MayOpen(r.fid)
       THEN /\ EndWith(p, [fs EXCEPT ![o].state = "opened", ![o].handle = r.handle])
            /\ UNCHANGED hopen
       ELSE End(p) /\ hopen' = hopen \ {r.handle}
    /\ UNCHANGED <<table, refs, nopen, hist>>

\* updateAndOpen; on failure the handle is released and the child closed.
UpdateAndOpen(p) ==
    LET r == req[p]
        o == table[r.fid]
    IN
    /\ at[p] = "swap"
    /\ IF MayOpen(r.fid)
       THEN /\ fs' = [fs EXCEPT ![o].node = r.node, ![o].state = "opened",
                                ![o].handle = r.handle]
            /\ req' = [req EXCEPT ![p].prev = fs[o].node, ![p].handle = Nil]
            /\ Goto(p, "inc") /\ UNCHANGED <<hopen, nopen>>
       ELSE hopen' = hopen \ {r.handle} /\ nopen' = nopen \ {r.node} /\ End(p)
    /\ UNCHANGED <<table, refs, hist>>

-----------------------------------------------------------------------------
(* Tread, Twrite, Treaddir, Tfsync, Tlock, Tgetlock: state check, beginIO,  *)
(* the call, endIO.  A Twrite on an xattr fid appends to its buffer, or is  *)
(* handed to the XattrWriter without fs.mu.                                 *)

MutMayAppend(o) == ~fs[o].raw /\ fs[o].xdata < fs[o].xsize
MayAppend(o) == ~fs[o].closing /\ ~fs[o].raw /\ fs[o].xdata < fs[o].xsize

Late(o, path) == IF fs[o].committed THEN late \cup {path} ELSE late

IOCheck(p) ==
    LET o == req[p].obj
        x == fs[o].state = "xattrWrite"
    IN
    /\ at[p] = "got" /\ req[p].kind = "io"
    /\ \/ fs[o].state = "opened" /\ Goto(p, "begin") /\ UNCHANGED <<fs, req, late>>
       \/ x /\ ~fs[o].closing /\ fs[o].raw /\ Goto(p, "xwrite") /\ UNCHANGED <<fs, req, late>>
       \/ /\ x /\ MayAppend(o)
          /\ EndWith(p, [fs EXCEPT ![o].xdata = @ + 1])
          /\ late' = Late(o, "buffered")
       \/ fs[o].state # "opened" /\ End(p) /\ UNCHANGED late
    /\ UNCHANGED <<table, refs, nopen, hopen, raced, usurped, spilled>>

\* XattrWriter.Write, called after fs.mu is dropped.
RawXattrWrite(p) ==
    /\ at[p] = "xwrite"
    /\ End(p)
    /\ late' = Late(req[p].obj, "raw")
    /\ UNCHANGED <<table, refs, nopen, hopen, raced, usurped, spilled>>

BeginIO(p) ==
    LET o == req[p].obj IN
    /\ at[p] = "begin"
    /\ IF fs[o].closing
       THEN End(p)
       ELSE /\ fs' = [fs EXCEPT ![o].ioRefs = @ + 1]
            /\ req' = [req EXCEPT ![p].handle = fs[o].handle]
            /\ Goto(p, "io")
    /\ UNCHANGED <<table, refs, nopen, hopen, hist>>

\* endIO: the last call on a clunked fid releases its handle and node.
EndIO(p) ==
    LET o == req[p].obj
        g == [fs EXCEPT ![o].ioRefs = @ - 1]
    IN
    /\ at[p] = "io"
    /\ IF fs[o].closing /\ fs[o].ioRefs = 1
       THEN /\ fs' = g
            /\ req' = [req EXCEPT ![p].last = fs[o].closeNode, ![p].handle = Nil]
            /\ Goto(p, "release")
       ELSE EndWith(p, g)
    /\ UNCHANGED <<table, refs, nopen, hopen, hist>>

-----------------------------------------------------------------------------
(* Txattrcreate, Tclunk, Tremove and the end of the session. *)

\* The transition does not look at the state again.  The node may be a RawXattrer.
XattrCreate(p) ==
    LET o == req[p].obj IN
    /\ at[p] = "xset"
    /\ \/ /\ \E z \in 0..MaxXattr, w \in BOOLEAN :
               EndWith(p, [fs EXCEPT ![o].state = "xattrWrite", ![o].raw = w, ![o].xsize = z,
                                     ![o].xdata = 0])
          /\ usurped' = usurped \cup ({fs[o].handle} \ {Nil})
       \/ End(p) /\ UNCHANGED usurped
    /\ UNCHANGED <<table, refs, nopen, hopen, raced, spilled, late>>

\* fidTable.clunk; Tremove unlinks the name before the reference goes.
Clunk(p, k, f) ==
    /\ at[p] = "idle" /\ table[f] # Nil
    /\ table' = [table EXCEPT ![f] = Nil]
    /\ req' = [req EXCEPT ![p] = [Idle EXCEPT !.kind = k, !.obj = table[f]]]
    /\ Goto(p, "decref")
    /\ UNCHANGED <<fs, refs, nopen, hopen, hist>>

MutDecRef(p) ==
    LET n == fs[req[p].obj].node IN
    /\ at[p] = "decref"
    /\ refs' = [refs EXCEPT ![n] = @ - 1]
    /\ req' = [req EXCEPT ![p].last = TRUE]
    /\ raced' = IF refs[n] = 1 /\ Binding(n) # {} THEN raced \cup ({n} \ {Root}) ELSE raced
    /\ Goto(p, "finish")
    /\ UNCHANGED <<table, fs, nopen, hopen, usurped, spilled, late>>

DecRef(p) ==
    LET n == fs[req[p].obj].node IN
    /\ at[p] = "decref"
    /\ refs' = [refs EXCEPT ![n] = @ - 1]
    /\ req' = [req EXCEPT ![p].last = refs[n] = 1]
    /\ raced' = IF refs[n] = 1 /\ Binding(n) # {} THEN raced \cup ({n} \ {Root}) ELSE raced
    /\ Goto(p, "finish")
    /\ UNCHANGED <<table, fs, nopen, hopen, usurped, spilled, late>>

\* The buffer of an xattr-write fid is taken for the commit, which may fail; the
\* fid goes without handle release or close.
CommitXattr(p) ==
    LET o == req[p].obj IN
    /\ at[p] = "finish" /\ req[p].kind = "clunk" /\ fs[o].state = "xattrWrite"
    /\ EndWith(p, [fs EXCEPT ![o].closing = TRUE, ![o].committed = TRUE])
    /\ spilled' = Spill(fs[o].node, req[p].last)
    /\ UNCHANGED <<table, refs, nopen, hopen, raced, usurped, late>>

\* finishClunk: release now, or leave it to the last endIO.
MutReleasesNow(o) == TRUE
ReleasesNow(o) == fs[o].ioRefs = 0

FinishClunk(p) ==
    LET o == req[p].obj
        g == [fs EXCEPT ![o].closing = TRUE, ![o].closeNode = req[p].last]
    IN
    /\ at[p] = "finish" /\ ~(req[p].kind = "clunk" /\ fs[o].state = "xattrWrite")
    /\ IF ReleasesNow(o) THEN fs' = g /\ Goto(p, "release") /\ UNCHANGED req
                         ELSE EndWith(p, g)
    /\ UNCHANGED <<table, refs, nopen, hopen, hist>>

ReleaseNow(p) ==
    LET o == req[p].obj IN
    /\ at[p] = "release"
    /\ hopen' = hopen \ {fs[o].handle}
    /\ nopen' = IF req[p].last THEN nopen \ {fs[o].node} ELSE nopen
    /\ End(p)
    /\ UNCHANGED <<table, refs, hist>>

\* clunkAll by handleReVersion or a drained cleanup: no handler is running, all
\* fids go and every node that loses its last reference is closed.
ClunkAll ==
    LET left == [n \in Node |-> refs[n] - Cardinality(BoundTo(n))] IN
    /\ \A p \in Op : at[p] = "idle"
    /\ table' = [f \in Fid |-> Nil] /\ fs' = [o \in Obj |-> Blank]
    /\ refs' = left
    /\ hopen' = hopen \ {fs[table[f]].handle : f \in Bound}
    /\ nopen' = nopen \ {n \in Node : BoundTo(n) # {} /\ left[n] = 0}
    /\ UNCHANGED <<at, req, hist>>

-----------------------------------------------------------------------------
Request(p) ==
    \/ \E f \in Fid : Attach(p, f)
    \/ \E f, g \in Fid, k \in Requests \cap {"clone", "walk", "xattrwalk"} :
         (f # g \/ k = "walk") /\ Get(p, k, f, g)
    \/ \E f \in Fid, k \in Requests \cap {"open", "create", "io", "xattrcreate"} :
         Get(p, k, f, Nil)
    \/ \E f \in Fid, k \in Requests \cap {"clunk", "remove"} : Clunk(p, k, f)

Step(p) ==
    \/ ReadNode(p) \/ WalkFirst(p) \/ WalkOn(p) \/ WalkPartial(p) \/ BindNew(p) \/ Update(p)
    \/ IncRef(p) \/ DecPrev(p) \/ StateCheck(p) \/ CallOpen(p) \/ MarkOpened(p)
    \/ UpdateAndOpen(p) \/ IOCheck(p) \/ RawXattrWrite(p) \/ BeginIO(p) \/ EndIO(p)
    \/ XattrCreate(p) \/ DecRef(p) \/ CommitXattr(p) \/ FinishClunk(p) \/ ReleaseNow(p)

Next == (\E p \in Op : Request(p) \/ Step(p)) \/ ClunkAll

Spec == Init /\ [][Next]_vars

-----------------------------------------------------------------------------
(* Properties *)

Count(l, n) == Cardinality({p \in Op : at[p] = l /\ req[p].node = n})
Dropping(n) == Cardinality({p \in Op : at[p] = "decref" /\ fs[req[p].obj].node = n})
                 + Cardinality({p \in Op : at[p] \in {"inc", "dec"} /\ req[p].prev = n})

\* Reference counting is exact under any interleaving: a node's count differs
\* from the number of fids bound to it only by the increments and decrements
\* that handlers are about to make (incRefNode, decRefNode, update's return of
\* the displaced node).
RefsExact ==
    \A n \in Node : refs[n] + Count("inc", n) = Cardinality(BoundTo(n)) + Dropping(n)

\* No I/O call is left with a handle that a clunk has released (beginIO, endIO
\* and finishClunk), and no handle is released twice.
HandleReleasedOnce ==
    \A p \in Op :
        /\ at[p] = "io" => req[p].handle \in hopen
        /\ at[p] = "release" /\ fs[req[p].obj].handle # Nil => fs[req[p].obj].handle \in hopen

\* "must only close the node's underlying resource once every fid referencing
\* this Inode ... has clunked": a bound fid's node is open, unless it was closed
\* between the moment a handler got hold of it and the moment it counted it.
BoundNodeOpenUnlessRaced == \A f \in Bound : fs[table[f]].node \in nopen \cup raced \cup {Root}

\* Every open handle is reachable: held by a fid, or in the hands of a handler
\* that is going to store or release it, as long as Txattrcreate has not taken
\* over a fid that was opened between its check and its transition.
NoHandleLeakUnlessUsurped == hopen \subseteq LiveHandle \cup usurped

\* A handle is released once, after its last I/O call, and not forgotten.
HandleAccountedUnlessUsurped == HandleReleasedOnce /\ NoHandleLeakUnlessUsurped

\* "On clunk, the server releases the FileHandle and calls NodeCloser.Close()":
\* an open node is the root, bound, or in the hands of a handler, unless its
\* count has reached zero unseen: in an in-place walk, a create, the clunk of an
\* xattr fid, or a bind overtaken by a clunk.
NoNodeLeakUnlessSpilled == nopen \subseteq LiveNode \cup {Root} \cup spilled

\* "a late write gets EBADF instead of appending to a buffer that has already
\* been committed": no buffered write is acknowledged after handleClunk took the
\* buffer.  (A RawXattrer's writer may still be called.)
CommitIsFinalUnlessRaw == "buffered" \notin late

-----------------------------------------------------------------------------
(* Strengthenings: what the proofs need to know about every state. *)

IsBound(o) == \E f \in Fid : table[f] = o

\* Handlers at one of the points L with fidState o.
On(o, L) == {p \in Op : at[p] \in L /\ req[p].obj = o}

\* Where handler p, which has fidState o, may be in o's life.
Phase(p, o) ==
    /\ at[p] \in {"decref", "finish"} => ~IsBound(o) /\ ~fs[o].closing
    /\ at[p] = "release" => o # Nil /\ fs[o].closing /\ fs[o].ioRefs = 0
    /\ at[p] \in {"xset", "xwrite"} => o # Nil
    /\ o # Nil => IsBound(o) \/ fs[o].closing \/ On(o, {"decref", "finish"}) # {}

\* The life of a fidState: bound and not closing; clunked by the one handler that
\* took it out of the table, and not closing yet; closing, with one handler at most
\* that releases, and that only when no I/O is left.  ioRefs counts the I/O calls.
Phases ==
    /\ \A f \in Bound : ~fs[table[f]].closing
    /\ \A p \in Op : Phase(p, req[p].obj)
    /\ \A p, q \in Op : {at[p], at[q]} \subseteq {"decref", "finish", "release"}
                           /\ req[p].obj = req[q].obj => p = q
    /\ \A o \in LiveObj : fs[o].ioRefs = Cardinality(On(o, {"io"}))

\* A committed xattr buffer is closed to appends, which is why none is late.
Committed ==
    /\ \A o \in LiveObj : fs[o].committed => fs[o].closing
    /\ CommitIsFinalUnlessRaw

\* Handlers that hold a handle no fidState has yet.
Holder == {p \in Op : at[p] \in {"mark", "swap"}}

\* Who holds which handle: an open handle is in one fidState or one handler.
Holding ==
    /\ \A o \in LiveObj :
         /\ fs[o].state = "opened" => fs[o].handle # Nil
         /\ fs[o].handle # Nil =>
              \/ fs[o].state = "opened"
              \/ fs[o].state = "xattrWrite" /\ fs[o].handle \in usurped
         /\ fs[o].handle # Nil /\ (~fs[o].closing \/ On(o, {"io", "release"}) # {})
              => fs[o].handle \in hopen
         /\ \A x \in LiveObj : fs[o].handle # Nil /\ fs[x].handle = fs[o].handle => x = o
         /\ \A p \in Holder : fs[o].handle # req[p].handle
    /\ \A p \in Holder : /\ req[p].handle \in hopen
                          /\ \A q \in Holder : req[q].handle = req[p].handle => q = p
    /\ \A p \in Op :
         /\ at[p] \in {"begin", "io"} => fs[req[p].obj].handle # Nil
         /\ at[p] = "io" => req[p].handle = fs[req[p].obj].handle
    /\ hopen \subseteq Handle

\* An open handle is going to be released: its fidState is bound, being clunked, in
\* use or being released.
Accounted ==
    \A h \in hopen :
        \/ h \in usurped
        \/ \E p \in Holder : req[p].handle = h
        \/ \E o \in LiveObj :
             /\ fs[o].handle = h
             /\ IsBound(o) \/ On(o, {"decref", "finish", "io", "release"}) # {}
=============================================================================
