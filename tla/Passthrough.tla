---------------------------- MODULE Passthrough ----------------------------
(***************************************************************************)
(* The file system of the host behind the server (server/passthrough): the *)
(* descriptors its nodes and handles own, and the sequences of system      *)
(* calls that Lookup, Create, Mkdir, Symlink, Mknod, Open and the rest are *)
(* (passthrough.go, dir.go, types.go, handle.go, lock.go).                 *)
(*                                                                         *)
(* Requests run at the same time in one process, so a descriptor number    *)
(* that was closed is soon another file.  Any call may fail, and the       *)
(* entries of the directory change on the host meanwhile.  When a node or  *)
(* a handle is closed is the fid table's decision (FidTable).              *)
(***************************************************************************)
EXTENDS Integers, FiniteSets

CONSTANTS Req,      \* requests
          Fd,       \* descriptor numbers; when all are in use, EMFILE
          Ino,      \* files
          Dir,      \* the exported directory; it is no member of Ino
          Entry,    \* names in it
          Nil

ASSUME PassthroughAssumption ==
  /\ Fd \subseteq Nat /\ Dir \notin Ino
  /\ Nil \notin Ino \cup Fd \cup {Dir} \cup [ino : Ino \cup {Dir}, io : BOOLEAN]

VARIABLES
  entry,    \* the directory: name -> file
  fdt,      \* the process's descriptors: [ino, io]; io: not O_PATH
  nodes,    \* [fd, parentFd, ino]
  handles,  \* [fd, ino, node, lock]; node: the fd of its node; lock: granted to
            \* the client
  req,      \* per request: the call, where it is, its local variables
  plock     \* files on which the process has a POSIX lock

host == <<entry, fdt, plock>>
hostVars == <<entry, fdt, nodes, handles, req, plock>>

NoCall == [op |-> "none", at |-> "idle", name |-> Nil, fd |-> Nil, path |-> Nil,
           parentFd |-> Nil, ino |-> Nil]

HostInit ==
  /\ entry \in [Entry -> Ino \cup {Nil}]
  /\ \A m, n \in Entry : entry[m] = entry[n] /\ entry[m] # Nil => m = n
  /\ fdt = [f \in Fd |-> Nil]
  /\ nodes = {} /\ handles = {}
  /\ req = [r \in Req |-> NoCall]
  /\ plock = {}

-----------------------------------------------------------------------------
(* The host (external) *)

\* A file is there as long as it has a name or a descriptor; its number is used
\* again after that.
InUse == {entry[n] : n \in Entry} \cup {fdt[f].ino : f \in {g \in Fd : fdt[g] # Nil}}

\* The lowest number that is free.
Openat(f, ino, io) == /\ fdt[f] = Nil /\ \A g \in Fd : fdt[g] = Nil => f <= g
                      /\ fdt' = [fdt EXCEPT ![f] = [ino |-> ino, io |-> io]]

\* Closing any descriptor of a file, but for O_PATH ones, ends the process's locks
\* on it.
CloseFds(fds) ==
  /\ fdt' = [f \in Fd |-> IF f \in fds THEN Nil ELSE fdt[f]]
  /\ plock' = plock \ {fdt[f].ino : f \in {g \in fds \cap Fd : fdt[g] # Nil /\ fdt[g].io}}

-----------------------------------------------------------------------------
(* The calls that make a node *)

Goes(r, c) == req' = [req EXCEPT ![r] = c]
Returns(r) == Goes(r, NoCall)

\* Lookup of a name that Fstatat found, or of "..", which is clamped at the root.
Lookup(r, n) ==
  /\ req[r] = NoCall /\ entry[n] # Nil
  /\ Goes(r, [NoCall EXCEPT !.op = "Lookup", !.at = "open", !.name = n])
  /\ UNCHANGED <<host, nodes, handles>>
LookupParent(r) ==
  /\ req[r] = NoCall
  /\ Goes(r, [NoCall EXCEPT !.op = "Parent", !.at = "open"])
  /\ UNCHANGED <<host, nodes, handles>>

\* Mkdir, Symlink and Mknod make the object, and open it by name then.
MakeNode(r, n) ==
  /\ req[r] = NoCall /\ entry[n] = Nil
  /\ \E i \in Ino \ InUse :
       /\ entry' = [entry EXCEPT ![n] = i]
       /\ Goes(r, [NoCall EXCEPT !.op = "Make", !.at = "open", !.name = n])
  /\ UNCHANGED <<fdt, nodes, handles, plock>>

\* Create makes and opens in one call, and opens the file that is there.
CreateFile(r, n) ==
  LET new == entry[n] = Nil IN
  /\ req[r] = NoCall
  /\ \E f \in Fd, i \in (IF new THEN Ino \ InUse ELSE {entry[n]}) :
       /\ Openat(f, i, TRUE)
       /\ entry' = [entry EXCEPT ![n] = i]
       /\ Goes(r, [NoCall EXCEPT !.op = "Create", !.at = "stat", !.name = n, !.fd = f])
  /\ UNCHANGED <<nodes, handles, plock>>

\* The entry may be another one by now.
OpenChild(r) ==
  LET c == req[r]
      i == IF c.op = "Parent" THEN Dir ELSE entry[c.name] IN
  /\ c.at = "open" /\ i # Nil
  /\ \E f \in Fd : Openat(f, i, c.op = "Parent") /\ Goes(r, [c EXCEPT !.at = "stat", !.path = f])
  /\ UNCHANGED <<entry, nodes, handles, plock>>

\* The identity of the node is the one of its descriptor.
Fstat(r) ==
  LET c == req[r]
      f == IF c.op = "Create" THEN c.fd ELSE c.path IN
  /\ c.at = "stat"
  /\ Goes(r, [c EXCEPT !.ino = fdt[f].ino,
                       !.at = IF c.op = "Create" THEN "dup"
                              ELSE IF c.op = "Parent" THEN "chown" ELSE "anchor"])
  /\ UNCHANGED <<host, nodes, handles>>

MutDup(r) ==
  LET c == req[r] IN
  /\ c.at = "dup" /\ entry[c.name] # Nil
  /\ \E f \in Fd : Openat(f, entry[c.name], FALSE) /\ Goes(r, [c EXCEPT !.at = "anchor", !.path = f])
  /\ UNCHANGED <<entry, nodes, handles, plock>>

\* Create duplicates the descriptor for the node.
Dup(r) ==
  LET c == req[r] IN
  /\ c.at = "dup"
  /\ \E f \in Fd : Openat(f, fdt[c.fd].ino, TRUE) /\ Goes(r, [c EXCEPT !.at = "anchor", !.path = f])
  /\ UNCHANGED <<entry, nodes, handles, plock>>

\* childNode duplicates the descriptor of the directory.
Anchor(r) ==
  LET c == req[r] IN
  /\ c.at = "anchor"
  /\ \E f \in Fd : Openat(f, Dir, TRUE) /\ Goes(r, [c EXCEPT !.at = "chown", !.parentFd = f])
  /\ UNCHANGED <<entry, nodes, handles, plock>>

\* The node, and of Create the handle, are the server's.
Publish(r) ==
  LET c == req[r] IN
  /\ c.at = "chown"
  /\ nodes' = nodes \cup {[fd |-> c.path, parentFd |-> c.parentFd, ino |-> c.ino]}
  /\ handles' = IF c.op = "Create"
                  THEN handles \cup {[fd |-> c.fd, ino |-> c.ino, node |-> c.path, lock |-> FALSE]}
                  ELSE handles
  /\ Returns(r)
  /\ UNCHANGED <<host>>

-----------------------------------------------------------------------------
(* Their failures *)

Locals(c) == {c.fd, c.path, c.parentFd}

MutCallFails(r) ==
  LET c == req[r] IN
  /\ c.at \in {"open", "stat", "dup", "anchor"}
  /\ CloseFds({IF c.op = "Create" THEN c.fd ELSE c.path})
  /\ Returns(r)
  /\ UNCHANGED <<entry, nodes, handles>>

\* A call on the way fails: childNode closes the descriptor it was given, Create
\* its own.  What was made stays.
CallFails(r) ==
  LET c == req[r] IN
  /\ c.at \in {"open", "stat", "dup", "anchor"}
  /\ CloseFds(Locals(c))
  /\ Returns(r)
  /\ UNCHANGED <<entry, nodes, handles>>

\* The new file cannot be given to the group: the node and the descriptor are
\* closed ...
ChownFails(r) ==
  LET c == req[r] IN
  /\ c.at = "chown" /\ c.op \in {"Make", "Create"}
  /\ CloseFds(Locals(c))
  /\ Goes(r, [c EXCEPT !.at = "undo", !.fd = Nil, !.path = Nil, !.parentFd = Nil])
  /\ UNCHANGED <<entry, nodes, handles>>

\* ... and the entry of that name is removed, if it can be.
Undo(r) ==
  LET c == req[r] IN
  /\ c.at = "undo"
  /\ entry' \in {entry, [entry EXCEPT ![c.name] = Nil]}
  /\ Returns(r)
  /\ UNCHANGED <<fdt, nodes, handles, plock>>

-----------------------------------------------------------------------------
(* The calls that change an entry and hold nothing; other processes of the *)
(* host do the same to the directory.                                      *)

UnlinkEntry(n) ==
  /\ entry[n] # Nil /\ entry' = [entry EXCEPT ![n] = Nil]
  /\ UNCHANGED <<fdt, nodes, handles, req, plock>>

\* A file comes from another directory.  (One that goes there is unlinked here.)
Rename(n) ==
  /\ \E i \in Ino \ InUse : entry' = [entry EXCEPT ![n] = i]
  /\ UNCHANGED <<fdt, nodes, handles, req, plock>>

Link(x, n) ==
  /\ entry[n] = Nil /\ fdt[x.fd].ino # Dir
  /\ entry' = [entry EXCEPT ![n] = fdt[x.fd].ino]
  /\ UNCHANGED <<fdt, nodes, handles, req, plock>>

-----------------------------------------------------------------------------
(* Nodes and handles in use *)

\* Open, of a file or of a directory: a descriptor of its own.
Open(r, x) ==
  /\ req[r] = NoCall
  /\ \E f \in Fd : /\ Openat(f, fdt[x.fd].ino, TRUE)
                   /\ handles' = handles \cup
                        {[fd |-> f, ino |-> x.ino, node |-> x.fd, lock |-> FALSE]}
  /\ UNCHANGED <<entry, nodes, req, plock>>

\* Readdir, truncate, the fallback of chmod and the xattr calls use a descriptor
\* for a moment.
Borrow(r, x) ==
  /\ req[r] = NoCall
  /\ \E f \in Fd : /\ Openat(f, fdt[x.fd].ino, TRUE)
                   /\ Goes(r, [NoCall EXCEPT !.op = "Borrow", !.at = "use", !.fd = f, !.ino = x.ino])
  /\ UNCHANGED <<entry, nodes, handles, plock>>
Return(r) ==
  /\ req[r].at = "use" /\ CloseFds(Locals(req[r])) /\ Returns(r)
  /\ UNCHANGED <<entry, nodes, handles>>

\* Node.Close, when no fid has the node any more; the handle of one that had is
\* released before.
CloseNode(x) ==
  /\ \A h \in handles : h.node # x.fd
  /\ nodes' = nodes \ {x}
  /\ CloseFds({x.fd, x.parentFd})
  /\ UNCHANGED <<entry, handles, req>>

\* Release, of a fileHandle or a dirHandle.
Release(h) ==
  /\ handles' = handles \ {h}
  /\ CloseFds({h.fd})
  /\ UNCHANGED <<entry, nodes, req>>

\* fcntl on the handle's descriptor; another process may be in the way.
Lock(h) ==
  /\ ~h.lock /\ h.ino # Dir
  /\ handles' = (handles \ {h}) \cup {[h EXCEPT !.lock = TRUE]}
  /\ plock' = plock \cup {fdt[h.fd].ino}
  /\ UNCHANGED <<entry, fdt, nodes, req>>
Unlock(h) ==
  /\ h.lock
  /\ handles' = (handles \ {h}) \cup {[h EXCEPT !.lock = FALSE]}
  /\ plock' = plock \ {fdt[h.fd].ino}
  /\ UNCHANGED <<entry, fdt, nodes, req>>

HostNext ==
  \/ \E n \in Entry : UnlinkEntry(n) \/ Rename(n) \/ \E x \in nodes : Link(x, n)
  \/ \E r \in Req :
       \/ \E n \in Entry : Lookup(r, n) \/ MakeNode(r, n) \/ CreateFile(r, n)
       \/ LookupParent(r) \/ OpenChild(r) \/ Fstat(r) \/ Dup(r) \/ Anchor(r) \/ Publish(r)
       \/ CallFails(r) \/ ChownFails(r) \/ Undo(r) \/ Return(r)
       \/ \E x \in nodes : Open(r, x) \/ Borrow(r, x)
  \/ \E x \in nodes : CloseNode(x)
  \/ \E h \in handles : Release(h) \/ Lock(h) \/ Unlock(h)

HostSpec == HostInit /\ [][HostNext]_hostVars

-----------------------------------------------------------------------------
(* Properties *)

\* Who holds which descriptor, and of which file the holder believes it to be.
Holdings ==
  {<<x, "node", x.fd, x.ino>> : x \in nodes}
  \cup {<<x, "anchor", x.parentFd, Dir>> : x \in nodes}
  \cup {<<h, "handle", h.fd, h.ino>> : h \in handles}
  \cup {<<r, "fd", req[r].fd, req[r].ino>> : r \in Req}
  \cup {<<r, "path", req[r].path, req[r].ino>> : r \in Req}
  \cup {<<r, "parentFd", req[r].parentFd, Dir>> : r \in Req}

\* A descriptor is open exactly as long as one node, handle or call holds it, and
\* it is still the file the holder has it for: no error path leaks one, and none
\* is closed twice, which would close somebody else's.
FdOwnedOnce ==
  LET all == Holdings IN
  /\ \A f \in Fd : fdt[f] # Nil => \E x \in all : x[3] = f
  /\ \A x \in all : x[3] # Nil =>
       /\ fdt[x[3]] # Nil /\ x[4] \in {Nil, fdt[x[3]].ino}
       /\ \A y \in all : y[3] = x[3] => y = x

\* "the Node and handle cannot diverge if the directory entry is concurrently
\* replaced": what Create returns is one file.
CreateReturnsOneFile ==
  \A r \in Req : req[r].op = "Create" /\ req[r].at = "chown" =>
    fdt[req[r].fd].ino = fdt[req[r].path].ino

\* "only the handle fd -- which lives exactly as long as the fid stays open -- gives
\* locks the lifetime the client expects".
LockLivesWithHandle == \A h \in handles : h.lock => h.ino \in plock
=============================================================================
