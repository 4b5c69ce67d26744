------------------------------ MODULE Listing ------------------------------
(***************************************************************************)
(* Directory reading: File.ReadDir (client/readdir.go) pages through a     *)
(* directory with Treaddir requests; handleReaddir and readdirSimple       *)
(* (server/bridge.go) serve them from the listing cached on the fid, or,   *)
(* when the handle can do better, from the host directory (RawReaddir of   *)
(* server/passthrough/handle.go).  EncodeDirentsInto (proto/dirent.go)     *)
(* fills the page.                                                         *)
(*                                                                         *)
(* The directory changes while it is read.  ReadDir calls on one File      *)
(* exclude each other, but the server answers whatever comes in on a fid:  *)
(* requests of another reader of the same fid run in between.              *)
(***************************************************************************)
EXTENDS Integers, Sequences, FiniteSets, SequencesExt

CONSTANTS Name,        \* names an entry may have
          Width,       \* bytes of a name
          Header,      \* bytes of a packed entry before its name
          Counts,      \* page sizes: maxChunk, clamped to msize by the server
          Batches,     \* ReadDir arguments; 0 reads to the end
          Dots,        \* "." and "..", which only a host directory lists
          Slot,        \* place of a name in a host directory
          RawEntries,  \* entries one getdents call returns
          Offsets,     \* offsets the other reader asks for
          MaxChanges   \* bound: changes of the directory

ASSUME ListingAssumption ==
  /\ Counts \subseteq Nat /\ Offsets \subseteq Nat /\ Batches \subseteq Nat /\ MaxChanges \in Nat
  /\ Width \in [Name -> Nat \ {0}] /\ Header \in Nat \ {0}
  /\ Dots \cap Name = {} /\ RawEntries > Cardinality(Dots)
  /\ Slot \in [Name \cup Dots -> Nat \ {0}]
  /\ \A m, n \in Name \cup Dots : Slot[m] = Slot[n] => m = n

VARIABLES
  raw,        \* the handle is a FileRawReaddirer
  count,      \* bytes of a page
  children,   \* names in the directory
  dirCache,   \* fidState.dirCache, by cookie
  dirCached,
  pos,        \* offset of the host directory's descriptor
  req,        \* per reader of the fid: its Treaddir and the handler's progress
  rd,         \* the ReadDir call: its n, the entries so far, where it is
  cursor,     \* File.readdirOffset
  changes,
  pages,      \* history: requests the ReadDir call sent
  got,        \* history: names the reading returned since its start
  twice,      \* history: one of them was returned before
  seen,       \* history: contents of the directory since then
  ended,      \* history: the reading came to the end of the directory
  wide,       \* history: an entry did not fit into an empty page
  shared      \* history: the other reader was active

dirVars == <<raw, count, children, dirCache, dirCached, pos, req, rd, cursor,
          changes, pages, got, twice, seen, ended, wide, shared>>

server == <<raw, count, dirCache, dirCached, pos>>
reading == <<got, twice, seen, ended, wide, shared>>

Reader == {"file", "other"}
NoReq == [st |-> "none", off |-> 0, list |-> <<>>]

DirInit ==
  /\ raw \in BOOLEAN /\ count \in Counts
  /\ children \in SUBSET Name
  /\ dirCache = <<>> /\ dirCached = FALSE /\ pos = 0
  /\ req = [r \in Reader |-> NoReq]
  /\ rd = [at |-> "idle", n |-> 0, len |-> 0]
  /\ cursor = 0 /\ changes = 0 /\ pages = 0
  /\ got = {} /\ twice = FALSE /\ seen = {} /\ ended = FALSE
  /\ wide = FALSE /\ shared = FALSE

-----------------------------------------------------------------------------
(* The server *)

Size(n) == Header + Width[n]
Bytes(dirents) == FoldLeft(LAMBDA sum, d : sum + Size(d.name), 0, dirents)

MutEncodeDirentsInto(dirents) == SelectSeq(dirents, LAMBDA d : Size(d.name) <= count)

\* The first entry that does not fit ends the page.  (Names are 16-bit strings on
\* the wire; one that is longer, which the code skips, is not modelled.)
EncodeDirentsInto(dirents) ==
  LET fits == {k \in 0 .. Len(dirents) : Bytes(SubSeq(dirents, 1, k)) <= count}
  IN  SubSeq(dirents, 1, CHOOSE k \in fits : \A j \in fits : j <= k)

Step(r, st, list) == req' = [req EXCEPT ![r].st = st, ![r].list = list]

\* The response: what fits of the entries found.  What the other reader gets is
\* of no interest here.
Page(r, dirents) ==
  LET data == EncodeDirentsInto(dirents) IN
  IF r = "file"
    THEN /\ Step(r, "answer", data)
         /\ wide' = (wide \/ (dirents # <<>> /\ data = <<>>))
    ELSE req' = [req EXCEPT ![r] = NoReq] /\ UNCHANGED wide

\* Cookies are positions in the listing, from 1.
Listed(names) == [i \in DOMAIN names |-> [name |-> names[i], cookie |-> i]]
From(dirents, off) == SubSeq(dirents, off + 1, Len(dirents))

\* readdirSimple: offset 0, or nothing cached, asks for a new listing.
Refetch(r) ==
  /\ ~raw /\ req[r].st = "sent" /\ (req[r].off = 0 \/ ~dirCached)
  /\ dirCache' = <<>> /\ dirCached' = FALSE
  /\ Step(r, "fetch", <<>>)
  /\ UNCHANGED <<raw, count, pos, children, rd, cursor, changes, pages, reading>>

Orders == [names \in SUBSET Name |-> SetToSeqs(names)]

\* Readdir of the node, outside fs.mu.  A MemDir lists its children in the
\* order of a Go map: any order.
Readdir(r) ==
  /\ req[r].st = "fetch"
  /\ \E names \in Orders[children] : Step(r, "fetched", Listed(names))
  /\ UNCHANGED <<server, children, rd, cursor, changes, pages, reading>>

\* It is cached, and the page is cut from it.
Install(r) ==
  /\ req[r].st = "fetched"
  /\ dirCache' = req[r].list /\ dirCached' = TRUE
  /\ Page(r, From(req[r].list, req[r].off))
  /\ UNCHANGED <<raw, count, pos, children, rd, cursor, changes, pages, got, twice, seen,
                 ended, shared>>

\* A later page comes from the cache.
ServeCached(r) ==
  /\ ~raw /\ req[r].st = "sent" /\ req[r].off # 0 /\ dirCached
  /\ Page(r, From(dirCache, req[r].off))
  /\ UNCHANGED <<server, children, rd, cursor, changes, pages, got, twice, seen, ended,
                 shared>>

\* RawReaddir, on a descriptor all requests of the fid share: seek ...
SeekDir(r) ==
  /\ raw /\ req[r].st = "sent"
  /\ pos' = req[r].off
  /\ Step(r, "seeked", <<>>)
  /\ UNCHANGED <<raw, count, dirCache, dirCached, children, rd, cursor, changes, pages, reading>>

\* ... and read from where it stands.  parseDirents drops the dots.
HostOrder == SetToSortSeq(Name \cup Dots, LAMBDA m, n : Slot[m] < Slot[n])
HostEntries ==
  LET rest == SelectSeq(HostOrder, LAMBDA n : n \in children \cup Dots /\ Slot[n] > pos)
  IN  SubSeq(rest, 1, IF Len(rest) < RawEntries THEN Len(rest) ELSE RawEntries)
ParseDirents(names) ==
  LET kept == SelectSeq(names, LAMBDA n : n \notin Dots)
  IN  [i \in DOMAIN kept |-> [name |-> kept[i], cookie |-> Slot[kept[i]]]]

Getdents(r) ==
  /\ req[r].st = "seeked"
  /\ pos' = IF HostEntries = <<>> THEN pos ELSE Slot[Last(HostEntries)]
  /\ Page(r, ParseDirents(HostEntries))
  /\ UNCHANGED <<raw, count, dirCache, dirCached, children, rd, cursor, changes, pages, got,
                 twice, seen, ended, shared>>

\* Readdir, the seek or getdents fails.
Fails(r) ==
  /\ req[r].st \in {"fetch", "seeked"}
  /\ req' = [req EXCEPT ![r] = IF r = "file" THEN [@ EXCEPT !.st = "error"] ELSE NoReq]
  /\ UNCHANGED <<server, children, rd, cursor, changes, pages, reading>>

-----------------------------------------------------------------------------
(* The client *)

\* Another reader of the fid sends a Treaddir.  From here on the reading has no
\* history.
OtherSends(off) ==
  /\ req["other"].st = "none"
  /\ req' = [req EXCEPT !["other"] = [NoReq EXCEPT !.st = "sent", !.off = off]]
  /\ shared' = TRUE /\ got' = {} /\ twice' = FALSE /\ seen' = {}
  /\ UNCHANGED <<server, children, rd, cursor, changes, pages, ended, wide>>

\* Somebody makes or removes an entry.
ChangeDir(n) ==
  /\ changes < MaxChanges /\ changes' = changes + 1
  /\ children' = IF n \in children THEN children \ {n} ELSE children \cup {n}
  /\ seen' = IF ended \/ shared THEN seen ELSE seen \cup {children'}
  /\ UNCHANGED <<server, req, rd, cursor, pages, got, twice, ended, wide, shared>>

\* The next request of the loop.
Treaddir(off) == req' = [req EXCEPT !["file"] = [NoReq EXCEPT !.st = "sent", !.off = off]]

\* The call and its first request.  At cursor 0 a reading starts.
ReadDir(n) ==
  /\ rd.at = "idle"
  /\ rd' = [at |-> "wait", n |-> n, len |-> 0]
  /\ Treaddir(cursor)
  /\ ended' = FALSE
  /\ IF cursor = 0
       THEN /\ got' = {} /\ twice' = FALSE /\ seen' = {children} /\ wide' = FALSE
            /\ shared' = (req["other"].st # "none")
       ELSE /\ seen' = IF shared THEN seen ELSE seen \cup {children}
            /\ UNCHANGED <<got, twice, wide, shared>>
  /\ pages' = 1
  /\ UNCHANGED <<server, children, cursor, changes>>

Done == req' = [req EXCEPT !["file"] = NoReq] /\ rd' = [rd EXCEPT !.at = "idle"]

\* The entries of the page, up to the n-th of the call.
Taken ==
  LET page == req["file"].list
      room == rd.n - rd.len
  IN  IF rd.n > 0 /\ room < Len(page) THEN SubSeq(page, 1, room) ELSE page
Full == rd.n > 0 /\ rd.len + Len(Taken) >= rd.n

\* An empty page is the end of the directory.
TakeEnd ==
  /\ req["file"].st = "answer" /\ req["file"].list = <<>>
  /\ Done
  /\ ended' = TRUE
  /\ pages' = 0
  /\ UNCHANGED <<server, children, cursor, changes, got, twice, seen, wide, shared>>

MutMoved == TRUE

\* The cursor must have passed the offset that was asked for.
Moved == Last(Taken).cookie > req["file"].off

TakeEntries ==
  LET names == {Taken[i].name : i \in DOMAIN Taken} IN
  /\ req["file"].st = "answer" /\ req["file"].list # <<>>
  /\ cursor' = Last(Taken).cookie
  /\ IF Full \/ ~Moved
       THEN Done /\ pages' = 0
       ELSE /\ Treaddir(cursor') /\ pages' = pages + 1
            /\ rd' = [rd EXCEPT !.len = IF rd.n = 0 THEN 0 ELSE @ + Len(Taken)]
  /\ IF shared THEN UNCHANGED <<got, twice>>
       ELSE /\ got' = got \cup names
            /\ twice' = (twice \/ got \cap names # {} \/ Cardinality(names) < Len(Taken))
  /\ UNCHANGED <<server, children, changes, seen, ended, wide, shared>>

\* An error reply, or the caller's ctx ended during the round trip and the answer
\* was discarded.
TakeError ==
  /\ req["file"].st \in {"answer", "error"}
  /\ Done /\ pages' = 0
  /\ UNCHANGED <<server, children, cursor, changes, reading>>

Handler(r) == \/ Refetch(r) \/ Readdir(r) \/ Install(r) \/ ServeCached(r)
              \/ SeekDir(r) \/ Getdents(r) \/ Fails(r)
Take == TakeEnd \/ TakeEntries \/ TakeError

DirNext ==
  \/ \E r \in Reader : Handler(r)
  \/ \E off \in Offsets : OtherSends(off)
  \/ \E n \in Name : ChangeDir(n)
  \/ \E n \in Batches : ReadDir(n)
  \/ Take

DirSpec == DirInit /\ [][DirNext]_dirVars

-----------------------------------------------------------------------------
(* Properties *)

\* A reading that came to the end, in as many pages and calls as it took, returned
\* every entry once although the directory changed meanwhile: from the cache
\* exactly the entries of one moment, from a host directory all that were there
\* throughout and none that never was.  The exceptions: an entry that does not
\* fit into a page is taken for the end, and a second reader of the fid replaces
\* the cached listing or moves the descriptor.
ListingExactUnlessWideOrShared ==
  ended /\ ~wide /\ ~shared =>
    /\ ~twice
    /\ IF raw THEN /\ \A n \in Name : (\A s \in seen : n \in s) => n \in got
                   /\ got \subseteq UNION seen
              ELSE got \in seen

\* ReadDir ends: it asks for a page per entry at most, and for the end, whatever
\* the other reader of the fid does to the cookies it gets.
ReadDirBounded == pages <= Cardinality(Name) + 1
=============================================================================
