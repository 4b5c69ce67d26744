----------------------------- MODULE ByteStream -----------------------------
(***************************************************************************)
(* Reading and writing a file: the calls of one File (client/file.go,      *)
(* refresh_size.go) cut into Tread, Twrite and Tgetattr requests, the      *)
(* handlers of the server (server/bridge.go) on a file in memory           *)
(* (server/memfs/memfs.go) or on the host (server/passthrough/handle.go),  *)
(* and the pooled buffers the bytes travel in (internal/bufpool).          *)
(*                                                                         *)
(* The callers share the File: Read, Write and Seek exclude each other     *)
(* with f.mu, ReadAt, WriteAt and RefreshSize do not take it during their  *)
(* requests.  Meanwhile other clients change the size of the file.         *)
(*                                                                         *)
(* A buffer that went back to its pool may be overwritten at once: its     *)
(* content is Junk from then on.                                           *)
(***************************************************************************)
EXTENDS Integers, Sequences, FiniteSets, SequencesExt

CONSTANTS Proc,        \* callers
          Worker,      \* goroutines that serve requests
          Buf,         \* message buffers
          None,
          Junk, Old, Zero,  \* bytes: of a buffer in the pool, of the file at first, 0
          Msize,
          RHeader,     \* bytes of an Rread or Rwrite before the data
          IOOverhead,  \* the client's ioFrameOverhead
          Hints,       \* iounits an Open returns
          MaxFile,     \* maxMemFileSize
          FirstSize,   \* size of the file at first
          Sizes,       \* sizes Setattr gives it
          Lens,        \* bytes a call asks for
          Offs,        \* offsets of positional calls
          MaxCalls, MaxSets  \* bounds: calls, Setattrs

ASSUME ByteStreamAssumption ==
  /\ Msize \in Nat /\ RHeader \in Nat /\ IOOverhead \in Nat /\ Msize > IOOverhead
  /\ IOOverhead >= RHeader /\ Hints \subseteq Nat
  /\ FirstSize \in 0 .. MaxFile /\ Sizes \subseteq 0 .. MaxFile /\ Lens \subseteq Nat \ {0} /\ Offs \subseteq Nat
  /\ MaxFile \in Nat /\ MaxCalls \in Nat /\ MaxSets \in Nat
  /\ None \notin Buf

VARIABLES
  data,        \* MemFile.data
  iounit, offset, cachedSize, mu,  \* the File; mu is the caller holding it
  call,        \* per caller: its call
  dst,         \* per caller: the slice it reads into
  wire,        \* per caller: its request on the way to the server
  job,         \* per worker: the request it serves
  resp,        \* per caller: its response on the way back
  reply,       \* per caller: the answer delivered to it
  closed,      \* the connection is shut down
  buf, free,   \* content of the buffers; how often each is in the pool
  calls, sets,
  past,        \* history, per read: the bytes the file had since it began
  hit,         \* history, per write: offsets where its bytes were written
  sized,       \* history, per RefreshSize: sizes the file had since it began
  overlaps     \* history: RefreshSize calls that met another one

file == <<iounit, offset, cachedSize, mu>>
history == <<past, hit, sized, overlaps>>
fileVars == <<data, file, call, dst, wire, job, resp, reply, closed, buf, free,
          calls, sets, history>>

Reads == {"Read", "ReadAt"}
Writes == {"Write", "WriteAt"}
Stream == {"Read", "Write"}
Kinds == Reads \cup Writes \cup {"RefreshSize"}

Byte(p, i) == <<p, i>>
At(bytes, i) == IF i < Len(bytes) THEN bytes[i + 1] ELSE None
Lesser(m, n) == IF m < n THEN m ELSE n

Idle == [at |-> "idle", kind |-> None, from |-> 0, want |-> 0, total |-> 0, err |-> None]
NoJob == [st |-> "idle", p |-> None, t |-> None, off |-> 0, n |-> 0, buf |-> None, ok |-> FALSE]

\* clampIOUnit: what the server advertises for the fid.
ClampIOUnit(hint) ==
  IF hint = 0 \/ hint > Msize - RHeader THEN Msize - RHeader ELSE hint

MaxChunk == IF iounit # 0 /\ iounit < Msize - IOOverhead THEN iounit ELSE Msize - IOOverhead

FileInit ==
  /\ data = [i \in 1 .. FirstSize |-> Old]
  /\ iounit \in {ClampIOUnit(h) : h \in Hints}
  /\ offset = 0 /\ cachedSize = 0 /\ mu = None
  /\ call = [p \in Proc |-> Idle]
  /\ dst = [p \in Proc |-> <<>>]
  /\ wire = [p \in Proc |-> None] /\ resp = [p \in Proc |-> None]
  /\ reply = [p \in Proc |-> None]
  /\ job = [w \in Worker |-> NoJob]
  /\ closed = FALSE
  /\ buf = [b \in Buf |-> <<>>] /\ free = [b \in Buf |-> 1]
  /\ calls = 0 /\ sets = 0
  /\ past = [p \in Proc |-> None] /\ hit = [p \in Proc |-> {}]
  /\ sized = [p \in Proc |-> {}] /\ overlaps = {}

-----------------------------------------------------------------------------
(* The buffer pool *)

Pooled == {b \in Buf : free[b] > 0}
GetMsgBuf(b, bytes) ==
  /\ free[b] > 0 /\ b = CHOOSE x \in Pooled : TRUE
  /\ free' = [free EXCEPT ![b] = @ - 1]
  /\ buf' = [buf EXCEPT ![b] = bytes]
PutMsgBuf(b) ==
  /\ free' = [free EXCEPT ![b] = @ + 1]
  /\ buf' = [buf EXCEPT ![b] = <<>>]
\* The first n bytes of a buffer.
Content(b, n) == [i \in 1 .. n |-> IF i <= Len(buf[b]) THEN buf[b][i] ELSE Junk]

-----------------------------------------------------------------------------
(* The client *)

\* The request for the next chunk of call c of caller p.
Request(p, c) ==
  LET n == Lesser(c.want - c.total, MaxChunk) IN
  wire' = [wire EXCEPT ![p] =
    CASE c.kind \in Reads ->
           [t |-> "Tread", off |-> c.from + c.total, n |-> n, bytes |-> <<>>]
      [] c.kind \in Writes ->
           [t |-> "Twrite", off |-> c.from + c.total, n |-> n,
            bytes |-> [i \in 1 .. n |-> Byte(p, c.total + i - 1)]]
      [] OTHER -> [t |-> "Tgetattr", off |-> 0, n |-> 0, bytes |-> <<>>]]

\* The bytes under the slice of a read, and the one after.
Watched(c) == [i \in c.from .. c.from + c.want |-> {At(data, i)}]
Refreshing == {q \in Proc : call[q].at = "wait" /\ call[q].kind = "RefreshSize"}

\* A call begins; Read and Write wait for f.mu.
Begin(p, k, off, n) ==
  LET c == [at |-> IF k \in Stream THEN "lock" ELSE "wait", kind |-> k,
            from |-> off, want |-> n, total |-> 0, err |-> None] IN
  /\ call[p].at \in {"idle", "returned"} /\ ~closed /\ calls < MaxCalls
  /\ calls' = calls + 1
  /\ call' = [call EXCEPT ![p] = c]
  /\ IF k \in Stream THEN UNCHANGED wire ELSE Request(p, c)
  /\ dst' = [dst EXCEPT ![p] = IF k \in Reads THEN [i \in 1 .. n |-> Zero] ELSE <<>>]
  /\ past' = [past EXCEPT ![p] = IF k = "ReadAt" THEN Watched(c) ELSE None]
  /\ hit' = [hit EXCEPT ![p] = {}]
  /\ sized' = [sized EXCEPT ![p] = IF k = "RefreshSize" THEN {Len(data)} ELSE {}]
  /\ overlaps' = IF k = "RefreshSize" /\ Refreshing # {}
                   THEN overlaps \cup Refreshing \cup {p} ELSE overlaps \ {p}
  /\ UNCHANGED <<data, file, job, resp, reply, closed, buf, free, sets>>

\* The calls of the interface, with the arguments that matter to each.
BeginCall(p) ==
  \/ \E k \in Stream, n \in Lens : Begin(p, k, 0, n)
  \/ \E k \in {"ReadAt", "WriteAt"}, n \in Lens, off \in Offs : Begin(p, k, off, n)
  \/ Begin(p, "RefreshSize", 0, 0)

\* ReadCtx and WriteCtx hold f.mu and start at the File's offset.
Acquire(p) ==
  LET c == [call[p] EXCEPT !.at = "wait", !.from = offset] IN
  /\ call[p].at = "lock" /\ mu = None
  /\ mu' = p
  /\ call' = [call EXCEPT ![p] = c]
  /\ Request(p, c)
  /\ past' = [past EXCEPT ![p] = IF c.kind = "Read" THEN Watched(c) ELSE None]
  /\ UNCHANGED <<data, iounit, offset, cachedSize, dst, job, resp, reply, closed, buf,
                 free, calls, sets, hit, sized, overlaps>>

MutSeek(abs) ==
  /\ \E p \in Proc : call[p].at \in {"idle", "returned"}
  /\ ~closed
  /\ calls < MaxCalls /\ calls' = calls + 1
  /\ offset' = abs
  /\ UNCHANGED <<data, iounit, cachedSize, mu, call, dst, wire, job, resp, reply, closed,
                 buf, free, sets, history>>

\* Seek, relative to the start, the offset or the cached size.
Seek(abs) ==
  /\ \E p \in Proc : call[p].at \in {"idle", "returned"}
  /\ ~closed /\ mu = None
  /\ calls < MaxCalls /\ calls' = calls + 1
  /\ offset' = abs
  /\ UNCHANGED <<data, iounit, cachedSize, mu, call, dst, wire, job, resp, reply, closed,
                 buf, free, sets, history>>

SeekTargets == {0, offset - 1, cachedSize, cachedSize - 1}

\* The call returns and gives up f.mu.
Return(p, c, err) ==
  /\ call' = [call EXCEPT ![p] = [c EXCEPT !.at = "returned", !.err = err]]
  /\ mu' = IF mu = p THEN None ELSE mu

Answer(p) == reply[p]
Took(p) == reply' = [reply EXCEPT ![p] = None]

\* A read chunk: Read is done with the first, ReadAt when the slice is full or
\* nothing came.
ReceiveRead(p) ==
  LET n == Answer(p).n
      c == [call[p] EXCEPT !.total = @ + n] IN
  /\ call[p].at = "wait" /\ call[p].kind \in Reads
  /\ reply[p] # None /\ Answer(p).ok
  /\ Took(p)
  /\ IF n = 0 \/ call[p].kind = "Read" \/ c.total >= c.want
       THEN Return(p, c, IF n = 0 THEN "EOF" ELSE None) /\ UNCHANGED wire
       ELSE call' = [call EXCEPT ![p] = c] /\ Request(p, c) /\ UNCHANGED mu
  /\ offset' = IF call[p].kind = "Read" THEN offset + n ELSE offset
  /\ UNCHANGED <<data, iounit, cachedSize, dst, job, resp, closed, buf, free, calls, sets,
                 history>>

MutReceiveWrite(p) ==
  LET n == Lesser(call[p].want - call[p].total, MaxChunk)
      c == [call[p] EXCEPT !.total = @ + n] IN
  /\ call[p].at = "wait" /\ call[p].kind \in Writes
  /\ reply[p] # None /\ Answer(p).ok
  /\ Took(p)
  /\ IF n < Lesser(call[p].want - call[p].total, MaxChunk)
       THEN Return(p, c, "short") /\ UNCHANGED wire
       ELSE IF c.total >= c.want
         THEN Return(p, c, None) /\ UNCHANGED wire
         ELSE call' = [call EXCEPT ![p] = c] /\ Request(p, c) /\ UNCHANGED mu
  /\ offset' = IF call[p].kind = "Write" THEN offset + n ELSE offset
  /\ UNCHANGED <<data, iounit, cachedSize, dst, job, resp, closed, buf, free, calls, sets,
                 history>>

\* A written chunk; a short one ends the call.
ReceiveWrite(p) ==
  LET n == Answer(p).n
      c == [call[p] EXCEPT !.total = @ + n] IN
  /\ call[p].at = "wait" /\ call[p].kind \in Writes
  /\ reply[p] # None /\ Answer(p).ok
  /\ Took(p)
  /\ IF n < Lesser(call[p].want - call[p].total, MaxChunk)
       THEN Return(p, c, "short") /\ UNCHANGED wire
       ELSE IF c.total >= c.want
         THEN Return(p, c, None) /\ UNCHANGED wire
         ELSE call' = [call EXCEPT ![p] = c] /\ Request(p, c) /\ UNCHANGED mu
  /\ offset' = IF call[p].kind = "Write" THEN offset + n ELSE offset
  /\ UNCHANGED <<data, iounit, cachedSize, dst, job, resp, closed, buf, free, calls, sets,
                 history>>

MutReceiveSize(p) ==
  /\ call[p].at = "wait" /\ call[p].kind = "RefreshSize"
  /\ reply[p] # None /\ Answer(p).ok /\ mu = None
  /\ Took(p)
  /\ cachedSize' = IF cachedSize = 0 THEN Answer(p).n ELSE cachedSize
  /\ Return(p, call[p], None)
  /\ UNCHANGED <<data, iounit, offset, dst, wire, job, resp, closed, buf, free, calls,
                 sets, history>>

\* RefreshSize stores the size under f.mu.
ReceiveSize(p) ==
  /\ call[p].at = "wait" /\ call[p].kind = "RefreshSize"
  /\ reply[p] # None /\ Answer(p).ok /\ mu = None
  /\ Took(p)
  /\ cachedSize' = Answer(p).n
  /\ Return(p, call[p], None)
  /\ UNCHANGED <<data, iounit, offset, dst, wire, job, resp, closed, buf, free, calls,
                 sets, history>>

MutReceiveError(p) ==
  /\ call[p].at = "wait"
  /\ Took(p) /\ Return(p, call[p], "error")
  /\ UNCHANGED <<data, iounit, offset, cachedSize, dst, wire, job, resp, closed, buf, free,
                 calls, sets, history>>

\* An error reply; or the ctx ended, the call flushed its request and waited for
\* the answer, and what arrived is dropped.
ReceiveError(p) ==
  /\ call[p].at = "wait" /\ reply[p] # None
  /\ Took(p) /\ Return(p, call[p], "error")
  /\ UNCHANGED <<data, iounit, offset, cachedSize, dst, wire, job, resp, closed, buf, free,
                 calls, sets, history>>

\* The connection is lost, or a flush got no answer in time: all calls fail.  What
\* the server has read or will still read of their requests it serves.
Shutdown ==
  /\ ~closed /\ closed' = TRUE
  /\ call' = [p \in Proc |-> IF call[p].at \in {"lock", "wait"}
                THEN [call[p] EXCEPT !.at = "returned", !.err = "error"] ELSE call[p]]
  /\ mu' = None
  /\ reply' = [p \in Proc |-> None] /\ resp' = [p \in Proc |-> None]
  /\ UNCHANGED <<data, iounit, offset, cachedSize, dst, wire, job, buf, free, calls, sets,
                 history>>

MutDeliver(p) ==
  LET r == resp[p]
      d == dst[p]
      k == 0 IN
  /\ r # None
  /\ resp' = [resp EXCEPT ![p] = None]
  /\ reply' = [reply EXCEPT ![p] = [ok |-> r.ok, n |-> r.n]]
  /\ dst' = [dst EXCEPT ![p] = [i \in DOMAIN d |->
               IF r.t = "Tread" /\ r.ok /\ i > k /\ i <= k + r.n THEN r.bytes[i - k] ELSE d[i]]]
  /\ UNCHANGED <<data, file, call, wire, job, closed, buf, free, calls, sets, history>>

\* The read loop copies an Rread straight from its frame into the caller's slice
\* while the call is registered, and drops an answer nobody waits for.
Deliver(p) ==
  LET r == resp[p]
      d == dst[p]
      k == call[p].total IN
  /\ r # None
  /\ resp' = [resp EXCEPT ![p] = None]
  /\ reply' = [reply EXCEPT ![p] = [ok |-> r.ok, n |-> r.n]]
  /\ dst' = [dst EXCEPT ![p] = [i \in DOMAIN d |->
               IF r.t = "Tread" /\ r.ok /\ i > k /\ i <= k + r.n THEN r.bytes[i - k] ELSE d[i]]]
  /\ UNCHANGED <<data, file, call, wire, job, closed, buf, free, calls, sets, history>>

-----------------------------------------------------------------------------
(* The server *)

\* The request a worker takes off the wire; which worker does not matter.
Takes(w, p, t) ==
  /\ job[w].st = "idle" /\ w = CHOOSE x \in {y \in Worker : job[y].st = "idle"} : TRUE
  /\ wire[p] # None /\ wire[p].t = t
  /\ wire' = [wire EXCEPT ![p] = None]
Job(p, st, n, b) ==
  [st |-> st, p |-> p, t |-> wire[p].t, off |-> wire[p].off, n |-> n, buf |-> b, ok |-> TRUE]

\* A Twrite stays in the buffer it was read into.
ReadTwrite(w, p) ==
  /\ Takes(w, p, "Twrite")
  /\ \E b \in Pooled : /\ GetMsgBuf(b, wire[p].bytes)
                       /\ job' = [job EXCEPT ![w] = Job(p, "read", wire[p].n, b)]
  /\ UNCHANGED <<data, file, call, dst, resp, reply, closed, calls, sets, history>>

Handled(w, j) == job' = [job EXCEPT ![w] = [j EXCEPT !.st = "handled"]]
Answers(p, r) == resp' = [resp EXCEPT ![p] = IF closed THEN None ELSE r]

\* MemFile.Read, or pread: the bytes from an offset that are there.
ReadBytes(off, n) ==
  IF off >= Len(data) THEN <<>> ELSE SubSeq(data, off + 1, Lesser(off + n, Len(data)))

\* handleRead with fillPooled: into a buffer that the response will release.
HandleRead(w, p) ==
  LET bytes == ReadBytes(wire[p].off, Lesser(wire[p].n, Msize - RHeader)) IN
  /\ Takes(w, p, "Tread")
  /\ \E b \in Pooled : /\ GetMsgBuf(b, bytes)
                       /\ Handled(w, Job(p, "read", Len(bytes), b))
  /\ UNCHANGED <<data, file, call, dst, resp, reply, closed, calls, sets, history>>

\* handleGetattr.
HandleGetattr(w, p) ==
  /\ Takes(w, p, "Tgetattr")
  /\ Answers(p, [t |-> "Tgetattr", ok |-> TRUE, n |-> Len(data), bytes |-> <<>>])
  /\ UNCHANGED <<data, file, call, dst, job, reply, closed, buf, free, calls, sets, history>>

\* The node fails before it did anything, and fillPooled returns the buffer.
HandleFails(w, p, t) ==
  /\ t # "Twrite" /\ Takes(w, p, t)
  /\ Answers(p, [t |-> t, ok |-> FALSE, n |-> 0, bytes |-> <<>>])
  /\ UNCHANGED <<data, file, call, dst, job, reply, closed, buf, free, calls, sets, history>>

\* MemFile.Write: the gap up to the offset is zero.
WriteBytes(off, bytes) ==
  IF bytes = <<>> THEN data ELSE
  [i \in 1 .. IF off + Len(bytes) > Len(data) THEN off + Len(bytes) ELSE Len(data) |->
     IF i > off /\ i <= off + Len(bytes) THEN bytes[i - off]
     ELSE IF i <= Len(data) THEN data[i] ELSE Zero]

\* Calls in progress see the new content.
Watch ==
  /\ past' = [p \in Proc |-> IF past[p] = None THEN None
                ELSE [i \in DOMAIN past[p] |-> past[p][i] \cup {At(data', i)}]]
  /\ sized' = [p \in Proc |-> IF sized[p] = {} THEN {} ELSE sized[p] \cup {Len(data')}]

\* handleWrite; pwrite may write less than it was given, and a write beyond the
\* largest file is EFBIG.
HandleWrite(w, k) ==
  LET j == job[w]
      bytes == Content(j.buf, k)
      mine == {i \in 1 .. k : bytes[i] = Byte(j.p, j.off + i - 1 - call[j.p].from)} IN
  /\ j.st = "read" /\ j.off + j.n <= MaxFile
  /\ data' = WriteBytes(j.off, bytes)
  /\ Handled(w, [j EXCEPT !.n = k])
  /\ hit' = [hit EXCEPT ![j.p] = @ \cup {j.off + i - 1 : i \in mine}]
  /\ Watch
  /\ UNCHANGED <<file, call, dst, wire, resp, reply, closed, buf, free, calls, sets, overlaps>>

\* EFBIG, or the node fails.
HandleWriteFails(w) ==
  /\ job[w].st = "read"
  /\ Handled(w, [job[w] EXCEPT !.ok = FALSE, !.n = 0])
  /\ UNCHANGED <<data, file, call, dst, wire, resp, reply, closed, buf, free, calls, sets,
                 history>>

MutRespond(w) ==
  LET j == job[w] IN
  /\ j.st = "handled"
  /\ Answers(j.p, [t |-> j.t, ok |-> j.ok, n |-> j.n,
                   bytes |-> IF j.t = "Tread" THEN Content(j.buf, j.n) ELSE <<>>])
  /\ PutMsgBuf(j.buf)
  /\ job' = [job EXCEPT ![w] = IF j.t = "Tread" THEN NoJob ELSE [j EXCEPT !.st = "done"]]
  /\ UNCHANGED <<data, file, call, dst, wire, reply, closed, calls, sets, history>>

\* sendResponseInline: an Rread is written from its buffer, which is released
\* after the write.
Respond(w) ==
  LET j == job[w] IN
  /\ j.st = "handled"
  /\ Answers(j.p, [t |-> j.t, ok |-> j.ok, n |-> j.n,
                   bytes |-> IF j.t = "Tread" THEN Content(j.buf, j.n) ELSE <<>>])
  /\ IF j.t = "Tread"
       THEN PutMsgBuf(j.buf) /\ job' = [job EXCEPT ![w] = NoJob]
       ELSE job' = [job EXCEPT ![w].st = "done"] /\ UNCHANGED <<buf, free>>
  /\ UNCHANGED <<data, file, call, dst, wire, reply, closed, calls, sets, history>>

\* dispatchInline is done: the buffer of a Twrite goes back.
Finish(w) ==
  /\ job[w].st = "done"
  /\ job' = [job EXCEPT ![w] = NoJob]
  /\ PutMsgBuf(job[w].buf)
  /\ UNCHANGED <<data, file, call, dst, wire, resp, reply, closed, calls, sets, history>>

\* Another client truncates or extends the file: MemFile.Setattr.
Setattr(n) ==
  /\ sets < MaxSets /\ sets' = sets + 1
  /\ data' = [i \in 1 .. n |-> IF i <= Len(data) THEN data[i] ELSE Zero]
  /\ Watch
  /\ UNCHANGED <<file, call, dst, wire, job, resp, reply, closed, buf, free, calls, hit,
                 overlaps>>

Receive(p) == ReceiveRead(p) \/ ReceiveWrite(p) \/ ReceiveSize(p) \/ ReceiveError(p)
Handle(w) == \/ \E p \in Proc : \/ ReadTwrite(w, p) \/ HandleRead(w, p) \/ HandleGetattr(w, p)
                                \/ \E t \in {"Tread", "Tgetattr"} : HandleFails(w, p, t)
             \/ HandleWriteFails(w)
             \/ \E k \in {job[w].n - 1, job[w].n} : HandleWrite(w, k)

FileNext ==
  \/ \E p \in Proc : \/ BeginCall(p) \/ Acquire(p) \/ Receive(p) \/ Deliver(p)
  \/ \E abs \in SeekTargets \cap Nat : Seek(abs)
  \/ \E w \in Worker : Handle(w) \/ Respond(w) \/ Finish(w)
  \/ \E n \in Sizes : Setattr(n)
  \/ Shutdown

FileSpec == FileInit /\ [][FileNext]_fileVars

-----------------------------------------------------------------------------
(* Properties *)

Returned(p, kinds) == call[p].at = "returned" /\ call[p].kind \in kinds

\* A byte that Read or ReadAt reports was in the file at its offset while the call
\* ran, whatever was written, truncated or served meanwhile; EOF means the file
\* did end there.  Without an error ReadAt filled the slice.
ReadBytesReal ==
  \A p \in Proc : Returned(p, Reads) =>
    LET c == call[p] IN
    /\ \A i \in 1 .. c.total : dst[p][i] \in past[p][c.from + i - 1]
    /\ c.err = "EOF" => None \in past[p][c.from + c.total]
    /\ c.err = None => c.total = c.want \/ (c.kind = "Read" /\ c.total > 0)

\* The count a Write or WriteAt returns is honest: so many of its bytes, from the
\* first, were put where they belong, and of the others no more than the chunk
\* that got no answer.  Without an error it is all of them.
WriteCountHonest ==
  \A p \in Proc : Returned(p, Writes) =>
    LET c == call[p] IN
    /\ c.from .. c.from + c.total - 1 \subseteq hit[p]
    /\ hit[p] \subseteq c.from .. c.from + c.total + MaxChunk - 1
    /\ c.err = None => c.total = c.want

\* What a call says of its bytes is true.
CountHonest == ReadBytesReal /\ WriteCountHonest

\* While a Read or Write holds the File, and when it returns, the File's offset is
\* where the call got to: callers that share a File neither repeat nor skip a byte
\* of the stream, whatever chunk was short, failed or got no answer.
CursorExact ==
  [][\A p \in Proc : mu = p => offset' = call'[p].from + call'[p].total]_fileVars

\* After RefreshSize the cached size, from which SeekEnd counts, is one the file
\* had since the call began, unless calls of RefreshSize overlapped: the one with
\* the older answer may store it last.
SizeFreshUnlessOverlap ==
  \A p \in Proc : Returned(p, {"RefreshSize"}) /\ call[p].err = None /\ p \notin overlaps
    => cachedSize \in sized[p]

\* The slice belongs to the caller again once the call returned.
NoWriteAfterReturn ==
  [][\A p \in Proc : call[p].at = "returned" /\ call'[p] = call[p] => dst'[p] = dst[p]]_fileVars
=============================================================================
