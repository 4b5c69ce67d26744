-------------------------------- MODULE Wire --------------------------------
(***************************************************************************)
(* One message on its way through a connection: encoded and framed by the  *)
(* client's writeT or the server's sendResponseInline, possibly damaged in *)
(* transit, and decoded by the server's readFrameLocked or the client's    *)
(* readLoop.                                                               *)
(*                                                                         *)
(* Messages are the default message of each kind with one field varied,    *)
(* over the values at the edges of the field's range and of its caps.      *)
(***************************************************************************)
EXTENDS Codec

CONSTANTS MSizes    \* the negotiated msize is one of these

VARIABLES dialect,  \* "L" or "U"
          msize,    \* Conn.msize, conn.msize
          phase,    \* "idle", "sent", "received"
          msg,      \* the message handed to the sender: [kind, vals]
          dst,      \* length of a zero-copy read's buffer, or -1
          frame,    \* the frame on the stream
          damage,   \* what happened to it: "none", "cut", "pad", "flip"
          got       \* the receiver's verdict: [what, vals]

vars == <<dialect, msize, phase, msg, dst, frame, damage, got>>

ASSUME MSizes \subseteq Nat

-----------------------------------------------------------------------------
\* Message factories of the two ends.

\* conn.newMessage, newLMessage and newUMessage.  Tversion is decoded by
\* handleReVersion.
ServerBase == {"Tattach", "Twalk", "Tclunk", "Tflush", "Tauth", "Tread",
               "Twrite", "Tremove", "Tversion"}
ServerL == {"Tlopen", "Tlcreate", "Tgetattr", "Tsetattr", "Treaddir", "Tmkdir",
            "Tsymlink", "Tlink", "Tmknod", "Treadlink", "Tstatfs", "Tfsync",
            "Tunlinkat", "Trenameat", "Trename", "Tlock", "Tgetlock",
            "Txattrwalk", "Txattrcreate"}
ServerU == {"Topen", "Tcreate", "Tstat", "Twstat"}
ServerKnows ==
  ServerBase \cup (IF dialect = "L" THEN ServerL ELSE ServerU)

\* Conn.newRMessage: Rlerror and Rerror are accepted in both dialects.
ClientBase == {"Rversion", "Rattach", "Rwalk", "Rread", "Rwrite", "Rclunk",
               "Rremove", "Rflush", "Rlerror", "Rerror"}
ClientL == {"Rlopen", "Rlcreate", "Rreaddir", "Rgetattr", "Rsetattr",
            "Rstatfs", "Rsymlink", "Rreadlink", "Rlock", "Rgetlock",
            "Rxattrwalk", "Rxattrcreate", "Rlink", "Rmknod", "Rmkdir",
            "Rfsync", "Rrename", "Rrenameat", "Runlinkat"}
ClientU == {"Ropen", "Rcreate", "Rstat", "Rwstat"}
ClientKnows ==
  ClientBase \cup (IF dialect = "L" THEN ClientL ELSE ClientU)

Requests == ServerBase \cup ServerL \cup ServerU

\* errorMsg: the dialect's error response, with an errno and, in .u, its text.
ErrorMsg ==
  IF dialect = "U" THEN [kind |-> "Rerror", vals |-> <<<<1>>, 5>>]
                   ELSE [kind |-> "Rlerror", vals |-> <<5>>]

\* The largest payload handleRead and handleReaddir put in a response.
MutMaxData == msize - HeaderSize
MaxData == msize - HeaderSize - 4

-----------------------------------------------------------------------------
\* The messages of an instance.

Str(n) == [i \in 1 .. n |-> i % Base]

DefaultScalar(f) ==
  CASE f = "qid" -> <<1, 2, 3>> [] f = "str" -> <<1>> [] OTHER -> 1
DefaultStat ==
  [i \in 1 .. Len(StatFields) |->
     IF StatFields[i] = "str" THEN <<>> ELSE DefaultScalar(StatFields[i])]
Default(f) ==
  CASE f = "names" -> <<<<1>>>> [] f = "qids" -> <<<<1, 2, 3>>>>
    [] f = "data" -> <<1>> [] f = "stat" -> DefaultStat
    [] OTHER -> DefaultScalar(f)

ScalarEdges(f) ==
  CASE f = "qid" -> {<<0, 0, 0>>, <<Base - 1, Base^4 - 1, Base^8 - 1>>}
    [] f = "str" -> {<<>>, Str(2), Str(MaxStringLen), Str(MaxStringLen + 1)}
    [] f \in DOMAIN Largest -> {0, Largest[f]}
    [] OTHER -> {0, Base, Base^Width[f] - 1}

\* Stats up to the largest that encodes, and one byte beyond.
StatEdges ==
  LET room == MaxUint16 - EncodedSize(DefaultStat)
  IN {[DefaultStat EXCEPT ![i] = Str(n)] :
        i \in {8, 12}, n \in {1, room - 2, room - 1, room, room + 1}}
Edges(f) ==
  CASE f = "names" -> {Repeat(<<1>>, n) : n \in {0, 2, MaxWalkElements + 1}}
    [] f = "qids" -> {Repeat(<<1, 2, 3>>, n) : n \in {0, 2, MaxWalkElements + 1}}
    [] f = "data" -> {Str(n) : n \in {0, msize - 11, msize - 10, MaxDataSize,
                                      MaxDataSize + 1}}
    [] f = "stat" -> StatEdges
    [] OTHER -> ScalarEdges(f) \ (IF f = "u8" THEN {Base} ELSE {})

DefaultVals(k) == [i \in 1 .. Len(Layout[k]) |-> Default(Layout[k][i])]
Messages(k) ==
  {[kind |-> k, vals |-> DefaultVals(k)]} \cup
  UNION {{[kind |-> k, vals |-> [DefaultVals(k) EXCEPT ![i] = v]] :
            v \in Edges(Layout[k][i])} : i \in 1 .. Len(Layout[k])}

-----------------------------------------------------------------------------
NoMsg == [kind |-> "none", vals |-> <<>>]
NoFrame == Frame(0, "none", <<>>)
Pending == [what |-> "none", vals |-> <<>>]

Init ==
  /\ dialect \in {"L", "U"} /\ msize \in MSizes
  /\ phase = "idle" /\ msg = NoMsg /\ dst = -1
  /\ frame = NoFrame /\ damage = "none" /\ got = Pending

\* The client's Conn.writeT.  A message that does not encode, or whose frame
\* is larger than msize, is reported to the caller and never sent.
WriteT(m) ==
  LET e == EncodeFrame(1, m.kind, m.vals) IN
  /\ phase = "idle"
  /\ m.kind \in ServerKnows
  /\ e.ok /\ e.frame.size <= msize
  /\ phase' = "sent" /\ msg' = m /\ frame' = e.frame
  /\ UNCHANGED <<dialect, msize, dst, damage, got>>

\* The server's sendResponseInline: a response that does not encode is
\* replaced by EIO; no response is compared with msize.  Payloads have been
\* clamped by their handler and are never longer than the client asked for,
\* so a zero-copy read's buffer holds them.
SendResponse(m, d) ==
  LET e == EncodeFrame(1, m.kind, m.vals)
      sent == IF e.ok THEN m ELSE ErrorMsg IN
  /\ phase = "idle"
  /\ m.kind \in ClientKnows \ {IF dialect = "L" THEN "Rerror" ELSE "Rlerror"}
  /\ m.kind \in {"Rread", "Rreaddir"} => Len(m.vals[1]) <= MaxData
  /\ d = -1 \/ (m.kind = "Rread" /\ d >= Len(m.vals[1]))
  /\ phase' = "sent" /\ msg' = sent /\ dst' = d
  /\ frame' = EncodeFrame(1, sent.kind, sent.vals).frame
  /\ UNCHANGED <<dialect, msize, damage, got>>

\* The stream hands the receiver something else than was sent: a shorter or a
\* longer body under a size that matches it, or one byte changed.
Cut(n) ==
  /\ phase = "sent" /\ damage = "none" /\ n \in 1 .. Len(frame.body)
  /\ frame' = Frame(frame.tag, frame.type, First(frame.body, Len(frame.body) - n))
  /\ damage' = "cut"
  /\ UNCHANGED <<dialect, msize, phase, msg, dst, got>>

Pad ==
  /\ phase = "sent" /\ damage = "none"
  /\ frame' = Frame(frame.tag, frame.type, Append(frame.body, 0))
  /\ damage' = "pad"
  /\ UNCHANGED <<dialect, msize, phase, msg, dst, got>>

Flip(i) ==
  /\ phase = "sent" /\ damage = "none" /\ i \in 1 .. Len(frame.body)
  /\ frame' = [frame EXCEPT !.body[i] = (@ + 1) % Base]
  /\ damage' = "flip"
  /\ UNCHANGED <<dialect, msize, phase, msg, dst, got>>

-----------------------------------------------------------------------------
Verdict(what) == [what |-> what, vals |-> <<>>]
Decoded(x) == IF x.ok THEN [what |-> "message", vals |-> x.v] ELSE Verdict("error")

\* The size checks both receivers make between ReadSize and ReadBody, and
\* ReadBody finding the stream too short.
Framed(f) ==
  f.size >= HeaderSize /\ f.size <= msize /\ f.size - HeaderSize <= Len(f.body)

\* readFrameLocked: bytes after the last field are not looked at.
ServerVerdict(f) ==
  IF ~Framed(f) THEN Verdict("shutdown")
  ELSE IF f.type \notin ServerKnows THEN Verdict("unknown")
  ELSE IF f.type = "Twrite" THEN Decoded(DecodeFromBuf(f.body))
  ELSE Decoded(DecodeFrom(f.type, f.body))

ReadFrameLocked ==
  /\ phase = "sent" /\ frame.type \in Requests
  /\ got' = ServerVerdict(frame)
  /\ phase' = "received"
  /\ UNCHANGED <<dialect, msize, msg, dst, frame, damage>>

\* readLoop's zero-copy path: the payload goes straight into the caller's
\* buffer.  Anything wrong with it ends the connection.
ZeroCopy(b) ==
  LET count == GetUint(First(b, 4)) IN
  IF Len(b) < 4 THEN Verdict("shutdown")
  ELSE IF count > MaxDataSize \/ count > dst \/ count > Len(b) - 4
  THEN Verdict("shutdown")
  ELSE [what |-> "message", vals |-> <<SubSeq(b, 5, 4 + count)>>]

\* The count of Rread and Rreaddir is compared with the body before decoding.
CountFits(b) == Len(b) >= 4 /\ GetUint(First(b, 4)) <= Len(b) - 4

ClientVerdict(f) ==
  IF ~Framed(f) THEN Verdict("shutdown")
  ELSE IF f.type = "Rread" /\ dst # -1 THEN ZeroCopy(f.body)
  ELSE IF \/ f.type \in {"Rread", "Rreaddir"} /\ ~CountFits(f.body)
          \/ f.type \notin ClientKnows
          \/ ~DecodeFrom(f.type, f.body).ok
  THEN Verdict("shutdown")
  ELSE Decoded(DecodeFrom(f.type, f.body))

ReadLoop ==
  /\ phase = "sent" /\ frame.type \notin Requests
  /\ got' = ClientVerdict(frame)
  /\ phase' = "received"
  /\ UNCHANGED <<dialect, msize, msg, dst, frame, damage>>

Next ==
  \/ \E k \in Kind : \E m \in Messages(k) :
       \/ WriteT(m)
       \/ \E d \in {-1, MaxDataSize} : SendResponse(m, d)
  \/ \E n \in 1 .. 2 : Cut(n)
  \/ Pad
  \/ \E i \in 1 .. Len(frame.body) : Flip(i)
  \/ ReadFrameLocked
  \/ ReadLoop

Spec == Init /\ [][Next]_vars

-----------------------------------------------------------------------------
\* Properties.

Reference == IF dialect = "L" /\ msg.kind \notin {"Rerror"} THEN "L" ELSE "U"
ByReference == DecodeFrame(frame, Reference)

\* nstat, the stat size plus two, does not fit 16 bits.
Wraps ==
  /\ msg.kind \in {"Rstat", "Twstat"}
  /\ EncodedSize(Last(msg.vals)) > MaxUint16 - 2
Delivered == got.what = "message" /\ got.vals = msg.vals

\* An undamaged frame that fits msize is delivered as the message that was
\* sent: what EncodeTo writes, DecodeFrom (and the zero-copy readers of Twrite
\* and Rread) reads back, for every kind and at every limit.  Rstat and Twstat
\* with a stat within two bytes of its largest size are excepted.
RoundTripUnlessWrapped ==
  phase = "received" /\ damage = "none" /\ frame.size <= msize /\ ~Wraps => Delivered

\* DecodeFrame accepts a frame, damaged or not, only if encoding what it
\* decoded gives that very frame: no two frames mean the same message and no
\* byte is ignored.
Canonical ==
  phase = "received" /\ ByReference.ok =>
    EncodeFrame(frame.tag, frame.type, ByReference.v) = [ok |-> TRUE, frame |-> frame]

\* Encoding and decoding are inverse to each other.
CodecInverseUnlessWrapped == RoundTripUnlessWrapped /\ Canonical

\* The frame without what follows the first n bytes of its body.
Trimmed(n) == Frame(frame.tag, frame.type, First(frame.body, n))

\* The receivers' own decoding (readFrameLocked with DecodeFromBuf, readLoop
\* with its zero-copy and pre-validation paths) accepts a frame that fits msize
\* exactly when DecodeFrame accepts the frame without the bytes DecodeFrom
\* leaves over, and as the same message.
EndpointAgrees ==
  LET x == DecodeFrom(frame.type, frame.body)
      y == DecodeFrame(Trimmed(Len(frame.body) - Len(x.rest)), Reference)
  IN phase = "received" /\ frame.size <= msize =>
       IF x.ok /\ y.ok THEN got = [what |-> "message", vals |-> y.v]
                       ELSE got.what # "message"

\* A response larger than msize, which the client answers by closing the
\* connection, can only be one that carries a string the handler does not
\* clamp: every response of fixed size, and every payload, fits.
ResponseFitsUnlessString ==
  phase = "sent" /\ damage = "none" /\ frame.size > msize =>
    \E i \in 1 .. Len(Layout[msg.kind]) : Layout[msg.kind][i] \in {"str", "stat"}
=============================================================================
