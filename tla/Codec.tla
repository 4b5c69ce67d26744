------------------------------- MODULE Codec -------------------------------
(***************************************************************************)
(* The message codec: packages proto, proto/p9l and proto/p9u.  A message  *)
(* is a kind and a tuple of field values; its body is a sequence of bytes. *)
(* EncodeTo and DecodeFrom of every message visit the same fields in the   *)
(* same order, which is the message's layout; what a field's writer and    *)
(* reader do (widths, length prefixes, caps, validation, nested sizes) is  *)
(* modelled apart for the two directions.                                  *)
(*                                                                         *)
(* A byte holds 0 .. Base-1.  The code has Base = 256; a smaller Base      *)
(* brings the limits of the fixed-width fields within TLC's reach, with    *)
(* every width in bytes as in the code.  The value an integer field        *)
(* carries is a number, a string or a payload a sequence of bytes, a qid   *)
(* the triple of its type, version and path.                               *)
(***************************************************************************)
EXTENDS Integers, Sequences, SequencesExt, TLC

CONSTANTS Base,             \* number of byte values
          MaxWalkElements,  \* names in a Twalk, qids in an Rwalk
          MaxDataSize,      \* largest payload of Rread, Twrite, Rreaddir
          Headroom          \* what MaxMessageSize adds for fixed fields

HeaderSize == 7
MaxUint16 == Base^2 - 1
MaxStringLen == MaxUint16
MaxMessageSize == HeaderSize + MaxDataSize + Headroom

\* The headroom covers the largest message without a payload, as 4096 bytes
\* and 16 MiB do for the real limits.
ASSUME CodecAssumption ==
  /\ Base \in Nat \ {0, 1}
  /\ MaxWalkElements \in Nat \ {0, 1}
  /\ MaxDataSize \in Nat \ {0}
  /\ Headroom \in Nat
  /\ MaxMessageSize >= HeaderSize + 12 + MaxWalkElements * (2 + MaxStringLen)
  /\ MaxMessageSize < Base^4

-----------------------------------------------------------------------------
\* Layouts.  The groups follow the files.

VersionLayout ==
  [Tversion |-> <<"u32", "str">>, Rversion |-> <<"u32", "str">>,
   Tauth |-> <<"u32", "str", "str", "u32">>, Rauth |-> <<"qid">>]

AttachLayout ==
  [Tattach |-> <<"u32", "u32", "str", "str", "u32">>, Rattach |-> <<"qid">>,
   Tflush |-> <<"u16">>, Rflush |-> <<>>]

WalkLayout ==
  [Twalk |-> <<"u32", "u32", "names">>, Rwalk |-> <<"qids">>,
   Tread |-> <<"u32", "u64", "u32">>]

DataLayout ==
  [Rread |-> <<"data">>, Twrite |-> <<"u32", "u64", "data">>]

ClunkLayout ==
  [Rwrite |-> <<"u32">>, Tclunk |-> <<"u32">>, Rclunk |-> <<>>,
   Tremove |-> <<"u32">>, Rremove |-> <<>>]

StatfsLayout ==
  [Rlerror |-> <<"u32">>, Tstatfs |-> <<"u32">>,
   Rstatfs |-> <<"u32", "u32", "u64", "u64", "u64", "u64", "u64", "u64",
                 "u32">>]

OpenLayout ==
  [Tlopen |-> <<"u32", "u32">>, Rlopen |-> <<"qid", "u32">>,
   Tlcreate |-> <<"u32", "str", "u32", "u32", "u32">>,
   Rlcreate |-> <<"qid", "u32">>]

MakeLayout ==
  [Tsymlink |-> <<"u32", "str", "str", "u32">>, Rsymlink |-> <<"qid">>,
   Tmknod |-> <<"u32", "str", "u32", "u32", "u32", "u32">>]

RenameLayout ==
  [Rmknod |-> <<"qid">>, Trename |-> <<"u32", "u32", "str">>,
   Rrename |-> <<>>, Treadlink |-> <<"u32">>, Rreadlink |-> <<"str">>]

GetattrLayout ==
  [Tgetattr |-> <<"u32", "u64">>,
   Rgetattr |-> <<"u64", "qid", "u32", "u32", "u32", "u64", "u64", "u64",
                  "u64", "u64", "u64", "u64", "u64", "u64", "u64", "u64",
                  "u64", "u64", "u64", "u64">>]

SetattrLayout ==
  [Tsetattr |-> <<"u32", "u32", "u32", "u32", "u32", "u64", "u64", "u64",
                  "u64", "u64">>,
   Rsetattr |-> <<>>, Txattrwalk |-> <<"u32", "u32", "str">>]

XattrLayout ==
  [Rxattrwalk |-> <<"u64">>, Txattrcreate |-> <<"u32", "str", "u64", "u32">>,
   Rxattrcreate |-> <<>>, Treaddir |-> <<"u32", "u64", "u32">>]

ReaddirLayout ==
  [Rreaddir |-> <<"data">>, Tfsync |-> <<"u32", "u32">>, Rfsync |-> <<>>]

LockLayout ==
  [Tlock |-> <<"u32", "ltype", "lflags", "u64", "u64", "u32", "str">>,
   Rlock |-> <<"lstatus">>]

GetlockLayout ==
  [Tgetlock |-> <<"u32", "ltype", "u64", "u64", "u32", "str">>,
   Rgetlock |-> <<"ltype", "u64", "u64", "u32", "str">>]

LinkLayout ==
  [Tlink |-> <<"u32", "u32", "str">>, Rlink |-> <<>>,
   Tmkdir |-> <<"u32", "str", "u32", "u32">>, Rmkdir |-> <<"qid">>]

RenameatLayout ==
  [Trenameat |-> <<"u32", "str", "u32", "str">>, Rrenameat |-> <<>>,
   Tunlinkat |-> <<"u32", "str", "u32">>, Runlinkat |-> <<>>]

UOpenLayout ==
  [Rerror |-> <<"str", "u32">>, Topen |-> <<"u32", "u8">>,
   Ropen |-> <<"qid", "u32">>]

UCreateLayout ==
  [Tcreate |-> <<"u32", "str", "u32", "u8", "str">>,
   Rcreate |-> <<"qid", "u32">>]

UStatLayout ==
  [Tstat |-> <<"u32">>, Rstat |-> <<"stat">>, Twstat |-> <<"u32", "stat">>,
   Rwstat |-> <<>>]

\* Stat's fields after its size.
StatFields ==
  <<"u16", "u32", "qid", "u32", "u32", "u32", "u64", "str", "str", "str",
    "str", "str", "u32", "u32", "u32">>
StatStrings == <<8, 9, 10, 11, 12>>

BaseLayout ==
  VersionLayout @@ AttachLayout @@ WalkLayout @@ DataLayout @@ ClunkLayout
LLayout ==
  StatfsLayout @@ OpenLayout @@ MakeLayout @@ RenameLayout @@ GetattrLayout
    @@ SetattrLayout @@ XattrLayout @@ ReaddirLayout @@ LockLayout
    @@ GetlockLayout @@ LinkLayout @@ RenameatLayout
ULayout == UOpenLayout @@ UCreateLayout @@ UStatLayout

Layout == BaseLayout @@ LLayout @@ ULayout
Kind == DOMAIN Layout

\* newMessage of p9l and p9u, with NewBaseMessage.
KnownTo(dialect) ==
  DOMAIN BaseLayout \cup (IF dialect = "L" THEN DOMAIN LLayout
                                           ELSE DOMAIN ULayout)

-----------------------------------------------------------------------------
\* Writers.  A writer yields the bytes, or the error that stops the encoder.

EncodeError == [ok |-> FALSE, b |-> <<>>]
Written(b) == [ok |-> TRUE, b |-> b]
Then(e, f) == IF e.ok /\ f.ok THEN Written(e.b \o f.b) ELSE EncodeError

Width == [u8 |-> 1, u16 |-> 2, u32 |-> 4, u64 |-> 8,
          ltype |-> 1, lstatus |-> 1, lflags |-> 4]

\* Little-endian, modulo the width: a conversion such as uint16(n) drops the
\* high bytes.
PutUint(v, w) == [i \in 1 .. w |-> (v \div Base^(i - 1)) % Base]

WriteQID(q) == Written(PutUint(q[1], 1) \o PutUint(q[2], 4) \o PutUint(q[3], 8))

MutWriteString(s) == Written(PutUint(Len(s), 2) \o s)
WriteString(s) ==
  IF Len(s) > MaxStringLen THEN EncodeError
  ELSE Written(PutUint(Len(s), 2) \o s)

WriteScalar(f, v) ==
  CASE f = "qid" -> WriteQID(v)
    [] f = "str" -> WriteString(v)
    [] OTHER -> Written(PutUint(v, Width[f]))

\* The fields of a layout one after the other.
WriteAll(Writer(_, _), fs, vs) ==
  LET parts == [i \in 1 .. Len(fs) |-> Writer(fs[i], vs[i])]
  IN IF \A i \in DOMAIN parts : parts[i].ok
     THEN Written(FlattenSeq([i \in DOMAIN parts |-> parts[i].b]))
     ELSE EncodeError

Repeat(f, n) == [i \in 1 .. n |-> f]

\* Twalk's names and Rwalk's qids.
WriteList(f, vs) ==
  IF Len(vs) > MaxWalkElements THEN EncodeError
  ELSE Then(Written(PutUint(Len(vs), 2)),
            WriteAll(WriteScalar, Repeat(f, Len(vs)), vs))

\* EncodeFixed followed by the payload, which is what EncodeTo does and what
\* the vectored send of client and server does.
WriteData(d) ==
  IF Len(d) > MaxDataSize THEN EncodeError
  ELSE Written(PutUint(Len(d), 4) \o d)

\* Stat.EncodedSize: computed from the string lengths, not from the bytes.
EncodedSize(st) ==
  39 + FoldLeft(LAMBDA n, i : n + 2 + Len(st[i]), 0, StatStrings) + 12

EncodeStat(st) ==
  IF EncodedSize(st) > MaxUint16 THEN EncodeError
  ELSE Then(Written(PutUint(EncodedSize(st), 2)),
            WriteAll(WriteScalar, StatFields, st))

\* nstat is a uint16 sum: it wraps when the stat body comes within two bytes
\* of the largest size.
WriteStat(st) ==
  IF EncodedSize(st) > MaxUint16 THEN EncodeError
  ELSE Then(Written(PutUint(2 + EncodedSize(st), 2)), EncodeStat(st))

WriteField(f, v) ==
  CASE f = "names" -> WriteList("str", v)
    [] f = "qids" -> WriteList("qid", v)
    [] f = "data" -> WriteData(v)
    [] f = "stat" -> WriteStat(v)
    [] OTHER -> WriteScalar(f, v)

EncodeTo(k, vs) == WriteAll(WriteField, Layout[k], vs)

-----------------------------------------------------------------------------
\* Readers.  A reader yields a value and the bytes left.

DecodeError == [ok |-> FALSE, v |-> <<>>, rest |-> <<>>]
Got(v, rest) == [ok |-> TRUE, v |-> v, rest |-> rest]
First(r, n) == SubSeq(r, 1, n)
After(r, n) == SubSeq(r, n + 1, Len(r))

GetUint(b) ==
  LET low[i \in 0 .. Len(b)] ==
        IF i = 0 THEN 0 ELSE low[i - 1] + b[i] * Base^(i - 1)
  IN low[Len(b)]

ReadUint(r, w) ==
  IF Len(r) < w THEN DecodeError ELSE Got(GetUint(First(r, w)), After(r, w))

ReadQID(r) ==
  IF Len(r) < 13 THEN DecodeError
  ELSE Got(<<GetUint(First(r, 1)), GetUint(SubSeq(r, 2, 5)),
             GetUint(SubSeq(r, 6, 13))>>, After(r, 13))

ReadBytes(r, n) == IF Len(r) < n THEN DecodeError ELSE Got(First(r, n), After(r, n))

ReadString(r) ==
  LET n == ReadUint(r, 2) IN IF n.ok THEN ReadBytes(n.rest, n.v) ELSE DecodeError

\* LockTypeUnlck, LockStatusGrace, and LockFlagBlock with LockFlagReclaim.
Largest == [ltype |-> 2, lstatus |-> 3, lflags |-> 3]

ReadValid(f, r) ==
  LET n == ReadUint(r, Width[f])
  IN IF n.ok /\ n.v <= Largest[f] THEN n ELSE DecodeError

ReadScalar(f, r) ==
  CASE f = "qid" -> ReadQID(r)
    [] f = "str" -> ReadString(r)
    [] f \in DOMAIN Largest -> ReadValid(f, r)
    [] OTHER -> ReadUint(r, Width[f])

ReadAll(Reader(_, _), fs, r) ==
  LET upTo[i \in 0 .. Len(fs)] ==
        IF i = 0 THEN Got(<<>>, r)
        ELSE LET acc == upTo[i - 1]
             IN IF acc.ok
                THEN LET x == Reader(fs[i], acc.rest)
                     IN IF x.ok THEN Got(Append(acc.v, x.v), x.rest) ELSE DecodeError
                ELSE DecodeError
  IN upTo[Len(fs)]

ReadList(f, r) ==
  LET n == ReadUint(r, 2)
  IN IF n.ok /\ n.v <= MaxWalkElements
     THEN ReadAll(ReadScalar, Repeat(f, n.v), n.rest)
     ELSE DecodeError

ReadData(r) ==
  LET n == ReadUint(r, 4)
  IN IF n.ok /\ n.v <= MaxDataSize THEN ReadBytes(n.rest, n.v) ELSE DecodeError

\* What was read from a block of a declared size, which must be used up.
UsedUp(block, x) ==
  IF block.ok /\ x.ok /\ x.rest = <<>> THEN Got(x.v, block.rest) ELSE DecodeError

\* A stat's size prefixes it as a string's length does.
DecodeStat(r) ==
  LET block == ReadString(r)
  IN UsedUp(block, ReadAll(ReadScalar, StatFields, block.v))

ReadStat(r) ==
  LET block == ReadString(r) IN UsedUp(block, DecodeStat(block.v))

ReadField(f, r) ==
  CASE f = "names" -> ReadList("str", r)
    [] f = "qids" -> ReadList("qid", r)
    [] f = "data" -> ReadData(r)
    [] f = "stat" -> ReadStat(r)
    [] OTHER -> ReadScalar(f, r)

DecodeFrom(k, r) == ReadAll(ReadField, Layout[k], r)

MutDecodeFromBuf(b) ==
  LET count == GetUint(SubSeq(b, 13, 16))
  IN IF Len(b) <= 16 THEN DecodeError
     ELSE IF count > MaxDataSize \/ Len(b) - 16 < count THEN DecodeError
     ELSE Got(<<GetUint(First(b, 4)), GetUint(SubSeq(b, 5, 12)),
                SubSeq(b, 17, 16 + count)>>, After(b, 16 + count))
\* Twrite.DecodeFromBuf: the same fields at fixed offsets, the data a slice of
\* the receive buffer.
DecodeFromBuf(b) ==
  LET count == GetUint(SubSeq(b, 13, 16))
  IN IF Len(b) < 16 THEN DecodeError
     ELSE IF count > MaxDataSize \/ Len(b) - 16 < count THEN DecodeError
     ELSE Got(<<GetUint(First(b, 4)), GetUint(SubSeq(b, 5, 12)),
                SubSeq(b, 17, 16 + count)>>, After(b, 16 + count))

-----------------------------------------------------------------------------
\* Frames: the header's size, type and tag, and the bytes that follow it on
\* the stream.

Frame(tag, k, body) ==
  [size |-> HeaderSize + Len(body), type |-> k, tag |-> tag, body |-> body]

EncodeFrame(tag, k, vs) ==
  LET e == EncodeTo(k, vs)
  IN IF e.ok THEN [ok |-> TRUE, frame |-> Frame(tag, k, e.b)]
     ELSE [ok |-> FALSE, frame |-> Frame(tag, k, <<>>)]

MutDecodeFrame(f, dialect) ==
  LET n == f.size - HeaderSize
      x == DecodeFrom(f.type, First(f.body, n))
  IN IF /\ f.size >= HeaderSize /\ f.size <= MaxMessageSize
        /\ f.type \in KnownTo(dialect)
        /\ n <= Len(f.body)
        /\ x.ok
     THEN x ELSE DecodeError
DecodeFrame(f, dialect) ==
  LET n == f.size - HeaderSize
      x == DecodeFrom(f.type, First(f.body, n))
  IN IF /\ f.size >= HeaderSize /\ f.size <= MaxMessageSize
        /\ f.type \in KnownTo(dialect)
        /\ n <= Len(f.body)
        /\ x.ok /\ x.rest = <<>>
     THEN x ELSE DecodeError
=============================================================================
