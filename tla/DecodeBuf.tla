------------------------------ MODULE DecodeBuf ------------------------------
(***************************************************************************)
(* The TL decoder DecodeBuf (src/mtproto.go): a byte buffer, an offset, the *)
(* buffer size and a sticky error.  Every decoding method is an operator   *)
(* from a decoder to a result [v |-> value, d |-> decoder after the call]. *)
(*                                                                         *)
(* Values: a 32-bit word is an int32 (UInt keeps the same bit pattern, as  *)
(* TLC integers are 32-bit); a 64-bit word (Long, Double) is the pair of   *)
(* its low and high 32-bit words; a byte slice is a sequence of 0..255; a *)
(* nil slice or object is NIL.  A Go panic is the error "panic": nothing   *)
(* decodes after it and the caller sees it.                                *)
(***************************************************************************)
EXTENDS Integers, Sequences, SequencesExt

\* Go's nil slice or interface value; a model value, unequal to every value.
CONSTANT NIL

\* TL constructor numbers as int32 bit patterns (generated code).
CRC_vector        == 481674261      \* 0x1cb5c415
CRC_msg_container == 1945237724     \* 0x73f1f8dc
CRC_rpc_result    == -212046591     \* 0xf35c6d01
CRC_gzip_packed   == 812830625      \* 0x3072cfa1
CRC_boolTrue      == -1720552011    \* 0x997275b5
CRC_boolFalse     == -1132882121    \* 0xbc799737

NewDecodeBuf(b) == [buf |-> b, off |-> 0, size |-> Len(b), err |-> "none"]

Ok(d)       == d.err = "none"
Fail(d, e)  == [d EXCEPT !.err = e]
Ret(v, d)   == [v |-> v, d |-> d]
Adv(d, n)   == [d EXCEPT !.off = @ + n]
At(d, i)    == d.buf[d.off + i + 1]            \* m.buf[m.off+i]

\* binary.LittleEndian.Uint32 of four bytes, read as an int32.
Word(b0, b1, b2, b3) ==
  b0 + 256 * b1 + 65536 * b2 + 16777216 * (IF b3 >= 128 THEN b3 - 256 ELSE b3)
WordAt(d, i) == Word(At(d, i), At(d, i + 1), At(d, i + 2), At(d, i + 3))

\* The fixed-width reads: sticky error, bounds check, little-endian value.
Fixed(d, n, e, zero, Val(_)) ==
  IF ~Ok(d) THEN Ret(zero, d)
  ELSE IF d.off + n > d.size THEN Ret(zero, Fail(d, e))
  ELSE Ret(Val(d), Adv(d, n))

\* Mutant: Long without the sticky-error test.
LongNoErrCheck(d) ==
  IF d.off + 8 > d.size THEN Ret(<<0, 0>>, Fail(d, "DecodeLong"))
  ELSE Ret(<<WordAt(d, 0), WordAt(d, 4)>>, Adv(d, 8))

Long(d)   == Fixed(d, 8, "DecodeLong", <<0, 0>>, LAMBDA x : <<WordAt(x, 0), WordAt(x, 4)>>)
Double(d) == Fixed(d, 8, "DecodeDouble", <<0, 0>>, LAMBDA x : <<WordAt(x, 0), WordAt(x, 4)>>)
Int32(d)  == Fixed(d, 4, "DecodeInt", 0, LAMBDA x : WordAt(x, 0))
UInt32(d) == Fixed(d, 4, "DecodeUInt", 0, LAMBDA x : WordAt(x, 0))

Bytes(d, size) ==
  IF ~Ok(d) THEN Ret(NIL, d)
  ELSE IF d.off + size > d.size THEN Ret(NIL, Fail(d, "DecodeBytes"))
  ELSE Ret(SubSeq(d.buf, d.off + 1, d.off + size), Adv(d, size))

\* StringBytes: a length byte, or 254 and a 3-byte length; the bytes; the
\* zero padding to a multiple of 4 of the whole.
StringBytesWith(d, shortPadding(_), checkPadding) ==
  IF ~Ok(d) THEN Ret(NIL, d)
  ELSE IF d.off + 1 > d.size THEN Ret(NIL, Fail(d, "DecodeStringBytes"))
  ELSE
    LET d1    == Adv(d, 1)
        short == At(d, 0)
        long  == short = 254
    IN
    IF long /\ d1.off + 3 > d1.size THEN Ret(NIL, Fail(d1, "DecodeStringBytes"))
    ELSE
      LET size    == IF long THEN At(d1, 0) + 256 * At(d1, 1) + 65536 * At(d1, 2) ELSE short
          padding == IF long THEN (4 - (size % 4)) % 4 ELSE shortPadding(size)
          d2      == IF long THEN Adv(d1, 3) ELSE d1
      IN
      IF d2.off + size > d2.size THEN Ret(NIL, Fail(d2, "DecodeStringBytes: Wrong size"))
      ELSE
        LET x  == SubSeq(d2.buf, d2.off + 1, d2.off + size)
            d3 == Adv(d2, size)
        IN  IF checkPadding /\ d3.off + padding > d3.size
            THEN Ret(NIL, Fail(d3, "DecodeStringBytes: Wrong padding"))
            ELSE Ret(x, Adv(d3, padding))

\* Mutants: the short form padded as if the length byte were not counted;
\* the padding skipped without checking that the buffer holds it.
StringBytesPadNoPrefix(d) == StringBytesWith(d, LAMBDA size : (4 - (size % 4)) % 4, TRUE)
StringBytesNoPadCheck(d)  == StringBytesWith(d, LAMBDA size : (4 - ((size + 1) % 4)) % 4, FALSE)

StringBytes(d) == StringBytesWith(d, LAMBDA size : (4 - ((size + 1) % 4)) % 4, TRUE)

String(d) ==
  LET b == StringBytes(d) IN IF ~Ok(b.d) THEN Ret(<<>>, b.d) ELSE b

\* new(big.Int).SetBytes: the big-endian magnitude of the bytes.
BigInt(d) ==
  LET b == StringBytes(d)
  IN  IF ~Ok(b.d) THEN Ret(NIL, b.d)
      ELSE Ret(FoldLeft(LAMBDA acc, x : 256 * acc + x, 0, b.v), b.d)

\* flags&int32(1<<uint(num)) # 0 for 0 <= num <= 31: bit num of the
\* two's complement of flags; bit 31 is the sign.
FlagSet(flags, num) ==
  IF num = 31 THEN flags < 0
  ELSE ((IF flags >= 0 THEN flags ELSE flags + 2147483647 + 1) \div 2^num) % 2 = 1

Flagged(flags, num, d, Dec(_), zero) ==
  IF FlagSet(flags, num) THEN Dec(d) ELSE Ret(zero, d)

FlaggedLong(flags, num, d)        == Flagged(flags, num, d, Long, <<0, 0>>)
FlaggedDouble(flags, num, d)      == Flagged(flags, num, d, Double, <<0, 0>>)
FlaggedInt(flags, num, d)         == Flagged(flags, num, d, Int32, 0)
FlaggedUInt(flags, num, d)        == Flagged(flags, num, d, UInt32, 0)
FlaggedStringBytes(flags, num, d) == Flagged(flags, num, d, StringBytes, NIL)
FlaggedString(flags, num, d)      == Flagged(flags, num, d, String, <<>>)
FlaggedBigInt(flags, num, d)      == Flagged(flags, num, d, BigInt, NIL)

-----------------------------------------------------------------------------
\* The vector readers: the vector constructor, a non-negative int32 count,
\* then count items, each with the item reader; nil on any error.
RECURSIVE ReadItems(_, _, _, _)
ReadItems(d, n, Item(_), acc) ==
  IF Len(acc) = n THEN Ret(acc, d)
  ELSE LET y == Item(d)
       IN  IF ~Ok(y.d) THEN Ret(NIL, y.d) ELSE ReadItems(y.d, n, Item, Append(acc, y.v))

VectorOf(d, Item(_), e) ==
  LET c == UInt32(d)
      n == Int32(c.d)
  IN  IF ~Ok(c.d) THEN Ret(NIL, c.d)
      ELSE IF c.v # CRC_vector THEN Ret(NIL, Fail(c.d, e \o ": Wrong constructor"))
      ELSE IF ~Ok(n.d) THEN Ret(NIL, n.d)
      ELSE IF n.v < 0 THEN Ret(NIL, Fail(n.d, e \o ": Wrong size"))
      ELSE ReadItems(n.d, n.v, Item, <<>>)

\* Mutant: the items of an int vector read with the width of a long.
VectorIntReadsLong(d) == VectorOf(d, Long, "DecodeVectorInt")

VectorInt(d)    == VectorOf(d, Int32, "DecodeVectorInt")
VectorLong(d)   == VectorOf(d, Long, "DecodeVectorLong")
VectorString(d) == VectorOf(d, String, "DecodeVectorString")

FlaggedVectorInt(flags, num, d)    == Flagged(flags, num, d, VectorInt, NIL)
FlaggedVectorLong(flags, num, d)   == Flagged(flags, num, d, VectorLong, NIL)
FlaggedVectorString(flags, num, d) == Flagged(flags, num, d, VectorString, NIL)

\* Bool: boolTrue is TRUE; boolFalse and any other constructor are FALSE.
Bool(d) ==
  LET c == UInt32(d)
  IN  IF ~Ok(c.d) THEN Ret(FALSE, c.d) ELSE Ret(c.v = CRC_boolTrue, c.d)

-----------------------------------------------------------------------------
\* Object: the constructor, then msg_container, rpc_result, gzip_packed or
\* a generated constructor; nil when an error is set at the end.
RECURSIVE Object(_), ContainerItems(_, _, _)

\* ObjectGenerated (generated code, modelled from the spec): the two
\* constructors without fields that the model uses, else an error.
ObjectGenerated(c, d) ==
  CASE c = CRC_boolTrue  -> Ret([tag |-> "boolTrue"], d)
    [] c = CRC_boolFalse -> Ret([tag |-> "boolFalse"], d)
    [] OTHER             -> Ret(NIL, Fail(d, "unknown constructor"))

\* A gzip member: its magic number 0x1f 0x8b, then the deflated content,
\* modelled as stored: inflating strips the header.  gzip.NewReader fails
\* on anything else and returns a nil reader, whose Read panics.
GzipMagic  == <<31, 139>>
IsGzip(p)  == Len(p) >= 2 /\ SubSeq(p, 1, 2) = GzipMagic
Inflate(p) == SubSeq(p, 3, Len(p))

\* The items of a container: TL_MT_message{m.Long(), m.Int(), m.Int(),
\* m.Object()}, fields decoded left to right, nil after the first error.
ContainerItemsWith(d, n, acc, swap) ==
  LET id == Long(d)
      a  == Int32(id.d)
      b  == Int32(a.d)
      o  == Object(b.d)
      item == [msgId |-> id.v, seqNo |-> IF swap THEN b.v ELSE a.v,
               bytes |-> IF swap THEN a.v ELSE b.v, data |-> o.v]
  IN  IF Len(acc) = n THEN Ret([tag |-> "msg_container", items |-> acc], d)
      ELSE IF ~Ok(o.d) THEN Ret(NIL, o.d)
      ELSE ContainerItems(o.d, n, Append(acc, item))

\* Mutant: the seqno and bytes fields of an item read in the wrong order.
ContainerItemsSwapped(d, n, acc) == ContainerItemsWith(d, n, acc, TRUE)

ContainerItems(d, n, acc) == ContainerItemsWith(d, n, acc, FALSE)

\* make([]TL_MT_message, size) panics on a negative size.
Container(d) ==
  LET n == Int32(d)
  IN  IF n.v < 0 THEN Ret(NIL, Fail(n.d, "panic")) ELSE ContainerItems(n.d, n.v, <<>>)

RpcResult(d) ==
  LET id == Long(d)
      o  == Object(id.d)
  IN  Ret([tag |-> "rpc_result", req |-> id.v, obj |-> o.v], o.d)

\* gzip_packed: the packed bytes are inflated and decoded by a new
\* DecodeBuf, whose error is not copied back; a panic there unwinds.
GzipPacked(d) ==
  LET s == StringBytes(d)
      p == IF Ok(s.d) THEN s.v ELSE <<>>
      inner == Object(NewDecodeBuf(Inflate(p)))
  IN  IF ~IsGzip(p) THEN Ret(NIL, Fail(s.d, "panic"))
      ELSE IF inner.d.err = "panic" THEN Ret(NIL, Fail(s.d, "panic"))
      ELSE Ret(inner.v, s.d)

Object(d) ==
  LET c == UInt32(d)
      r == IF ~Ok(c.d) THEN Ret(NIL, c.d)
           ELSE CASE c.v = CRC_msg_container -> Container(c.d)
                  [] c.v = CRC_rpc_result    -> RpcResult(c.d)
                  [] c.v = CRC_gzip_packed   -> GzipPacked(c.d)
                  [] OTHER                   -> ObjectGenerated(c.v, c.d)
  IN  IF ~Ok(r.d) THEN Ret(NIL, r.d) ELSE r

FlaggedObject(flags, num, d) == Flagged(flags, num, d, Object, NIL)

Vector(d) == VectorOf(d, Object, "DecodeVector")
FlaggedVector(flags, num, d) == Flagged(flags, num, d, Vector, NIL)

=============================================================================
