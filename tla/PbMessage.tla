------------------------------ MODULE PbMessage ------------------------------
(***************************************************************************)
(* The streams of nanopb and what is read from and written to them:        *)
(* varints, zigzag and fixed-width integers, tags, strings (pb_decode.c,   *)
(* pb_encode.c); then the message descriptors: the macros of pb.h that     *)
(* pack a field's declaration into 32-bit words, and the iterator of       *)
(* pb_common.c that unpacks them.                                          *)
(*                                                                         *)
(* A word, and a byte, is the set of the positions of its one bits, so     *)
(* that the widths are those of the code: 8, 32 and 64 bits.  A decoder d  *)
(* holds the stream (in: the buffer, pos: the offset of stream->state,     *)
(* left: bytes_left), ok, the value last read (v) and what decoding        *)
(* writes: mem, the memory the message structs are in, and the device's    *)
(* component table.  An encoder e holds the stream (out; sizing: callback  *)
(* is NULL; max, written) and mem.                                         *)
(***************************************************************************)
EXTENDS Integers, FiniteSets, TLC, SequencesExt

Low(s, w) == s \cap 0..(w - 1)
Shr(s, k) == {i - k : i \in {j \in s : j >= k}}
Shl(s, k, w) == {i + k : i \in s} \cap 0..(w - 1)
Complement(s, w) == (0..(w - 1)) \ s
SignExtend(s, w) == IF w - 1 \in s THEN Low(s, w) \cup w..63 ELSE Low(s, w)

(* The word of a small number, and the number of a word; a word that is    *)
(* larger than any buffer counts as TooLong.                               *)
TooLong == 2^20
Bits(n) == {i \in 0..20 : (n \div 2^i) % 2 = 1}
Num(s) ==
  LET sum[i \in 0..20] == (IF i \in s THEN 2^i ELSE 0) + (IF i = 0 THEN 0 ELSE sum[i - 1])
  IN IF s \subseteq 0..19 THEN sum[20] ELSE TooLong

(***************************************************************************)
(* Reading.                                                                *)
(***************************************************************************)
Fail(d) == [d EXCEPT !.ok = FALSE]

(* What the program would read beyond the buffer is arbitrary; the         *)
(* properties ask that it does not.                                        *)
ByteAt(d, i) == IF i <= Len(d.in) THEN d.in[i] ELSE {}

pb_istream_from_buffer(d, buf, size) ==
  [d EXCEPT !.in = buf, !.pos = 0, !.left = size, !.ok = TRUE]

(* buf_read: n bytes of the buffer go to v.                                *)
buf_read(d, n) ==
  [d EXCEPT !.v = [i \in 1..n |-> ByteAt(d, d.pos + i)], !.pos = @ + n]

pb_read(d, n) ==
  IF d.left < n THEN Fail(d) ELSE [buf_read(d, n) EXCEPT !.left = @ - n]

pb_readbyte(d) ==
  IF d.left = 0 THEN Fail(d)
  ELSE [d EXCEPT !.v = ByteAt(d, d.pos + 1), !.pos = @ + 1, !.left = @ - 1]

(* The multibyte case.  bitpos is a uint_fast8_t, a u8 in the kernel.      *)
RECURSIVE varint32_rest(_, _, _)
varint32_byte(r, bitpos, result) ==
  LET sign_extension == IF bitpos < 63 THEN 0..7 ELSE {0}
      overflow == /\ bitpos >= 32 /\ Low(r.v, 7) # {}
                  /\ 31 \notin result \/ r.v # sign_extension
      next == IF bitpos >= 32 THEN result ELSE result \cup Shl(Low(r.v, 7), bitpos, 32)
  IN CASE ~r.ok \/ overflow -> Fail(r)
       [] 7 \in r.v -> varint32_rest(r, (bitpos + 7) % 256, next)
       [] OTHER -> IF (bitpos + 7) % 256 = 35 /\ r.v \cap 4..6 # {} THEN Fail(r)
                   ELSE [r EXCEPT !.v = next]
varint32_rest(d, bitpos, result) == varint32_byte(pb_readbyte(d), bitpos, result)

(* eof is set when the stream ends before the first byte.                  *)
varint32_first(r) ==
  IF ~r.ok THEN [r EXCEPT !.eof = TRUE]
  ELSE IF 7 \in r.v THEN varint32_rest(r, 7, Low(r.v, 7)) ELSE r
pb_decode_varint32_eof(d) == varint32_first(pb_readbyte(d))

pb_decode_varint32(d) == pb_decode_varint32_eof(d)

RECURSIVE varint_rest(_, _, _)
varint_byte(r, bitpos, result) ==
  LET next == result \cup Shl(Low(r.v, 7), bitpos, 64)
  IN CASE ~r.ok -> r
       [] r.ok /\ 7 \in r.v -> varint_rest(r, bitpos + 7, next)
       [] OTHER -> [r EXCEPT !.v = next]
varint_rest(d, bitpos, result) ==
  IF bitpos >= 64 THEN Fail(d) ELSE varint_byte(pb_readbyte(d), bitpos, result)

pb_decode_varint(d) == varint_rest(d, 0, {})

RECURSIVE pb_skip_varint(_)
pb_skip_varint(d) ==
  LET r == pb_readbyte(d) IN IF r.ok /\ 7 \in r.v THEN pb_skip_varint(r) ELSE r

SkipLength(r) == IF r.ok THEN pb_read(r, Num(r.v)) ELSE r
pb_skip_string(d) == SkipLength(pb_decode_varint32(d))

SplitTag(r) ==
  IF r.ok THEN [r EXCEPT !.tag = Num(Shr(r.v, 3)), !.wire_type = Num(Low(r.v, 3))] ELSE r
pb_decode_tag(d) ==
  SplitTag(pb_decode_varint32_eof([d EXCEPT !.eof = FALSE, !.wire_type = 0, !.tag = 0]))

PB_WT_VARINT == 0
PB_WT_64BIT  == 1
PB_WT_STRING == 2
PB_WT_32BIT  == 5

pb_skip_field(d, wire_type) ==
  CASE wire_type = PB_WT_VARINT -> pb_skip_varint(d)
    [] wire_type = PB_WT_64BIT  -> pb_read(d, 8)
    [] wire_type = PB_WT_STRING -> pb_skip_string(d)
    [] wire_type = PB_WT_32BIT  -> pb_read(d, 4)
    [] OTHER -> Fail(d)

(* The value's bytes, for a callback; at most 10 of a varint.              *)
read_raw_value(d, wire_type) ==
  LET size == {n \in 1..10 : /\ n <= d.left /\ 7 \notin ByteAt(d, d.pos + n)
                             /\ \A k \in 1..(n - 1) : 7 \in ByteAt(d, d.pos + k)}
  IN CASE wire_type = PB_WT_VARINT ->
            IF size = {} THEN Fail(d) ELSE pb_read(d, CHOOSE n \in size : TRUE)
       [] wire_type = PB_WT_64BIT -> pb_read(d, 8)
       [] wire_type = PB_WT_32BIT -> pb_read(d, 4)
       [] OTHER -> Fail(d)

(* Mutant: the length is not compared with what the parent has left.       *)
SubstreamUnchecked(r) ==
  IF r.ok THEN [r EXCEPT !.left = Num(r.v), !.rest = IF Num(r.v) <= r.left THEN r.left - Num(r.v) ELSE 0]
  ELSE r
make_string_substream_unchecked(d) == SubstreamUnchecked(pb_decode_varint32(d))

(* The decoder of the substream; its parent keeps parent.left - its left.  *)
Substream(r) ==
  IF r.ok /\ Num(r.v) <= r.left
  THEN [r EXCEPT !.left = Num(r.v), !.rest = r.left - Num(r.v)]
  ELSE Fail(r)
pb_make_string_substream(d) == Substream(pb_decode_varint32(d))

(* What the substream was left with is read; the parent goes on after it.  *)
pb_close_string_substream(sub, rest) ==
  IF sub.ok THEN [pb_read(sub, sub.left) EXCEPT !.left = rest] ELSE sub

Unzigzag(r) ==
  IF r.ok THEN [r EXCEPT !.v = IF 0 \in @ THEN Complement(Shr(@, 1), 64) ELSE Shr(@, 1)] ELSE r
pb_decode_svarint(d) == Unzigzag(pb_decode_varint(d))

(* Little endian, whatever the machine.                                    *)
FromBytes(bytes) == UNION {Shl(bytes[i], 8 * (i - 1), 64) : i \in DOMAIN bytes}
pb_decode_fixed32(d) ==
  LET r == pb_read(d, 4) IN IF r.ok THEN [r EXCEPT !.v = FromBytes(r.v)] ELSE r
pb_decode_fixed64(d) ==
  LET r == pb_read(d, 8) IN IF r.ok THEN [r EXCEPT !.v = FromBytes(r.v)] ELSE r

(***************************************************************************)
(* Writing.                                                                *)
(***************************************************************************)
EFail(e) == [e EXCEPT !.ok = FALSE]

pb_ostream_from_buffer(memory, size) ==
  [out |-> <<>>, sizing |-> FALSE, max |-> size, written |-> 0, ok |-> TRUE, mem |-> memory]

PB_OSTREAM_SIZING(memory) == [pb_ostream_from_buffer(memory, 0) EXCEPT !.sizing = TRUE]

(* Mutant: the last byte of the buffer is not used.                        *)
pb_write_early(e, bytes) ==
  IF ~e.sizing /\ e.written + Len(bytes) >= e.max THEN EFail(e)
  ELSE [e EXCEPT !.out = IF e.sizing THEN @ ELSE @ \o bytes, !.written = @ + Len(bytes)]

pb_write(e, bytes) ==
  IF ~e.sizing /\ e.written + Len(bytes) > e.max THEN EFail(e)
  ELSE [e EXCEPT !.out = IF e.sizing THEN @ ELSE @ \o bytes, !.written = @ + Len(bytes)]

(* low and high are the halves of the value.  The first loop takes at most *)
(* four bytes of the low half; its last four bits share a byte with the    *)
(* first three of the high half.                                           *)
RECURSIVE HighBytes(_, _, _)
HighBytes(buffer, byte, high) ==
  IF high # {} THEN HighBytes(Append(buffer, byte \cup {7}), Low(high, 7), Shr(high, 7))
  ELSE Append(buffer, byte)
RECURSIVE LowBytes(_, _, _, _)
LowBytes(buffer, byte, low, high) ==
  CASE Len(buffer) < 4 /\ (low # {} \/ high # {}) ->
         LowBytes(Append(buffer, byte \cup {7}), Low(low, 7), Shr(low, 7), high)
    [] OTHER -> IF high = {} THEN Append(buffer, byte)
                ELSE HighBytes(buffer, byte \cup Shl(Low(high, 3), 4, 8), Shr(high, 3))
pb_encode_varint_32(low, high) == LowBytes(<<>>, Low(low, 7), Shr(low, 7), high)

pb_encode_varint(e, value) ==
  pb_write(e, IF value \subseteq 0..6 THEN <<value>>
              ELSE pb_encode_varint_32(Low(value, 32), Shr(value, 32)))

(* pb_encode_svarint encodes this as a varint.                             *)
Zigzag(value) == IF 63 \in value THEN Complement(Shl(value, 1, 64), 64) ELSE Shl(value, 1, 64)

ToBytes(v, n) == [i \in 1..n |-> Low(Shr(v, 8 * (i - 1)), 8)]
pb_encode_fixed32(e, v) == pb_write(e, ToBytes(v, 4))
pb_encode_fixed64(e, v) == pb_write(e, ToBytes(v, 8))

pb_encode_tag(e, wire_type, field_number) ==
  pb_encode_varint(e, Shl(Bits(field_number), 3, 64) \cup Bits(wire_type))

WriteAfter(r, bytes) == IF r.ok THEN pb_write(r, bytes) ELSE r
pb_encode_string(e, bytes) == WriteAfter(pb_encode_varint(e, Bits(Len(bytes))), bytes)

(***************************************************************************)
(* Message descriptors.  A declaration is a line X(a, atype, htype, ltype, *)
(* fieldname, tag) of a FIELDLIST with what the compiler makes of the      *)
(* struct: the member's offset, the size of an entry, the number of        *)
(* entries of an array, and the offset of the has_, _count or which_       *)
(* member.                                                                 *)
(***************************************************************************)
CONSTANTS
  Messages,       \* the message types
  FieldList,      \* message type -> its declarations, in order of tag
  FieldCallback,  \* the message types with a field_callback
  DefaultValue    \* message type -> its default_value, <<>> for NULL

(* The messages of the status core, laid out as on a 64-bit machine.       *)
Field(atype, htype, ltype, name, tag, offset, size) ==
  [atype |-> atype, htype |-> htype, ltype |-> ltype, name |-> name, tag |-> tag,
   offset |-> offset, size |-> size, entries |-> 1, count_offset |-> offset, sub |-> "none"]
OfType(x, sub) == [x EXCEPT !.sub = sub]
(* has_, _count or which_ at this offset.                                  *)
With(x, count_offset) == [x EXCEPT !.count_offset = count_offset]

StatusFieldList ==
  [Interrupt |-> << Field("STATIC", "SINGULAR", "UINT64", "mapping", 1, 0, 8),
                    Field("CALLBACK", "SINGULAR", "STRING", "name", 2, 8, 16) >>,
   PE |-> << Field("CALLBACK", "SINGULAR", "STRING", "name", 1, 0, 16),
             Field("STATIC", "SINGULAR", "UINT32", "id", 2, 16, 4),
             Field("STATIC", "SINGULAR", "UINT64", "offset", 3, 24, 8),
             Field("STATIC", "SINGULAR", "UINT64", "size", 4, 32, 8),
             With(OfType(Field("STATIC", "OPTIONAL", "MESSAGE", "local_memory", 5, 48, 16), "MemoryArea"), 40),
             With(OfType(Field("STATIC", "OPTIONAL", "MESSAGE", "debug", 6, 72, 48), "Platform"), 64),
             OfType(Field("CALLBACK", "REPEATED", "MESSAGE", "interrupts", 7, 120, 16), "Interrupt") >>,
   Platform |-> << Field("CALLBACK", "SINGULAR", "STRING", "name", 1, 0, 16),
                   Field("STATIC", "SINGULAR", "UINT64", "offset", 2, 16, 8),
                   Field("STATIC", "SINGULAR", "UINT64", "size", 3, 24, 8),
                   OfType(Field("CALLBACK", "REPEATED", "MESSAGE", "interrupts", 4, 32, 16), "Interrupt") >>,
   Clock |-> << Field("CALLBACK", "SINGULAR", "STRING", "name", 1, 0, 16),
                Field("STATIC", "SINGULAR", "UINT32", "frequency_mhz", 2, 16, 4) >>,
   Version |-> << Field("CALLBACK", "SINGULAR", "STRING", "software", 1, 0, 16),
                  Field("STATIC", "SINGULAR", "UINT32", "year", 2, 16, 4),
                  Field("STATIC", "SINGULAR", "UINT32", "release", 3, 20, 4),
                  Field("CALLBACK", "SINGULAR", "STRING", "extra_version", 4, 24, 16) >>,
   MemoryArea |-> << Field("STATIC", "SINGULAR", "UINT64", "base", 1, 0, 8),
                     Field("STATIC", "SINGULAR", "UINT64", "size", 2, 8, 8) >>,
   Status |-> << Field("STATIC", "SINGULAR", "UINT64", "timestamp", 1, 0, 8),
                 With(OfType(Field("STATIC", "OPTIONAL", "MESSAGE", "arch_base", 2, 16, 16), "MemoryArea"), 8),
                 With(OfType(Field("STATIC", "OPTIONAL", "MESSAGE", "platform_base", 3, 40, 16), "MemoryArea"), 32),
                 OfType(Field("CALLBACK", "REPEATED", "MESSAGE", "pe", 4, 56, 16), "PE"),
                 OfType(Field("CALLBACK", "REPEATED", "MESSAGE", "platform", 5, 72, 16), "Platform"),
                 OfType(Field("CALLBACK", "REPEATED", "MESSAGE", "clocks", 6, 88, 16), "Clock"),
                 OfType(Field("CALLBACK", "REPEATED", "MESSAGE", "versions", 7, 104, 16), "Version") >>]

PB_LTYPE_VARINT == 0
PB_LTYPE_UVARINT == 1
PB_LTYPE_SVARINT == 2
PB_LTYPE_FIXED32 == 3
PB_LTYPE_FIXED64 == 4
PB_LTYPE_LAST_PACKABLE == 4
PB_LTYPE_BYTES == 5
PB_LTYPE_STRING == 6
PB_LTYPE_SUBMESSAGE == 7
PB_LTYPE_EXTENSION == 8
PB_LTYPE_FIXED_LENGTH_BYTES == 9

PB_LTYPE_MAP(type) ==
  CASE type \in {"BOOL", "ENUM", "INT32", "INT64"} -> PB_LTYPE_VARINT
    [] type \in {"UENUM", "UINT32", "UINT64"} -> PB_LTYPE_UVARINT
    [] type \in {"SINT32", "SINT64"} -> PB_LTYPE_SVARINT
    [] type \in {"FIXED32", "FLOAT", "SFIXED32"} -> PB_LTYPE_FIXED32
    [] type \in {"FIXED64", "DOUBLE", "SFIXED64"} -> PB_LTYPE_FIXED64
    [] type = "BYTES" -> PB_LTYPE_BYTES
    [] type = "STRING" -> PB_LTYPE_STRING
    [] type = "MESSAGE" -> PB_LTYPE_SUBMESSAGE
    [] type = "EXTENSION" -> PB_LTYPE_EXTENSION
    [] type = "FIXED_LENGTH_BYTES" -> PB_LTYPE_FIXED_LENGTH_BYTES

(* The type byte: four bits of LTYPE, two of HTYPE, two of ATYPE.          *)
PB_HTYPE(htype) ==
  CASE htype = "REQUIRED" -> {}
    [] htype \in {"OPTIONAL", "SINGULAR"} -> {4}
    [] htype \in {"REPEATED", "FIXARRAY"} -> {5}
    [] htype = "ONEOF" -> {4, 5}
PB_ATYPE(atype) == CASE atype = "STATIC" -> {} [] atype = "POINTER" -> {7} [] atype = "CALLBACK" -> {6}
TypeByte(x) == Bits(PB_LTYPE_MAP(x.ltype)) \cup PB_HTYPE(x.htype) \cup PB_ATYPE(x.atype)

PB_SIZE_OFFSET(x) ==
  IF \/ x.atype = "CALLBACK" \/ x.htype \in {"REQUIRED", "SINGULAR", "FIXARRAY"}
     \/ x.atype = "POINTER" /\ x.htype = "OPTIONAL"
  THEN 0 ELSE x.offset - x.count_offset

PB_ARRAY_SIZE(x) == IF x.atype = "STATIC" /\ x.htype \in {"REPEATED", "FIXARRAY"} THEN x.entries ELSE 1

PB_FIELDINFO_WIDTH_AUTO(x) ==
  IF \/ x.atype = "CALLBACK" \/ x.htype \in {"REPEATED", "FIXARRAY"}
     \/ x.ltype \in {"BYTES", "MESSAGE", "STRING", "FIXED_LENGTH_BYTES"}
  THEN 2 ELSE 1

(* The words of a declaration.  In PB_FIELDINFO_2 the tag is masked with   *)
(* 0x2c0, bits 6, 7 and 9.  No message of the driver has the eight-word    *)
(* format, whose macro leaves out the three reserved words.                *)
PB_FIELDINFO(width, x) ==
  LET word(s, n, at) == Shl(Low(s, n), at, 32)
      first == word(Bits(x.tag), 6, 2) \cup word(TypeByte(x), 8, 8)
      size_offset == Bits(PB_SIZE_OFFSET(x))
      second == Low(SignExtend(size_offset, 8), 32) \cup (Shl(Bits(x.tag), 2, 32) \ 0..7)
  IN CASE width = 1 -> << first \cup word(Bits(x.offset), 8, 16)
                          \cup word(size_offset, 4, 24) \cup word(Bits(x.size), 4, 28) >>
       [] width = 2 -> << {0} \cup first \cup word(Bits(PB_ARRAY_SIZE(x)), 12, 16)
                          \cup word(size_offset, 4, 28),
                          word(Bits(x.offset), 16, 0) \cup word(Bits(x.size), 12, 16)
                          \cup Shl(Bits(x.tag) \cap {6, 7, 9}, 22, 32) >>
       [] width = 4 -> << {1} \cup first \cup word(Bits(PB_ARRAY_SIZE(x)), 16, 16),
                          second, Bits(x.offset), Bits(x.size) >>

(* The static assertions (pb_size_t has 16 bits).                          *)
PB_FIELDINFO_ASSERT(width, x) ==
  LET fits(n, bits) == n < 2^bits
      small(s) == LET low == s % 256 IN low < 128
  IN CASE width = 1 -> /\ fits(x.tag, 6) /\ fits(x.offset, 8) /\ fits(PB_SIZE_OFFSET(x), 4)
                       /\ fits(x.size, 4) /\ fits(PB_ARRAY_SIZE(x), 1)
       [] width = 2 -> /\ fits(x.tag, 10) /\ fits(x.offset, 16) /\ fits(PB_SIZE_OFFSET(x), 4)
                       /\ fits(x.size, 12) /\ fits(PB_ARRAY_SIZE(x), 12)
       [] OTHER -> /\ fits(x.tag, 16) /\ fits(x.offset, 16) /\ small(PB_SIZE_OFFSET(x))
                   /\ fits(x.size, 16) /\ fits(PB_ARRAY_SIZE(x), 16)

(***************************************************************************)
(* The iterator.                                                           *)
(***************************************************************************)
(* What the words say: the first part of load_descriptor_values.           *)
UnpackWords(w) ==
  LET bits(i, at, n) == Num(Low(Shr(w[i], at), n))
      low == bits(1, 2, 6)
      type == Low(Shr(w[1], 8), 8)
      rest == CASE Low(w[1], 2) = {} ->
                     [array_size |-> 1, size_offset |-> bits(1, 24, 4), tag |-> low,
                      data_offset |-> bits(1, 16, 8), data_size |-> bits(1, 28, 4)]
                [] Low(w[1], 2) = {0} ->
                     [array_size |-> bits(1, 16, 12), size_offset |-> bits(1, 28, 4),
                      tag |-> low + 64 * bits(2, 28, 4),
                      data_offset |-> bits(2, 0, 16), data_size |-> bits(2, 16, 12)]
                [] OTHER ->
                     [array_size |-> IF 0 \in w[1] THEN bits(5, 0, 16) ELSE bits(1, 16, 16),
                      size_offset |-> LET s == bits(2, 0, 8) IN IF s < 128 THEN s ELSE s - 256,
                      tag |-> low + 64 * bits(2, 8, 10),
                      data_offset |-> bits(3, 0, 16), data_size |-> bits(4, 0, 16)]
  IN rest @@ [ltype |-> Num(Low(type, 4)), htype |-> type \cap {4, 5}, atype |-> type \cap {6, 7}]

Required == {}
Optional == {4}
Repeated == {5}
OneOf    == {4, 5}
Static   == {}
Callback == {6}
Pointer  == {7}

(* PB_BIND: the descriptor of a message type, pb_msgdesc_t, its words as   *)
(* they are unpacked; submsg_info is in the order of the fields that have  *)
(* one.                                                                    *)
RECURSIVE PB_BIND(_)
PB_BIND(m) ==
  LET list == FieldList[m]
      with == SelectSeq(list, LAMBDA x : x.ltype = "MESSAGE")
  IN [field_info |-> [i \in DOMAIN list |->
                        UnpackWords(PB_FIELDINFO(PB_FIELDINFO_WIDTH_AUTO(list[i]), list[i]))],
      submsg_info |-> [i \in DOMAIN with |-> PB_BIND(with[i].sub)],
      default_value |-> DefaultValue[m],
      field_callback |-> m \in FieldCallback]
Desc == [m \in Messages |-> PB_BIND(m)]

(* Indices that advance_iterator counts: such fields before this one.      *)
RequiredFields(m) == {k \in DOMAIN m.field_info : m.field_info[k].htype = Required}
SubmsgFields(m) == {k \in DOMAIN m.field_info : m.field_info[k].ltype = PB_LTYPE_SUBMESSAGE}
CountBefore(i, fields) == Cardinality({k \in fields : k < i})

NULL == 0
(* &iter->array_size                                                       *)
ArraySizeCell == -1

(* Field i of the message with descriptor m at address message.            *)
FieldAt(mem, m, message, i, d, pField) ==
  [msg |-> m, message |-> message, index |-> i, tag |-> d.tag,
   ltype |-> d.ltype, htype |-> d.htype, atype |-> d.atype,
   data_size |-> d.data_size, array_size |-> d.array_size,
   pField |-> pField,
   pData |-> IF d.atype = Pointer THEN mem[pField] ELSE pField,
   pSize |-> CASE d.size_offset # 0 -> pField - d.size_offset
               [] d.size_offset = 0 /\ d.htype = Repeated /\ d.atype \in {Static, Pointer} ->
                    ArraySizeCell
               [] OTHER -> NULL,
   required_field_index |-> CountBefore(i, RequiredFields(m)),
   submsg_desc |-> IF d.ltype = PB_LTYPE_SUBMESSAGE
                   THEN m.submsg_info[1 + CountBefore(i, SubmsgFields(m))]
                   ELSE NULL]
load_descriptor_values(mem, m, message, i) ==
  FieldAt(mem, m, message, i, m.field_info[i], message + m.field_info[i].data_offset)

(* The index after this one; back to the first after the last.             *)
advance_iterator(m, i) == IF i >= Len(m.field_info) THEN 1 ELSE i + 1

(* The index of the field with this tag, looked for from i on; 0 if none.  *)
FindTag(fields, i, tag) ==
  LET n == Len(fields)
      nth(k) == ((i - 1 + k) % n) + 1
      match == {k \in 1..n : /\ fields[nth(k)].tag = tag
                             /\ fields[nth(k)].ltype # PB_LTYPE_EXTENSION}
  IN CASE n = 0 -> 0
       [] n > 0 /\ fields[i].tag = tag -> i
       [] OTHER -> IF match = {} THEN 0 ELSE nth(Min(match))
pb_field_iter_find(m, i, tag) == FindTag(m.field_info, i, tag)

(* An extension's one field; its pSize is &extension->found.               *)
pb_field_iter_begin_extension(mem, ext) ==
  [load_descriptor_values(mem, ext.type, ext.dest, 1) EXCEPT !.pSize = ext.found]

(* What memset(pData, 0, data_size) makes of a field.                      *)
ZeroOf(f) ==
  CASE f.atype = Callback -> <<>>
    [] f.atype # Callback /\ f.ltype <= PB_LTYPE_LAST_PACKABLE -> {}
    [] f.atype # Callback /\ f.ltype = PB_LTYPE_FIXED_LENGTH_BYTES -> [i \in 1..f.data_size |-> {}]
    [] OTHER -> <<>>
=============================================================================
