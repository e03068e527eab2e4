------------------------------ MODULE PbEncode ------------------------------
(***************************************************************************)
(* Encoding a message from its struct (pb_encode.c).  Memory is as in      *)
(* PbMessage: a cell per member; a pointer member holds the address of its *)
(* data, or NULL.                                                          *)
(***************************************************************************)
EXTENDS PbMessage

(***************************************************************************)
(* Field encoders.                                                         *)
(***************************************************************************)
pb_enc_varint(e, f) ==
  LET w == 8 * f.data_size
      value == e.mem[f.pData]
  IN IF f.data_size \notin {1, 2, 4, 8} THEN EFail(e)
     ELSE pb_encode_varint(e, CASE f.ltype = PB_LTYPE_UVARINT -> Low(value, w)
                                [] f.ltype = PB_LTYPE_SVARINT -> Zigzag(SignExtend(value, w))
                                [] OTHER -> SignExtend(value, w))

pb_enc_fixed(e, f) ==
  CASE f.data_size = 4 -> pb_encode_fixed32(e, e.mem[f.pData])
    [] f.data_size = 8 -> pb_encode_fixed64(e, e.mem[f.pData])
    [] OTHER -> EFail(e)

pb_enc_bytes(e, f) ==
  LET bytes == IF f.pData = NULL THEN <<>> ELSE e.mem[f.pData]
  IN IF f.pData # NULL /\ f.atype = Static /\ Len(bytes) + 2 > f.data_size THEN EFail(e)
     ELSE pb_encode_string(e, bytes)

(* One byte of a static string is for the terminator.                      *)
pb_enc_string(e, f) ==
  LET str == IF f.pData = NULL THEN <<>> ELSE e.mem[f.pData]
  IN IF f.atype # Pointer /\ Len(str) > f.data_size - 1 THEN EFail(e) ELSE pb_encode_string(e, str)

RECURSIVE pb_encode(_, _, _)

(* The size from a stream that does not write; then a substream of exactly *)
(* that size.                                                              *)
AfterSubstream(sub, e, size) ==
  LET back == [sub EXCEPT !.max = e.max, !.written = e.written + sub.written]
  IN IF sub.written # size THEN EFail(back) ELSE back
EncodeSubstream(e, size, m, message) ==
  CASE ~e.ok -> e
    [] e.ok /\ e.sizing -> [e EXCEPT !.written = @ + size]
    [] OTHER -> IF e.written + size > e.max THEN EFail(e)
                ELSE AfterSubstream(pb_encode([e EXCEPT !.max = size, !.written = 0], m, message), e, size)
EncodeSized(e, sizing, m, message) ==
  IF sizing.ok THEN EncodeSubstream(pb_encode_varint(e, Bits(sizing.written)), sizing.written, m, message)
  ELSE EFail(e)
pb_encode_submessage(e, m, message) ==
  EncodeSized(e, pb_encode(PB_OSTREAM_SIZING(e.mem), m, message), m, message)

pb_enc_submessage(e, f) == pb_encode_submessage(e, f.submsg_desc, f.pData)

pb_enc_fixed_length_bytes(e, f) == pb_encode_string(e, e.mem[f.pData])

WireType(ltype) ==
  CASE ltype \in {PB_LTYPE_VARINT, PB_LTYPE_UVARINT, PB_LTYPE_SVARINT} -> PB_WT_VARINT
    [] ltype = PB_LTYPE_FIXED32 -> PB_WT_32BIT
    [] ltype = PB_LTYPE_FIXED64 -> PB_WT_64BIT
    [] OTHER -> PB_WT_STRING
pb_encode_tag_for_field(e, f) ==
  IF f.ltype = PB_LTYPE_EXTENSION THEN EFail(e) ELSE pb_encode_tag(e, WireType(f.ltype), f.tag)

(* After the tag, unless it did not fit.                                   *)
encode_value(e, f) ==
  CASE ~e.ok -> e
    [] e.ok /\ f.ltype \in {PB_LTYPE_VARINT, PB_LTYPE_UVARINT, PB_LTYPE_SVARINT} -> pb_enc_varint(e, f)
    [] e.ok /\ f.ltype \in {PB_LTYPE_FIXED32, PB_LTYPE_FIXED64} -> pb_enc_fixed(e, f)
    [] e.ok /\ f.ltype = PB_LTYPE_BYTES -> pb_enc_bytes(e, f)
    [] e.ok /\ f.ltype = PB_LTYPE_STRING -> pb_enc_string(e, f)
    [] e.ok /\ f.ltype = PB_LTYPE_SUBMESSAGE -> pb_enc_submessage(e, f)
    [] e.ok /\ f.ltype = PB_LTYPE_FIXED_LENGTH_BYTES -> pb_enc_fixed_length_bytes(e, f)

(* A missing pointer field is left out.                                    *)
encode_basic_field(e, f) ==
  IF f.pData = NULL THEN e ELSE encode_value(pb_encode_tag_for_field(e, f), f)

(***************************************************************************)
(* A field of a message.                                                   *)
(***************************************************************************)
EntryAt(f, n) == [f EXCEPT !.pData = @ + f.data_size * n]

(* In an array of pointers to strings or bytes NULL is empty.              *)
AppendTo(e, bytes) == IF e.ok THEN pb_encode_string(e, bytes) ELSE e
encode_unpacked_entry(e, f) ==
  LET pointed == f.atype = Pointer /\ f.ltype \in {PB_LTYPE_STRING, PB_LTYPE_BYTES}
  IN IF pointed /\ e.mem[f.pData] = NULL THEN AppendTo(pb_encode_tag_for_field(e, f), <<>>)
     ELSE encode_basic_field(e, IF pointed THEN [f EXCEPT !.pData = e.mem[@]] ELSE f)

(* Packed: the tag, the size of all entries, the entries without tags.     *)
enc_packable(e, f) ==
  IF f.ltype \in {PB_LTYPE_FIXED32, PB_LTYPE_FIXED64} THEN pb_enc_fixed(e, f) ELSE pb_enc_varint(e, f)

(* The entries n, n + 1, ... of an array, until one fails.                 *)
encode_entry(e, f) ==
  IF f.ltype <= PB_LTYPE_LAST_PACKABLE THEN enc_packable(e, f) ELSE encode_unpacked_entry(e, f)
RECURSIVE EachEntry(_, _, _, _)
EachEntry(e, f, n, count) ==
  IF n = count \/ ~e.ok THEN e ELSE EachEntry(encode_entry(e, EntryAt(f, n)), f, n + 1, count)

PackedSize(e, f, count) ==
  CASE f.ltype = PB_LTYPE_FIXED32 -> [PB_OSTREAM_SIZING(e.mem) EXCEPT !.written = 4 * count]
    [] f.ltype = PB_LTYPE_FIXED64 -> [PB_OSTREAM_SIZING(e.mem) EXCEPT !.written = 8 * count]
    [] OTHER -> EachEntry(PB_OSTREAM_SIZING(e.mem), f, 0, count)
PackedEntries(e, f, count, size) ==
  CASE ~e.ok -> e
    [] e.ok /\ e.sizing -> [e EXCEPT !.written = @ + size]
    [] OTHER -> EachEntry(e, f, 0, count)
PackedAfterTag(e, f, count, sized) ==
  CASE ~e.ok -> e
    [] e.ok /\ ~sized.ok -> EFail(e)
    [] OTHER -> PackedEntries(pb_encode_varint(e, Bits(sized.written)), f, count, sized.written)
encode_packed(e, f, count) ==
  PackedAfterTag(pb_encode_tag(e, PB_WT_STRING, f.tag), f, count, PackedSize(e, f, count))

encode_array(e, f) ==
  LET count == IF f.pSize = ArraySizeCell THEN f.array_size ELSE e.mem[f.pSize]
  IN CASE count = 0 -> e
       [] count # 0 /\ f.atype # Pointer /\ count > f.array_size -> EFail(e)
       [] OTHER -> IF f.ltype <= PB_LTYPE_LAST_PACKABLE THEN encode_packed(e, f, count)
                   ELSE EachEntry(e, f, 0, count)

(* Whether a proto3 field holds its zero value and is left out.            *)
RECURSIVE pb_check_proto3_default_value(_, _)
pb_check_proto3_default_value(mem, f) ==
  LET bytes == mem[f.pData]
  IN CASE f.atype = Static /\ f.htype = Required -> FALSE
       [] f.atype = Static /\ f.htype = Repeated ->
            f.pSize # ArraySizeCell /\ mem[f.pSize] = 0
       [] f.atype = Static /\ f.htype = OneOf -> mem[f.pSize] = 0
       [] f.atype = Static /\ f.htype = Optional /\ f.pSize # NULL -> ~mem[f.pSize]
       [] f.atype = Static /\ f.htype = Optional /\ f.pSize = NULL ->
            CASE f.ltype \in {PB_LTYPE_BYTES, PB_LTYPE_STRING} -> bytes = <<>>
              [] f.ltype = PB_LTYPE_FIXED_LENGTH_BYTES -> f.data_size = 0
              [] f.ltype = PB_LTYPE_SUBMESSAGE ->
                   \A i \in DOMAIN f.submsg_desc.field_info :
                     pb_check_proto3_default_value(mem, load_descriptor_values(mem, f.submsg_desc, f.pData, i))
              [] f.ltype = PB_LTYPE_EXTENSION -> bytes = <<>>
              [] OTHER -> bytes = {}
       [] f.atype = Callback -> bytes = <<>>
       [] f.atype = Pointer -> IF f.ltype <= PB_LTYPE_LAST_PACKABLE THEN bytes = {} ELSE bytes = <<>>

(* The encode functions a caller sets: one for a string, one for a list of *)
(* submessages.                                                            *)
pb_default_field_callback_encode(e, f) ==
  LET callback == e.mem[f.pData]
  IN CASE callback = <<>> -> e
       [] callback # <<>> /\ callback[1] = "encode_string" ->
            AppendTo(pb_encode_tag_for_field(e, f), callback[2])
       [] callback # <<>> /\ callback[1] = "encode_messages" ->
            FoldLeft(LAMBDA x, a : encode_value(pb_encode_tag_for_field(x, f), [f EXCEPT !.pData = a]),
                     e, callback[2])

encode_callback_field(e, f) ==
  IF f.msg.field_callback THEN pb_default_field_callback_encode(e, f) ELSE e

(* An optional field that is not set, a oneof that is another one.         *)
Absent(mem, f) ==
  \/ f.htype = OneOf /\ mem[f.pSize] # f.tag
  \/ /\ f.htype = Optional /\ f.atype = Static
     /\ IF f.pSize = NULL THEN pb_check_proto3_default_value(mem, f) ELSE ~mem[f.pSize]

encode_field(e, f) ==
  CASE f.atype = Callback -> encode_callback_field(e, f)
    [] f.atype # Callback /\ f.htype = Repeated -> encode_array(e, f)
    [] OTHER -> CASE Absent(e.mem, f) -> e
                  [] f.htype = Required /\ f.pData = NULL -> EFail(e)
                  [] OTHER -> encode_basic_field(e, f)

default_extension_encoder(e, ext) == encode_field(e, pb_field_iter_begin_extension(e.mem, ext))

encode_extension_field(e, f) ==
  FoldLeft(LAMBDA x, ext : IF x.ok THEN default_extension_encoder(x, ext) ELSE x, e, e.mem[f.pData])

(***************************************************************************)
(* All fields.                                                             *)
(***************************************************************************)
EncodeOne(e, f) ==
  CASE ~e.ok -> e
    [] e.ok /\ f.ltype = PB_LTYPE_EXTENSION -> encode_extension_field(e, f)
    [] OTHER -> encode_field(e, f)
pb_encode(e, m, message) ==
  FoldLeft(LAMBDA x, i : EncodeOne(x, load_descriptor_values(x.mem, m, message, i)),
           e, [i \in DOMAIN m.field_info |-> i])

Terminated(e, flags) == IF e.ok /\ "NULLTERMINATED" \in flags THEN pb_write(e, <<{}>>) ELSE e
pb_encode_ex(e, m, message, flags) ==
  IF "DELIMITED" \in flags THEN pb_encode_submessage(e, m, message)
  ELSE Terminated(pb_encode(e, m, message), flags)

(* The number of bytes, or -1.                                             *)
SizeOf(e) == IF e.ok THEN e.written ELSE -1
pb_get_encoded_size(mem, m, message) == SizeOf(pb_encode(PB_OSTREAM_SIZING(mem), m, message))
=============================================================================
