------------------------------ MODULE PbDecode ------------------------------
(***************************************************************************)
(* Decoding a message into its struct (pb_decode.c, built without          *)
(* PB_ENABLE_MALLOC) and the status core (tlkm_status.c), whose callbacks  *)
(* fill the device's table of platform components.                         *)
(***************************************************************************)
EXTENDS PbMessage

CONSTANTS
  ComponentMax,   \* TLKM_COMPONENT_MAX
  NameMax         \* TLKM_COMPONENTS_NAME_MAX

Store(d, a, x) == [d EXCEPT !.mem = (a :> x) @@ @]

(***************************************************************************)
(* Field decoders.                                                         *)
(***************************************************************************)
StoreExact(r, f, clamped, value) ==
  IF clamped = value THEN Store(r, f.pData, Low(clamped, 8 * f.data_size))
  ELSE Fail(Store(r, f.pData, Low(clamped, 8 * f.data_size)))

ReadVarint(d, f) == IF f.ltype = PB_LTYPE_SVARINT THEN pb_decode_svarint(d) ELSE pb_decode_varint(d)

(* Mutant: a negative int32 is taken for an unsigned number.               *)
StoreUnsigned(r, f) == IF r.ok THEN StoreExact(r, f, Low(r.v, 8 * f.data_size), r.v) ELSE r
dec_varint_unsigned(d, f) == StoreUnsigned(ReadVarint(d, f), f)

(* A varint that is stored must not lose bits; svalue is the signed value. *)
svalue(v, f) == IF f.ltype = PB_LTYPE_VARINT /\ f.data_size # 8 THEN SignExtend(v, 32) ELSE v
StoreVarint(r, f) ==
  CASE ~r.ok -> r
    [] r.ok /\ f.data_size \notin {1, 2, 4, 8} -> Fail(r)
    [] OTHER -> IF f.ltype = PB_LTYPE_UVARINT THEN StoreExact(r, f, Low(r.v, 8 * f.data_size), r.v)
                ELSE StoreExact(r, f, SignExtend(svalue(r.v, f), 8 * f.data_size), svalue(r.v, f))
pb_dec_varint(d, f) == StoreVarint(ReadVarint(d, f), f)

(* What was read goes to the cell of the field.                            *)
StoreRead(r, f) == IF r.ok THEN Store(r, f.pData, r.v) ELSE r

pb_dec_fixed(d, f) ==
  CASE f.data_size = 4 -> StoreRead(pb_decode_fixed32(d), f)
    [] f.data_size = 8 -> StoreRead(pb_decode_fixed64(d), f)
    [] OTHER -> Fail(d)

ReadInto(d, f, size) == StoreRead(pb_read(d, size), f)

(* The three decoders that read a length first, which r holds.             *)
(* PB_BYTES_ARRAY_T_ALLOCSIZE adds the two bytes of the size member.       *)
pb_dec_bytes(r, f) ==
  IF /\ r.ok /\ r.v \subseteq 0..15
     /\ f.atype # Pointer /\ Num(r.v) + 2 <= f.data_size
  THEN ReadInto(r, f, Num(r.v)) ELSE Fail(r)

(* One byte for the terminator.                                            *)
pb_dec_string(r, f) ==
  IF r.ok /\ f.atype # Pointer /\ Num(r.v) + 1 <= f.data_size
  THEN ReadInto(Store(r, f.pData, <<>>), f, Num(r.v)) ELSE Fail(r)

pb_dec_fixed_length_bytes(r, f) ==
  CASE ~r.ok \/ ~(r.v \subseteq 0..15) -> Fail(r)
    [] r.ok /\ r.v = {} -> Store(r, f.pData, [i \in 1..f.data_size |-> {}])
    [] OTHER -> IF Num(r.v) = f.data_size THEN ReadInto(r, f, f.data_size) ELSE Fail(r)

RECURSIVE pb_decode_ex(_, _, _, _)

(* An array entry and a oneof are initialised, other submessages were with *)
(* the message they are in.                                                *)
pb_dec_submessage(sub, f) ==
  IF sub.ok
  THEN pb_close_string_substream(
         pb_decode_ex(sub, f.submsg_desc, f.pData, IF f.htype \in {Repeated, OneOf} THEN {} ELSE {"NOINIT"}),
         sub.rest)
  ELSE sub

decode_basic_field(d, f) ==
  CASE f.ltype \in {PB_LTYPE_VARINT, PB_LTYPE_UVARINT, PB_LTYPE_SVARINT} -> pb_dec_varint(d, f)
    [] f.ltype \in {PB_LTYPE_FIXED32, PB_LTYPE_FIXED64} -> pb_dec_fixed(d, f)
    [] f.ltype = PB_LTYPE_BYTES -> pb_dec_bytes(pb_decode_varint32(d), f)
    [] f.ltype = PB_LTYPE_STRING -> pb_dec_string(pb_decode_varint32(d), f)
    [] f.ltype = PB_LTYPE_SUBMESSAGE -> pb_dec_submessage(pb_make_string_substream(d), f)
    [] f.ltype = PB_LTYPE_FIXED_LENGTH_BYTES -> pb_dec_fixed_length_bytes(pb_decode_varint32(d), f)
    [] OTHER -> Fail(d)

(***************************************************************************)
(* A field of a message.                                                   *)
(***************************************************************************)
Entry(f, n) == [f EXCEPT !.pData = f.pField + f.data_size * n]

(* The entries of a packed array, while there is room.                     *)
RECURSIVE decode_packed(_, _)
CountEntry(r, f, size) == IF r.ok THEN decode_packed(Store(r, f.pSize, size + 1), f) ELSE r
decode_packed(d, f) ==
  LET size == d.mem[f.pSize]
  IN IF d.left > 0 /\ size < f.array_size
     THEN CountEntry(decode_basic_field(d, Entry(f, size)), f, size)
     ELSE IF d.left > 0 THEN Fail(d) ELSE d
PackedIn(sub, f) ==
  IF sub.ok THEN pb_close_string_substream(decode_packed(sub, f), sub.rest) ELSE sub

(* memset of a oneof's submessage: callbacks, for one, become NULL.        *)
ZeroMessage(d, m, message) ==
  LET cells == {message + m.field_info[i].data_offset : i \in DOMAIN m.field_info}
      at(a) == CHOOSE i \in DOMAIN m.field_info : message + m.field_info[i].data_offset = a
  IN [d EXCEPT !.mem = [a \in cells |-> ZeroOf(m.field_info[at(a)])] @@ @]

(* has_, _count or which_, which is set before the value is decoded.       *)
SetSize(d, f) ==
  CASE f.htype = Required -> d
    [] f.htype = Optional -> IF f.pSize # NULL THEN Store(d, f.pSize, TRUE) ELSE d
    [] f.htype = Repeated -> Store(d, f.pSize, d.mem[f.pSize] + 1)
    [] f.htype = OneOf -> IF f.ltype = PB_LTYPE_SUBMESSAGE
                          THEN ZeroMessage(Store(d, f.pSize, f.tag), f.submsg_desc, f.pData)
                          ELSE Store(d, f.pSize, f.tag)

decode_static_field(d, wire_type, f) ==
  IF f.htype = Repeated /\ wire_type = PB_WT_STRING /\ f.ltype <= PB_LTYPE_LAST_PACKABLE
  THEN PackedIn(pb_make_string_substream(d), f)
  ELSE IF f.htype = Repeated /\ d.mem[f.pSize] >= f.array_size THEN Fail(SetSize(d, f))
  ELSE decode_basic_field(SetSize(d, f), IF f.htype = Repeated THEN Entry(f, d.mem[f.pSize]) ELSE f)

decode_pointer_field(d, wire_type, f) == Fail(d)

(***************************************************************************)
(* The callbacks of the status core.  A callback member is <<>> (no        *)
(* function), <<"add_component">>, or <<"parse_string", k>> with the name  *)
(* of component k as arg.                                                  *)
(***************************************************************************)
Name(bytes) == [name |-> bytes, offset |-> 0..63, size |-> {}]

(* At most NameMax - 1 bytes; the name is cleared first.                   *)
SetName(r, k) == [r EXCEPT !.comps = (k :> [@[k] EXCEPT !.name = r.v]) @@ @]
parse_string(d, k) ==
  SetName(pb_read(d, IF d.left > NameMax - 1 THEN NameMax - 1 ELSE d.left), k)

(* The struct plat on the stack of add_component.                          *)
plat == 1000
PlatMember(name) == plat + (CHOOSE x \in Range(StatusFieldList.Platform) : x.name = name).offset

Component(comps, k) == IF k \in DOMAIN comps THEN comps[k] ELSE Name(<<>>)

DecodePlat(d, k) ==
  pb_decode_ex([Store(ZeroMessage(d, Desc["Platform"], plat), PlatMember("name"), <<"parse_string", k>>)
                  EXCEPT !.comps = (k :> Component(@, k)) @@ @],
               Desc["Platform"], plat, {})
CopyPlat(r, k) ==
  [r EXCEPT !.comps = (k :> [Component(@, k) EXCEPT !.offset = r.mem[PlatMember("offset")],
                                                   !.size = r.mem[PlatMember("size")]]) @@ @]

(* Mutant: the counter is advanced before the offset and the size are      *)
(* stored.                                                                 *)
add_component_early(d) == [CopyPlat(DecodePlat(d, d.cntr), d.cntr + 1) EXCEPT !.cntr = d.cntr + 1]

(* The offset and the size are copied whether decoding succeeded or not.   *)
add_component(d) == [CopyPlat(DecodePlat(d, d.cntr), d.cntr) EXCEPT !.cntr = @ + 1]

pb_default_field_callback(d, f) ==
  LET callback == d.mem[f.pData]
  IN CASE callback = <<>> -> d
       [] callback # <<>> /\ callback[1] = "parse_string" -> parse_string(d, callback[2])
       [] callback # <<>> /\ callback[1] = "add_component" -> add_component(d)

(* The callback is called again while it takes some but not all bytes.     *)
RECURSIVE callback_loop(_, _)
CallAgain(r, left, f) == IF r.ok /\ r.left > 0 /\ r.left < left THEN callback_loop(r, f) ELSE r
callback_loop(d, f) == CallAgain(pb_default_field_callback(d, f), d.left, f)

OnStream(d, s) == [d EXCEPT !.in = s.in, !.pos = s.pos, !.left = s.left,
                            !.tag = s.tag, !.wire_type = s.wire_type]

CallbackIn(sub, f) ==
  IF sub.ok THEN pb_close_string_substream(callback_loop(sub, f), sub.rest) ELSE sub

(* A scalar is copied, and the callback gets a stream of its bytes.        *)
CallbackScalar(raw, f) ==
  IF raw.ok
  THEN OnStream(pb_default_field_callback(pb_istream_from_buffer(raw, raw.v, Len(raw.v)), f), raw)
  ELSE raw

decode_callback_field(d, wire_type, f) ==
  IF ~f.msg.field_callback THEN pb_skip_field(d, wire_type)
  ELSE IF wire_type = PB_WT_STRING THEN CallbackIn(pb_make_string_substream(d), f)
  ELSE CallbackScalar(read_raw_value(d, wire_type), f)

decode_field(d, wire_type, f) ==
  CASE f.atype = Static -> decode_static_field(d, wire_type, f)
    [] f.atype = Pointer -> decode_pointer_field(d, wire_type, f)
    [] f.atype = Callback -> decode_callback_field(d, wire_type, f)

(***************************************************************************)
(* Extensions: the placeholder's cell is the list of them, each with its   *)
(* descriptor (of one field), the address of its data and of found.        *)
(***************************************************************************)
ExtensionField(d, tag, wire_type, f) ==
  IF f.tag # tag THEN d ELSE decode_field(Store(d, f.pSize, TRUE), wire_type, f)
default_extension_decoder(d, ext, tag, wire_type) ==
  ExtensionField(d, tag, wire_type, pb_field_iter_begin_extension(d.mem, ext))

(* In turn, until one has read something.                                  *)
decode_extension(d, tag, wire_type, exts) ==
  FoldLeft(LAMBDA x, ext : IF ~x.ok \/ x.left # d.left THEN x
                           ELSE default_extension_decoder(x, ext, tag, wire_type),
           d, exts)

(* The index of the message's extension field; 0 if it has none.           *)
find_extension_field(m) ==
  LET at == {i \in DOMAIN m.field_info : m.field_info[i].ltype = PB_LTYPE_EXTENSION}
  IN IF at = {} THEN 0 ELSE Min(at)

(***************************************************************************)
(* Defaults.                                                               *)
(***************************************************************************)
RECURSIVE pb_message_set_to_defaults(_, _, _)
(* The extensions have no default_value of their own.                      *)
RECURSIVE pb_field_set_to_default(_, _)
pb_field_set_to_default(d, f) ==
  CASE f.ltype = PB_LTYPE_EXTENSION ->
         FoldLeft(LAMBDA x, ext : pb_field_set_to_default(Store(x, ext.found, FALSE),
                                                          pb_field_iter_begin_extension(x.mem, ext)),
                  d, d.mem[f.pData])
    [] f.ltype # PB_LTYPE_EXTENSION /\ f.atype = Static ->
         IF f.htype \in {Repeated, OneOf}
         THEN IF f.pSize = ArraySizeCell THEN d ELSE Store(d, f.pSize, 0)
         ELSE LET r == IF f.htype = Optional /\ f.pSize # NULL THEN Store(d, f.pSize, FALSE) ELSE d
              IN IF f.ltype = PB_LTYPE_SUBMESSAGE
                 THEN pb_message_set_to_defaults(r, f.submsg_desc, f.pData)
                 ELSE Store(r, f.pData, ZeroOf(f))
    [] f.ltype # PB_LTYPE_EXTENSION /\ f.atype = Pointer ->
         LET r == Store(d, f.pField, NULL)
         IN IF f.htype \in {Repeated, OneOf} THEN Store(r, f.pSize, 0) ELSE r
    [] OTHER -> d

(* default_value holds fields in the order of tags; the stream is at one.  *)
ClearHas(d, f) == IF f.pSize = NULL THEN d ELSE Store(d, f.pSize, FALSE)
DefaultOf(d, f) ==
  IF d.tag = 0 \/ f.tag # d.tag THEN d
  ELSE ClearHas(pb_decode_tag(decode_field(d, d.wire_type, f)), f)
SetDefault(d, f) == DefaultOf(OnStream(pb_field_set_to_default(d, f), d), f)

StreamMax == 2^21
defstream(d, m) ==
  IF m.default_value = <<>> THEN [d EXCEPT !.tag = 0]
  ELSE pb_decode_tag(pb_istream_from_buffer(d, m.default_value, StreamMax))
pb_message_set_to_defaults(d, m, message) ==
  OnStream(FoldLeft(LAMBDA x, i : IF x.ok THEN SetDefault(x, load_descriptor_values(x.mem, m, message, i))
                                  ELSE x,
                    defstream(d, m), [i \in DOMAIN m.field_info |-> i]),
           d)

(***************************************************************************)
(* All fields.  it holds what pb_decode_inner keeps between two fields:    *)
(* the iterator's index, extension_range_start, the required fields seen   *)
(* and the fixed-count array being received (0: none).                     *)
(***************************************************************************)
PB_MAX_REQUIRED_FIELDS == 64
fixed_count_size(message) == -2 - message
MaxTag == 2^29

RECURSIVE decode_fields(_, _, _, _, _)

(* No field of this tag: an extension, or data to skip.  ext is the index  *)
(* of the extension field, start the new extension_range_start.            *)
ExtensionStart(m, ext, it, tag) ==
  IF tag < it.ext_start THEN it.ext_start ELSE IF ext = 0 THEN MaxTag ELSE m.field_info[ext].tag
ViaExtension(t, m, message, it, ext, start) ==
  IF t.tag >= it.ext_start /\ t.tag >= start
  THEN decode_extension(t, t.tag, t.wire_type, t.mem[message + m.field_info[ext].data_offset])
  ELSE t
SkipUnread(d, t) == IF d.ok /\ d.left = t.left THEN pb_skip_field(d, t.wire_type) ELSE d
decode_unknown(t, m, message, flags, it, ext, start) ==
  decode_fields(SkipUnread(ViaExtension(t, m, message, it, ext, start), t), m, message, flags,
                [it EXCEPT !.ext_start = start,
                           !.index = IF t.tag >= it.ext_start /\ ext # 0 THEN ext ELSE @])

(* Field f.  A fixed-count array is counted beside the message, and the    *)
(* one before it must be complete when it begins.                          *)
IsFixed(f) == f.htype = Repeated /\ f.pSize = ArraySizeCell
decode_fixed_count(t, m, message, f, it) ==
  IF ~IsFixed(f) \/ it.fixed = f.index THEN t
  ELSE IF /\ it.fixed # 0
          /\ t.mem[fixed_count_size(message)] # m.field_info[it.fixed].array_size
  THEN Fail(t)
  ELSE Store(t, fixed_count_size(message), 0)
DecodeCounted(d, f) ==
  IF d.ok THEN decode_field(d, d.wire_type,
                            IF IsFixed(f) THEN [f EXCEPT !.pSize = fixed_count_size(f.message)] ELSE f)
  ELSE d
decode_known(t, m, message, flags, it, f) ==
  decode_fields(DecodeCounted(decode_fixed_count(t, m, message, f, it), f), m, message, flags,
                [it EXCEPT !.index = f.index,
                           !.fixed = IF IsFixed(f) THEN f.index ELSE @,
                           !.seen = IF f.htype = Required /\ f.required_field_index < PB_MAX_REQUIRED_FIELDS
                                    THEN @ \cup {f.required_field_index} ELSE @])

decode_tagged(t, m, message, flags, it, found) ==
  CASE ~t.ok -> <<IF t.eof THEN [t EXCEPT !.ok = TRUE] ELSE t, it>>
    [] t.ok /\ t.tag = 0 -> <<IF "NULLTERMINATED" \in flags THEN t ELSE Fail(t), it>>
    [] OTHER -> IF found = 0 \/ m.field_info[found].ltype = PB_LTYPE_EXTENSION
                THEN decode_unknown(t, m, message, flags, it, find_extension_field(m),
                                    ExtensionStart(m, find_extension_field(m), it, t.tag))
                ELSE decode_known(t, m, message, flags, it,
                                  load_descriptor_values(t.mem, m, message, found))
decode_next(t, m, message, flags, it) ==
  decode_tagged(t, m, message, flags, it, pb_field_iter_find(m, it.index, t.tag))
decode_fields(d, m, message, flags, it) ==
  IF d.left = 0 \/ ~d.ok THEN <<d, it>> ELSE decode_next(pb_decode_tag(d), m, message, flags, it)

(* The last fixed-count array is complete, the required fields were seen.  *)
Complete(r, m, message, it, required) ==
  /\ it.fixed = 0 \/ r.mem[fixed_count_size(message)] = m.field_info[it.fixed].array_size
  /\ \A i \in 0..(required - 1) : i < PB_MAX_REQUIRED_FIELDS => i \in it.seen
CheckComplete(end, m, message) ==
  IF end[1].ok /\ ~Complete(end[1], m, message, end[2], Cardinality(RequiredFields(m)))
  THEN Fail(end[1]) ELSE end[1]
pb_decode_inner(d, m, message, flags) ==
  CheckComplete(decode_fields(d, m, message, flags, [index |-> 1, ext_start |-> 0, seen |-> {}, fixed |-> 0]),
                m, message)

DecodeDelimited(sub, m, message, flags) ==
  IF sub.ok THEN pb_close_string_substream(pb_decode_inner(sub, m, message, flags), sub.rest) ELSE sub
DecodeReady(d, m, message, flags) ==
  CASE ~d.ok -> d
    [] d.ok /\ "DELIMITED" \in flags ->
         DecodeDelimited(pb_make_string_substream(d), m, message, flags)
    [] OTHER -> pb_decode_inner(d, m, message, flags)
pb_decode_ex(d, m, message, flags) ==
  DecodeReady(IF "NOINIT" \in flags THEN d ELSE pb_message_set_to_defaults(d, m, message),
              m, message, flags)

(***************************************************************************)
(* The status core.                                                        *)
(***************************************************************************)
sta == 1
StatusMember(name) == sta + (CHOOSE x \in Range(StatusFieldList.Status) : x.name = name).offset

NewDecoder == [in |-> <<>>, pos |-> 0, left |-> 0, rest |-> 0, ok |-> TRUE, v |-> {}, eof |-> FALSE,
               tag |-> 0, wire_type |-> 0, mem |-> [a \in {} |-> {}],
               comps |-> [k \in 0..(ComponentMax - 1) |-> Name(<<>>)], cntr |-> 0]

(* The parsed status core, in a region of size bytes.                      *)
tlkm_status_init(status, size) ==
  LET zero == ZeroMessage(NewDecoder, Desc["Status"], sta)
      d == Store(zero, StatusMember("platform"), <<"add_component">>)
  IN pb_decode_ex(pb_istream_from_buffer(d, status, size), Desc["Status"], sta, {"DELIMITED"})

tlkm_status_exit(d) == ZeroMessage(d, Desc["Status"], sta)

(* The first component of this name; an unused entry has the empty name,   *)
(* and the offset -1 (all bits).                                           *)
tlkm_status_get_component_base(comps, c) ==
  LET at == {k \in 0..(ComponentMax - 1) : comps[k].name = c}
  IN IF at = {} THEN 0..63 ELSE comps[Min(at)].offset

tlkm_status_get_component_size(comps, c) ==
  LET at == {k \in 0..(ComponentMax - 1) : comps[k].name = c}
  IN IF at = {} THEN 0..63 ELSE comps[Min(at)].size
=============================================================================
