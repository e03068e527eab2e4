------------------------------- MODULE Nanopb -------------------------------
(***************************************************************************)
(* A message from a struct to a struct: a sender encodes it, the bytes may *)
(* be cut off, carry fields the receiver does not know or have their       *)
(* fields in another order, and a receiver decodes them.  The receiver of  *)
(* a Status is the driver, which fills its component table; the status     *)
(* core is always delimited.                                               *)
(***************************************************************************)
EXTENDS PbDecode, PbEncode

CONSTANTS
  Senders,         \* records: msg, mem, base, flags (for encoder and decoder), parts (of a
                   \* status core), received (no: its pointers cannot be decoded)
  UnknownFields,   \* encoded fields of tags that no message has
  DefaultOfDef,    \* the default of the member def of the messages
  Receiver         \* the memory of the receiver before it decodes

VARIABLES
  pbstep,    \* "new", "sent", "changed", "received", "exited"
  pbsender,  \* one of Senders
  pbwire,    \* the bytes
  pbchange,  \* what happened to them: "none", "unknown", "moved", "cut"
  pbenc,     \* the encoder, when done
  pbdec      \* the decoder, when done

pbvars == <<pbstep, pbsender, pbwire, pbchange, pbenc, pbdec>>

PbInit ==
  /\ pbstep = "new" /\ pbsender \in Senders
  /\ pbwire = <<>> /\ pbchange = "none"
  /\ pbenc = pb_ostream_from_buffer(<<>>, 0) /\ pbdec = NewDecoder

Encoded(s, size) == pb_encode_ex(pb_ostream_from_buffer(s.mem, size), Desc[s.msg], s.base, s.flags)

BufferSize == 2000

Encode ==
  /\ pbstep = "new"
  /\ pbenc' = Encoded(pbsender, BufferSize)
  /\ pbwire' = pbenc'.out
  /\ pbstep' = "sent"
  /\ UNCHANGED <<pbsender, pbchange, pbdec>>

Change(what, wire) ==
  /\ pbstep = "sent" /\ pbenc.ok /\ pbsender.received
  /\ pbwire' = wire
  /\ pbchange' = what
  /\ pbstep' = "changed"
  /\ UNCHANGED <<pbsender, pbenc, pbdec>>

Cut == \E n \in 0..(Len(pbwire) - 1) : Change("cut", SubSeq(pbwire, 1, n))

(* The offsets at which a field begins; the tag there.                     *)
Stream(n) == [pb_istream_from_buffer(NewDecoder, pbwire, Len(pbwire) - n) EXCEPT !.pos = n]
RECURSIVE BoundariesFrom(_)
BoundariesFrom(n) ==
  LET t == pb_decode_tag(Stream(n)) IN
  IF n = Len(pbwire) \/ t.tag = 0 THEN {n} ELSE {n} \cup BoundariesFrom(pb_skip_field(t, t.wire_type).pos)

(* An old receiver and a newer sender; a sender with another field order.  *)
(* In a delimited message the boundaries are inside.                       *)
AddUnknown ==
  /\ "DELIMITED" \notin pbsender.flags
  /\ \E u \in UnknownFields, n \in BoundariesFrom(0) :
       Change("unknown", SubSeq(pbwire, 1, n) \o u \o SubSeq(pbwire, n + 1, Len(pbwire)))

Reorder ==
  /\ pbsender.flags = {}
  /\ \E n \in BoundariesFrom(0) :
       Change("moved", SubSeq(pbwire, n + 1, Len(pbwire)) \o SubSeq(pbwire, 1, n))

Decoded(s, wire) ==
  IF s.msg = "Status" THEN tlkm_status_init(wire, Len(wire))
  ELSE pb_decode_ex(pb_istream_from_buffer([NewDecoder EXCEPT !.mem = Receiver], wire, Len(wire)),
                    Desc[s.msg], s.base, s.flags)

Decode ==
  /\ pbstep \in {"sent", "changed"} /\ pbenc.ok /\ pbsender.received
  /\ pbdec' = Decoded(pbsender, pbwire)
  /\ pbstep' = "received"
  /\ UNCHANGED <<pbsender, pbwire, pbchange, pbenc>>

(* tlkm_status_exit clears the struct; the table is the device's.          *)
StatusExit ==
  /\ pbstep = "received" /\ pbsender.msg = "Status"
  /\ pbdec' = tlkm_status_exit(pbdec)
  /\ pbstep' = "exited"
  /\ UNCHANGED <<pbsender, pbwire, pbchange, pbenc>>

PbNext == Encode \/ Cut \/ AddUnknown \/ Reorder \/ Decode \/ StatusExit

(***************************************************************************)
(* Properties.                                                             *)
(***************************************************************************)
(* What a struct says: per field of the declaration its value, whether it  *)
(* is there, how many entries it has, or which member of the union it is.  *)
(* An absent optional field has its default in a received struct.          *)
RECURSIVE View(_, _, _, _)
View(mem, m, base, received) ==
  LET value(x, a) == IF x.ltype = "MESSAGE" THEN View(mem, x.sub, a, received) ELSE mem[a]
      default(x) == IF x.name = "def" THEN DefaultOfDef ELSE IF x.ltype \in {"STRING", "BYTES"} THEN <<>> ELSE {}
      field(x) ==
        LET a == base + x.offset
            c == base + x.count_offset
        IN CASE x.atype = "CALLBACK" -> <<>>
             [] x.ltype = "EXTENSION" -> [k \in DOMAIN mem[a] |-> <<mem[mem[a][k].found],
                                            IF mem[mem[a][k].found] THEN mem[mem[a][k].dest] ELSE {}>>]
             [] x.atype # "CALLBACK" /\ x.ltype # "EXTENSION" ->
                CASE x.htype = "OPTIONAL" ->
                       <<mem[c], IF x.ltype = "MESSAGE" THEN IF mem[c] THEN value(x, a) ELSE <<>>
                                 ELSE IF mem[c] \/ received THEN mem[a] ELSE default(x)>>
                  [] x.htype = "REPEATED" -> [k \in 1..mem[c] |-> value(x, a + x.size * (k - 1))]
                  [] x.htype = "FIXARRAY" -> [k \in 1..x.entries |-> value(x, a + x.size * (k - 1))]
                  [] x.htype = "ONEOF" -> IF mem[c] = x.tag THEN <<value(x, a)>> ELSE <<>>
                  [] OTHER -> <<value(x, a)>>
  IN [i \in DOMAIN FieldList[m] |-> field(FieldList[m][i])]

(* pb_decode_ex makes of the bytes of pb_encode_ex the struct they were    *)
(* made from, whether or not fields of unknown tags are among them and     *)
(* whatever field comes first.                                             *)
FieldsRoundTrip ==
  pbstep = "received" /\ pbchange # "cut" /\ pbsender.msg # "Status" =>
    /\ pbdec.ok
    /\ View(pbdec.mem, pbsender.msg, pbsender.base, TRUE)
         = View(pbsender.mem, pbsender.msg, pbsender.base, FALSE)

(* The cells of a struct, and of what decoding keeps beside it.            *)
RECURSIVE Cells(_, _)
Cells(m, base) ==
  UNION {LET x == FieldList[m][i]
             entries == {base + x.offset + x.size * k : k \in 0..(x.entries - 1)}
         IN {base + x.count_offset}
            \cup IF x.ltype = "MESSAGE" /\ x.atype = "STATIC"
                 THEN UNION {Cells(x.sub, a) : a \in entries} ELSE entries
         : i \in DOMAIN FieldList[m]}

(* Decoding a message of which only a part arrived reads no byte that did  *)
(* not arrive and writes nowhere but into the struct and the component     *)
(* table; with a length before it, the part is refused.                    *)
DecodeBounded ==
  pbstep = "received" /\ pbchange = "cut" =>
    /\ pbdec.pos <= Len(pbdec.in)
    /\ \A a \in DOMAIN pbdec.mem : \/ a < 0 \/ a \in DOMAIN Receiver
                                   \/ a \in Cells(pbsender.msg, pbsender.base)
                                   \/ pbsender.msg = "Status" /\ a \in Cells("Platform", plat)
    /\ DOMAIN pbdec.comps = 0..(ComponentMax - 1)
    /\ "DELIMITED" \in pbsender.flags => ~pbdec.ok

WroteAll(e, n) == e.ok /\ e.out = pbenc.out /\ e.written = n /\ n = Len(pbenc.out)
WroteLess(e, n) == ~e.ok /\ Len(e.out) < n
FitsExactly(n) ==
  IF pbenc.ok THEN /\ WroteAll(Encoded(pbsender, n), n)
                   /\ n > 0 => WroteLess(Encoded(pbsender, n - 1), n)
  ELSE n = -1

(* pb_get_encoded_size is the number of bytes pb_encode writes: a buffer   *)
(* of that size is enough, one byte less is refused, and what was written  *)
(* by then fits.                                                           *)
SizesAgree ==
  pbstep = "sent" /\ pbsender.flags = {} =>
    FitsExactly(pb_get_encoded_size(pbsender.mem, Desc[pbsender.msg], pbsender.base))

(* After tlkm_status_init every platform component of the status core is   *)
(* found under its name, with its base and its size, and no other name is. *)
StatusTable ==
  pbstep \in {"received", "exited"} /\ pbchange # "cut" /\ pbsender.msg = "Status" =>
    /\ pbdec.ok /\ pbdec.cntr = Len(pbsender.parts)
    /\ \A i \in DOMAIN pbsender.parts :
         LET p == pbsender.parts[i]
         IN /\ tlkm_status_get_component_base(pbdec.comps, p.name) = p.offset
            /\ tlkm_status_get_component_size(pbdec.comps, p.name) = p.size
    /\ tlkm_status_get_component_base(pbdec.comps, <<{0}, {1}>>) = 0..63
=============================================================================
