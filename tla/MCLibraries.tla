---------------------------- MODULE MCLibraries ----------------------------
(***************************************************************************)
(* The two libraries the repository carries with it, in one run: protocol  *)
(* buffers with the status core (Nanopb) and random numbers (Pcg).  part   *)
(* says which of them a behaviour is about.                                *)
(***************************************************************************)
EXTENDS Nanopb, Pcg, FiniteSets

-----------------------------------------------------------------------------
(* Messages for Nanopb: the status core's, and one with a field of every   *)
(* kind that a static struct can hold.                                     *)

Entries(x, n) == [x EXCEPT !.entries = n]
FieldLists ==
  [Rec |-> << Field("STATIC", "REQUIRED", "INT32", "id", 1, 0, 4),
              With(Field("STATIC", "OPTIONAL", "UINT32", "opt", 2, 8, 4), 4),
              Field("STATIC", "SINGULAR", "SINT64", "sing", 3, 16, 8),
              With(Entries(Field("STATIC", "REPEATED", "UINT32", "rep", 4, 28, 4), 2), 24),
              Entries(Field("STATIC", "FIXARRAY", "FIXED32", "fix", 5, 36, 4), 2),
              With(Field("STATIC", "ONEOF", "UINT32", "num", 6, 48, 4), 44),
              With(OfType(Field("STATIC", "ONEOF", "MESSAGE", "sub", 7, 48, 16), "Sub"), 44),
              Field("STATIC", "SINGULAR", "STRING", "str", 8, 64, 4),
              With(Field("STATIC", "OPTIONAL", "BYTES", "bytes", 9, 70, 4), 68),
              Field("STATIC", "SINGULAR", "EXTENSION", "ext", 10, 80, 8),
              With(Field("STATIC", "OPTIONAL", "FIXED64", "def", 50, 96, 8), 88) >>,
   Sub |-> << Field("STATIC", "SINGULAR", "UINT64", "x", 1, 0, 8),
              With(Entries(Field("STATIC", "REPEATED", "STRING", "names", 2, 10, 3), 2), 8) >>,
   Ext |-> << Field("STATIC", "SINGULAR", "INT32", "value", 12, 0, 4) >>,
   Ptr |-> << Field("POINTER", "REQUIRED", "UINT32", "id", 1, 0, 4),
              Field("POINTER", "OPTIONAL", "STRING", "name", 2, 8, 1),
              With(Field("POINTER", "REPEATED", "BYTES", "parts", 3, 24, 1), 16) >>] @@ StatusFieldList
Callbacks == DOMAIN StatusFieldList \ {"MemoryArea"}
MCDefault == {0, 40}
Defaults == [m \in DOMAIN FieldLists |->
  IF m = "Rec" THEN <<Bits(145), Bits(3)>> \o ToBytes(MCDefault, 8) \o << {} >> ELSE <<>>]

(* TLC evaluates the definition that a constant stands for at every use,   *)
(* unless it only names another one.                                       *)
MCMessages == DOMAIN FieldLists
MCFieldList == FieldLists
MCFieldCallback == Callbacks
MCDefaultValue == Defaults

Base == 1
Extension == [type |-> Desc["Ext"], dest |-> 2000, found |-> 2100]
Received == (Base + 80 :> <<Extension>>) @@ (2000 :> {}) @@ (2100 :> FALSE)
MCReceiver == Received

Minus1(w) == 0..(w - 1)
Letter(n) == [i \in 1..n |-> Bits(97)]

(* One field at a time takes each of its values, the others keep theirs.   *)
Plain == [id |-> {0}, opt |-> <<>>, sing |-> {}, rep |-> <<>>, which |-> 0, sub |-> <<{}, <<>> >>,
          str |-> <<>>, bytes |-> <<>>, ext |-> <<>>, def |-> <<>>]
Full == [id |-> Minus1(32), opt |-> << {31} >>, sing |-> Minus1(64), rep |-> << {0, 2}, {3, 8} >>, which |-> 7,
         sub |-> << {63}, << Letter(2), Letter(1) >> >>, str |-> Letter(3), bytes |-> << << {7}, {} >> >>,
         ext |-> << {31} >>, def |-> << {1} >>]
Values ==
  {Plain, Full}
  \cup {[Plain EXCEPT !.id = v, !.sing = s] : v \in {{}, {6}, {7}, {31}, Minus1(31)}, s \in {{}, {0}, {35}, {63}, Minus1(64)}}
  \cup {[b EXCEPT !.opt = o, !.rep = r] : b \in {Plain, Full}, o \in {<<>>, << {} >>, << Minus1(32) >>},
                                          r \in {<<>>, << {} >>, << {20}, {0} >>}}
  \cup {[b EXCEPT !.which = w, !.sub = s] : b \in {Plain, Full}, w \in {0, 6, 7},
                                           s \in {<<{}, <<>> >>, << {31, 32}, << <<>>, Letter(2) >> >>}}
  \cup {[b EXCEPT !.str = t, !.ext = x, !.def = y, !.bytes = y2] : b \in {Plain}, t \in {<<>>, Letter(1)},
          x \in {<<>>, << {3} >>}, y \in {<<>>, << {} >>}, y2 \in {<<>>, << <<>> >>, << << {1} >> >>}}

Given(o, zero) == IF o = <<>> THEN zero ELSE o[1]
MemOf(v) ==
  LET cells == << {}, v.id >> IN
  (Base :> v.id) @@ (Base + 4 :> (v.opt # <<>>)) @@ (Base + 8 :> Given(v.opt, {})) @@ (Base + 16 :> v.sing)
  @@ (Base + 24 :> Len(v.rep)) @@ [a \in {Base + 28 + 4 * (k - 1) : k \in DOMAIN v.rep} |-> v.rep[(a - Base - 24) \div 4]]
  @@ (Base + 36 :> v.id) @@ (Base + 40 :> {9})
  @@ (Base + 44 :> v.which) @@ (Base + 48 :> v.sub[1])
  @@ (Base + 56 :> Len(v.sub[2])) @@ [a \in {Base + 58 + 3 * (k - 1) : k \in DOMAIN v.sub[2]} |-> v.sub[2][(a - Base - 55) \div 3]]
  @@ (Base + 64 :> v.str) @@ (Base + 68 :> (v.bytes # <<>>)) @@ (Base + 70 :> Given(v.bytes, <<>>))
  @@ (Base + 80 :> <<Extension>>) @@ (2000 :> Given(v.ext, {})) @@ (2100 :> (v.ext # <<>>))
  @@ (Base + 88 :> (v.def # <<>>)) @@ (Base + 96 :> Given(v.def, {}))

Recs == {[msg |-> "Rec", mem |-> MemOf(v), base |-> Base, flags |-> f, parts |-> <<>>, received |-> TRUE]
           : v \in {w \in Values : w.which # 6 \/ w.sub[1] \subseteq 0..31}, f \in {{}, {"DELIMITED"}, {"NULLTERMINATED"}}}

(* Status cores: none to TLKM_COMPONENT_MAX components.                    *)
Part(i, n) == [name |-> Letter(n) \o << Bits(65 + i) >>, offset |-> Bits(i) \cup {40}, size |-> {16}]
PartLists == {[i \in 1..n |-> Part(i, 1)] : n \in {0, 1, 2, ComponentMax}}
             \cup {<< Part(1, NameMax - 2), Part(2, NameMax - 3), Part(0, 0) >>}
PlatformAt(i) == 3000 + 100 * i
MCStatus(parts) ==
  FoldLeft(LAMBDA mem, i :
             (PlatformAt(i) :> <<"encode_string", parts[i].name>>) @@ (PlatformAt(i) + 16 :> parts[i].offset)
             @@ (PlatformAt(i) + 24 :> parts[i].size) @@ (PlatformAt(i) + 32 :> <<"encode_messages", <<2900>> >>) @@ mem,
           (1 :> {2}) @@ (9 :> TRUE) @@ (17 :> {33}) @@ (25 :> {12}) @@ (33 :> FALSE) @@ (41 :> {}) @@ (49 :> {})
           @@ (57 :> <<>>) @@ (73 :> <<"encode_messages", [i \in DOMAIN parts |-> PlatformAt(i)]>>)
           @@ (89 :> <<>>) @@ (105 :> <<>>)
           @@ (2900 :> {4}) @@ (2908 :> <<"encode_string", Letter(2)>>),
           [i \in DOMAIN parts |-> i])
Statuses == {[msg |-> "Status", mem |-> MCStatus(p), base |-> sta, flags |-> {"DELIMITED"}, parts |-> p, received |-> TRUE] : p \in PartLists}

(* Pointer members are only encoded.                                       *)
Ptrs == {[msg |-> "Ptr", base |-> Base, flags |-> {}, parts |-> <<>>, received |-> FALSE,
          mem |-> (Base :> i) @@ (Base + 8 :> n) @@ (Base + 16 :> c) @@ (Base + 24 :> 500)
                  @@ (500 :> 600) @@ (501 :> NULL) @@ (600 :> << {1}, {2} >>) @@ (700 :> {9}) @@ (800 :> Letter(2))]
           : i \in {NULL, 700}, n \in {NULL, 800}, c \in 0..2}

MCSenders == Recs \cup Statuses \cup Ptrs

(* A field of each wire type.                                              *)
MCUnknownFields == { << Bits(13 * 8), Bits(129), {0} >>, << Bits(13 * 8 + 1) >> \o Letter(8),
                     << Bits(14 * 8 + 2), {1}, {7}, {} >>, << Bits(14 * 8 + 5) >> \o Letter(4) }

(* The static assertions hold of every message.  Whatever they accept is   *)
(* unpacked as it was declared, but for bit 8 of a tag in the two-word     *)
(* format, which PB_FIELDINFO_2 masks out.                                 *)
ASSUME StaticAssertions ==
  \A m \in MCMessages : \A i \in DOMAIN MCFieldList[m] :
    LET x == MCFieldList[m][i] IN PB_FIELDINFO_ASSERT(PB_FIELDINFO_WIDTH_AUTO(x), x)

Declarations ==
  {With(Entries(Field(a, h, t, "x", tag, offset, size), n), c) :
     a \in {"STATIC", "CALLBACK"}, h \in {"REQUIRED", "OPTIONAL", "REPEATED"}, t \in {"UINT32", "BYTES"},
     tag \in {1, 63, 64, 255, 256, 512, 1023, 65535}, offset \in {8, 255, 256, 65535},
     size \in {1, 15, 16, 4095, 4096}, n \in {1, 4095, 65535}, c \in {0, 7, 254}}

ASSUME DescriptorsExact ==
  \A width \in {1, 2, 4} : \A x \in Declarations :
    /\ PB_FIELDINFO_ASSERT(width, x)
    /\ PB_SIZE_OFFSET(x) \in -128..127
    /\ width = 2 => 8 \notin Bits(x.tag)
    => LET u == UnpackWords(PB_FIELDINFO(width, x))
       IN /\ u.tag = x.tag /\ u.data_offset = x.offset /\ u.data_size = x.size
          /\ u.array_size = PB_ARRAY_SIZE(x) /\ u.size_offset = PB_SIZE_OFFSET(x)
          /\ u.ltype = PB_LTYPE_MAP(x.ltype)
          /\ u.htype = PB_HTYPE(x.htype) /\ u.atype = PB_ATYPE(x.atype)

-----------------------------------------------------------------------------
(* Generator classes for Pcg: the library's 8 and 16 bit types, and the    *)
(* extended generators of 16 bit state and 8 bit results that stand for    *)
(* the shipped ones of 64 and 32 bits (TickLimit is the state's width).    *)
(* What only concerns the operators is evaluated by the ASSUMEs.           *)

Engine(bits, xbits, stream, fn, prev) ==
  [bits |-> bits, xbits |-> xbits, stream |-> stream, output |-> fn, prev |-> prev,
   table_pow2 |-> -1, advance_pow2 |-> 0, kdd |-> TRUE]
Extended(g, table, adv, kdd) ==
  [g EXCEPT !.table_pow2 = table, !.advance_pow2 = adv, !.kdd = kdd]

oneseq_8 == Engine(8, 8, "oneseq", "rxs_m_xs", TRUE)
mcg_16 == Engine(16, 8, "mcg", "xsh_rs", TRUE)
Generators ==
  {oneseq_8, [oneseq_8 EXCEPT !.stream = "setseq"], mcg_16,
   Engine(16, 8, "unique", "xsh_rr", TRUE),
   Extended(Engine(16, 8, "oneseq", "xsh_rs", TRUE), 1, 1, TRUE),
   Extended(Engine(16, 8, "setseq", "xsh_rr", TRUE), 1, 4, TRUE),
   Extended(Engine(16, 8, "mcg", "xsl_rr", FALSE), 1, 3, TRUE),
   Extended(mcg_16, 1, 3, FALSE)}

\* The last jump wraps the entries of a table that moves with every other call.
Distances == << {0, 3, 6, 530}, {1, 20} >>
\* Entries a step or two before zero, and one at zero.
Data == { <<202, 250>>, <<0, 7>> }
(* TLC evaluates the definition that a constant stands for at every use,   *)
(* unless it only names another one.                                       *)
MCClasses == Generators
MCJumps == Distances
MCTables == Data
Unused == [state |-> 0, inc |-> 0, data |-> <<>>]

(* unoutput inverts the output function the inside-out generators use.     *)
ASSUME OutputInverted ==
  /\ \A s \in 0..255 : unoutput(rxs_m_xs(s, 8, 8), 8) = s
  /\ \A k \in 0..4095 : LET s == (k * 8191) % 2^16 IN unoutput(rxs_m_xs(s, 16, 16), 16) = s

(* Reduced results are evenly spread: with the bits that choose shift or   *)
(* rotation and the discarded bits fixed, each result occurs once.         *)
Spread(out(_), fixed, low) == Cardinality({out(fixed + m * 2^low) : m \in 0..255}) = 256
ASSUME OutputsSpread ==
  /\ \A t \in 0..7, l \in {0, 9, 31} : Spread(LAMBDA x : xsh_rr(x, 16, 8), t * 2^13 + l, 5)
  /\ \A r \in 0..3 : \A h \in 0 .. 2^(3 - r) - 1 :
       Spread(LAMBDA x : xsh_rs(x, 16, 8), r * 2^14 + h * 2^(11 + r) + r, 3 + r)
  /\ \A r \in 0..3 : \A h \in 0 .. 2^(6 - r) - 1 :
       Spread(LAMBDA x : rxs(x, 16, 8), r * 2^14 + h * 2^(8 + r), r)
  /\ \A h \in {k * 17 : k \in 0..15} :
       /\ Spread(LAMBDA x : xsl_rr(x, 16, 8), h * 256, 0)
       /\ Spread(LAMBDA x : xsl(x, 16, 8), h * 256, 0)
       /\ Spread(LAMBDA x : xsh(x, 16, 8), h, 8)
       /\ Spread(LAMBDA x : xsl_rr_rr(x, 16), h * 256, 0)
       /\ Spread(LAMBDA x : rxs_m(x, 8, 8), 0, 0)

(* An engine runs through 2^period_pow2 states, and wraps once.            *)
FullPeriod(g, seq) ==
  LET orbit == {engine_advance(g, engine(g, 5, seq), d) : d \in 0 .. 2^period_pow2(g) - 1}
  IN Cardinality(orbit) = 2^period_pow2(g) /\ Cardinality({r \in orbit : wrapped(g, r)}) = 1
ASSUME EnginesFullPeriod ==
  \A stream \in {"oneseq", "setseq", "unique", "mcg"}, seq \in {0, 1, 2, 77, 255} :
    FullPeriod([oneseq_8 EXCEPT !.stream = stream], seq)

(* bounded_rand accepts the same number of results for each value, at      *)
(* least half of all; shuffle can reach each permutation in one way.       *)
ASSUME BoundedFair ==
  \A ub \in 1..255 : /\ (256 - threshold(8, ub)) % ub = 0
                     /\ threshold(8, ub) < 128
Chosen == {f \in [2..4 -> 0..3] : \A n \in 2..4 : f[n] < n}
ASSUME ShuffleFair == Cardinality({shuffle(<<1, 2, 3, 4>>, f) : f \in Chosen}) = 24

(* uneven_copy copies the bits in order, from as many words as generate_to *)
(* asks for.                                                               *)
BitAt(s, size, k) == High(s[(k \div size) + 1], k % size) % 2
ASSUME CopyInOrder ==
  \A dest \in {1, 2, 8}, n \in 1..3 :
    \A src \in [1 .. FROM_ELEMS(n, 4, dest) -> {0, 5, 6, 11}] :
      \A k \in 0 .. n * dest - 1 :
        BitAt(uneven_copy(src, n, 4, dest), dest, k) = BitAt(src, 4, k)

(* A seed sequence hands out the results in the order they are drawn.      *)
ASSUME SeedsInOrder ==
  \A n \in 1..4 : generate(oneseq_8, engine(oneseq_8, 1, 0), n)[n]
                    = call(oneseq_8, engine_advance(oneseq_8, engine(oneseq_8, 1, 0), n - 1)).r

(* The logarithms of uint_x4.                                              *)
ASSUME LogarithmsExact ==
  \A n \in 1 .. Modulus - 1 :
    LET a == Native(n)
    IN /\ 2^flog2(a) <= n /\ n < 2^(flog2(a) + 1)
       /\ n % 2^trailingzeros(a) = 0 /\ n % 2^(trailingzeros(a) + 1) # 0
       /\ n <= 2^clog2(a) /\ 2^clog2(a) < 2 * n

-----------------------------------------------------------------------------
(* Both in one run.                                                        *)

VARIABLE part

PbIdle == /\ pbstep = "idle" /\ pbsender = "none" /\ pbwire = <<>> /\ pbchange = "none"
          /\ pbenc = "none" /\ pbdec = "none"
UintIdle == acc = OfIntegral(0) /\ val = 0
GenIdle == /\ cls = oneseq_8 /\ behind = Unused /\ ahead = Unused
           /\ todo = 0 /\ clean = TRUE /\ moves = 0

LibInit == \/ part = "nanopb" /\ PbInit /\ UintIdle /\ GenIdle
           \/ part = "uint" /\ UintInit /\ PbIdle /\ GenIdle
           \/ part = "generator" /\ GenInit /\ PbIdle /\ UintIdle

LibNext == \/ part = "nanopb" /\ PbNext /\ UNCHANGED <<uintVars, genVars, part>>
           \/ part = "uint" /\ UintNext /\ UNCHANGED <<pbvars, genVars, part>>
           \/ part = "generator" /\ GenNext /\ UNCHANGED <<pbvars, uintVars, part>>

LibSpec == LibInit /\ [][LibNext]_<<pbvars, uintVars, genVars, part>>

\* With backstep of extended generators.
LibBack == \/ LibNext
           \/ part = "generator" /\ GenNextBack /\ UNCHANGED <<pbvars, uintVars, part>>
LibBackSpec == LibInit /\ [][LibBack]_<<pbvars, uintVars, genVars, part>>
=============================================================================
