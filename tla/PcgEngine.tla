------------------------------ MODULE PcgEngine ------------------------------
(***************************************************************************)
(* The generators of pcg_random.hpp: the engine, a linear congruential     *)
(* generator with an output function, and the extended generator, which    *)
(* xors the engine's results with a table of inside-out generators that it *)
(* moves on whenever the engine's state passes zero.                       *)
(*                                                                         *)
(* g holds the template parameters of a class: width of state and result,  *)
(* stream kind, output function, and for an extended generator table_pow2, *)
(* advance_pow2 and kdd (table_pow2 is absent, -1, for a plain engine).    *)
(* An object is [state, inc, data]: state_, the increment its stream gives *)
(* and data_ (empty for a plain engine).                                   *)
(***************************************************************************)
EXTENDS Integers, Sequences, SequencesExt, Bitwise

CONSTANT TickLimit    \* tick_limit_pow2: 64, the width of the widest counter

-----------------------------------------------------------------------------
(* The output functions of pcg_random.hpp, which turn the state of the     *)
(* linear congruential generator into a result, and the bit operations of  *)
(* pcg_extras.hpp they use.  bits is the width of the state, xbits that of *)
(* the result.  The library writes them for arbitrary widths; its 8 and 16 *)
(* bit generators are instances that can be tried on every state.          *)

Trunc(x, bits) == x % 2^bits
Mask(n) == 2^n - 1
High(x, n) == x \div 2^n
XorShift(x, n) == x ^^ High(x, n)

\* Products are cut to the width byte by byte: 16 bits times 16 bits exceed
\* the integers of the model checker.
Times(a, b, bits) ==
  Trunc(a * (b % 256) + 256 * ((a * (b \div 256)) % 256), bits)

RECURSIVE unxorshift(_, _, _, _)
unxorshift(x, width, bits, shift) ==
  IF 2 * shift >= bits THEN XorShift(x, shift)
  ELSE LET lowmask1 == Mask(bits - shift * 2)
           highmask1 == Mask(width) - lowmask1
           top1 == XorShift(x, shift) & highmask1
           bottom1 == x & lowmask1
           bottom2 == (top1 | bottom1) & Mask(bits - shift)
       IN top1 | (unxorshift(bottom2, width, bits - shift, shift) & lowmask1)

rotl(value, rot, bits) ==
  Trunc(value * 2^rot, bits) | High(value, (bits - rot) & (bits - 1))
rotr(value, rot, bits) ==
  High(value, rot) | Trunc(value * 2^((bits - rot) & (bits - 1)), bits)

\* The constants of the multiplication step and their inverses.
mcg_multiplier(bits) == IF bits = 8 THEN 217 ELSE 62169
mcg_unmultiplier(bits) == IF bits = 8 THEN 105 ELSE 28009

\* How many top bits choose a rotation, and how many a random shift.
RotateBits(xbits) ==
  CASE xbits >= 128 -> 7 [] xbits >= 64 -> 6 [] xbits >= 32 -> 5
    [] xbits >= 16 -> 4 [] OTHER -> 3
ShiftBits(xbits) ==
  CASE xbits >= 128 -> 6 [] xbits >= 64 -> 5 [] xbits >= 32 -> 4
    [] xbits >= 16 -> 3 [] OTHER -> 2
Least(m, n) == IF m <= n THEN m ELSE n

\* A rotation chosen by the top bits, widened when there are too few of them.
Rotation(x, bits, opbits, wanted) ==
  (High(x, bits - opbits) * 2^(wanted - opbits)) & Mask(opbits)

xsh_rs(x, bits, xbits) ==
  LET sparebits == bits - xbits
      opbits == CASE sparebits - 5 >= 64 -> 5 [] sparebits - 4 >= 32 -> 4
                  [] sparebits - 3 >= 16 -> 3 [] sparebits - 2 >= 4 -> 2
                  [] sparebits - 1 >= 1 -> 1 [] OTHER -> 0
      maxrandshift == Mask(opbits)
      xshift == opbits + ((xbits + maxrandshift) \div 2)
      rshift == High(x, bits - opbits) & Mask(opbits)
  IN Trunc(High(XorShift(x, xshift), (sparebits - opbits) - maxrandshift + rshift), xbits)

xsh_rr(x, bits, xbits) ==
  LET opbits == Least(RotateBits(xbits), bits - xbits)
      result == Trunc(High(XorShift(x, (opbits + xbits) \div 2), bits - xbits - opbits), xbits)
  IN rotr(result, Rotation(x, bits, opbits, RotateBits(xbits)), xbits)

rxs(x, bits, xbits) ==
  LET shift == bits - xbits
      opbits == CASE shift > 64 + 8 -> 6 [] shift > 32 + 4 -> 5 [] shift > 16 + 2 -> 4
                  [] shift > 8 + 1 -> 3 [] shift > 4 + 1 -> 2 [] shift > 2 + 1 -> 1
                  [] OTHER -> 0
      rshift == High(x, bits - opbits) & Mask(opbits)
  IN Trunc(High(XorShift(x, shift + ((xbits - shift) \div 2) - rshift), rshift), xbits)

rxs_m(x, bits, xbits) ==
  LET opbits == ShiftBits(xbits)
      rshift == High(x, bits - opbits) & Mask(opbits)
  IN High(Times(XorShift(x, opbits + rshift), mcg_multiplier(bits), bits), bits - xbits)

rxs_m_xs(x, bits, xbits) == XorShift(rxs_m(x, bits, xbits), (2 * xbits + 2) \div 3)

\* The inverse of rxs_m_xs for a result as wide as the state.
unrxs(y, bits, opbits) == unxorshift(y, bits, bits, opbits + (High(y, bits - opbits) & Mask(opbits)))
unoutput(x, bits) ==
  unrxs(Times(unxorshift(x, bits, bits, (2 * bits + 2) \div 3), mcg_unmultiplier(bits), bits),
        bits, ShiftBits(bits))

xsl_rr(x, bits, xbits) ==
  LET opbits == Least(RotateBits(xbits), bits - xbits)
      result == Trunc(XorShift(x, bits \div 2), xbits)
  IN rotr(result, Rotation(x, bits, opbits, RotateBits(xbits)), xbits)

\* Both halves are rotated, the upper one by the rotated lower one.
xsl_rr_rr(x, bits) ==
  LET hbits == bits \div 2
      opbits == Least(RotateBits(hbits), bits - hbits)
      y == XorShift(x, bits \div 2)
      lowbits == rotr(Trunc(y, hbits), Rotation(x, bits, opbits, RotateBits(hbits)), hbits)
      rot2 == lowbits & Mask(opbits)
      amprot2 == (rot2 * 2^(RotateBits(hbits) - opbits)) & Mask(opbits)
  IN (rotr(High(y, hbits), amprot2, hbits) * 2^hbits) ^^ lowbits

xsh(x, bits, xbits) == High(XorShift(x, xbits \div 2), bits - xbits)
xsl(x, bits, xbits) == Trunc(XorShift(x, bits \div 2), xbits)

\* The output_mixin of an engine.
output(fn, x, bits, xbits) ==
  CASE fn = "xsh_rs" -> xsh_rs(x, bits, xbits)
    [] fn = "xsh_rr" -> xsh_rr(x, bits, xbits)
    [] fn = "rxs" -> rxs(x, bits, xbits)
    [] fn = "rxs_m" -> rxs_m(x, bits, xbits)
    [] fn = "rxs_m_xs" -> rxs_m_xs(x, bits, xbits)
    [] fn = "xsl_rr" -> xsl_rr(x, bits, xbits)
    [] fn = "xsl_rr_rr" -> xsl_rr_rr(x, bits)
    [] fn = "xsh" -> xsh(x, bits, xbits)
    [] fn = "xsl" -> xsl(x, bits, xbits)

-----------------------------------------------------------------------------
(* The engine.                                                             *)

default_multiplier(bits) == IF bits = 8 THEN 141 ELSE 12829
default_increment(bits) == IF bits = 8 THEN 77 ELSE 47989

is_mcg(g) == g.stream = "mcg"
can_specify_stream(g) == g.stream = "setseq"
Mult(g) == default_multiplier(g.bits)
Plus(x, y, g) == Trunc(x + y, g.bits)
Minus(x, y, g) == Trunc(x + 2^g.bits - y, g.bits)

\* The increment of a stream: fixed, none, the object's address, or chosen.
set_stream(g, seq) == Trunc(seq * 2, g.bits) | 1
increment(g, seq) ==
  CASE g.stream = "oneseq" -> default_increment(g.bits)
    [] g.stream = "mcg" -> 0
    [] g.stream = "unique" -> Trunc(seq, g.bits) | 1
    [] g.stream = "setseq" -> set_stream(g, seq)

period_pow2(g) == g.bits - (IF is_mcg(g) THEN 2 ELSE 0)

Lcg(s, mult, plus, g) == Trunc(Times(s, mult, g.bits) + plus, g.bits)
bump(g, rng, s) == Lcg(s, Mult(g), rng.inc, g)

\* engine(state, stream_seed).
engine(g, seed, seq) ==
  LET inc == increment(g, seq)
  IN [state |-> IF is_mcg(g) THEN seed | 3
                ELSE Lcg(Plus(seed, inc, g), Mult(g), inc, g),
      inc |-> inc, data |-> <<>>]

\* engine::operator(): the result and the object after it.
Step(g, rng) == [rng EXCEPT !.state = bump(g, rng, @)]
Draw(g, rng) ==
  [r |-> output(g.output, IF g.prev THEN rng.state ELSE Step(g, rng).state, g.bits, g.xbits),
   rng |-> Step(g, rng)]

wrapped(g, rng) == rng.state = IF is_mcg(g) THEN 3 ELSE 0

\* advance: delta steps at once, by squaring the step.
advance(g, state, delta, mult, plus) ==
  LET RECURSIVE run(_, _, _, _, _)
      run(d, m, p, am, ap) ==
        IF d = 0 THEN Trunc(Times(am, state, g.bits) + ap, g.bits)
        ELSE run(d \div 2, Times(m, m, g.bits), Times(Plus(m, 1, g), p, g.bits),
                 IF d % 2 = 1 THEN Times(am, m, g.bits) ELSE am,
                 IF d % 2 = 1 THEN Lcg(ap, m, p, g) ELSE ap)
  IN run(delta, mult, plus, 1, 0)

\* A plausible slip of distance: the bits of an mcg are counted from bit 0.
distance_unscaled(g, cur, new, mult, plus, mask) ==
  LET RECURSIVE run(_, _, _, _, _)
      run(c, bit, m, p, dist) ==
        IF (c & mask) = (new & mask) THEN dist
        ELSE LET differs == (c & bit) # (new & bit)
             IN run(IF differs THEN Lcg(c, m, p, g) ELSE c, Trunc(bit * 2, g.bits),
                    Times(m, m, g.bits), Times(Plus(m, 1, g), p, g.bits),
                    IF differs THEN dist | bit ELSE dist)
  IN run(cur, IF is_mcg(g) THEN 4 ELSE 1, mult, plus, 0)

\* distance: the steps from one state to another, bit by bit from the lowest
\* one that changes.  Both are states of one sequence (the code asserts it).
distance(g, cur, new, mult, plus, mask) ==
  LET RECURSIVE run(_, _, _, _, _)
      run(c, bit, m, p, dist) ==
        IF (c & mask) = (new & mask) THEN dist
        ELSE LET differs == (c & bit) # (new & bit)
             IN run(IF differs THEN Lcg(c, m, p, g) ELSE c, Trunc(bit * 2, g.bits),
                    Times(m, m, g.bits), Times(Plus(m, 1, g), p, g.bits),
                    IF differs THEN dist | bit ELSE dist)
      d == run(cur, IF is_mcg(g) THEN 4 ELSE 1, mult, plus, 0)
  IN IF is_mcg(g) THEN High(d, 2) ELSE d

DistanceTo(g, rng, new, mask) == distance(g, rng.state, new, Mult(g), rng.inc, mask)

\* engine::advance and backstep.
engine_advance(g, rng, delta) ==
  [rng EXCEPT !.state = advance(g, @, delta, Mult(g), rng.inc)]
engine_backstep(g, rng, delta) == engine_advance(g, rng, Minus(0, delta, g))

\* operator-: the steps from rhs to lhs; both have one multiplier (the class)
\* and must have one increment.
Comparable(lhs, rhs) == lhs.inc = rhs.inc
Difference(g, lhs, rhs) == DistanceTo(g, rhs, lhs.state, Mask(g.bits))

\* operator<< writes multiplier, increment, state and table; operator>> takes
\* them into an object of the same class.  A stream that cannot be chosen must
\* be the reader's own.
save(g, rng) == [multiplier |-> Mult(g), increment |-> rng.inc, state |-> rng.state,
                 data |-> rng.data]
load(g, rng, text) ==
  IF text.multiplier # Mult(g) THEN rng
  ELSE IF can_specify_stream(g)
  THEN [state |-> text.state, inc |-> set_stream(g, text.increment \div 2), data |-> text.data]
  ELSE IF text.increment # rng.inc THEN rng
  ELSE [rng EXCEPT !.state = text.state, !.data = text.data]

-----------------------------------------------------------------------------
(* The extended generator.  Its table entries are results of an inside-out *)
(* generator of the result's width (extvalclass, oneseq_rxs_m_xs), stepped  *)
(* from the outside: entry i runs with its own increment.                   *)

ExtClass(g) == [bits |-> g.xbits, stream |-> "oneseq"]
ExtInc(g, i) == Trunc(default_increment(g.xbits) + i * 2, g.xbits)

\* external_step: the entry after one step, and whether it came to zero.
CarryAtZero(result) == [v |-> result, carry |-> result = 0]
external_step(g, randval, i) ==
  CarryAtZero(rxs_m_xs(Lcg(unoutput(randval, g.xbits), default_multiplier(g.xbits), ExtInc(g, i), ExtClass(g)),
                       g.xbits, g.xbits))

\* external_advance: delta steps, and whether zero lies on the way.
AdvanceState(g, state, i, delta, forwards) ==
  LET e == ExtClass(g)
      mult == default_multiplier(g.xbits)
      dist_to_zero == distance(e, state, 0, mult, ExtInc(g, i), Mask(g.xbits))
      crosses_zero == IF forwards THEN dist_to_zero <= delta
                      ELSE Minus(0, dist_to_zero, e) <= delta
      d == IF forwards THEN delta ELSE Minus(0, delta, e)
  IN [v |-> rxs_m_xs(advance(e, state, d, mult, ExtInc(g, i)), g.xbits, g.xbits),
      carry |-> IF crosses_zero THEN 1 ELSE 0]
external_advance(g, randval, i, delta, forwards) ==
  AdvanceState(g, unoutput(randval, g.xbits), i, delta, forwards)

table_size(g) == 2^g.table_pow2
may_tick(g) == g.advance_pow2 < g.bits /\ g.advance_pow2 < TickLimit
may_tock(g) == g.bits < TickLimit
tick_mask(g) == IF may_tick(g) THEN Mask(g.advance_pow2) ELSE Mask(g.bits)

\* advance_table(): every entry takes a step, and one more when an entry
\* before it came to zero.
PutEntry(t, i, s, carry) == [d |-> [t.d EXCEPT ![i] = s.v], carry |-> s.carry \/ carry]
AfterCarry(g, t, i, s) == PutEntry(t, i, external_step(g, s.v, i), s.carry)
AdvanceEntry(g, t, i) ==
  AfterCarry(g, t, i, IF t.carry THEN external_step(g, t.d[i], i) ELSE [v |-> t.d[i], carry |-> FALSE])
advance_table(g, data) ==
  FoldLeft(LAMBDA t, i : AdvanceEntry(g, t, i), [d |-> data, carry |-> FALSE],
           [i \in 1..table_size(g) |-> i]).d

\* advance_table(delta, isForwards): the same for delta steps; what exceeds
\* the width of an entry is carried to the next one.
PutEntryBy(g, t, i, s, total_delta) ==
  [d |-> [t.d EXCEPT ![i] = s.v],
   carry |-> (IF g.bits > g.xbits THEN High(total_delta, g.xbits) ELSE 0) + s.carry]
AdvanceEntryBy(g, t, i, total_delta, isForwards) ==
  PutEntryBy(g, t, i, external_advance(g, t.d[i], i, Trunc(total_delta, g.xbits), isForwards), total_delta)
advance_table_by(g, data, delta, isForwards) ==
  FoldLeft(LAMBDA t, i : AdvanceEntryBy(g, t, i, Plus(t.carry, delta, g), isForwards),
           [d |-> data, carry |-> 0], [i \in 1..table_size(g) |-> i]).d

\* get_extended_value: the table moves on first when the state is at a tick;
\* the entry is then read, or written by set.
SeenState(g, s) == IF g.kdd /\ is_mcg(g) THEN High(s, 2) ELSE s
ExtIndex(g, rng) ==
  1 + (IF g.kdd THEN SeenState(g, rng.state) & Mask(g.table_pow2)
       ELSE High(SeenState(g, rng.state), g.bits - g.table_pow2))
IsTick(g, s) ==
  may_tick(g) /\ (IF g.kdd THEN s & tick_mask(g) ELSE High(s, g.bits - g.advance_pow2)) = 0
IsTock(g, s) == may_tock(g) /\ s = 0
AdvanceIf(yes, g, data) == IF yes THEN advance_table(g, data) ELSE data
Ticked(g, rng) ==
  LET s == SeenState(g, rng.state)
  IN [rng EXCEPT !.data = AdvanceIf(IsTock(g, s), g, AdvanceIf(IsTick(g, s), g, @))]

ExtendedResult(lhs, i) == [lhs EXCEPT !.r = @ ^^ lhs.rng.data[i]]
extended_draw(g, rng) == ExtendedResult(Draw(g, Ticked(g, rng)), ExtIndex(g, rng))

\* set(wanted): the entry is chosen so that this call would have given wanted.
SetEntry(lhs, i, wanted) == [lhs.rng EXCEPT !.data[i] = lhs.r ^^ wanted]
extended_set(g, rng, wanted) == SetEntry(Draw(g, Ticked(g, rng)), ExtIndex(g, rng), wanted)

\* A plausible slip of extended::advance: a partial stretch that ends on a
\* tick is counted as passing it.
extended_advance_inclusive(g, rng, dist, forwards) ==
  LET zero == IF is_mcg(g) THEN rng.state & 3 ELSE 0
      adv_mask == IF is_mcg(g) THEN tick_mask(g) * 4 ELSE tick_mask(g)
      next == DistanceTo(g, rng, zero, adv_mask)
      ticks == High(dist, g.advance_pow2)
               + (IF next <= (dist & tick_mask(g)) THEN 1 ELSE 0)
      d1 == IF ticks > 0 THEN advance_table_by(g, rng.data, ticks, forwards) ELSE rng.data
  IN engine_advance(g, [rng EXCEPT !.data = d1], dist)

AdvanceTicks(g, data, ticks, forwards) ==
  IF may_tick(g) /\ ticks > 0 THEN advance_table_by(g, data, ticks, forwards) ELSE data
Tock(g, data, to_zero, dist, forwards) ==
  CASE ~may_tock(g) -> data
    [] may_tock(g) /\ forwards -> AdvanceIf(to_zero <= dist, g, data)
    [] OTHER -> IF Minus(0, to_zero, g) <= dist THEN advance_table_by(g, data, 1, FALSE) ELSE data
EngineBy(g, rng, dist, forwards) ==
  IF forwards THEN engine_advance(g, rng, dist) ELSE engine_backstep(g, rng, dist)

\* extended::advance (kdd only): the table is moved by the ticks that dist
\* steps pass, then the engine.
extended_advance(g, rng, dist, forwards) ==
  LET zero == IF is_mcg(g) THEN rng.state & 3 ELSE 0
      adv_mask == IF is_mcg(g) THEN tick_mask(g) * 4 ELSE tick_mask(g)
      next == DistanceTo(g, rng, zero, adv_mask)
      next_advance_distance == IF forwards THEN next ELSE Minus(0, next, g) & tick_mask(g)
      ticks == High(dist, g.advance_pow2)
               + (IF next_advance_distance < (dist & tick_mask(g)) THEN 1 ELSE 0)
      to_zero == DistanceTo(g, rng, zero, Mask(g.bits))
  IN EngineBy(g, [rng EXCEPT !.data = Tock(g, AdvanceTicks(g, @, ticks, forwards), to_zero, dist, forwards)],
              dist, forwards)

\* selfinit: the table is filled from the engine's own results.  The two
\* calls whose results are subtracted are unordered in C++: order chooses.
FillEntry(d, xdiff) == [d.rng EXCEPT !.data = Append(@, d.r ^^ xdiff)]
Fill(g, rng, xdiff) ==
  FoldLeft(LAMBDA cur, i : FillEntry(Draw(g, cur), xdiff), rng, [i \in 1..table_size(g) |-> i])
FillFrom(g, a, b, order) ==
  Fill(g, b.rng, Trunc((IF order = "left" THEN a.r - b.r ELSE b.r - a.r) + 2^g.xbits, g.xbits))
SecondDraw(g, a, order) == FillFrom(g, a, Draw(g, a.rng), order)
selfinit(g, rng, order) == SecondDraw(g, Draw(g, rng), order)

\* datainit: the table is given.
datainit(rng, data) == [rng EXCEPT !.data = data]

-----------------------------------------------------------------------------
(* The members every class has.                                            *)

is_extended(g) == g.table_pow2 >= 0
call(g, rng) == IF is_extended(g) THEN extended_draw(g, rng) ELSE Draw(g, rng)
Advance(g, rng, d) ==
  IF is_extended(g) THEN extended_advance(g, rng, d, TRUE) ELSE engine_advance(g, rng, d)
Backstep(g, rng, d) ==
  IF is_extended(g) THEN extended_advance(g, rng, d, FALSE) ELSE engine_backstep(g, rng, d)
=============================================================================
