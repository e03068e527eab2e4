--------------------------------- MODULE Pcg ---------------------------------
(***************************************************************************)
(* Use of the random number library of the SI5324 programmer: a 128-bit    *)
(* accumulator driven through the compound assignments of uint_x4, and a   *)
(* generator object that is called, moved by any distance, saved, read     *)
(* back and, when extended, told what to return.                           *)
(*                                                                         *)
(* A jump is checked against the calls it stands for: behind is the object *)
(* that still has todo calls to make, ahead the one that was moved.        *)
(***************************************************************************)
EXTENDS PcgEngine, SequencesExt, FiniteSetsExt

CONSTANTS WordBits,   \* width of a word of uint_x4
          Classes,    \* the generator classes tried
          Seeds,      \* seeds and stream selectors
          Jumps,      \* for each move of a behaviour, the distances tried
          Tables      \* tables given to an extended generator

VARIABLES acc, val, cls, behind, ahead, todo, clean, moves
uintVars == <<acc, val>>
genVars == <<cls, behind, ahead, todo, clean, moves>>

-----------------------------------------------------------------------------
(* uint_x4 of pcg_uint128.hpp: a 128-bit unsigned integer kept as four     *)
(* words, for compilers without one, and its decimal form (pcg_extras.hpp).*)
(* A value is <<v0, v1, v2, v3>>, least significant word first, which is   *)
(* the little-endian layout of the union; the two halves d.v01 and d.v23   *)
(* are read from it.  A word has WordBits bits (32 in the code, where the  *)
(* multiplication writes the width as a literal), so that all the values   *)
(* of a narrow instance can be tried.                                      *)

W == 2^WordBits
Word == 0 .. W - 1
Uint == [1..4 -> Word]

v01(a) == a[1] + W * a[2]
v23(a) == a[3] + W * a[4]

\* The constructors: from two halves, and from an integer of half the width.
Halves(hi, lo) == <<lo % W, (lo \div W) % W, hi % W, (hi \div W) % W>>
OfIntegral(v) == Halves(0, v)

\* The native value, for the comparison with the reference arithmetic.
Value(a) == v01(a) + W * W * v23(a)
Native(n) == Halves(n \div (W * W), n % (W * W))
Modulus == W * W * W * W

addwithcarry(x, y, carryin) ==
  LET half_result == (y + carryin) % W
      result == (x + half_result) % W
  IN [v |-> result, carry |-> IF half_result < y \/ result < x THEN 1 ELSE 0]

subwithcarry(x, y, carryin) ==
  LET half_result == (y + carryin) % W
      result == (x + W - half_result) % W
  IN [v |-> result, carry |-> IF half_result < y \/ result > x THEN 1 ELSE 0]

\* operator+ and operator-: one carry chain over the four words.
add(a, b) ==
  LET r0 == addwithcarry(a[1], b[1], 0)
      r1 == addwithcarry(a[2], b[2], r0.carry)
      r2 == addwithcarry(a[3], b[3], r1.carry)
      r3 == addwithcarry(a[4], b[4], r2.carry)
  IN <<r0.v, r1.v, r2.v, r3.v>>

sub(a, b) ==
  LET r0 == subwithcarry(a[1], b[1], 0)
      r1 == subwithcarry(a[2], b[2], r0.carry)
      r2 == subwithcarry(a[3], b[3], r1.carry)
      r3 == subwithcarry(a[4], b[4], r2.carry)
  IN <<r0.v, r1.v, r2.v, r3.v>>

negate(a) == sub(Halves(0, 0), a)

\* A word is added at place i of r and the carry runs to the top word.
AddAt(r, i, x) ==
  LET s1 == addwithcarry(r[i], x, 0)
      s2 == addwithcarry(r[i + 1], 0, s1.carry)
  IN IF i = 2
     THEN LET s3 == addwithcarry(r[4], 0, s2.carry)
          IN <<r[1], s1.v, s2.v, s3.v>>
     ELSE <<r[1], r[2], s1.v, s2.v>>

LowProducts(a, b) ==
  LET a0b0 == a[1] * b[1]
      a1b0 == a[2] * b[1]
      a0b1 == a[1] * b[2]
  IN AddAt(AddAt(AddAt(<<a0b0 % W, a0b0 \div W, a1b0 \div W, 0>>, 2, a1b0 % W),
                 3, a0b1 \div W),
           2, a0b1 % W)
UpperProducts(a, b, r) == Halves((v23(r) + v01(a) * v23(b) + v23(a) * v01(b)) % (W * W), v01(r))
AddUpper(r, a1b1) ==
  LET s2 == addwithcarry(r[3], a1b1 % W, 0)
      s3 == addwithcarry(r[4], a1b1 \div W, s2.carry)
  IN <<r[1], r[2], s2.v, s3.v>>

\* A plausible slip of operator*: the last product is added to the two upper
\* words without the carry between them.
AddUpperLost(r, a1b1) ==
  [r EXCEPT ![3] = (@ + (a1b1 % W)) % W, ![4] = (@ + (a1b1 \div W)) % W]
mul_lost_carry(a, b) == UpperProducts(a, b, AddUpperLost(LowProducts(a, b), a[2] * b[2]))

\* operator*: the four products of the low words, added one after the other,
\* and the products that only reach the upper half.
mul(a, b) == UpperProducts(a, b, AddUpper(LowProducts(a, b), a[2] * b[2]))

band(a, b) == Halves(v23(a) & v23(b), v01(a) & v01(b))
bor(a, b) == Halves(v23(a) | v23(b), v01(a) | v01(b))
bxor(a, b) == Halves(v23(a) ^^ v23(b), v01(a) ^^ v01(b))
complement(a) == Halves(W * W - 1 - v23(a), W * W - 1 - v01(a))

equal(a, b) == v01(a) = v01(b) /\ v23(a) = v23(b)
less(a, b) == v23(a) < v23(b) \/ (v23(a) = v23(b) /\ v01(a) < v01(b))
atLeast(a, b) == ~less(a, b)

\* operator<< and operator>>: whole words move by shiftdiv places, and the
\* bits that leave a word are carried over into the next one.  A shift by
\* more than the width of the value runs the loop of >> outside the array and
\* is no call the library makes.
shl(a, shift) ==
  LET shiftdiv == shift \div WordBits
      shiftmod == shift % WordBits
      in(out) == IF out - shiftdiv >= 1 THEN a[out - shiftdiv] ELSE 0
  IN [out \in 1..4 |->
        IF shiftmod = 0 THEN in(out)
        ELSE ((in(out) * 2^shiftmod) % W)
                | (in(out - 1) \div 2^(WordBits - shiftmod))]

shr(a, shift) ==
  LET shiftdiv == shift \div WordBits
      shiftmod == shift % WordBits
      in(out) == IF out + shiftdiv <= 4 THEN a[out + shiftdiv] ELSE 0
  IN [out \in 1..4 |->
        IF shiftmod = 0 THEN in(out)
        ELSE (in(out) \div 2^shiftmod)
                | ((in(out + 1) * 2^(WordBits - shiftmod)) % W)]

\* The logarithms of one word (compiler intrinsics or table look-ups), and of
\* the whole value: the highest and the lowest word that is not zero.
flog2w(x) == CHOOSE n \in 0 .. WordBits - 1 : 2^n <= x /\ x < 2^(n + 1)
trailingzerosw(x) ==
  CHOOSE n \in 0 .. WordBits - 1 : x % 2^n = 0 /\ x % 2^(n + 1) # 0
flog2(a) ==
  LET i == CHOOSE j \in 1..4 : a[j] # 0 /\ \A k \in j + 1 .. 4 : a[k] = 0
  IN flog2w(a[i]) + WordBits * (i - 1)
trailingzeros(a) ==
  IF \A j \in 1..4 : a[j] = 0 THEN WordBits * 4
  ELSE LET i == CHOOSE j \in 1..4 : a[j] # 0 /\ \A k \in 1 .. j - 1 : a[k] = 0
       IN trailingzerosw(a[i]) + WordBits * (i - 1)
clog2(a) == flog2(a) + (IF band(a, negate(a)) # a THEN 1 ELSE 0)

\* divmod: shift and subtract, from an underestimate of the quotient's
\* highest bit downwards.
Halve(dividend, factor, qfactor) ==
  LET RECURSIVE down(_, _)
      down(f, q) == IF less(dividend, f) THEN down(shr(f, 1), shr(q, 1))
                    ELSE <<f, q>>
  IN down(factor, qfactor)

RECURSIVE Subtract(_, _, _, _, _)
SubtractNext(rest, divisor, sum, next) ==
  IF atLeast(rest, divisor) THEN Subtract(rest, divisor, sum, next[1], next[2]) ELSE <<sum, rest>>
Subtract(dividend, divisor, quotient, factor, qfactor) ==
  LET rest == sub(dividend, factor)
  IN SubtractNext(rest, divisor, add(quotient, qfactor), Halve(rest, factor, qfactor))

divmod(dividend, divisor) ==
  IF less(dividend, divisor) THEN <<OfIntegral(0), dividend>>
  ELSE LET logdiff == flog2(dividend) - flog2(divisor)
       IN IF logdiff = 0 THEN <<OfIntegral(1), sub(dividend, divisor)>>
          ELSE Subtract(dividend, divisor, OfIntegral(0),
                        shl(divisor, logdiff - 1), shl(OfIntegral(1), logdiff - 1))
div(a, b) == divmod(a, b)[1]
mod(a, b) == divmod(a, b)[2]

\* The decimal form: digits from the least significant one, written before
\* each other; reading multiplies and adds and keeps an overflow flag, the
\* maximum standing for a value that did not fit.
BASE == OfIntegral(10)

RECURSIVE print(_)
PrintDigit(q, digit) == IF equal(q, OfIntegral(0)) THEN <<digit>> ELSE Append(print(q), digit)
PrintQuotient(a, q) == PrintDigit(q, v01(sub(a, mul(q, BASE))))
print(a) == PrintQuotient(a, div(a, BASE))

RECURSIVE scan(_, _, _)
ScanSum(digits, overflow, digit, sum) == scan(Tail(digits), sum, overflow \/ less(sum, digit))
ScanTimes(digits, current, overflow, digit, timesbase) ==
  ScanSum(digits, overflow \/ less(timesbase, current), digit, add(timesbase, digit))
scan(digits, current, overflow) ==
  IF digits = <<>> THEN [value |-> IF overflow THEN complement(OfIntegral(0)) ELSE current,
                         fail |-> overflow]
  ELSE ScanTimes(digits, current, overflow, OfIntegral(Head(digits)), mul(current, BASE))

-----------------------------------------------------------------------------
(* pcg_extras.hpp                                                          *)

\* bounded_rand: results below the threshold are thrown away, so that what
\* remains is a multiple of upper_bound.
threshold(xbits, upper_bound) == (2^xbits - upper_bound) % upper_bound
RECURSIVE bounded_rand(_, _, _)
AcceptAbove(g, c, upper_bound) ==
  IF c.r >= threshold(g.xbits, upper_bound)
  THEN [r |-> c.r % upper_bound, rng |-> c.rng]
  ELSE bounded_rand(g, c.rng, upper_bound)
bounded_rand(g, rng, upper_bound) == AcceptAbove(g, call(g, rng), upper_bound)

\* shuffle: the last of the first count elements is swapped with a chosen
\* one.  chosen[n] is what bounded_rand(rng, n) returned.
shuffle(s, chosen) ==
  LET RECURSIVE run(_, _)
      run(t, count) ==
        IF count <= 1 THEN t
        ELSE run([t EXCEPT ![chosen[count] + 1] = t[count], ![count] = t[chosen[count] + 1]],
                 count - 1)
  IN run(s, Len(s))

\* uneven_copy: an array of seed words copied to narrower or wider integers,
\* and the number of seed words generate_to asks for.  Sizes count bytes; a
\* byte has one bit here.
uneven_copy(src, size, srcSize, destSize) ==
  IF destSize < srcSize
  THEN LET SCALE == srcSize \div destSize
       IN [i \in 1..size |->
             Trunc(High(src[((i - 1) \div SCALE) + 1], destSize * ((i - 1) % SCALE)), destSize)]
  ELSE LET SCALE == (destSize + srcSize - 1) \div srcSize
       IN [i \in 1..size |->
             FoldLeft(LAMBDA v, k : v | (src[(i - 1) * SCALE + k] * 2^(srcSize * (k - 1))),
                            0, [k \in 1..SCALE |-> k])]
FROM_ELEMS(size, genSize, destSize) ==
  IF genSize < destSize THEN size * ((destSize + genSize - 1) \div genSize)
  ELSE (size + (genSize \div destSize) - 1) \div (genSize \div destSize)

\* seed_seq_from::generate: consecutive results.
RECURSIVE generate(_, _, _)
generate(g, rng, n) ==
  IF n = 0 THEN <<>> ELSE LET c == call(g, rng) IN <<c.r>> \o generate(g, c.rng, n - 1)

-----------------------------------------------------------------------------
(* The accumulator: the compound assignments, and a print and a read.      *)

UintInit == acc = OfIntegral(1) /\ val = 1

Assign(r, v) == acc' = r /\ val' = v

Arith(b) ==
  LET n == Value(b)
  IN \/ Assign(mul(acc, b), (val * n) % Modulus)
     \/ Assign(add(acc, b), (val + n) % Modulus)
     \/ Assign(sub(acc, b), (val + Modulus - n) % Modulus)
     \/ Assign(band(acc, b), val & n)
     \/ Assign(bor(acc, b), val | n)
     \/ Assign(bxor(acc, b), val ^^ n)
Divide(b) ==
  /\ ~equal(b, OfIntegral(0))       \* division by zero is undefined
  /\ \/ Assign(div(acc, b), val \div Value(b))
     \/ Assign(mod(acc, b), val % Value(b))
Shift(n) ==
  \/ Assign(shl(acc, n), (val * 2^n) % Modulus)
  \/ Assign(shr(acc, n), val \div 2^n)
Reprint == LET text == print(acc) IN Assign(scan(text, OfIntegral(0), FALSE).value, val)

UintNext == \/ \E n \in 0 .. Modulus - 1 : Arith(Native(n)) \/ Divide(Native(n))
            \/ \E n \in 0 .. 4 * WordBits : Shift(n)
            \/ Reprint

-----------------------------------------------------------------------------
(* The generator.                                                          *)

GenInit ==
  /\ cls \in Classes
  /\ \E seed, seq \in Seeds :
       LET base == engine(cls, seed, seq)
       IN \/ ~is_extended(cls) /\ behind = base
          \/ is_extended(cls) /\ \E t \in Tables : behind = datainit(base, t)
          \/ is_extended(cls) /\ \E order \in {"left", "right"} : behind = selfinit(cls, base, order)
  /\ ahead = behind /\ todo = 0 /\ clean = TRUE /\ moves = 0

Move == todo = 0 /\ moves < Len(Jumps) /\ moves' = moves + 1 /\ UNCHANGED cls

\* advance(d).  clean records that no table entry stood at zero.
Jump(d) ==
  /\ Move
  /\ d \in Jumps[moves + 1]
  /\ is_extended(cls) => cls.kdd
  /\ ahead' = Advance(cls, behind, d)
  /\ todo' = d
  /\ clean' = \A i \in DOMAIN behind.data : behind.data[i] # 0
  /\ UNCHANGED behind

\* backstep(d).
Back(d) ==
  /\ Move
  /\ d \in Jumps[moves + 1]
  /\ is_extended(cls) => cls.kdd
  /\ ahead' = behind
  /\ behind' = Backstep(cls, behind, d)
  /\ todo' = d
  /\ clean' = TRUE

\* operator().
Call ==
  /\ todo > 0
  /\ behind' = call(cls, behind).rng
  /\ todo' = todo - 1
  /\ UNCHANGED <<cls, ahead, clean, moves>>

\* operator<<, and operator>> into an object seeded otherwise.
Reload(seed) ==
  /\ Move
  /\ LET fresh == [engine(cls, seed, IF cls.stream = "unique" THEN behind.inc ELSE seed)
                     EXCEPT !.data = behind.data]
     IN ahead' = load(cls, fresh, save(cls, behind))
  /\ clean' = TRUE
  /\ UNCHANGED <<behind, todo>>

\* set(wanted) of an extended generator.
Set(wanted) ==
  /\ Move
  /\ is_extended(cls)
  /\ behind' = extended_set(cls, behind, wanted)
  /\ ahead' = behind' /\ clean' = TRUE
  /\ UNCHANGED todo

\* operator()(upper_bound).
Bounded(upper_bound) ==
  /\ Move
  /\ behind' = bounded_rand(cls, behind, upper_bound).rng
  /\ ahead' = behind' /\ clean' = TRUE
  /\ UNCHANGED todo

GenNext == \/ \E d \in UNION Range(Jumps) : Jump(d) \/ (~is_extended(cls) /\ Back(d))
           \/ Call
           \/ \E s \in Seeds : Reload(s) \/ Set(s % 2^cls.xbits)
           \/ Bounded(6)

\* With backstep of the extended generator, which does not undo its calls.
GenNextBack == GenNext \/ (is_extended(cls) /\ \E d \in UNION Range(Jumps) : Back(d))

-----------------------------------------------------------------------------
(* Properties                                                              *)

\* Every operation of uint_x4, down to a print in decimal and a read of what
\* was printed, gives what native arithmetic of that width gives, whatever
\* sequence of assignments led to the operands.
UintExact == acc = Native(val)

\* advance(d) leaves a generator where d calls leave it, and after backstep(d)
\* d calls lead back, for engines of every stream kind.  For an extended
\* generator this includes its table, provided no entry stands at zero when
\* it is moved forwards (such an entry is counted as crossing zero at once).
\* A generator that is saved and read into another object continues there.
AdvanceIsSteps == todo = 0 /\ clean => ahead = behind

\* At every moment of the catching up, the difference of the two objects is
\* the number of calls still to make, modulo the period.
DistanceExact ==
  Comparable(ahead, behind) => Difference(cls, ahead, behind) = todo % 2^period_pow2(cls)
=============================================================================
