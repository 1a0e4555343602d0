------------------------------ MODULE Decimal -------------------------------
(* decimal: a signed coefficient of at most Precision digits and a scale, as *)
(* records [c, s] for c / 10^s.  Each operation of the runtime is one step   *)
(* from an operand pair to a result or to the panic "decimal overflow", and  *)
(* is compared with the exact result on integers.  There coefficients are    *)
(* integers; the limbs they are made of come last, with steps of their own.  *)
EXTENDS Integers, Sequences, FiniteSets

CONSTANTS Precision,  \* BDEC_PRECISION, 38 in the code
          MaxScale,   \* BDEC_MAX_SCALE, 65535 in the code
          Coeffs,     \* magnitudes of the coefficients that are tried
          Places,     \* the places round is called with, as <<sign, n>>
          Half,       \* 2^32 in the code
          HalfBits,   \* log2 of Half
          WideLimbs,  \* BDEC_WIDE_LIMBS
          Edges,      \* limb values the coefficients are made of
          WideEdges,  \* limb values the wide numbers are made of
          Smalls      \* factors, addends and divisors that fit half a word

VARIABLES call,  \* [op, a, b, arg] about to be done
          out    \* its result: NotYet, Overflow or a decimal; of limbs [ok, n, r]
vars == <<call, out>>

NotYet == [ok |-> FALSE, c |-> 0, s |-> -1]
Overflow == [ok |-> FALSE, c |-> 0, s |-> 0]
D(c, s) == [ok |-> TRUE, c |-> c, s |-> s]
Abs(x) == IF x < 0 THEN -x ELSE x
Signed(m, negative) == IF negative THEN -m ELSE m
Larger(x, y) == IF x > y THEN x ELSE y
Smaller(x, y) == IF x < y THEN x ELSE y
Decimals == {D(c, s) : c \in Coeffs \cup {-c : c \in Coeffs}, s \in 0..MaxScale}
Modes == {"half_even", "half_away", "toward_zero", "floor", "ceil"}

\* decw_digits: zero has one.
MostDigits == 9
DigitsOf(m) == CHOOSE d \in 1..MostDigits : m < 10 ^ d /\ (d = 1 \/ m >= 10 ^ (d - 1))

----------------------------------------------------------------------------
\* dec_should_increment: guard is the last digit dropped, sticky any before.
Increments(guard, sticky, kept, negative, mode) ==
    CASE mode = "half_even" -> guard > 5 \/ (guard = 5 /\ (sticky \/ kept % 2 # 0))
      [] mode = "half_away" -> guard >= 5
      [] mode = "toward_zero" -> FALSE
      [] OTHER -> (mode = "floor") = negative /\ (guard # 0 \/ sticky)
Bumped(kept, up) == IF up THEN kept + 1 ELSE kept
\* The digits dropped one by one, then the increment.
DropDigits(m, drop, negative, mode) ==
    Bumped(m \div (10 ^ drop),
           Increments((m \div (10 ^ (drop - 1))) % 10, m % (10 ^ (drop - 1)) # 0, m \div (10 ^ drop), negative, mode))

\* Trailing zeros given up to bring a scale down to MaxScale.
Trimmed(m, scale) ==
    LET k == CHOOSE k \in 0..MostDigits : /\ k = 0 \/ (scale - k >= MaxScale /\ m % (10 ^ k) = 0)
                                          /\ scale - k > MaxScale => m % (10 ^ (k + 1)) # 0
    IN [m |-> m \div (10 ^ k), s |-> scale - k]
\* The increment made one digit more: it is a power of ten, and loses a zero.
Carried(m, negative, scale) ==
    IF DigitsOf(m) <= Precision THEN D(Signed(m, negative), scale)
    ELSE IF scale = 0 THEN Overflow ELSE D(Signed(m \div 10, negative), scale - 1)
Fits(m, negative, scale, mode, drop) ==
    IF drop > scale THEN Overflow ELSE Carried(DropDigits(m, drop, negative, mode), negative, scale - drop)
Cut(t, negative, mode) ==
    IF t.s > MaxScale THEN Overflow
    ELSE IF DigitsOf(t.m) <= Precision THEN D(Signed(t.m, negative), t.s)
    ELSE Fits(t.m, negative, t.s, mode, DigitsOf(t.m) - Precision)
\* dec_finish: any magnitude and scale brought into the type, or the panic.
Finish(m, negative, scale, mode) ==
    IF m = 0 THEN (IF scale > MaxScale THEN Overflow ELSE D(0, Larger(scale, 0)))
    ELSE IF scale < 0
         THEN (IF DigitsOf(m) - scale > Precision THEN Overflow
               ELSE Cut([m |-> m * (10 ^ (-scale)), s |-> 0], negative, mode))
    ELSE Cut(Trimmed(m, scale), negative, mode)

----------------------------------------------------------------------------
\* dec_widen: as far toward the scale as Precision digits allow.
Widen(v, scale) ==
    IF scale <= v.s THEN v
    ELSE IF v.c = 0 THEN D(0, scale)
    ELSE Finish(Abs(v.c) * (10 ^ Smaller(scale - v.s, Precision - DigitsOf(Abs(v.c)))), v.c < 0,
                v.s + Smaller(scale - v.s, Precision - DigitsOf(Abs(v.c))), "half_even")
Exponent(v) == DigitsOf(Abs(v.c)) - 1 - v.s
\* y is so small that it cannot reach the digits of x + y.
OutOfReach(x, y) == Exponent(x) - Exponent(y) > Precision + 1
At(v, scale) == v.c * (10 ^ (scale - v.s))
AddAt(a, b, scale) ==
    IF a.c = 0 \/ b.c = 0 THEN Widen(IF a.c = 0 THEN b ELSE a, scale)
    ELSE IF OutOfReach(a, b) THEN Widen(a, scale)
    ELSE IF OutOfReach(b, a) THEN Widen(b, scale)
    ELSE IF At(a, scale) + At(b, scale) = 0 THEN D(0, scale)
    ELSE Finish(Abs(At(a, scale) + At(b, scale)), At(a, scale) + At(b, scale) < 0, scale, "half_even")
AddOf(a, b) == AddAt(a, b, Larger(a.s, b.s))
Neg(v) == D(-v.c, v.s)
SubOf(a, b) == AddOf(a, Neg(b))
MulOf(a, b) == Finish(Abs(a.c) * Abs(b.c), (a.c < 0) # (b.c < 0), a.s + b.s, "half_even")

\* Mutant of MostCounted: no digit is computed for the guard.
MostCountedNoGuard == Precision
MostCounted == Precision + 1
\* One turn of the long division: sig holds the significant digits so far.
NextDigit(t, b) ==
    IF t.n >= MostCounted \/ t.rem = 0 THEN t
    ELSE IF t.n = 0 /\ t.rem * 10 < b THEN [t EXCEPT !.exp = @ - 1, !.rem = @ * 10]
    ELSE [t EXCEPT !.n = @ + 1, !.sig = (@ * 10) + ((t.rem * 10) \div b), !.rem = (@ * 10) % b]
LongDivision(a, b) ==
    LET turn[k \in 0..(3 * Precision)] ==
          IF k > 0 THEN NextDigit(turn[k - 1], b)
          ELSE IF a \div b = 0 THEN [n |-> 0, sig |-> 0, exp |-> -1, rem |-> a % b]
          ELSE [n |-> DigitsOf(a \div b), sig |-> a \div b, exp |-> DigitsOf(a \div b) - 1, rem |-> a % b]
    IN turn[3 * Precision]
Kept(t, negative) ==
    IF t.n <= Precision THEN t.sig
    ELSE Bumped(t.sig \div 10, Increments(t.sig % 10, t.rem # 0, t.sig \div 10, negative, "half_even"))
Quotient(t, a, b, negative) ==
    Finish(Kept(t, negative), negative,
           (Smaller(t.n, Precision) - 1) - (t.exp + b.s - a.s), "half_even")
DivOf(a, b) ==
    IF a.c = 0 THEN D(0, Larger(a.s - b.s, 0))
    ELSE Quotient(LongDivision(Abs(a.c), Abs(b.c)), a, b, (a.c < 0) # (b.c < 0))

\* All digits are dropped, and more: only floor and ceil can leave one.
Away(v, mode) == (mode = "floor" /\ v.c < 0) \/ (mode = "ceil" /\ ~(v.c < 0))
Rounded(m, negative, places, mode) ==
    IF places < 0 THEN Finish(m * (10 ^ (-places)), negative, 0, mode) ELSE Finish(m, negative, places, mode)
RoundOf(v, places, mode) ==
    IF places >= v.s THEN v
    ELSE IF places < -Precision THEN (IF Away(v, mode) /\ v.c # 0 THEN Overflow ELSE D(0, 0))
    ELSE IF v.s - places > DigitsOf(Abs(v.c))
         THEN (IF Away(v, mode) THEN Rounded(1, v.c < 0, places, mode) ELSE D(0, Larger(places, 0)))
    ELSE Rounded(DropDigits(Abs(v.c), v.s - places, v.c < 0, mode), v.c < 0, places, mode)

----------------------------------------------------------------------------
Sign(x) == IF x < 0 THEN -1 ELSE IF x > 0 THEN 1 ELSE 0
\* Of one sign: by exponent, and by coefficients only where those agree.
Order(a, b) ==
    IF Exponent(a) # Exponent(b) THEN Sign(Signed(Exponent(a) - Exponent(b), a.c < 0))
    ELSE Sign(At(a, Larger(a.s, b.s)) - At(b, Larger(a.s, b.s)))
CmpOf(a, b) ==
    IF a.c < 0 /\ b.c >= 0 THEN -1 ELSE IF a.c >= 0 /\ b.c < 0 THEN 1
    ELSE IF a.c = 0 THEN (IF b.c = 0 THEN 0 ELSE -1)
    ELSE IF b.c = 0 THEN 1 ELSE Order(a, b)
\* What beans_dec_hash mixes: no trailing zeros after the point.
HashedOf(v) ==
    LET k == CHOOSE k \in 0..v.s : v.c % (10 ^ k) = 0 /\ (k = v.s \/ v.c % (10 ^ (k + 1)) # 0)
    IN [c |-> v.c \div (10 ^ k), s |-> v.s - k]

\* A text: a sign, digits, how many of them are after the point, an exponent.
StrOf(v) == [negative |-> v.c < 0, point |-> v.s, exp |-> 0,
             digits |-> [i \in 1..Larger(DigitsOf(Abs(v.c)), v.s + 1) |->
                           (Abs(v.c) \div (10 ^ (Larger(DigitsOf(Abs(v.c)), v.s + 1) - i))) % 10]]
Significant(ds) ==
    IF \A i \in DOMAIN ds : ds[i] = 0 THEN 0
    ELSE (Len(ds) + 1) - CHOOSE i \in DOMAIN ds : ds[i] # 0 /\ \A j \in 1..(i - 1) : ds[j] = 0
NumberOf(ds) == LET n[i \in 0..Len(ds)] == IF i = 0 THEN 0 ELSE (n[i - 1] * 10) + ds[i] IN n[Len(ds)]
TooLong(t, scale) == Significant(t.digits) - Smaller(scale, 0) > Precision
ParseAt(t, scale) ==
    IF Significant(t.digits) = 0
    THEN (IF scale > MaxScale THEN Overflow ELSE D(0, Larger(scale, 0)))
    ELSE IF TooLong(t, scale) \/ scale > MaxScale THEN Overflow
    ELSE D(Signed(NumberOf(t.digits) * (10 ^ Larger(-scale, 0)), t.negative), Larger(scale, 0))
\* dec_parse_text, for a text that dec_valid_c accepts.
ParseOf(t) == ParseAt(t, t.point - t.exp)

----------------------------------------------------------------------------
Texts == {[negative |-> neg, digits |-> ds, point |-> p, exp |-> e] :
             neg \in BOOLEAN, p \in 0..2, e \in {-MaxScale, -1, 0, 1, Precision + 1},
             ds \in [1..3 -> {0, 1, 9}]}
DecimalInit ==
    /\ \/ \E a, b \in Decimals, op \in {"add", "sub", "mul", "div", "cmp"} :
             (op = "div" => b.c # 0) /\ call = [op |-> op, a |-> a, b |-> b]
       \/ \E a \in Decimals, p \in Places, mode \in Modes :
             call = [op |-> "round", a |-> a, b |-> [places |-> p[1] * p[2], mode |-> mode]]
       \/ \E a \in Decimals : call = [op |-> "text", a |-> a, b |-> StrOf(a)]
       \/ \E t \in Texts : call = [op |-> "parse", a |-> D(0, 0), b |-> t]
    /\ out = NotYet
Do(op, v) == call.op = op /\ out = NotYet /\ out' = v /\ UNCHANGED call
DecimalNext ==
    \/ Do("add", AddOf(call.a, call.b))
    \/ Do("sub", SubOf(call.a, call.b))
    \/ Do("mul", MulOf(call.a, call.b))
    \/ Do("div", DivOf(call.a, call.b))
    \/ Do("cmp", D(CmpOf(call.a, call.b), 0))
    \/ Do("round", RoundOf(call.a, call.b.places, call.b.mode))
    \/ Do("text", ParseOf(call.b))
    \/ Do("parse", ParseOf(call.b))

----------------------------------------------------------------------------
\* The exact results, as a numerator over 10^scale or over a denominator.
\* x / y to an integer in the mode; y is positive.
ToInteger(x, y, mode) ==
    LET down == x \div y
        twice == 2 * (x % y)
        up == CASE mode = "floor" -> FALSE
                [] mode = "ceil" -> x % y # 0
                [] mode = "toward_zero" -> x < 0 /\ x % y # 0
                [] mode = "half_away" -> twice > y \/ (twice = y /\ x > 0)
                [] OTHER -> twice > y \/ (twice = y /\ down % 2 = 1)
    IN IF up THEN down + 1 ELSE down
\* x / 10^m to k of its m places.
ToPlaces(x, m, k) == ToInteger(x, 10 ^ (m - k), "half_even")
Fitting(x, m, k) == Abs(ToPlaces(x, m, k)) < 10 ^ Precision
\* v is x / 10^m with the most places that it can keep.
IsBest(v, x, m) ==
    IF \E k \in 0..m : Fitting(x, m, k)
    THEN \E k \in 0..m : /\ Fitting(x, m, k) /\ v = D(ToPlaces(x, m, k), k)
                         /\ \A l \in (k + 1)..m : ~Fitting(x, m, l)
    ELSE v = Overflow
Done(op) == out # NotYet /\ call.op = op
Wider == Larger(call.a.s, call.b.s)

\* A sum or difference is the exact one at the wider scale, or, where that has
\* too many digits, the exact one rounded half-even once to as many as fit:
\* the short cut for operands far apart, the widening of zeros and the carry
\* into one digit more change nothing.
SumsRoundedOnce ==
    /\ Done("add") => IsBest(out, At(call.a, Wider) + At(call.b, Wider), Wider)
    /\ Done("sub") => IsBest(out, At(call.a, Wider) - At(call.b, Wider), Wider)

Product == call.a.c * call.b.c
Excess == Larger((call.a.s + call.b.s) - MaxScale, 0)

\* A product is the exact one rounded half-even once, as long as trailing
\* zeros bring its scale into the type; otherwise it overflows.
ProductsRoundedOnce ==
    Done("mul") =>
       IF Excess > 0 /\ (Product = 0 \/ Product % (10 ^ Excess) # 0) THEN out = Overflow
       ELSE IsBest(out, Product \div (10 ^ Excess), (call.a.s + call.b.s) - Excess)

QuotientAt(k) ==
    LET e == (call.b.s - call.a.s) + k
        n == call.a.c * Sign(call.b.c)
    IN ToInteger(n * (10 ^ Larger(e, 0)), Abs(call.b.c) * (10 ^ Larger(-e, 0)), "half_even")
QuotientExact ==
    LET e == (call.b.s - call.a.s) + out.s
    IN out.c * call.b.c * (10 ^ Larger(-e, 0)) = call.a.c * (10 ^ Larger(e, 0))

\* A quotient that comes out is the exact one, or the exact one rounded
\* half-even once to Precision digits, without the zeros at its end that its
\* scale has no room for.
QuotientsRoundedOnce ==
    (Done("div") /\ out.ok) =>
       \/ QuotientExact
       \/ \E zeros \in 0..(Precision - 1) :
             /\ zeros > 0 => out.s = MaxScale
             /\ out.c * (10 ^ zeros) = QuotientAt(out.s + zeros)
             /\ DigitsOf(Abs(out.c)) + zeros = Precision

\* round gives the multiple of the place that the mode names, or overflows
\* because that one has too many digits.
RoundsAsNamedAlways ==
    Done("round") =>
       LET p == call.b.places
           exact == IF p >= 0 THEN ToInteger(call.a.c * (10 ^ p), 10 ^ call.a.s, call.b.mode)
                    ELSE ToInteger(call.a.c, 10 ^ (call.a.s - p), call.b.mode) * (10 ^ (-p))
       IN IF p >= call.a.s THEN out = call.a
          ELSE IF Abs(exact) >= 10 ^ Precision THEN out = Overflow
          ELSE out = D(exact, Larger(p, 0))
\* The same for everything but a zero rounded up.
RoundsAsNamed == (Done("round") /\ call.b.mode = "ceil" /\ call.a.c = 0) \/ RoundsAsNamedAlways

\* cmp is the order of the numbers, and two that are equal hash the same
\* coefficient and scale, whatever zeros they carry.
OrderAndHashAgree ==
    Done("cmp") => /\ out.c = Sign(At(call.a, Wider) - At(call.b, Wider))
                   /\ out.c = 0 <=> HashedOf(call.a) = HashedOf(call.b)

\* Text reads back as the decimal it was written from, scale included; and a
\* text is read exactly or refused, never rounded.
TextIsExact ==
    /\ Done("text") => out = call.a
    /\ (Done("parse") /\ out.ok) =>
          LET scale == call.b.point - call.b.exp
          IN /\ out.s >= scale
             /\ out.c = Signed(NumberOf(call.b.digits), call.b.negative) * (10 ^ (out.s - scale))

\* Every decimal operation is the exact result rounded once, half to even or
\* as its mode says, equal values hash alike, and text reads back (the
\* beans_decv functions).
DecimalExact == SumsRoundedOnce /\ ProductsRoundedOnce /\ QuotientsRoundedOnce
    /\ RoundsAsNamed /\ OrderAndHashAgree /\ TextIsExact

----------------------------------------------------------------------------
(* The unsigned arithmetic underneath: a coefficient in two limbs and the    *)
(* wide intermediate in several, multiplied, divided and carried by hand     *)
(* because no C type is wider than a limb.  Half is the base of half a limb, *)
(* Limb that of a whole one; numbers are sequences of limbs, low limb first. *)
Limb == Half * Half
CoeffBits == 4 * HalfBits
NoLimbs == [ok |-> FALSE, n |-> <<>>, r |-> <<>>]
B01(p) == IF p THEN 1 ELSE 0

Narrow == [1..2 -> Edges]
Wide == [1..WideLimbs -> WideEdges]
\* A number as the integer it stands for.
Val(w) == LET v[i \in 0..Len(w)] == IF i = 0 THEN 0 ELSE v[i - 1] + (w[i] * (Limb ^ (i - 1))) IN v[Len(w)]
Digits(x, k) == [i \in 1..k |-> (x \div (Limb ^ (i - 1))) % Limb]
Ok(n) == [ok |-> TRUE, n |-> n, r |-> <<>>]
Result(ok, n) == [ok |-> ok, n |-> n, r |-> <<>>]

----------------------------------------------------------------------------
Middle(p00, p01, p10) == (p00 \div Half) + (p01 % Half) + (p10 % Half)
MulParts(p00, p01, p10, p11, mid) ==
    <<(p00 % Half) + ((mid * Half) % Limb),
      (p11 + (p01 \div Half) + (p10 \div Half) + (mid \div Half)) % Limb>>
MulHalves(a0, a1, b0, b1) ==
    MulParts(a0 * b0, a0 * b1, a1 * b0, a1 * b1, Middle(a0 * b0, a0 * b1, a1 * b0))
\* bu_mul64: one limb by one limb, in four products of halves.
Mul64(a, b) == MulHalves(a % Half, a \div Half, b % Half, b \div Half)

Sub2(a, b) == <<(a[1] - b[1]) % Limb, ((a[2] - b[2]) - B01(a[1] < b[1])) % Limb>>
Cmp2(a, b) == IF a[2] # b[2] THEN (IF a[2] < b[2] THEN -1 ELSE 1)
              ELSE IF a[1] # b[1] THEN (IF a[1] < b[1] THEN -1 ELSE 1) ELSE 0
TwosOf(lo, hi) == <<lo, IF lo = 0 THEN (hi + 1) % Limb ELSE hi>>
Twos(a) == TwosOf(((Limb - 1 - a[1]) + 1) % Limb, Limb - 1 - a[2])

MulFits(high, hi) == high[2] = 0 /\ hi >= high[1]
MulSmallOf(low, high) == Result(MulFits(high, (high[1] + low[2]) % Limb), <<low[1], (high[1] + low[2]) % Limb>>)
MulSmall(a, f) == MulSmallOf(Mul64(a[1], f), Mul64(a[2], f))
AddSmallOf(lo, hi, carry) == Result(carry = 0 \/ hi # 0, <<lo, hi>>)
AddSmall(a, x) ==
    AddSmallOf((a[1] + x) % Limb, (a[2] + B01((a[1] + x) % Limb < a[1])) % Limb, B01((a[1] + x) % Limb < a[1]))

\* Long division by half-limbs, the high one first: the remainder after k.
HalfAt(a, k) == CASE k = 1 -> a[2] \div Half [] k = 2 -> a[2] % Half [] k = 3 -> a[1] \div Half [] OTHER -> a[1] % Half
DivSmall(a, d) ==
    LET rem[k \in 0..4] == IF k = 0 THEN 0 ELSE ((rem[k - 1] * Half) + HalfAt(a, k)) % d
        q[k \in 1..4] == ((rem[k - 1] * Half) + HalfAt(a, k)) \div d
    IN [ok |-> TRUE, n |-> <<(q[3] * Half) + q[4], (q[1] * Half) + q[2]>>, r |-> <<rem[4], 0>>]

BitAt(a, bit) == IF bit < 2 * HalfBits THEN (a[1] \div (2 ^ bit)) % 2 ELSE (a[2] \div (2 ^ (bit - (2 * HalfBits)))) % 2
ShiftIn(r, bit) == <<(((2 * r[1]) % Limb) + bit), ((2 * r[2]) + (r[1] \div (Limb \div 2))) % Limb>>
TopSet(r) == r[2] >= Limb \div 2
GoesInto(b, r) == Cmp2(r, b) >= 0
Divide(s, b) == IF GoesInto(b, s.r) THEN [s EXCEPT !.r = Sub2(s.r, b), !.q = (2 * @) + 1]
                ELSE [s EXCEPT !.q = 2 * @]
DivStep(s, a, b, bit) ==
    IF TopSet(s.r) THEN [s EXCEPT !.ok = FALSE] ELSE Divide([s EXCEPT !.r = ShiftIn(s.r, BitAt(a, bit))], b)
\* bu_divmod: the remainder gets the dividend's bits, the top one first.
DivMod(a, b) ==
    LET s[k \in 0..CoeffBits] == IF k = 0 THEN [ok |-> TRUE, q |-> 0, r |-> <<0, 0>>]
                            ELSE DivStep(s[k - 1], a, b, CoeffBits - k)
    IN IF Cmp2(a, b) < 0 THEN [ok |-> TRUE, n |-> <<0, 0>>, r |-> a]
       ELSE IF TopSet(b) THEN [ok |-> TRUE, n |-> <<1, 0>>, r |-> Sub2(a, b)]
       ELSE [ok |-> s[CoeffBits].ok, n |-> Digits(s[CoeffBits].q, 2), r |-> s[CoeffBits].r]

----------------------------------------------------------------------------
\* The wide number.  Carries are chains: what limb i gets from those below.
SumOnce(x, y, c) == (((x + y) % Limb) + c) % Limb
CarryOut(x, y, c) == B01((x + y) % Limb < x \/ (((x + y) % Limb) + c) % Limb < (x + y) % Limb)
WideAdd(a, b) ==
    LET c[i \in 0..WideLimbs] == IF i = 0 THEN 0 ELSE CarryOut(a[i], b[i], c[i - 1])
    IN Result(c[WideLimbs] = 0, [i \in 1..WideLimbs |-> SumOnce(a[i], b[i], c[i - 1])])
BorrowOut(x, y, c) == B01((y + c) % Limb < y \/ x < (y + c) % Limb)
WideSub(a, b) ==
    LET c[i \in 0..WideLimbs] == IF i = 0 THEN 0 ELSE BorrowOut(a[i], b[i], c[i - 1])
    IN Ok([i \in 1..WideLimbs |-> (a[i] - ((b[i] + c[i - 1]) % Limb)) % Limb])
WideIncrement(a) ==
    LET c[i \in 0..WideLimbs] == IF i = 0 THEN 1 ELSE B01(c[i - 1] = 1 /\ a[i] = Limb - 1)
    IN Result(c[WideLimbs] = 0, [i \in 1..WideLimbs |-> (a[i] + c[i - 1]) % Limb])
HighAfter(p, c) == p[2] + B01((p[1] + c) % Limb < p[1])
WideMul10(a) ==
    LET c[i \in 0..WideLimbs] == IF i = 0 THEN 0 ELSE HighAfter(Mul64(a[i], 10), c[i - 1])
    IN Result(c[WideLimbs] = 0, [i \in 1..WideLimbs |-> (Mul64(a[i], 10)[1] + c[i - 1]) % Limb])
\* The remainder goes through the high half of a limb, then the low half.
DownHigh(x, r) == (r * Half) + (x \div Half)
DownLow(x, r) == ((DownHigh(x, r) % 10) * Half) + (x % Half)
WideDiv10(a) ==
    LET r[k \in 0..WideLimbs] == IF k = 0 THEN 0 ELSE DownLow(a[(WideLimbs + 1) - k], r[k - 1]) % 10
        q[i \in 1..WideLimbs] == ((DownHigh(a[i], r[WideLimbs - i]) \div 10) * Half) + (DownLow(a[i], r[WideLimbs - i]) \div 10)
    IN [ok |-> TRUE, n |-> q, r |-> <<r[WideLimbs], 0>>]
WideCmp(a, b) ==
    LET c[i \in 0..WideLimbs] == IF i = 0 THEN 0 ELSE IF a[i] # b[i] THEN (IF a[i] < b[i] THEN -1 ELSE 1) ELSE c[i - 1]
    IN c[WideLimbs]
\* decw_add_at: a word into limb `at`, its carry into the next, and so on.
LimbAddAt(s, at, word) ==
    LET c[i \in (at - 1)..WideLimbs] ==
          IF i = at - 1 THEN word ELSE B01((s.n[i] + c[i - 1]) % Limb < s.n[i])
    IN Result(s.ok /\ (c[WideLimbs] = 0 \/ at > WideLimbs),
              [i \in 1..WideLimbs |-> IF i < at THEN s.n[i] ELSE (s.n[i] + c[i - 1]) % Limb])
AddProduct(s, at, p) == LimbAddAt(LimbAddAt(s, at, p[1]), at + 1, p[2])
Multiply(a, b) ==
    AddProduct(AddProduct(AddProduct(AddProduct(Ok([i \in 1..WideLimbs |-> 0]), 1, Mul64(a[1], b[1])),
               2, Mul64(a[1], b[2])), 2, Mul64(a[2], b[1])), 3, Mul64(a[2], b[2]))
\* decw_to128.
To128(w) == Result(\A i \in 3..WideLimbs : w[i] = 0, <<w[1], w[2]>>)

----------------------------------------------------------------------------
LimbInit ==
    /\ \/ \E a \in Narrow, x \in Smalls, op \in {"mulsmall", "addsmall", "divsmall"} :
             (op = "divsmall" => x > 0) /\ call = [op |-> op, a |-> a, b |-> <<x, 0>>]
       \/ \E a, b \in Narrow, op \in {"multiply", "divmod", "twos"} :
             (op = "divmod" => b # <<0, 0>>) /\ call = [op |-> op, a |-> a, b |-> b]
       \/ \E a, b \in Wide, op \in {"wide_add", "wide_sub"} : call = [op |-> op, a |-> a, b |-> b]
       \/ \E a \in Wide, op \in {"inc", "mul10", "div10", "narrow"} : call = [op |-> op, a |-> a, b |-> <<>>]
    /\ out = NoLimbs

DoLimbs(op, r) == call.op = op /\ out = NoLimbs /\ out' = r /\ UNCHANGED call
LimbNext ==
    \/ DoLimbs("mulsmall", MulSmall(call.a, call.b[1]))
    \/ DoLimbs("addsmall", AddSmall(call.a, call.b[1]))
    \/ DoLimbs("divsmall", DivSmall(call.a, call.b[1]))
    \/ DoLimbs("multiply", Multiply(call.a, call.b))
    \/ DoLimbs("divmod", DivMod(call.a, call.b))
    \/ DoLimbs("twos", Ok(Twos(call.a)))
    \/ DoLimbs("wide_add", WideAdd(call.a, call.b))
    \/ call.op = "wide_sub" /\ WideCmp(call.a, call.b) >= 0 /\ DoLimbs("wide_sub", WideSub(call.a, call.b))
    \/ DoLimbs("inc", WideIncrement(call.a))
    \/ DoLimbs("mul10", WideMul10(call.a))
    \/ DoLimbs("div10", WideDiv10(call.a))
    \/ DoLimbs("narrow", To128(call.a))

----------------------------------------------------------------------------
A == Val(call.a)
Bv == Val(call.b)
DoneLimbs(ops) == out # NoLimbs /\ call.op \in ops
\* What fits comes out exact; what does not fit is reported, and only that.
ExactOrTold(x, span) == (out.ok <=> x < span) /\ (out.ok => Val(out.n) = x)

\* Sums and products of coefficients and of wide numbers are exact, or the
\* operation says that they do not fit.
SumsAndProductsExact ==
    /\ DoneLimbs({"mulsmall"}) => ExactOrTold(A * Bv, Limb ^ 2)
    /\ DoneLimbs({"addsmall"}) => ExactOrTold(A + Bv, Limb ^ 2)
    /\ DoneLimbs({"wide_add"}) => ExactOrTold(A + Bv, Limb ^ WideLimbs)
    /\ DoneLimbs({"inc"}) => ExactOrTold(A + 1, Limb ^ WideLimbs)
    /\ DoneLimbs({"mul10"}) => ExactOrTold(10 * A, Limb ^ WideLimbs)
    /\ DoneLimbs({"narrow"}) => ExactOrTold(A, Limb ^ 2)

\* The product of two coefficients always fits the wide number, exactly.
ProductFits == DoneLimbs({"multiply"}) => out.ok /\ Val(out.n) = A * Bv

\* A subtraction of no more than is there borrows right through the limbs.
DifferenceExact ==
    /\ DoneLimbs({"wide_sub"}) => Val(out.n) = A - Bv
    /\ DoneLimbs({"twos"}) => Val(out.n) = ((Limb ^ 2) - A) % (Limb ^ 2)

\* Every division gives the quotient and the remainder, whatever the bits of
\* the divisor.
DivisionExact ==
    /\ DoneLimbs({"divsmall", "divmod"}) =>
          out.ok /\ Val(out.n) = A \div Bv /\ Val(out.r) = A % Bv
    /\ DoneLimbs({"div10"}) => Val(out.n) = A \div 10 /\ out.r[1] = A % 10

\* The carries, borrows and trial subtractions of the limb arithmetic
\* compute integers (bu_mul64, bu_sub, bu_divmod, decw_multiply).
LimbsExact == SumsAndProductsExact /\ ProductFits /\ DifferenceExact
    /\ DivisionExact

Init == DecimalInit \/ LimbInit
Next == DecimalNext \/ LimbNext
Spec == Init /\ [][Next]_vars
=============================================================================
