------------------------------- MODULE Maths -------------------------------
(***************************************************************************)
(* The integer helpers of src/utils/maths/math.go and                      *)
(* src/utils/random/number.go, as operators over IntWidth-bit two's        *)
(* complement integers (Go's int and int64 are 64 bits; the model keeps    *)
(* the wrap-around at a width TLC can enumerate).  float64 holds every     *)
(* integer of this width exactly, so the float conversions of Abs and Mod  *)
(* are exact here except at MinInt, where converting 2^(IntWidth-1) back   *)
(* to int is out of range and the result depends on the build.            *)
(***************************************************************************)
EXTENDS Integers, FiniteSets, Sequences, TLC

CONSTANTS
    IntWidth,    \* bits of a Go int in the model
    Operands,    \* small bases, factors and reference values
    Exponents,   \* exponents for Pow
    Bounds       \* sample arguments for random.Int64, extremes included

MinInt == -(2^(IntWidth - 1))
MaxInt == 2^(IntWidth - 1) - 1
GoInt  == MinInt .. MaxInt

(* An integer result stored into a Go int: two's complement wrap-around. *)
Wrap(x) ==
    LET r == x % 2^IntWidth
    IN IF r > MaxInt THEN r - 2^IntWidth ELSE r

AbsVal(x) == IF x < 0 THEN -x ELSE x

(* int(math.Abs(float64(x))): exact, except that -MinInt does not fit;   *)
(* amd64 yields MinInt, arm64 saturates to MaxInt.                        *)
AbsViaFloat(x) == IF x = MinInt THEN {MinInt, MaxInt} ELSE {AbsVal(x)}

(* Go's / on ints truncates toward zero; math.Mod keeps the sign of x.   *)
TruncDiv(x, y) ==
    IF (x < 0) = (y < 0) THEN AbsVal(x) \div AbsVal(y) ELSE -(AbsVal(x) \div AbsVal(y))

FMod(x, y) == IF x < 0 THEN -(AbsVal(x) % AbsVal(y)) ELSE AbsVal(x) % AbsVal(y)

\* mutant: the factor is squared before the current bit is multiplied in
RECURSIVE PowLoopSquareFirst(_, _, _)
PowLoopSquareFirst(result, factor, n) ==
    IF n = 0 THEN result
    ELSE PowLoopSquareFirst(IF n % 2 # 0 THEN Wrap(result * Wrap(factor * factor)) ELSE result,
                            Wrap(factor * factor), n \div 2)

(* Pow's square-and-multiply loop; n&1 is n % 2 and n>>1 is n \div 2     *)
(* (both agree with Go's arithmetic shift for negative n).               *)
RECURSIVE PowLoop(_, _, _)
PowLoop(result, factor, n) ==
    IF n = 0 THEN result
    ELSE PowLoop(IF n % 2 # 0 THEN Wrap(result * factor) ELSE result,
                 Wrap(factor * factor), n \div 2)

(* The loop ends only for n >= 0: for n < 0 the shift stops at -1.       *)
PowReturns(a, n) == a = 0 \/ n >= 0

Pow(a, n) ==
    CASE a = 0 -> 0
      [] n = 0 -> 1
      [] n = 1 -> a
      [] OTHER -> PowLoop(1, a, n)

(* PowInt64 is the same code over int64, which is int on 64-bit targets. *)
PowInt64(a, n) == Pow(a, n)

\* mutant: the two parts swapped
MergeSwapped(refer, a, b) == Wrap(Wrap(a * refer) + b)

Merge(refer, a, b) == Wrap(Wrap(b * refer) + a)

UnMerge(refer, num) == <<FMod(num, refer), TruncDiv(num, refer)>>

\* mutant: the loop stops one digit early
RECURSIVE DigitLoopShort(_)
DigitLoopShort(x) == IF x >= 10 THEN 1 + DigitLoopShort(TruncDiv(x, 10)) ELSE 0

(* CountDigits' loop: divide by ten until zero.                          *)
RECURSIVE DigitLoop(_)
DigitLoop(x) == IF x > 0 THEN 1 + DigitLoop(TruncDiv(x, 10)) ELSE 0

(* CountDigits: the set of results the builds can give.                  *)
CountDigits(num) ==
    IF num = 0 THEN {1} ELSE {DigitLoop(x) : x \in AbsViaFloat(num)}

(* GetDigitValue: digit `digit` of |num|, with Go's truncating / and %.  *)
RECURSIVE DropDigits(_, _)
DropDigits(x, k) == IF k <= 0 THEN x ELSE DropDigits(TruncDiv(x, 10), k - 1)

GetDigitValue(num, digit) ==
    {LET y == DropDigits(x, digit) IN y - 10 * TruncDiv(y, 10) : x \in AbsViaFloat(num)}

RandomInt64(min, max) ==
    LET n == Wrap(max + 1 - min)
    IN CASE min = max -> [panic |-> FALSE, vals |-> {min}]
         [] n <= 0    -> [panic |-> TRUE, vals |-> {}]
         [] OTHER     -> [panic |-> FALSE, vals |-> {Wrap(min + r) : r \in 0 .. n - 1}]

(* Min, Max, MinMax and MaxMin, named apart from FiniteSetsExt's Min/Max. *)
GoMin(a, b) == IF a < b THEN a ELSE b
GoMax(a, b) == IF a > b THEN a ELSE b
MinMax(a, b) == IF a < b THEN <<a, b>> ELSE <<b, a>>
MaxMin(a, b) == IF a > b THEN <<a, b>> ELSE <<b, a>>

\* mutant: the two bounds' results swapped
ClampSwapped(value, min, max) ==
    CASE value < min -> max
      [] value > max -> min
      [] OTHER       -> value

Clamp(value, min, max) ==
    CASE value < min -> min
      [] value > max -> max
      [] OTHER       -> value

\* mutant: sorted with > instead of <
ToContinuousDesc(nums) ==
    IF Len(nums) = 0 THEN <<>>
    ELSE LET sorted == SortSeq(nums, LAMBDA x, y : x > y)
         IN [k \in 1 .. Len(nums) |-> sorted[k]]

(* ToContinuous sorts nums in place and maps i+1 to the i-th of them; an *)
(* empty slice gives nil, the empty map here.                            *)
ToContinuous(nums) ==
    IF Len(nums) = 0 THEN <<>>
    ELSE LET sorted == SortSeq(nums, LAMBDA x, y : x < y)
         IN [k \in 1 .. Len(nums) |-> sorted[k]]

(* random.Int converts to int64 and back, the same width on 64-bit.      *)
RandomInt(min, max) == RandomInt64(min, max)

RandomIntN(n) == IF n <= 0 THEN {0} ELSE 0 .. n - 1

-----------------------------------------------------------------------------
(* A caller of the helpers: `call` is the call it makes, any of the      *)
(* argument tuples below.                                                 *)

VARIABLE call

Calls ==
    [fn : {"Pow"}, a : Operands, n : Exponents]
    \cup [fn : {"Merge"}, refer : Operands, a : Operands, b : Operands]
    \cup [fn : {"Digits"}, num : GoInt]
    \cup [fn : {"Random"}, lo : Bounds, hi : Bounds]
    \cup [fn : {"Order"}, a : Operands, b : Operands, v : Operands]
    \cup [fn : {"Continuous"}, nums : UNION {[1 .. n -> Operands] : n \in 0 .. 3}]

(* Pow, by square-and-multiply with wrap-around, returns the power a^n   *)
(* reduced to the int width, for every base and exponent but Pow(0, 0),  *)
(* which the a == 0 early return makes 0.                                *)
PowIsPower ==
    (call.fn = "Pow" /\ (call.a # 0 \/ call.n # 0))
        => PowReturns(call.a, call.n) /\ Pow(call.a, call.n) = Wrap(call.a^call.n)

(* UnMerge undoes Merge for a digit 0 <= a < refer and a non-negative    *)
(* high part b: math.Mod and the truncating / recover a and b.            *)
MergeRoundTrip ==
    (/\ call.fn = "Merge" /\ call.refer > 0 /\ 0 <= call.a /\ call.a < call.refer
     /\ call.b >= 0 /\ call.b * call.refer + call.a <= MaxInt)
        => UnMerge(call.refer, Merge(call.refer, call.a, call.b)) = <<call.a, call.b>>

(* The number that digits 0..k-1 of num, as GetDigitValue reads them,    *)
(* spell in decimal.                                                      *)
RECURSIVE Expand(_, _)
Expand(num, k) ==
    IF k = 0 THEN 0
    ELSE 10^(k - 1) * (CHOOSE v \in GetDigitValue(num, k - 1) : TRUE) + Expand(num, k - 1)

(* CountDigits and GetDigitValue agree: the CountDigits(num) digits that *)
(* GetDigitValue reads are the decimal expansion of |num|, the leading   *)
(* one non-zero, for every int but MinInt.                               *)
DigitsReconstruct ==
    (call.fn = "Digits" /\ call.num # MinInt)
        => \A k \in CountDigits(call.num) :
              /\ Expand(call.num, k) = AbsVal(call.num)
              /\ call.num # 0 => GetDigitValue(call.num, k - 1) # {0}

ClampNearest ==
    call.fn = "Order"
        => LET a == call.a  b == call.b  c == Clamp(call.v, a, b)
           IN /\ MinMax(a, b) = <<GoMin(a, b), GoMax(a, b)>>
              /\ MaxMin(a, b) = <<GoMax(a, b), GoMin(a, b)>>
              /\ {GoMin(a, b), GoMax(a, b)} = {a, b} /\ GoMin(a, b) <= GoMax(a, b)
              /\ a <= b => /\ c \in a .. b
                          /\ \A x \in a .. b : AbsVal(c - call.v) <= AbsVal(x - call.v)

(* ToContinuous numbers the values of nums 1, 2, ... in ascending order, *)
(* each value as often as nums holds it.                                 *)
ContinuousSorted ==
    call.fn = "Continuous"
        => LET m == ToContinuous(call.nums)
               Count(f, x) == Cardinality({i \in DOMAIN f : f[i] = x})
           IN /\ DOMAIN m = 1 .. Len(call.nums)
              /\ \A k \in 1 .. Len(call.nums) - 1 : m[k] <= m[k + 1]
              /\ \A x \in Operands : Count(m, x) = Count(call.nums, x)

=============================================================================
