------------------------------ MODULE Numbers -------------------------------
(***************************************************************************)
(* The arithmetic of the virtual machine: fixnums, kept in a tagged word,  *)
(* and flonums, doubles that here are multiples of one half.               *)
(* An operator named after a primitive gives what that primitive answers:  *)
(* a value, an error, or a trap, which the trap's handler may turn into    *)
(* anything.  Arguments are characters, numbers and Nil.                   *)
(***************************************************************************)
EXTENDS Integers, Sequences, SequencesExt

CONSTANTS
    ByteBits,     \* bits of a byte: 8
    WordBytes,    \* bytes of a word: 8
    IntBytes,     \* bytes of an int: 4
    TagBits,      \* bits of a reference's tag: 2
    MantissaBits, \* significant bits of a double: 53
    BufLen        \* length of a buffer on the stack: 256

WordBits == WordBytes * ByteBits
IntBits == IntBytes * ByteBits

ASSUME WordsHoldTags ==
    /\ ByteBits \in Nat \ {0} /\ WordBytes \in Nat \ {0} /\ IntBytes \in 1 .. WordBytes
    /\ TagBits \in Nat /\ TagBits < WordBytes * ByteBits - 1

ASSUME MantissaAssumption == MantissaBits \in Nat /\ MantissaBits > 1

FixnumMax == 2^(WordBits - 1 - TagBits) - 1
FixnumMin == -(2^(WordBits - 1 - TagBits))
Fixnums == FixnumMin .. FixnumMax

Fixnum(n) == [type |-> "fixnum", n |-> n]
Flonum(halves) == [type |-> "flonum", n |-> halves]
Char(c) == [type |-> "character", n |-> c]
Nil == [type |-> "nil", n |-> 0]
Truth(test) == [type |-> "boolean", n |-> IF test THEN 1 ELSE 0]
Trap(name) == [type |-> "trap", n |-> 0, name |-> name]
Error(name) == [type |-> "error", n |-> 0, name |-> name]

FixnumP(x) == x.type = "fixnum"
NumberP(x) == x.type \in {"fixnum", "flonum"}
Typed(test, answer) == IF test THEN answer ELSE Error("wrong-type")

Fixcons(n) == IF n \in Fixnums THEN Fixnum(n) ELSE Trap("fixcons")

(* A word read as a signed number.                                         *)
Signed(n) ==
    LET word == n % 2^WordBits
    IN  IF word >= 2^(WordBits - 1) THEN word - 2^WordBits ELSE word

(* C divides towards zero.                                                 *)
Magnitude(n) == IF n < 0 THEN -n ELSE n
Quot(a, b) ==
    LET q == Magnitude(a) \div Magnitude(b)
    IN  IF (a < 0) = (b < 0) THEN q ELSE -q

NearestEven(a, b) ==
    LET q == a \div b
        r == a % b
    IN  IF 2 * r > b \/ (2 * r = b /\ q % 2 = 1) THEN q + 1 ELSE q

(* A quotient as a double: so many bits from the first that is not nought, *)
(* the nearest in doubt the even one; then the whole number towards zero.  *)
Exponent(a, b) == CHOOSE e \in 0 .. a : a < b * 2^e /\ (e = 0 \/ b * 2^(e - 1) <= a)

DoubleQuot(a, b) ==
    LET m == Magnitude(a)
        d == Magnitude(b)
        e == Exponent(m, d)
        q == (NearestEven(m * 2^MantissaBits, d * 2^e) * 2^e) \div 2^MantissaBits
    IN  IF (a < 0) = (b < 0) THEN q ELSE -q

Double(halves) == DoubleQuot(halves, 1)

(* A number converted to a flonum.                                         *)
Halves(x) == IF FixnumP(x) THEN Double(2 * x.n) ELSE x.n
-----------------------------------------------------------------------------
(* Comparison of several arguments.  Characters are compared by code among *)
(* themselves and, next to a fixnum, by their tagged word.                 *)
CharacterWord(c) == 8 * c + 2

NumericValue(x) ==
    CASE x.type = "character" -> CharacterWord(x.n)
      [] x.type = "fixnum" -> x.n
      [] OTHER -> 0

Related(op, m, n) ==
    CASE op = "=" -> m = n
      [] op = ">=" -> m >= n
      [] op = ">" -> m > n
      [] op = "<=" -> m <= n
      [] op = "<" -> m < n

Compare(op, args) ==
    LET types == {args[i].type : i \in DOMAIN args}
        Chain(V(_)) == \A i \in 1 .. Len(args) - 1 : Related(op, V(args[i]), V(args[i + 1]))
        misses == {i \in 1 .. Len(args) - 1 :
                     /\ NumberP(args[i]) /\ NumberP(args[i + 1])
                     /\ ~Related(op, Halves(args[i]), Halves(args[i + 1]))}
        chars == {i \in DOMAIN args : args[i].type = "character"}
    IN  Typed(types \subseteq {"character", "fixnum", "flonum"},
              IF "flonum" \notin types
              THEN IF "fixnum" \in types THEN Truth(Chain(NumericValue))
                   ELSE Truth(Chain(LAMBDA x : x.n))
              ELSE IF \E c \in chars : \A i \in misses : c <= i + 1 THEN Error("wrong-type")
              ELSE Truth(misses = {}))
-----------------------------------------------------------------------------
(* Sums, differences and products.  Of the product of two flonums, what is *)
(* less than a half is dropped.                                            *)
LAdd(x, y) ==
    Typed(NumberP(x) /\ (y = Nil \/ NumberP(y)),
      IF y = Nil THEN x
      ELSE IF ~(FixnumP(x) /\ FixnumP(y)) THEN Flonum(Double(Halves(x) + Halves(y)))
      ELSE IF \/ y.n > 0 /\ x.n > FixnumMax - y.n
              \/ y.n < 0 /\ x.n < FixnumMin - y.n
      THEN Trap("add")
      ELSE Fixcons(x.n + y.n))

Negate(x) ==
    IF ~FixnumP(x) THEN Flonum(-x.n)
    ELSE IF x.n = FixnumMin THEN Trap("negate") ELSE Fixcons(-x.n)

LSubtract(x, y) ==
    Typed(NumberP(x) /\ (y = Nil \/ NumberP(y)),
      IF y = Nil THEN Negate(x)
      ELSE IF ~(FixnumP(x) /\ FixnumP(y)) THEN Flonum(Double(Halves(x) - Halves(y)))
      ELSE IF \/ y.n > 0 /\ x.n < FixnumMin + y.n
              \/ y.n < 0 /\ x.n > FixnumMax + y.n
      THEN Trap("subtract")
      ELSE Fixcons(x.n - y.n))

(* Mutant: the product of two numbers below zero is not checked.           *)
ProductOverflowsUnchecked(a, b) ==
    \/ a > 0 /\ b > 0 /\ a > Quot(FixnumMax, b)
    \/ a > 0 /\ b <= 0 /\ b < Quot(FixnumMin, a)
    \/ a <= 0 /\ b > 0 /\ a < Quot(FixnumMin, b)

ProductOverflows(a, b) ==
    \/ a > 0 /\ b > 0 /\ a > Quot(FixnumMax, b)
    \/ a > 0 /\ b <= 0 /\ b < Quot(FixnumMin, a)
    \/ a <= 0 /\ b > 0 /\ a < Quot(FixnumMin, b)
    \/ a < 0 /\ b <= 0 /\ b < Quot(FixnumMax, a)

LMultiply(x, y) ==
    Typed(NumberP(x) /\ (y = Nil \/ NumberP(y)),
      IF y = Nil THEN x
      ELSE IF ~(FixnumP(x) /\ FixnumP(y)) THEN Flonum(DoubleQuot(Halves(x) * Halves(y), 2))
      ELSE IF ProductOverflows(x.n, y.n) THEN Trap("multiply")
      ELSE Fixcons(Signed(x.n * y.n)))
-----------------------------------------------------------------------------
(* Division.                                                               *)
Divides(y, answer) == IF y.n = 0 THEN Error("divide-by-zero") ELSE answer

LQuotient(x, y) ==
    Typed(NumberP(x) /\ NumberP(y), Divides(y,
      IF ~(FixnumP(x) /\ FixnumP(y)) THEN Flonum(2 * DoubleQuot(Halves(x), Halves(y)))
      ELSE IF x.n = FixnumMin /\ y.n = -1 THEN Trap("divide")
      ELSE Fixcons(Quot(x.n, y.n))))

LRemainder(x, y) ==
    Typed(NumberP(x) /\ NumberP(y), Divides(y,
      IF FixnumP(x) /\ FixnumP(y)
      THEN Fixcons(x.n - Quot(x.n, Magnitude(y.n)) * Magnitude(y.n))
      ELSE Flonum(Double(Halves(x) - Double(DoubleQuot(Halves(x), Halves(y)) * Halves(y))))))

LModulo(x, y) ==
    LET rest == Magnitude(x.n) % Magnitude(y.n)
        mod == IF (y.n > 0) # (x.n > 0) THEN Magnitude(y.n) - rest ELSE rest
    IN  Typed(FixnumP(x) /\ FixnumP(y), Divides(y,
          IF x.n = FixnumMin /\ y.n = -1 THEN Trap("modulo")
          ELSE Fixcons(IF y.n > 0 THEN mod ELSE -mod)))

LMagnitude(x) ==
    Typed(NumberP(x),
      IF x.n >= 0 THEN x ELSE IF FixnumP(x) THEN Fixcons(-x.n) ELSE Flonum(-x.n))

(* A random word reduced to the range asked for; the divisor is converted  *)
(* to an unsigned word, and division by zero ends the process.             *)
LRandom(x, word) ==
    IF x.n = 0 THEN Error("killed") ELSE Fixcons(Signed(word % (x.n % 2^WordBits)))
-----------------------------------------------------------------------------
(* Exactness and rounding.                                                 *)
LExactToInexact(x) == Typed(NumberP(x), Flonum(Halves(x)))

(* The bounds are converted too, and the greatest may become one more.     *)
LInexactToExact(x) ==
    Typed(NumberP(x),
      IF FixnumP(x) THEN x
      ELSE IF 2 * FixnumMin <= x.n /\ x.n <= Halves(Fixnum(FixnumMax)) THEN Fixcons(Quot(x.n, 2))
      ELSE Truth(FALSE))

FloorOf(h) == h \div 2
CeilingOf(h) == -((-h) \div 2)

(* Halves go away from zero.                                               *)
RoundOf(h) ==
    IF h > 0 THEN IF h - 2 * FloorOf(h) >= 1 THEN FloorOf(h) + 1 ELSE FloorOf(h)
    ELSE IF 2 * CeilingOf(h) - h >= 1 THEN CeilingOf(h) - 1 ELSE CeilingOf(h)

TruncateOf(h) == IF h < 0 THEN CeilingOf(h) ELSE FloorOf(h)

(* A number converted to a fixnum.                                         *)
Whole(x) == IF FixnumP(x) THEN x.n ELSE TruncateOf(x.n)

Rounding(how, x) ==
    LET whole == CASE how = "floor" -> FloorOf(x.n)
                   [] how = "ceiling" -> CeilingOf(x.n)
                   [] how = "round" -> RoundOf(x.n)
                   [] how = "truncate" -> TruncateOf(x.n)
    IN  Typed(NumberP(x), IF FixnumP(x) THEN x ELSE Flonum(2 * whole))
-----------------------------------------------------------------------------
(* Operations on the bits of two's complement words.                       *)
Bit(n, i) == (n \div 2^i) % 2

OfBits(op, a, b) ==
    CASE op = "and" -> a * b
      [] op = "or" -> a + b - a * b
      [] op = "xor" -> (a + b) % 2

BitWise(op, x, y) ==
    LET sum[i \in 0 .. WordBits] ==
          IF i = 0 THEN 0 ELSE sum[i - 1] + OfBits(op, Bit(x, i - 1), Bit(y, i - 1)) * 2^(i - 1)
    IN  Signed(sum[WordBits])

BitOperation(op, x, y) ==
    IF y = Nil THEN x
    ELSE Typed(FixnumP(x) /\ FixnumP(y), Fixcons(BitWise(op, x.n, y.n)))

LBitwiseNot(x) == Typed(FixnumP(x), Fixcons(-x.n - 1))

(* A shift by as many bits as a word has, or more, gives nought.           *)
Shift(x, n, answer) ==
    Typed(FixnumP(x) /\ FixnumP(n), IF n.n >= WordBits THEN Fixcons(0) ELSE answer)

LBitwiseShl(x, n) ==
    Shift(x, n,
      IF x.n < 0 \/ n.n < 0 \/ n.n >= IntBits \/ x.n > (2^(IntBits - 1) - 1) \div 2^n.n
      THEN Trap("shl")
      ELSE Fixcons(x.n * 2^n.n))

(* The processor takes a shift's count modulo the width of the word.       *)
ShiftCount(n) == n % WordBits

LBitwiseShr(x, n) == Shift(x, n, Fixcons(Signed((x.n % 2^WordBits) \div 2^ShiftCount(n.n))))

LBitwiseAshr(x, n) == Shift(x, n, Fixcons(x.n \div 2^ShiftCount(n.n)))
-----------------------------------------------------------------------------
(* Numbers as text: leading blanks, a sign and digits.                     *)
Digits(u, radix) ==
    LET d[n \in Nat] == IF n < radix THEN <<n>> ELSE Append(d[n \div radix], n % radix)
    IN  d[u]

Numeral(blanks, sign, digits) ==
    [type |-> "numeral", n |-> 0, blanks |-> blanks, sign |-> sign, digits |-> digits]

(* Mutant: a signed number is written as its word.                         *)
NumeralOfUnsigned(n, radix, signed) == Numeral(0, "", Digits(n % 2^WordBits, radix))

(* Unless a signed number was asked for, the word is written as unsigned;  *)
(* in radix 8 and 16 a signed number that is not positive gets a minus.    *)
NumeralOf(n, radix, signed) ==
    IF ~signed THEN Numeral(0, "", Digits(n % 2^WordBits, radix))
    ELSE IF n < 0 \/ (n = 0 /\ radix # 10) THEN Numeral(0, "-", Digits(-n, radix))
    ELSE Numeral(0, "", Digits(n, radix))

LNumberToString(x, radix, signed) ==
    IF radix \in {8, 10, 16} THEN NumeralOf(x.n, radix, signed) ELSE Error("unimplemented")

(* strtoll answers the nearest word for a numeral out of range, which is   *)
(* told from one in range by an errno that nobody resets.  Blanks and a    *)
(* sign may precede the digits.  Fractions and exponents are left out.  A  *)
(* text longer than the buffer on the stack is refused.                    *)
NumeralLength(text) == text.blanks + (IF text.sign = "" THEN 0 ELSE 1) + Len(text.digits)

LStringToNumber(text, radix, errno) ==
    LET value == FoldLeft(LAMBDA n, d : n * radix + d, 0, text.digits)
        n == IF text.sign = "-" THEN -value ELSE value
        least == -(2^(WordBits - 1))
        most == 2^(WordBits - 1) - 1
        overflow == n < least \/ n > most \/ (errno /\ n \in {least, most})
        parses == text.digits # << >> /\ \A i \in DOMAIN text.digits : text.digits[i] < radix
    IN  IF radix \notin 2 .. 36 \/ NumeralLength(text) >= BufLen THEN Error("arg-out-of-range")
        ELSE IF parses /\ ~overflow THEN Fixcons(n)
        ELSE IF radix # 10 \/ ~parses THEN Truth(FALSE)
        ELSE Flonum(Double(2 * n))
-----------------------------------------------------------------------------
(* Numbers as bytes, the most significant first.                           *)
Encode(width, n) == [i \in 1 .. width |-> (n \div 2^(ByteBits * (width - i))) % 2^ByteBits]

DecodeUnsigned(bytes) == FoldLeft(LAMBDA n, b : n * 2^ByteBits + b, 0, bytes)

Decode(bytes) ==
    LET bits == ByteBits * Len(bytes)
        n == DecodeUnsigned(bytes)
    IN  IF n >= 2^(bits - 1) THEN n - 2^bits ELSE n

(* An unsigned number of eight bytes is converted to a signed word.        *)
ReadBinaryFixnum(bytes, signed) ==
    Fixcons(IF signed THEN Decode(bytes) ELSE Signed(DecodeUnsigned(bytes)))
=============================================================================
