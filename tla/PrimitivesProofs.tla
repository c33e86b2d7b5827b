-------------------------- MODULE PrimitivesProofs --------------------------
(***************************************************************************)
(* The arithmetic of the virtual machine is that of the integers, only the *)
(* primitives that say so change an object they were given, and every one  *)
(* leaves objects that are well made, for any size of words, bytes and     *)
(* tags, any objects, and any program that calls.                          *)
(* Facts about powers of two come from counting the subsets of a set, and  *)
(* what would be an induction is the least counterexample.                 *)
(***************************************************************************)
EXTENDS Primitives, WellFoundedInduction, FiniteSetTheorems, TLAPS

(* A set of natural numbers has a least element: the least counterexample  *)
(* takes the place of an induction.                                        *)
LEMMA LeastExists ==
  ASSUME NEW A, A \subseteq Nat, A # {}
  PROVE  \E m \in A : \A k \in A : m <= k
<1>1. PICK m \in A : \A k \in A : ~ (<<k, m>> \in OpToRel(<, Nat))
  BY NatLessThanWellFounded, WFMin
<1>2. \A k \in A : ~ (k < m)
  BY <1>1 DEF OpToRel
<1> QED
  BY <1>2

(* 2^n counts the sets of n things, so it is a number and not nought.      *)
LEMMA PowerNat ==
  ASSUME NEW n \in Nat
  PROVE  2^n \in Nat /\ 2^n > 0
<1>1. IsFiniteSet(1 .. n) /\ Cardinality(1 .. n) = n
  BY FS_Interval
<1>2. IsFiniteSet(SUBSET (1 .. n)) /\ Cardinality(SUBSET (1 .. n)) = 2^n
  BY <1>1, FS_SUBSET
<1>3. Cardinality(SUBSET (1 .. n)) \in Nat
  BY <1>2, FS_CardinalityType
<1>4. Cardinality(SUBSET (1 .. n)) # 0
  BY <1>2, FS_EmptySet
<1> QED
  BY <1>2, <1>3, <1>4

(* One more thing doubles the sets: those without it, and those with it.   *)
LEMMA PowerDoubles ==
  ASSUME NEW n \in Nat
  PROVE  2^(n + 1) = 2 * 2^n
<1> DEFINE A == SUBSET (1 .. n)
           B == SUBSET (1 .. n + 1)
           C == B \ A
           f == [s \in A |-> s \cup {n + 1}]
<1>1. IsFiniteSet(A) /\ Cardinality(A) = 2^n /\ IsFiniteSet(B) /\ Cardinality(B) = 2^(n + 1)
  <2>1. n + 1 \in Nat
    OBVIOUS
  <2>2. /\ IsFiniteSet(1 .. n) /\ Cardinality(1 .. n) = n
        /\ IsFiniteSet(1 .. n + 1) /\ Cardinality(1 .. n + 1) = n + 1
    BY <2>1, FS_Interval
  <2> QED
    BY <2>2, FS_SUBSET
<1>2. f \in Bijection(A, C)
  <2>1. f \in [A -> C]
    <3>1. ASSUME NEW s \in A
          PROVE  s \cup {n + 1} \in C
      OBVIOUS
    <3> QED BY <3>1
  <2>2. ASSUME NEW s \in A, NEW t \in A, f[s] = f[t]
        PROVE  s = t
    <3>1. n + 1 \notin s /\ n + 1 \notin t
      OBVIOUS
    <3>2. s \cup {n + 1} = t \cup {n + 1}
      BY <2>2
    <3> QED
      BY <3>1, <3>2
  <2>3. ASSUME NEW t \in C
        PROVE  \E s \in A : f[s] = t
    <3>1. n + 1 \in t
      OBVIOUS
    <3>2. t \ {n + 1} \in A
      OBVIOUS
    <3>3. f[t \ {n + 1}] = t
      BY <3>1, <3>2
    <3> QED BY <3>2, <3>3
  <2> HIDE DEF f, A, C
  <2> QED
    BY <2>1, <2>2, <2>3 DEF Bijection, Injection, Surjection, IsInjective
<1> HIDE DEF f
<1>3. IsFiniteSet(C) /\ Cardinality(C) = 2^n
  BY <1>1, <1>2, FS_Bijection DEF ExistsBijection
<1>4. A \cup C = B /\ A \cap C = {}
  <2>1. A \subseteq B
    OBVIOUS
  <2> QED BY <2>1
<1> HIDE DEF A, B, C
<1>5. Cardinality(B) = Cardinality(A) + Cardinality(C) - Cardinality({})
  BY <1>1, <1>3, <1>4, FS_Union
<1>6. Cardinality({}) = 0
  BY FS_EmptySet
<1>7. 2^n \in Nat
  BY PowerNat
<1> QED
  BY <1>1, <1>3, <1>5, <1>6, <1>7
-----------------------------------------------------------------------------
(* Powers of two and the sizes of words.                                   *)

(* Powers are multiplied by adding their exponents.                        *)
LEMMA PowerAdds ==
  ASSUME NEW m \in Nat, NEW n \in Nat
  PROVE  2^(m + n) = 2^m * 2^n
<1> DEFINE Bad == {k \in Nat : 2^(m + k) # 2^m * 2^k}
<1> SUFFICES ASSUME Bad # {} PROVE FALSE
  OBVIOUS
<1>1. PICK k \in Bad : \A i \in Bad : k <= i
  <2> HIDE DEF Bad
  <2> QED BY LeastExists DEF Bad
<1>2. k # 0
  <2>1. 2^0 = 1 /\ 2^m \in Nat
    BY PowerNat
  <2>2. 2^m * 1 = 2^m /\ m + 0 = m
    BY <2>1
  <2> QED BY <2>1, <2>2
<1>3. k - 1 \in Nat /\ m + (k - 1) \in Nat
  BY <1>2
<1>4. 2^(m + (k - 1)) = 2^m * 2^(k - 1)
  BY <1>1, <1>3
<1>5. 2^((m + (k - 1)) + 1) = 2 * 2^(m + (k - 1)) /\ 2^((k - 1) + 1) = 2 * 2^(k - 1)
  BY <1>3, PowerDoubles
<1>6. (m + (k - 1)) + 1 = m + k /\ (k - 1) + 1 = k
  OBVIOUS
<1>7. 2^m \in Nat /\ 2^(k - 1) \in Nat
  BY <1>3, PowerNat
<1>8. 2 * (2^m * 2^(k - 1)) = 2^m * (2 * 2^(k - 1))
  BY <1>7
<1> QED
  BY <1>4, <1>5, <1>6, <1>8

(* The greater exponent has the greater power.                             *)
LEMMA PowerGrows ==
  ASSUME NEW m \in Nat, NEW n \in Nat, m <= n
  PROVE  2^m <= 2^n
<1>1. n - m \in Nat /\ m + (n - m) = n
  OBVIOUS
<1>2. 2^n = 2^m * 2^(n - m)
  BY <1>1, PowerAdds
<1>3. 2^m \in Nat /\ 2^(n - m) \in Nat /\ 2^(n - m) >= 1
  BY <1>1, PowerNat
<1> DEFINE a == 2^m
           b == 2^(n - m)
<1>4. a * b >= a
  <2>1. a \in Nat /\ b \in Nat /\ b >= 1
    BY <1>3
  <2> HIDE DEF a, b
  <2> QED BY <2>1
<1> QED
  BY <1>2, <1>4

(* A number is less than its power of two.                                 *)
LEMMA PowerExceeds == ASSUME NEW n \in Nat PROVE n < 2^n
<1> DEFINE Bad == {m \in Nat : ~ (m < 2^m)}
<1> SUFFICES ASSUME Bad # {} PROVE FALSE
  OBVIOUS
<1>1. PICK m \in Bad : \A j \in Bad : m <= j
  <2>1. Bad \subseteq Nat
    OBVIOUS
  <2> HIDE DEF Bad
  <2> QED BY <2>1, LeastExists
<1>2. m # 0
  BY <1>1, PowerNat
<1>3. m - 1 \in Nat /\ (m - 1) + 1 = m
  BY <1>1, <1>2
<1>4. m - 1 < 2^(m - 1)
  BY <1>1, <1>3
<1>5. 2^((m - 1) + 1) = 2 * 2^(m - 1) /\ 2^(m - 1) \in Nat
  BY <1>3, PowerDoubles, PowerNat
<1> QED
  BY <1>1, <1>3, <1>4, <1>5

(* The halves of the words, and the fixnums in them.                       *)
FixnumBits == WordBits - 1 - TagBits

(* The sizes of a word and of the fixnums in it, which leave at least one  *)
(* bit of the word to the tag and the sign, or to the sign alone.          *)
LEMMA WordFacts ==
  /\ WordBits \in Nat /\ WordBits > 1
  /\ FixnumBits \in Nat /\ FixnumBits > 0 /\ FixnumBits <= WordBits - 1
  /\ FixnumMax \in Nat /\ FixnumMax >= 1
  /\ FixnumMin = -FixnumMax - 1
  /\ 2^FixnumBits = FixnumMax + 1
  /\ 2^(WordBits - 1) \in Nat
  /\ FixnumMax < 2^(WordBits - 1)
  /\ 2^WordBits = 2 * 2^(WordBits - 1)
<1>1. WordBits \in Nat /\ TagBits \in Nat /\ TagBits < WordBits - 1
  BY WordsHoldTags DEF WordBits
<1>2. FixnumBits \in Nat /\ FixnumBits > 0 /\ WordBits - 1 \in Nat /\ FixnumBits <= WordBits - 1
      /\ WordBits > 1 /\ (WordBits - 1) + 1 = WordBits
  BY <1>1 DEF FixnumBits
<1>3. 2^1 <= 2^FixnumBits /\ 2^FixnumBits <= 2^(WordBits - 1)
  <2>1. 1 \in Nat /\ 1 <= FixnumBits
    BY <1>2
  <2> QED
    BY ONLY <1>2, <2>1, PowerGrows
<1>4. 2^1 = 2
  OBVIOUS
<1>5. 2^FixnumBits \in Nat /\ 2^(WordBits - 1) \in Nat
  BY <1>2, PowerNat
<1>6. FixnumMax = 2^FixnumBits - 1 /\ FixnumMin = -(2^FixnumBits)
  BY DEF FixnumMax, FixnumMin, FixnumBits
<1>7. 2^((WordBits - 1) + 1) = 2 * 2^(WordBits - 1)
  BY <1>2, PowerDoubles
<1> QED
  BY <1>1, <1>2, <1>3, <1>4, <1>5, <1>6, <1>7

(* A number a word has room for is read from the word as it was.           *)
LEMMA SignedExact ==
  ASSUME NEW n \in Int, -(2^(WordBits - 1)) <= n, n < 2^(WordBits - 1)
  PROVE  Signed(n) = n
<1> DEFINE h == 2^(WordBits - 1)
           w == 2^WordBits
<1>1. h \in Nat /\ w = 2 * h /\ h > 0
  BY WordFacts
<1>2. Signed(n) = IF n % w >= h THEN (n % w) - w ELSE n % w
  BY DEF Signed
<1>3. -h <= n /\ n < h
  OBVIOUS
<1> HIDE DEF h, w
<1>4. n >= 0 => n % w = n
  BY <1>1, <1>3
<1>5. n < 0 => n % w = n + w
  BY <1>1, <1>3
<1> QED
  BY <1>1, <1>2, <1>3, <1>4, <1>5

(* What Euclid promises.                                                   *)
LEMMA Euclid ==
  ASSUME NEW n \in Int, NEW m \in Nat, m > 0
  PROVE  /\ n \div m \in Int /\ n % m \in 0 .. m - 1
         /\ n = m * (n \div m) + (n % m)
<1>1. n \div m \in Int /\ n % m \in 0 .. m - 1
  OBVIOUS
<1>2. n = m * (n \div m) + (n % m)
  OBVIOUS
<1> QED
  BY <1>1, <1>2

(* Only one quotient and one rest below the divisor make up a number.      *)
LEMMA DivisionUnique ==
  ASSUME NEW n \in Int, NEW m \in Nat, m > 0, NEW q \in Int, NEW r \in 0 .. m - 1,
         n = q * m + r
  PROVE  n % m = r /\ n \div m = q
<1>1. n % m = r
  BY SMTT(30)
<1>2. n \div m = q
  BY SMTT(30)
<1> QED
  BY <1>1, <1>2

(* A factor is greater than a quotient when the product is greater than    *)
(* the dividend.                                                           *)
LEMMA MoreThanQuotient ==
  ASSUME NEW a \in Int, NEW b \in Nat, b > 0, NEW M \in Int
  PROVE a > M \div b <=> a * b > M
<1> DEFINE q == M \div b
<1>1. q \in Int /\ q * b <= M /\ M < (q + 1) * b
 OBVIOUS
<1> HIDE DEF q
<1>2. a > q => a * b >= (q + 1) * b
 BY <1>1
<1>3. a <= q => a * b <= q * b
 BY <1>1
<1> QED BY <1>1, <1>2, <1>3 DEF q

(* multiply_overflows finds exactly the products no fixnum has.            *)
LEMMA ProductOverflowExact ==
  ASSUME NEW a \in Int, NEW b \in Int
  PROVE  ProductOverflows(a, b) <=> a * b \notin Fixnums
<1> DEFINE M == FixnumMax
<1>1. M \in Nat /\ FixnumMin = -M - 1 /\ Fixnums = (-M - 1) .. M
  BY WordFacts DEF Fixnums
<1> HIDE DEF M
<1>2. CASE a > 0 /\ b > 0
  <2>1. Quot(FixnumMax, b) = M \div b
    BY <1>1, <1>2 DEF Quot, Magnitude, M
  <2>2. a > M \div b <=> a * b > M
    BY <1>1, <1>2, MoreThanQuotient
  <2>3. a * b >= 0
    BY <1>2
  <2> QED
    BY <1>1, <1>2, <2>1, <2>2, <2>3 DEF ProductOverflows
<1>3. CASE a > 0 /\ b <= 0
  <2>1. Quot(FixnumMin, a) = -((M + 1) \div a)
    BY <1>1, <1>3 DEF Quot, Magnitude
  <2>2. -b > (M + 1) \div a <=> (-b) * a > M + 1
    BY <1>1, <1>3, MoreThanQuotient
  <2>3. a * b <= 0 /\ (-b) * a = -(a * b)
    BY <1>3
  <2>4. (M + 1) \div a \in Int
    BY <1>1, <1>3
  <2> QED
    BY <1>1, <1>3, <2>1, <2>2, <2>3, <2>4 DEF ProductOverflows
<1>4. CASE a <= 0 /\ b > 0
  <2>1. Quot(FixnumMin, b) = -((M + 1) \div b)
    BY <1>1, <1>4 DEF Quot, Magnitude
  <2>2. -a > (M + 1) \div b <=> (-a) * b > M + 1
    BY <1>1, <1>4, MoreThanQuotient
  <2>3. a * b <= 0 /\ (-a) * b = -(a * b)
    BY <1>4
  <2>4. (M + 1) \div b \in Int
    BY <1>1, <1>4
  <2> QED
    BY <1>1, <1>4, <2>1, <2>2, <2>3, <2>4 DEF ProductOverflows
<1>5. CASE a < 0 /\ b <= 0
  <2>1. Quot(FixnumMax, a) = -(M \div (-a))
    BY <1>1, <1>5 DEF Quot, Magnitude, M
  <2>2. -b > M \div (-a) <=> (-b) * (-a) > M
    BY <1>1, <1>5, MoreThanQuotient
  <2>3. a * b >= 0 /\ (-b) * (-a) = a * b
    BY <1>5
  <2>4. M \div (-a) \in Int
    BY <1>1, <1>5
  <2> QED
    BY <1>1, <1>5, <2>1, <2>2, <2>3, <2>4 DEF ProductOverflows
<1>6. CASE a = 0 /\ b <= 0
  BY <1>1, <1>6 DEF ProductOverflows
<1> QED
  BY <1>2, <1>3, <1>4, <1>5, <1>6
-----------------------------------------------------------------------------
(* Sums, products and quotients.                                           *)

(* A fixnum as a primitive gets it.                                        *)
FixnumArg(x) == x \in [type : {"fixnum"}, n : Fixnums]

(* What a primitive gives that answers n if a fixnum holds it, and traps   *)
(* otherwise.                                                              *)
ExactOr(v, n) == IF n \in Fixnums THEN v = Fixnum(n) ELSE v.type = "trap"

(* The fixnums are the integers between the least and the greatest.        *)
LEMMA FixnumsBounds ==
  \A n : n \in Fixnums <=> n \in Int /\ FixnumMin <= n /\ n <= FixnumMax
BY WordFacts DEF Fixnums

(* fixcons makes the fixnum of its number, or traps.                       *)
LEMMA FixconsExact == ASSUME NEW n \in Int PROVE ExactOr(Fixcons(n), n)
BY DEF ExactOr, Fixcons, Trap

(* What a fixnum passed to a primitive is.                                 *)
LEMMA FixnumRead ==
  ASSUME NEW x, FixnumArg(x)
  PROVE  /\ x.n \in Int /\ x.n \in Fixnums /\ x = Fixnum(x.n)
         /\ FixnumP(x) /\ NumberP(x) /\ x # Nil
         /\ FixnumMin <= x.n /\ x.n <= FixnumMax
<1>1. x = [type |-> "fixnum", n |-> x.n] /\ x.n \in Fixnums
  BY DEF FixnumArg
<1>2. x.type = "fixnum" /\ x # Nil
  BY <1>1 DEF Nil
<1> QED
  BY <1>1, <1>2, FixnumsBounds DEF Fixnum, FixnumP, NumberP

(* The sum of two fixnums is exact, or traps (number.c:319-351).           *)
LEMMA SumExact ==
  ASSUME NEW x, NEW y, FixnumArg(x), FixnumArg(y)
  PROVE  ExactOr(LAdd(x, y), x.n + y.n)
<1>1. /\ FixnumP(x) /\ NumberP(x) /\ x.n \in Int /\ x.n \in Fixnums
      /\ FixnumP(y) /\ NumberP(y) /\ y.n \in Int /\ y.n \in Fixnums /\ y # Nil
  BY FixnumRead
<1>2. LAdd(x, y) = IF \/ y.n > 0 /\ x.n > FixnumMax - y.n
                      \/ y.n < 0 /\ x.n < FixnumMin - y.n
                     THEN Trap("add") ELSE Fixcons(x.n + y.n)
  BY <1>1 DEF LAdd, Typed
<1> QED
  BY <1>1, <1>2, WordFacts, FixnumsBounds DEF ExactOr, Fixcons, Trap

(* So is the difference.                                                   *)
LEMMA DifferenceExact ==
  ASSUME NEW x, NEW y, FixnumArg(x), FixnumArg(y)
  PROVE  ExactOr(LSubtract(x, y), x.n - y.n)
<1>1. /\ FixnumP(x) /\ NumberP(x) /\ x.n \in Int /\ x.n \in Fixnums
      /\ FixnumP(y) /\ NumberP(y) /\ y.n \in Int /\ y.n \in Fixnums /\ y # Nil
  BY FixnumRead
<1>2. LSubtract(x, y) = IF \/ y.n > 0 /\ x.n < FixnumMin + y.n
                           \/ y.n < 0 /\ x.n > FixnumMax + y.n
                          THEN Trap("subtract") ELSE Fixcons(x.n - y.n)
  BY <1>1 DEF LSubtract, Typed
<1> QED
  BY <1>1, <1>2, WordFacts, FixnumsBounds DEF ExactOr, Fixcons, Trap

(* So is the negative of a fixnum.                                         *)
LEMMA NegativeExact ==
  ASSUME NEW x, FixnumArg(x)
  PROVE  ExactOr(LSubtract(x, Nil), -x.n)
<1>1. FixnumP(x) /\ NumberP(x) /\ x.n \in Int /\ x.n \in Fixnums
  BY FixnumRead
<1>2. LSubtract(x, Nil) = IF x.n = FixnumMin THEN Trap("negate") ELSE Fixcons(-x.n)
  BY <1>1 DEF LSubtract, Typed, Negate
<1> QED
  BY <1>1, <1>2, WordFacts, FixnumsBounds DEF ExactOr, Fixcons, Trap

(* So is the product, which is computed in a word that may overflow.       *)
LEMMA ProductExact ==
  ASSUME NEW x, NEW y, FixnumArg(x), FixnumArg(y)
  PROVE  ExactOr(LMultiply(x, y), x.n * y.n)
<1>1. /\ FixnumP(x) /\ NumberP(x) /\ x.n \in Int
      /\ FixnumP(y) /\ NumberP(y) /\ y.n \in Int /\ y # Nil
  BY FixnumRead
<1> DEFINE p == x.n * y.n
<1>2. p \in Int
  BY <1>1
<1>3. LMultiply(x, y) = IF ProductOverflows(x.n, y.n) THEN Trap("multiply")
                        ELSE Fixcons(Signed(p))
  BY <1>1 DEF LMultiply, Typed
<1>4. ProductOverflows(x.n, y.n) <=> p \notin Fixnums
  BY <1>1, ProductOverflowExact
<1> HIDE DEF p
<1>5. p \in Fixnums => Signed(p) = p
  BY <1>2, WordFacts, FixnumsBounds, SignedExact
<1> QED
  BY <1>2, <1>3, <1>4, <1>5 DEF ExactOr, Fixcons, Trap, p

(* So is the magnitude.                                                    *)
LEMMA MagnitudeExact ==
  ASSUME NEW x, FixnumArg(x)
  PROVE  ExactOr(LMagnitude(x), Magnitude(x.n))
<1>1. FixnumP(x) /\ NumberP(x) /\ x.n \in Int /\ x.n \in Fixnums /\ x = Fixnum(x.n)
  BY FixnumRead
<1>2. LMagnitude(x) = IF x.n >= 0 THEN x ELSE Fixcons(-x.n)
  BY <1>1 DEF LMagnitude, Typed
<1> QED
  BY <1>1, <1>2 DEF ExactOr, Fixcons, Trap, Magnitude

(* C truncates: the quotient's sign is that of its arguments, and what     *)
(* remains has the sign of the dividend.                                   *)
LEMMA QuotFacts ==
  ASSUME NEW a \in Int, NEW b \in Int, b # 0
  PROVE  /\ Quot(a, b) \in Int
         /\ Quot(a, b) \in -a .. a \/ Quot(a, b) \in a .. -a
         /\ Quot(a, b) * b = Quot(a, Magnitude(b)) * Magnitude(b)
         /\ Magnitude(a - Quot(a, b) * b) < Magnitude(b)
         /\ (a - Quot(a, b) * b) * a >= 0
         /\ b = 1 => Quot(a, b) = a
         /\ b = -1 => Quot(a, b) = -a
         /\ b \notin {1, -1} /\ a # 0 => Magnitude(Quot(a, b)) < Magnitude(a)
<1> DEFINE m == Magnitude(a)
           k == Magnitude(b)
           q == m \div k
           r == m % k
<1>1. m \in Nat /\ k \in Nat /\ k > 0
  BY DEF Magnitude
<1>2. q \in Int /\ r \in 0 .. k - 1 /\ m = k * q + r
  BY <1>1, Euclid
<1>3. Quot(a, b) = IF (a < 0) = (b < 0) THEN q ELSE -q
  BY DEF Quot
<1>4. Quot(a, k) = IF a < 0 THEN -q ELSE q
  <2>1. Magnitude(k) = k
    BY <1>1 DEF Magnitude
  <2> QED
    BY <1>1, <2>1 DEF Quot
<1>5. k = (IF b < 0 THEN -b ELSE b) /\ m = (IF a < 0 THEN -a ELSE a)
  BY DEF Magnitude
<1> HIDE DEF m, k, q, r
<1>6. q >= 0 /\ q <= m /\ (k = 1 => q = m) /\ (k > 1 /\ m > 0 => q < m)
  <2>1. q >= 0
    <3> SUFFICES ASSUME q <= -1 PROVE FALSE
      BY <1>2
    <3>1. k * q <= k * (-1)
      BY <1>1, <1>2
    <3> QED BY <1>1, <1>2, <3>1
  <2>2. k * q >= q /\ (k = 1 => k * q = q) /\ (k > 1 => k * q >= 2 * q)
    BY <1>1, <1>2, <2>1
  <2>3. k = 1 => r = 0
    BY <1>2
  <2> QED
    BY <1>1, <1>2, <2>1, <2>2, <2>3
<1>7. Quot(a, b) * b = IF a < 0 THEN -(k * q) ELSE k * q
  BY <1>1, <1>2, <1>3, <1>5
<1>8. Quot(a, k) * k = IF a < 0 THEN -(k * q) ELSE k * q
  BY <1>1, <1>2, <1>4
<1>9. a - Quot(a, b) * b = IF a < 0 THEN -r ELSE r
  BY <1>1, <1>2, <1>5, <1>7
<1>10. Magnitude(a - Quot(a, b) * b) < k /\ (a - Quot(a, b) * b) * a >= 0
  <2>1. r >= 0 /\ r < k /\ r \in Int
    BY <1>1, <1>2
  <2>2. (a < 0 => (-r) * a >= 0) /\ (a >= 0 => r * a >= 0)
    BY <2>1
  <2> QED
    BY <1>9, <2>1, <2>2 DEF Magnitude
<1>11. Magnitude(Quot(a, b)) = q
  BY <1>2, <1>3, <1>6 DEF Magnitude
<1>12. Quot(a, b) \in -a .. a \/ Quot(a, b) \in a .. -a
  BY <1>1, <1>2, <1>3, <1>5, <1>6
<1>13. /\ b = 1 => Quot(a, b) = a
       /\ b = -1 => Quot(a, b) = -a
  BY <1>1, <1>2, <1>3, <1>5, <1>6
<1>14. b \notin {1, -1} /\ a # 0 => Magnitude(Quot(a, b)) < Magnitude(a)
  BY <1>1, <1>2, <1>5, <1>6, <1>11 DEF m
<1> QED
  BY <1>2, <1>3, <1>7, <1>8, <1>10, <1>12, <1>13, <1>14 DEF k

(* Quotient and remainder belong together (number.c:504-560).              *)
LEMMA QuotientExact ==
  ASSUME NEW x, NEW y, FixnumArg(x), FixnumArg(y), y.n # 0
  PROVE  \E q \in -x.n .. x.n \cup x.n .. -x.n :
           LET r == LRemainder(x, y).n
           IN  /\ q * y.n + r = x.n /\ Magnitude(r) < Magnitude(y.n) /\ r * x.n >= 0
               /\ ExactOr(LQuotient(x, y), q)
<1> DEFINE a == x.n
           b == y.n
           q == Quot(a, b)
           p == q * b
           r == a - p
<1>1. /\ FixnumP(x) /\ NumberP(x) /\ a \in Int /\ a \in Fixnums
      /\ FixnumP(y) /\ NumberP(y) /\ b \in Int /\ b \in Fixnums /\ b # 0
      /\ FixnumMin <= a /\ a <= FixnumMax
  BY FixnumRead
<1>2. /\ q \in Int /\ p \in Int
      /\ q \in -a .. a \/ q \in a .. -a
      /\ p = Quot(a, Magnitude(b)) * Magnitude(b)
      /\ Magnitude(r) < Magnitude(b)
      /\ r * a >= 0
      /\ b = -1 => q = -a
      /\ b = 1 => q = a
      /\ b \notin {1, -1} /\ a # 0 => Magnitude(q) < Magnitude(a)
  <2>1. a \in Int /\ b \in Int /\ b # 0
    BY <1>1
  <2> HIDE DEF a, b
  <2>2. /\ q \in Int
        /\ q \in -a .. a \/ q \in a .. -a
        /\ p = Quot(a, Magnitude(b)) * Magnitude(b)
        /\ Magnitude(r) < Magnitude(b)
        /\ r * a >= 0
    BY <2>1, QuotFacts
  <2>3. /\ b = -1 => q = -a
        /\ b = 1 => q = a
        /\ b \notin {1, -1} /\ a # 0 => Magnitude(q) < Magnitude(a)
    BY <2>1, QuotFacts
  <2>4. p \in Int
    <3> HIDE DEF q
    <3> QED BY <2>1, <2>2
  <2> QED
    BY <2>2, <2>3, <2>4
<1>3. LRemainder(x, y) = Fixcons(r)
  BY <1>1, <1>2 DEF LRemainder, Typed, Divides
<1>4. LQuotient(x, y) = IF a = FixnumMin /\ b = -1 THEN Trap("divide") ELSE Fixcons(q)
  BY <1>1 DEF LQuotient, Typed, Divides
<1> HIDE DEF q
<1>5. r \in Fixnums
  <2>1. r \in Int /\ (r * a >= 0)
    BY <1>1, <1>2
  <2>2. Magnitude(r) < Magnitude(b)
    BY <1>2
  <2>3. Magnitude(b) <= FixnumMax + 1
    BY <1>1, WordFacts, FixnumsBounds DEF Magnitude
  <2> HIDE DEF p, r
  <2>4. FixnumMin <= r /\ r <= FixnumMax
    <3>1. Magnitude(r) <= FixnumMax /\ FixnumMin = -FixnumMax - 1 /\ FixnumMax \in Nat
      <4>1. Magnitude(r) \in Int /\ Magnitude(b) \in Int
        BY <1>1, <2>1 DEF Magnitude
      <4> QED
        BY <2>2, <2>3, <4>1, WordFacts
    <3> QED
      BY <2>1, <3>1 DEF Magnitude
  <2> QED
    BY <2>1, <2>4, FixnumsBounds
<1>6. LRemainder(x, y).n = r /\ p + r = a
  BY <1>1, <1>2, <1>3, <1>5 DEF Fixcons, Fixnum
<1>7. ExactOr(LQuotient(x, y), q)
  <2>1. CASE a = FixnumMin /\ b = -1
    <3>1. q = FixnumMax + 1
      BY <1>2, <2>1, WordFacts
    <3> QED
      BY <1>4, <2>1, <3>1, WordFacts, FixnumsBounds DEF ExactOr, Trap
  <2>2. CASE ~ (a = FixnumMin /\ b = -1)
    BY <1>2, <1>4, <2>2, FixconsExact
  <2> QED BY <2>1, <2>2
<1> HIDE DEF a, b, p, r
<1>8. q \in -a .. a \cup a .. -a
  BY <1>2
<1> QED
  BY <1>2, <1>6, <1>7, <1>8 DEF a, b, p, r
-----------------------------------------------------------------------------
(* The other operations on numbers.                                        *)

(* Of a multiple nothing is left.                                          *)
LEMMA MultipleRest ==
  ASSUME NEW n \in Int, NEW k \in Nat, k > 0, NEW q \in Int, n = q * k
  PROVE  n % k = 0
<1>1. n = q * k + 0 /\ 0 \in 0 .. k - 1
  OBVIOUS
<1> QED
  BY <1>1, DivisionUnique

(* The sign of a product.                                                  *)
LEMMA NegativeTimes ==
  ASSUME NEW c \in Int, NEW k \in Int
  PROVE  (-c) * k = -(c * k)
OBVIOUS

(* What modulo answers differs from the dividend by a multiple of the      *)
(* divisor, has its sign and is no larger.                                 *)
LEMMA ModuloCongruent ==
  ASSUME NEW x, NEW y, FixnumArg(x), FixnumArg(y), LModulo(x, y).type = "fixnum"
  PROVE  /\ (x.n - LModulo(x, y).n) % Magnitude(y.n) = 0
         /\ Magnitude(LModulo(x, y).n) <= Magnitude(y.n) /\ LModulo(x, y).n * y.n >= 0
<1> DEFINE a == x.n
           b == y.n
           m == Magnitude(a)
           k == Magnitude(b)
           rest == m % k
           mod == IF (b > 0) # (a > 0) THEN k - rest ELSE rest
           v == IF b > 0 THEN mod ELSE -mod
<1>1. FixnumP(x) /\ a \in Int /\ FixnumP(y) /\ b \in Int
  BY FixnumRead
<1>2. b # 0
  BY <1>1 DEF LModulo, Typed, Divides, Error
<1>3. LModulo(x, y).n = v
  <2>1. LModulo(x, y) = IF a = FixnumMin /\ b = -1 THEN Trap("modulo") ELSE Fixcons(v)
    BY <1>1, <1>2 DEF LModulo, Typed, Divides
  <2> HIDE DEF v
  <2> QED
    BY <2>1 DEF Trap, Fixcons, Fixnum
<1>4. m \in Nat /\ k \in Nat /\ k > 0 /\ k = (IF b < 0 THEN -b ELSE b) /\ m = (IF a < 0 THEN -a ELSE a)
  BY <1>1, <1>2 DEF Magnitude
<1> DEFINE q == m \div k
<1>5. q \in Int /\ rest \in 0 .. k - 1 /\ m = k * q + rest
  <2>1. m \in Int /\ k \in Nat /\ k > 0
    BY <1>4
  <2> HIDE DEF m, k
  <2> QED BY <2>1, Euclid
<1>6. v \in Int /\ \E c \in Int : a - v = c * k
  <2> HIDE DEF q, rest, m, k
  <2>0. /\ q * k = k * q /\ (q + 1) * k = k * q + k
        /\ (-q) * k = -(k * q) /\ (-(q + 1)) * k = -(k * q) - k /\ k * q \in Int
    <3>1. q * k = k * q /\ (q + 1) * k = k * q + k
      BY <1>4, <1>5
    <3>2. (-q) * k = -(k * q)
      BY <1>4, <1>5
    <3>3. (-(q + 1)) * k = -((q + 1) * k)
      <4>1. q + 1 \in Int /\ k \in Int
        BY <1>4, <1>5
      <4> QED BY ONLY <4>1, NegativeTimes
    <3>4. k * q \in Int
      BY <1>4, <1>5
    <3> QED BY <1>4, <3>1, <3>2, <3>3, <3>4
  <2>1. CASE a > 0 /\ b > 0
    <3>1. a - v = q * k
      BY <1>1, <1>4, <1>5, <2>0, <2>1
    <3> QED BY <1>4, <1>5, <2>1, <3>1
  <2>2. CASE a > 0 /\ b < 0
    <3>1. a - v = (q + 1) * k
      BY <1>1, <1>4, <1>5, <2>0, <2>2
    <3> QED BY <1>4, <1>5, <2>2, <3>1
  <2>3. CASE a <= 0 /\ b > 0
    <3>1. a - v = (-(q + 1)) * k
      BY <1>1, <1>4, <1>5, <2>0, <2>3
    <3> QED BY <1>4, <1>5, <2>3, <3>1
  <2>4. CASE a <= 0 /\ b < 0
    <3>1. a - v = (-q) * k
      BY <1>1, <1>4, <1>5, <2>0, <2>4
    <3> QED BY <1>4, <1>5, <2>4, <3>1
  <2> QED BY <1>1, <1>2, <2>1, <2>2, <2>3, <2>4
<1>9. Magnitude(v) <= k /\ v * b >= 0
  <2>1. mod \in 0 .. k
    BY <1>4, <1>5
  <2> HIDE DEF mod, k, rest, q, m
  <2>2. CASE b > 0
    <3>1. v = mod
      BY <2>2
    <3>2. Magnitude(mod) = mod /\ mod * b >= 0
      BY <1>1, <1>4, <2>1, <2>2 DEF Magnitude
    <3> QED BY <2>1, <3>1, <3>2
  <2>3. CASE b < 0
    <3>1. v = -mod
      <4>1. b <= 0 /\ v = IF b > 0 THEN mod ELSE -mod
        BY <1>1, <2>3
      <4> HIDE DEF v
      <4> QED BY <1>1, <2>3, <4>1
    <3>2. Magnitude(-mod) = mod
      BY <1>4, <2>1 DEF Magnitude
    <3>3. (-mod) * b >= 0
      <4>1. (-mod) * b = mod * (-b)
        BY <1>1, <1>4, <2>1
      <4>2. mod * (-b) >= 0
        BY <1>1, <1>4, <2>1, <2>3
      <4> QED BY <4>1, <4>2
    <3> QED BY <2>1, <3>1, <3>2, <3>3
  <2> QED BY <1>1, <1>2, <2>2, <2>3
<1> HIDE DEF v, k, a
<1>7. PICK c \in Int : a - v = c * k
  BY <1>6
<1>8. (a - v) % k = 0
  <2>1. a - v \in Int
    BY <1>1, <1>6
  <2> QED
    BY <1>4, <1>7, <2>1, MultipleRest
<1> QED
  BY <1>3, <1>8, <1>9 DEF a, k

(* Three fixnums are in order if each is less than the next.               *)
LEMMA ComparisonExact ==
  ASSUME NEW x, NEW y, NEW z, FixnumArg(x), FixnumArg(y), FixnumArg(z)
  PROVE  Compare("<", <<x, y, z>>) = Truth(x.n < y.n /\ y.n < z.n)
<1>1. x.n \in Int /\ y.n \in Int /\ z.n \in Int /\ x = Fixnum(x.n) /\ y = Fixnum(y.n) /\ z = Fixnum(z.n)
  BY FixnumRead
<1>2. Compare("<", <<Fixnum(x.n), Fixnum(y.n), Fixnum(z.n)>>) = Truth(x.n < y.n /\ y.n < z.n)
  BY <1>1 DEF Compare, Fixnum, Truth, Typed, NumericValue, Related
<1> QED
  BY <1>1, <1>2

(* The word is taken modulo the number: unsigned, as the number is not     *)
(* below nought.                                                           *)
LEMMA RandomBelow ==
  ASSUME NEW x, FixnumArg(x), x.n > 0, NEW word \in Nat, LRandom(x, word).type = "fixnum"
  PROVE  LRandom(x, word).n < x.n
<1> DEFINE a == x.n
           h == 2^(WordBits - 1)
           w == 2^WordBits
           r == word % a
<1>1. a \in Nat /\ a > 0 /\ a <= FixnumMax /\ a < h /\ h \in Nat /\ w = 2 * h
  BY FixnumRead, WordFacts
<1>2. a % w = a
  <2> HIDE DEF a, w, h
  <2> QED BY <1>1
<1>3. r \in 0 .. a - 1
  <2> HIDE DEF a
  <2> QED BY <1>1
<1>4. Signed(r) = r
  <2>1. r \in Int /\ -h <= r /\ r < h
    BY <1>1, <1>3
  <2> HIDE DEF r
  <2> QED
    BY <2>1, SignedExact
<1>5. LRandom(x, word) = Fixcons(r)
  BY <1>1, <1>2, <1>4 DEF LRandom
<1> HIDE DEF a, r
<1>6. LRandom(x, word).n = r
  BY <1>5 DEF Fixcons, Trap, Fixnum
<1> QED
  BY <1>1, <1>3, <1>6 DEF a

(* Conversion to doubles.                                                  *)

(* The nearest whole number is off by a half at most, and exact when the   *)
(* division is.                                                            *)
LEMMA NearestFacts ==
  ASSUME NEW a \in Nat, NEW b \in Nat, b > 0
  PROVE  /\ NearestEven(a, b) \in Nat
         /\ 2 * (NearestEven(a, b) * b) - 2 * a <= b
         /\ 2 * a - 2 * (NearestEven(a, b) * b) <= b
         /\ \A k \in Nat : a = k * b => NearestEven(a, b) = k
<1> DEFINE q == a \div b
           r == a % b
           M == NearestEven(a, b)
<1>1. q \in Nat /\ r \in 0 .. b - 1 /\ a = b * q + r
  <2>1. q \in Int /\ r \in 0 .. b - 1 /\ a = b * q + r
    BY Euclid
  <2>2. q >= 0
    OBVIOUS
  <2> QED BY <2>1, <2>2
<1>2. \/ M = q /\ 2 * r <= b
      \/ M = q + 1 /\ 2 * r >= b /\ r > 0
  <2>1. M = IF 2 * r > b \/ (2 * r = b /\ q % 2 = 1) THEN q + 1 ELSE q
    BY DEF NearestEven
  <2> HIDE DEF q, r, M
  <2> QED BY <1>1, <2>1
<1> HIDE DEF q, r, M
<1>3. q * b = b * q /\ (q + 1) * b = b * q + b /\ b * q \in Int
  BY <1>1
<1>4. M \in Nat
  BY <1>1, <1>2
<1>5. 2 * (M * b) - 2 * a <= b /\ 2 * a - 2 * (M * b) <= b
  BY <1>1, <1>2, <1>3
<1>6. ASSUME NEW k \in Nat, a = k * b
      PROVE  M = k
  <2>1. a % b = 0 /\ a \div b = k
    <3>1. 0 \in 0 .. b - 1 /\ a = k * b + 0 /\ k \in Int
      BY <1>6
    <3> QED BY <3>1, DivisionUnique
  <2> QED BY <1>1, <1>2, <2>1 DEF q, r
<1> QED
  BY <1>4, <1>5, <1>6 DEF M

(* Every quotient has an exponent.                                         *)
LEMMA ExponentFacts ==
  ASSUME NEW a \in Nat, NEW b \in Nat, b > 0
  PROVE  /\ Exponent(a, b) \in Nat
         /\ a < b * 2^Exponent(a, b)
         /\ Exponent(a, b) = 0 \/ b * 2^(Exponent(a, b) - 1) <= a
<1> DEFINE Long == {k \in Nat : a < b * 2^k}
           P(e) == a < b * 2^e /\ (e = 0 \/ b * 2^(e - 1) <= a)
<1>1. a \in Long
  <2>1. 2^a \in Nat /\ a < 2^a
    BY PowerNat, PowerExceeds
  <2> DEFINE t == 2^a
  <2>2. b * t >= t
    <3>1. t \in Nat
      BY <2>1
    <3> HIDE DEF t
    <3> QED BY <3>1
  <2> QED BY <2>1, <2>2
<1>2. PICK m \in Long : \A k \in Long : m <= k
  <2>1. Long \subseteq Nat
    OBVIOUS
  <2> HIDE DEF Long
  <2> QED BY <1>1, <2>1, LeastExists
<1>3. m \in 0 .. a /\ P(m)
  <2>1. m \in Nat /\ a < b * 2^m /\ m <= a
    BY <1>1, <1>2
  <2>2. ASSUME m # 0
        PROVE  b * 2^(m - 1) <= a
    <3>1. m - 1 \in Nat /\ m - 1 \notin Long
      BY <1>2, <2>1, <2>2
    <3>2. b * 2^(m - 1) \in Nat
      BY <3>1, PowerNat
    <3> QED BY <3>1, <3>2
  <2> QED BY <2>1, <2>2
<1>4. Exponent(a, b) = CHOOSE e \in 0 .. a : P(e)
  BY DEF Exponent
<1> HIDE DEF P
<1>5. Exponent(a, b) \in 0 .. a /\ P(Exponent(a, b))
  BY <1>3, <1>4
<1> QED
  BY <1>5 DEF P

(* The double of a number of halves, without the sign.                     *)
DoubleOf(m) ==
    (NearestEven(m * 2^MantissaBits, 2^Exponent(m, 1)) * 2^Exponent(m, 1)) \div 2^MantissaBits

(* The sign is kept.                                                       *)
LEMMA DoubleSigned ==
  ASSUME NEW h \in Int
  PROVE  Double(h) = IF h < 0 THEN -DoubleOf(Magnitude(h)) ELSE DoubleOf(Magnitude(h))
<1>1. Magnitude(h) \in Nat /\ Magnitude(1) = 1
  BY DEF Magnitude
<1>2. 1 * 2^Exponent(Magnitude(h), 1) = 2^Exponent(Magnitude(h), 1)
  <2>1. Exponent(Magnitude(h), 1) \in Nat
    BY <1>1, ExponentFacts
  <2> QED BY <2>1, PowerNat
<1> QED
  BY <1>1, <1>2 DEF Double, DoubleQuot, DoubleOf

(* A number whose mantissa is a whole number is a double.                  *)
LEMMA DoubleWhole ==
  ASSUME NEW m \in Nat, NEW k \in Nat, m * 2^MantissaBits = k * 2^Exponent(m, 1)
  PROVE  DoubleOf(m) = m
<1> DEFINE B == 2^Exponent(m, 1)
           p == 2^MantissaBits
           M == NearestEven(m * p, B)
<1>1. B \in Nat /\ B > 0 /\ p \in Nat /\ p > 0
  <2>1. Exponent(m, 1) \in Nat /\ MantissaBits \in Nat
    BY ExponentFacts, MantissaAssumption
  <2> QED BY <2>1, PowerNat
<1>2. DoubleOf(m) = (M * B) \div p
  BY DEF DoubleOf
<1>3. m * p = k * B
  OBVIOUS
<1> HIDE DEF B, p
<1>4. M = k
  <2>1. m * p \in Nat
    BY <1>1
  <2> QED BY <1>1, <1>3, <2>1, NearestFacts
<1>5. (m * p) \div p = m
  <2>1. m * p \in Int /\ 0 \in 0 .. p - 1 /\ m * p = m * p + 0 /\ m \in Int
    BY <1>1
  <2> QED BY <1>1, <2>1, DivisionUnique
<1> QED
  BY <1>2, <1>3, <1>4, <1>5

(* A double is off by the first bit left out at most.                      *)
LEMMA DoubleNear ==
  ASSUME NEW m \in Nat
  PROVE  /\ DoubleOf(m) \in Nat
         /\ DoubleOf(m) * 2^MantissaBits - m * 2^MantissaBits <= m
         /\ m * 2^MantissaBits - DoubleOf(m) * 2^MantissaBits <= m
<1> DEFINE e == Exponent(m, 1)
           B == 2^e
           p == 2^MantissaBits
           M == NearestEven(m * p, B)
           D == DoubleOf(m)
<1>1. e \in Nat /\ MantissaBits \in Nat /\ MantissaBits > 1
      /\ m < 1 * 2^e /\ (e = 0 \/ 1 * 2^(e - 1) <= m)
  BY ExponentFacts, MantissaAssumption
<1>2. B \in Nat /\ B > 0 /\ p \in Nat /\ p > 0
  BY <1>1, PowerNat
<1>3. D = (M * B) \div p
  BY DEF DoubleOf
<1>4. CASE e <= MantissaBits
  <2> DEFINE c == 2^(MantissaBits - e)
  <2>1. c \in Nat /\ p = B * c
    <3>1. MantissaBits - e \in Nat /\ e + (MantissaBits - e) = MantissaBits
      BY <1>1, <1>4
    <3> QED BY <1>1, <3>1, PowerNat, PowerAdds
  <2>2. m * c \in Nat /\ m * p = (m * c) * B
    <3> HIDE DEF B, p, c
    <3> QED BY <1>2, <2>1
  <2>3. D = m
    BY <2>2, DoubleWhole
  <2>4. m * p - m * p = 0
    <3> HIDE DEF p
    <3> QED BY <1>2
  <2> QED BY <2>3, <2>4
<1>5. CASE e > MantissaBits
  <2> DEFINE c == 2^(e - MantissaBits)
             H == 2^(e - 1)
  <2>1. c \in Nat /\ B = p * c
    <3>1. e - MantissaBits \in Nat /\ MantissaBits + (e - MantissaBits) = e
      BY <1>1, <1>5
    <3> QED BY <1>1, <3>1, PowerNat, PowerAdds
  <2>2. H \in Nat /\ B = 2 * H /\ H <= m
    <3>1. e - 1 \in Nat /\ (e - 1) + 1 = e /\ e # 0
      BY <1>1, <1>5
    <3>2. H \in Nat /\ 1 * H <= m
      BY <1>1, <3>1, PowerNat
    <3> QED BY <3>1, <3>2, PowerDoubles
  <2> HIDE DEF H, c, B, p, e
  <2>3. M \in Nat /\ 2 * (M * B) - 2 * (m * p) <= B /\ 2 * (m * p) - 2 * (M * B) <= B
    <3>1. m * p \in Nat
      BY <1>2
    <3> QED BY <1>2, <3>1, NearestFacts
  <2>4. D = M * c /\ M * B = (M * c) * p
    <3>1. M * B = (M * c) * p /\ M * c \in Nat
      BY <1>2, <2>1, <2>3
    <3>2. M * B \in Int /\ 0 \in 0 .. p - 1 /\ M * B = (M * c) * p + 0 /\ M * c \in Int
      BY <1>2, <2>3, <3>1
    <3> QED BY <1>2, <1>3, <3>1, <3>2, DivisionUnique
  <2>5. D \in Nat /\ D * p = M * B
    BY <2>1, <2>3, <2>4
  <2>6. D * p \in Int /\ m * p \in Int
    BY <1>2, <2>5
  <2> QED
    <3>1. 2 * (D * p) - 2 * (m * p) <= 2 * m /\ 2 * (m * p) - 2 * (D * p) <= 2 * m
      BY <2>2, <2>3, <2>5, <2>6
    <3>2. D * p - m * p <= m /\ m * p - D * p <= m
      BY <2>6, <3>1
    <3> QED BY <2>5, <3>2 DEF p
<1> QED BY <1>1, <1>4, <1>5

(* A whole number that a double has bits for is a double.                  *)
LEMMA DoubleShort ==
  ASSUME NEW n \in Nat, n <= 2^MantissaBits
  PROVE  DoubleOf(2 * n) = 2 * n
<1> DEFINE m == 2 * n
           e == Exponent(m, 1)
           p == 2^MantissaBits
<1>1. m \in Nat /\ e \in Nat /\ MantissaBits \in Nat /\ MantissaBits > 1
      /\ m < 1 * 2^e /\ (e = 0 \/ 1 * 2^(e - 1) <= m) /\ p \in Nat /\ p > 0
  BY ExponentFacts, MantissaAssumption, PowerNat
<1> SUFFICES \E k \in Nat : m * p = k * 2^e
  BY <1>1, DoubleWhole
<1>2. CASE e <= MantissaBits
  <2> DEFINE c == 2^(MantissaBits - e)
             B == 2^e
  <2>1. c \in Nat /\ B \in Nat /\ p = B * c
    <3>1. MantissaBits - e \in Nat /\ e + (MantissaBits - e) = MantissaBits
      BY <1>1, <1>2
    <3>2. c \in Nat /\ B \in Nat
      BY <1>1, <3>1, PowerNat
    <3>3. p = B * c
      BY <1>1, <3>1, PowerAdds
    <3> QED BY <3>2, <3>3
  <2>2. m * c \in Nat /\ m * p = (m * c) * B
    <3> HIDE DEF m, B, p, c
    <3> QED BY <1>1, <2>1
  <2> QED BY <2>2
<1>3. CASE e = MantissaBits + 1
  <2>1. 2^e = 2 * p
    BY <1>1, <1>3, PowerDoubles
  <2>2. m * p = n * (2 * p)
    <3> HIDE DEF p
    <3> QED BY <1>1
  <2> QED BY <2>1, <2>2
<1>4. CASE e > MantissaBits + 1
  <2>1. 2 * p <= 2^(e - 1) /\ 2^(e - 1) \in Nat
    <3>1. MantissaBits + 1 \in Nat /\ e - 1 \in Nat /\ MantissaBits + 1 <= e - 1
      BY <1>1, <1>4
    <3> QED BY <1>1, <3>1, PowerGrows, PowerDoubles, PowerNat
  <2>2. 2 * p <= m /\ m <= 2 * p
    <3>1. 2^(e - 1) <= m
      BY <1>1, <1>4, <2>1
    <3> HIDE DEF e
    <3>2. 2 * p <= m
      BY <1>1, <2>1, <3>1
    <3> QED BY <1>1, <3>2
  <2>3. 2^(e - 1) = 2 * p
    BY <1>1, <1>4, <2>1, <2>2
  <2>4. 2^e = 4 * p
    <3>1. e - 1 \in Nat /\ (e - 1) + 1 = e
      BY <1>1, <1>4
    <3> QED BY <2>3, <3>1, <1>1, PowerDoubles
  <2> DEFINE c == 2^(MantissaBits - 1)
  <2>5. c \in Nat /\ p = 2 * c
    <3>1. MantissaBits - 1 \in Nat /\ (MantissaBits - 1) + 1 = MantissaBits
      BY <1>1
    <3> QED BY <3>1, PowerDoubles, PowerNat
  <2>6. m * p = c * (4 * p)
    <3>1. m = 4 * c
      BY <1>1, <2>2, <2>5
    <3> HIDE DEF p, c, m
    <3> QED BY <1>1, <2>5, <3>1
  <2> QED BY <2>4, <2>5, <2>6
<1> QED BY <1>1, <1>2, <1>3, <1>4

(* The greatest fixnum as a double is not below a fixnum that a double has *)
(* bits for.                                                               *)
LEMMA GreatestDouble ==
  ASSUME NEW n \in Nat, n <= 2^MantissaBits, n <= FixnumMax
  PROVE  2 * n <= Double(2 * FixnumMax)
<1> DEFINE p == 2^MantissaBits
           F == FixnumMax
           D == DoubleOf(2 * F)
<1>1. F \in Nat /\ 2 * F \in Nat /\ p \in Nat /\ p >= 4
  <2>1. 2 \in Nat /\ MantissaBits \in Nat /\ 2 <= MantissaBits
    BY MantissaAssumption
  <2>2. 2^2 <= 2^MantissaBits
    BY ONLY <2>1, PowerGrows
  <2>3. 2^2 = 4
    OBVIOUS
  <2> QED BY <2>1, <2>2, <2>3, PowerNat, WordFacts
<1>2. Double(2 * F) = D
  <2>1. Magnitude(2 * F) = 2 * F /\ ~ (2 * F < 0)
    BY <1>1 DEF Magnitude
  <2> QED BY <1>1, <2>1, DoubleSigned
<1>3. CASE F <= p
  BY <1>1, <1>2, <1>3, DoubleShort
<1>4. CASE F > p
  <2>1. D \in Nat /\ (2 * F) * p - D * p <= 2 * F
    BY <1>1, DoubleNear
  <2> HIDE DEF F, p, D
  <2>2. D < 2 * p => D * p <= (2 * p - 1) * p
    BY <1>1, <2>1
  <2>3. (2 * F) * p - 2 * F >= (2 * p + 2) * p - (2 * p + 2)
    <3>1. (2 * F) * p - 2 * F = (2 * F) * (p - 1) /\ (2 * p + 2) * p - (2 * p + 2) = (2 * p + 2) * (p - 1)
      BY <1>1
    <3>2. (2 * F) * (p - 1) >= (2 * p + 2) * (p - 1)
      BY <1>1, <1>4
    <3> QED BY <3>1, <3>2
  <2>4. (2 * p + 2) * p - (2 * p + 2) > (2 * p - 1) * p
    <3>1. (2 * p + 2) * p = 2 * (p * p) + 2 * p /\ (2 * p - 1) * p = 2 * (p * p) - p /\ p * p \in Int
      BY <1>1
    <3> QED BY <1>1, <3>1
  <2>5. ~ (D < 2 * p)
    <3>1. D * p \in Int /\ (2 * F) * p \in Int /\ (2 * p + 2) * p \in Int /\ (2 * p - 1) * p \in Int
      BY <1>1, <2>1
    <3>2. D * p >= (2 * F) * p - 2 * F
      BY <1>1, <2>1, <3>1
    <3>3. D * p > (2 * p - 1) * p
      <4> DEFINE u == D * p
                 v == (2 * F) * p
                 w == (2 * p + 2) * p
                 z == (2 * p - 1) * p
      <4>1. /\ u \in Int /\ v \in Int /\ w \in Int /\ z \in Int
            /\ u >= v - 2 * F /\ v - 2 * F >= w - (2 * p + 2) /\ w - (2 * p + 2) > z
        BY <2>3, <2>4, <3>1, <3>2
      <4> HIDE DEF u, v, w, z
      <4>2. u > z
        BY <1>1, <4>1
      <4> QED BY <4>2 DEF u, z
    <3>4. D < 2 * p => FALSE
      <4> DEFINE u == D * p
                 z == (2 * p - 1) * p
      <4>1. u \in Int /\ z \in Int /\ u > z /\ (D < 2 * p => u <= z)
        BY <2>2, <3>1, <3>3
      <4> HIDE DEF u, z
      <4> QED BY <4>1
    <3> QED BY <3>4
  <2>6. 2 * n <= D
    BY <1>1, <2>1, <2>5 DEF p
  <2> QED BY <1>2, <2>6 DEF F, D
<1> QED BY <1>1, <1>3, <1>4

(* exact->inexact of a fixnum is near, and of a small fixnum is undone by  *)
(* inexact->exact.                                                         *)
LEMMA ConversionExact ==
  ASSUME NEW x, FixnumArg(x)
  PROVE  LET v == LExactToInexact(x)
         IN  /\ Magnitude(v.n - 2 * x.n) * 2^MantissaBits <= Magnitude(2 * x.n)
             /\ Magnitude(x.n) <= 2^MantissaBits => LInexactToExact(v) = x
<1> DEFINE a == x.n
           m == Magnitude(2 * a)
           D == Double(2 * a)
           p == 2^MantissaBits
<1>1. /\ NumberP(x) /\ FixnumP(x) /\ a \in Int /\ a \in Fixnums /\ x = Fixnum(a)
      /\ FixnumMin <= a /\ a <= FixnumMax
  BY FixnumRead
<1>2. LExactToInexact(x) = Flonum(D)
  BY <1>1 DEF LExactToInexact, Typed, Halves
<1>3. Flonum(D).n = D /\ NumberP(Flonum(D)) /\ ~ FixnumP(Flonum(D))
  BY DEF Flonum, NumberP, FixnumP
<1>4. m \in Nat /\ m = 2 * Magnitude(a) /\ Magnitude(a) \in Nat /\ p \in Nat /\ 2 * a \in Int
      /\ m = (IF a < 0 THEN -(2 * a) ELSE 2 * a) /\ p > 0
  BY <1>1, PowerNat, MantissaAssumption DEF Magnitude
<1>5. D = IF a < 0 THEN -DoubleOf(m) ELSE DoubleOf(m)
  BY <1>1, <1>4, DoubleSigned
<1>6. DoubleOf(m) \in Nat /\ DoubleOf(m) * p - m * p <= m /\ m * p - DoubleOf(m) * p <= m
  BY <1>4, DoubleNear
<1>7. Magnitude(D - 2 * a) * p <= m
  <2> DEFINE d == DoubleOf(m)
  <2>1. Magnitude(D - 2 * a) = IF d < m THEN m - d ELSE d - m
    <3> HIDE DEF d, m, D
    <3>1. d \in Nat /\ D = (IF a < 0 THEN -d ELSE d)
      BY <1>5, <1>6 DEF d
    <3> QED BY <1>1, <1>4, <3>1 DEF Magnitude
  <2> HIDE DEF m, p
  <2>2. d \in Nat /\ d * p - m * p <= m /\ m * p - d * p <= m
    BY <1>6
  <2> HIDE DEF d
  <2>3. (d - m) * p = d * p - m * p /\ (m - d) * p = m * p - d * p
    BY <1>4, <2>2
  <2> QED BY <2>1, <2>2, <2>3
<1>8. ASSUME Magnitude(a) <= p
      PROVE  LInexactToExact(Flonum(D)) = x
  <2>1. DoubleOf(m) = m
    BY <1>4, <1>8, DoubleShort
  <2>2. D = 2 * a
    BY <1>1, <1>4, <1>5, <2>1
  <2>3. 2 * FixnumMin <= D /\ D <= Halves(Fixnum(FixnumMax))
    <3>1. Halves(Fixnum(FixnumMax)) = Double(2 * FixnumMax)
      BY DEF Halves, FixnumP, Fixnum
    <3>2. Double(2 * FixnumMax) \in Int /\ Double(2 * FixnumMax) >= 0
      <4>1. 2 * FixnumMax \in Nat /\ Magnitude(2 * FixnumMax) = 2 * FixnumMax
        BY WordFacts DEF Magnitude
      <4> QED BY <4>1, DoubleSigned, DoubleNear
    <3>3. a >= 0 => a \in Nat /\ a <= p
      BY <1>1, <1>8 DEF Magnitude
    <3>4. a >= 0 => 2 * a <= Double(2 * FixnumMax)
      BY <1>1, <3>3, GreatestDouble
    <3>5. 2 * FixnumMin <= 2 * a
      BY <1>1, WordFacts
    <3> QED BY <1>1, <2>2, <3>1, <3>2, <3>4, <3>5
  <2>4. Quot(2 * a, 2) = a
    BY <1>1 DEF Quot, Magnitude
  <2>5. LInexactToExact(Flonum(D)) = Fixcons(a)
    BY <1>3, <2>2, <2>3, <2>4 DEF LInexactToExact, Typed
  <2> QED BY <1>1, <2>5 DEF Fixcons
<1> QED
  BY <1>2, <1>3, <1>7, <1>8

(* Rounding moves a number by a half at most, and not towards zero.        *)
LEMMA RoundNearest ==
  ASSUME NEW x, x.n \in Int, Rounding("round", x).type = "flonum"
  PROVE  /\ Magnitude(Rounding("round", x).n - x.n) <= 1
         /\ Magnitude(Rounding("round", x).n) >= Magnitude(x.n)
<1> DEFINE h == x.n
           w == RoundOf(h)
<1>1. ~ FixnumP(x) /\ Rounding("round", x) = Flonum(2 * w)
  BY DEF Rounding, Typed, Error, FixnumP
<1>2. Rounding("round", x).n = 2 * w /\ h \in Int
  BY <1>1 DEF Flonum
<1> HIDE DEF h
<1>3. w \in Int /\ Magnitude(2 * w - h) <= 1 /\ Magnitude(2 * w) >= Magnitude(h)
  BY <1>2 DEF RoundOf, FloorOf, CeilingOf, Magnitude
<1> QED
  BY <1>2, <1>3 DEF h

(* An arithmetic shift by less than a word divides.                        *)
LEMMA ShiftRightExact ==
  ASSUME NEW x, NEW y, FixnumArg(x), FixnumArg(y), y.n \in 0 .. WordBits - 1
  PROVE  ExactOr(LBitwiseAshr(x, y), x.n \div 2^y.n)
<1>1. FixnumP(x) /\ x.n \in Int /\ FixnumP(y) /\ y.n \in Int
  BY FixnumRead
<1>2. ShiftCount(y.n) = y.n /\ ~ (y.n >= WordBits)
  BY WordFacts DEF ShiftCount
<1>3. x.n \div 2^y.n \in Int
  <2>1. 2^y.n \in Nat /\ 2^y.n > 0
    BY PowerNat
  <2> QED
    BY <1>1, <2>1
<1> QED
  BY <1>1, <1>2, <1>3, FixconsExact DEF LBitwiseAshr, Shift, Typed

(* A shift to the left that does not trap multiplies.                      *)
LEMMA ShiftLeftExact ==
  ASSUME NEW x, NEW y, FixnumArg(x), FixnumArg(y), y.n < WordBits,
         LBitwiseShl(x, y).type = "fixnum"
  PROVE  LBitwiseShl(x, y).n = x.n * 2^y.n
<1>1. FixnumP(x) /\ x.n \in Int /\ FixnumP(y) /\ y.n \in Int /\ ~ (y.n >= WordBits)
  BY FixnumRead, WordFacts
<1> DEFINE v == x.n * 2^y.n
<1>2. LBitwiseShl(x, y) \in {Trap("shl"), Fixcons(v)}
  BY <1>1 DEF LBitwiseShl, Shift, Typed
<1> HIDE DEF v
<1>3. LBitwiseShl(x, y) = Fixnum(v)
  BY <1>2 DEF Trap, Fixcons
<1> QED
  BY <1>3 DEF Fixnum, v
-----------------------------------------------------------------------------
(* Combining bits: partial sums.                                           *)

(* f is the sequence of the partial sums of t.                             *)
Accumulates(f, t, n) == f = [i \in 0 .. n |-> IF i = 0 THEN 0 ELSE f[i - 1] + t[i]]

(* What the partial sums of t are.                                         *)
LEMMA SumsEquations ==
  ASSUME NEW n \in Nat, NEW t, NEW f, Accumulates(f, t, n)
  PROVE  /\ f[0] = 0
         /\ \A i \in 1 .. n : f[i] = f[i - 1] + t[i]
<1> DEFINE e == [i \in 0 .. n |-> IF i = 0 THEN 0 ELSE f[i - 1] + t[i]]
<1>1. \A i \in 0 .. n : e[i] = IF i = 0 THEN 0 ELSE f[i - 1] + t[i]
  OBVIOUS
<1>2. f = e
  BY DEF Accumulates
<1> HIDE DEF e
<1> QED
  BY <1>1, <1>2

(* There are partial sums of any sequence of summands: a recursive         *)
(* function on them equals its equations.                                  *)
LEMMA SumsExist ==
  ASSUME NEW n \in Nat, NEW t
  PROVE  \E f : Accumulates(f, t, n)
<1> DEFINE Bad == {m \in 0 .. n : ~ \E f : Accumulates(f, t, m)}
<1> SUFFICES ASSUME Bad # {} PROVE FALSE
  OBVIOUS
<1>1. PICK m \in Bad : \A j \in Bad : m <= j
  <2>1. Bad \subseteq Nat
    OBVIOUS
  <2> HIDE DEF Bad
  <2> QED BY <2>1, LeastExists
<1>2. CASE m = 0
  <2> DEFINE f == [i \in 0 .. 0 |-> 0]
  <2>1. f = [i \in 0 .. 0 |-> IF i = 0 THEN 0 ELSE f[i - 1] + t[i]]
    OBVIOUS
  <2> QED
    BY <1>2, <2>1 DEF Accumulates
<1>3. CASE m # 0
  <2>1. m \in Nat \ {0} /\ m - 1 \in 0 .. n /\ m - 1 \in Nat
    BY <1>3
  <2>2. PICK g : Accumulates(g, t, m - 1)
    BY <1>1, <2>1
  <2> DEFINE f == [i \in 0 .. m |-> IF i < m THEN g[i] ELSE g[m - 1] + t[m]]
  <2>3. \A i \in 0 .. m - 1 : f[i] = g[i]
    BY <2>1
  <2>4. f[m] = g[m - 1] + t[m]
    BY <2>1
  <2>5. f[0] = 0
    BY <2>1, <2>2, <2>3, SumsEquations
  <2>6. f = [i \in 0 .. m |-> f[i]]
    OBVIOUS
  <2> HIDE DEF f
  <2>7. ASSUME NEW i \in 0 .. m, i # 0
        PROVE  f[i] = f[i - 1] + t[i]
    <3>1. CASE i = m
      BY <2>1, <2>3, <2>4, <3>1
    <3>2. CASE i # m
      <4>1. i \in 1 .. m - 1
        BY <2>1, <2>7, <3>2
      <4>2. g[i] = g[i - 1] + t[i]
        BY <2>1, <2>2, <4>1, SumsEquations
      <4> QED
        BY <2>1, <2>3, <4>1, <4>2
    <3> QED BY <3>1, <3>2
  <2>8. \A i \in 0 .. m : f[i] = IF i = 0 THEN 0 ELSE f[i - 1] + t[i]
    BY <2>5, <2>7
  <2>9. f = [i \in 0 .. m |-> IF i = 0 THEN 0 ELSE f[i - 1] + t[i]]
    BY <2>6, <2>8
  <2> QED
    BY <2>9 DEF Accumulates
<1> QED
  BY <1>2, <1>3

(* The numbers of the lowest bits of a combined word.                      *)
BitSums(op, x, y) ==
    LET sum[i \in 0 .. WordBits] ==
          IF i = 0 THEN 0 ELSE sum[i - 1] + OfBits(op, Bit(x, i - 1), Bit(y, i - 1)) * 2^(i - 1)
    IN  sum

(* What the bits at place i add to a combined word.                        *)
Place(op, x, y, i) == OfBits(op, Bit(x, i), Bit(y, i)) * 2^i

(* A combined word is the sum of its bits.                                 *)
LEMMA BitSumsEquations ==
  ASSUME NEW op, NEW x, NEW y
  PROVE  /\ BitSums(op, x, y)[0] = 0
         /\ \A i \in 1 .. WordBits :
              BitSums(op, x, y)[i] = BitSums(op, x, y)[i - 1] + Place(op, x, y, i - 1)
         /\ BitWise(op, x, y) = Signed(BitSums(op, x, y)[WordBits])
<1> DEFINE t == [i \in 1 .. WordBits |-> Place(op, x, y, i - 1)]
           s == BitSums(op, x, y)
<1>1. WordBits \in Nat
  BY WordFacts
<1>2. PICK f : Accumulates(f, t, WordBits)
  <2> HIDE DEF t
  <2> QED BY <1>1, SumsExist
<1>3. f = [i \in 0 .. WordBits |-> IF i = 0 THEN 0 ELSE f[i - 1] + Place(op, x, y, i - 1)]
  <2>1. \A i \in 0 .. WordBits : i # 0 => t[i] = Place(op, x, y, i - 1)
    BY <1>1
  <2> HIDE DEF t
  <2> QED
    BY <1>2, <2>1 DEF Accumulates
<1>4. s = [i \in 0 .. WordBits |-> IF i = 0 THEN 0 ELSE s[i - 1] + Place(op, x, y, i - 1)]
  BY <1>3 DEF BitSums, Place
<1>5. Accumulates(s, t, WordBits)
  <2>1. \A i \in 0 .. WordBits : i # 0 => t[i] = Place(op, x, y, i - 1)
    BY <1>1
  <2> HIDE DEF t, s
  <2> QED
    BY <1>4, <2>1 DEF Accumulates
<1>6. /\ s[0] = 0
      /\ \A i \in 1 .. WordBits : s[i] = s[i - 1] + t[i]
  <2> HIDE DEF t, s
  <2> QED BY <1>1, <1>5, SumsEquations
<1>7. BitWise(op, x, y) = Signed(s[WordBits])
  BY DEF BitWise, BitSums
<1> QED
  BY <1>6, <1>7
-----------------------------------------------------------------------------
(* The bits of a fixnum and its sign.                                      *)

(* The operations on bits.                                                 *)
BitOps == {"and", "or", "xor"}

(* A bit is nought or one, and adds its place to the bits below.           *)
LEMMA BitFacts ==
  ASSUME NEW n \in Int, NEW i \in Nat
  PROVE  /\ Bit(n, i) \in {0, 1}
         /\ n % 2^(i + 1) = (n % 2^i) + Bit(n, i) * 2^i
         /\ n % 2^i \in 0 .. 2^i - 1
<1> DEFINE p == 2^i
           q == n \div p
           r == n % p
           b == q % 2
           c == q \div 2
<1>1. p \in Nat /\ p > 0 /\ 2^(i + 1) = 2 * p
  BY PowerNat, PowerDoubles
<1>2. Bit(n, i) = b
  BY DEF Bit
<1> HIDE DEF p
<1>3. q \in Int /\ r \in 0 .. p - 1 /\ n = p * q + r
  BY <1>1, Euclid
<1> HIDE DEF q, r
<1>4. b \in {0, 1} /\ c \in Int /\ q = 2 * c + b
  BY <1>3
<1> HIDE DEF b, c
<1>5. n = c * (2 * p) + (b * p + r)
  <2>1. p * q = p * (2 * c) + p * b
    BY <1>1, <1>4
  <2>2. p * (2 * c) = c * (2 * p) /\ p * b = b * p
    BY <1>1, <1>4
  <2> QED
    BY <1>1, <1>3, <1>4, <2>1, <2>2
<1>6. b * p + r \in 0 .. 2 * p - 1 /\ 2 * p \in Nat /\ 2 * p > 0
  BY <1>1, <1>3, <1>4
<1>7. n % (2 * p) = b * p + r
  BY <1>4, <1>5, <1>6, DivisionUnique
<1>8. b * p + r = r + b * p
  BY <1>1, <1>3, <1>4
<1> QED
  BY <1>1, <1>2, <1>3, <1>4, <1>7, <1>8 DEF p, r

(* The bit of the sign.                                                    *)
SignBit(n) == IF n < 0 THEN 1 ELSE 0

(* Above its own bits a fixnum has its sign.                               *)
LEMMA SignBits ==
  ASSUME NEW n \in Fixnums
  PROVE  /\ \A i \in FixnumBits .. WordBits : Bit(n, i) = SignBit(n)
         /\ n = (n % 2^FixnumBits) - SignBit(n) * 2^FixnumBits
         /\ n \in Int
<1>1. n \in Int /\ FixnumMin <= n /\ n <= FixnumMax
  BY FixnumsBounds
<1>2. ASSUME NEW p \in Nat, p >= FixnumMax + 1
      PROVE  n \div p = -SignBit(n) /\ n % p = n + SignBit(n) * p
  <2>1. CASE n < 0
    <3>1. n = (-1) * p + (n + p) /\ n + p \in 0 .. p - 1 /\ p > 0
      BY <1>1, <1>2, <2>1, WordFacts
    <3> QED
      BY <1>1, <2>1, <3>1, DivisionUnique DEF SignBit
  <2>2. CASE n >= 0
    <3>1. n = 0 * p + n /\ n \in 0 .. p - 1 /\ p > 0
      BY <1>1, <1>2, <2>2, WordFacts
    <3> QED
      BY <1>1, <2>2, <3>1, DivisionUnique DEF SignBit
  <2> QED BY <1>1, <2>1, <2>2
<1>3. ASSUME NEW i \in FixnumBits .. WordBits
      PROVE  Bit(n, i) = SignBit(n)
  <2>1. FixnumBits \in Nat /\ i \in Nat /\ FixnumBits <= i
    BY WordFacts
  <2>2. 2^i \in Nat /\ 2^FixnumBits <= 2^i
    BY <2>1, PowerNat, PowerGrows
  <2>3. n \div 2^i = -SignBit(n)
    BY <1>2, <2>2, WordFacts
  <2> QED
    BY <2>3 DEF Bit, SignBit
<1>4. n = (n % 2^FixnumBits) - SignBit(n) * 2^FixnumBits
  <2>1. 2^FixnumBits \in Nat /\ 2^FixnumBits >= FixnumMax + 1
    BY WordFacts
  <2>2. n % 2^FixnumBits = n + SignBit(n) * 2^FixnumBits
    BY <1>2, <2>1
  <2>3. SignBit(n) * 2^FixnumBits \in Int
    BY <2>1 DEF SignBit
  <2> QED
    BY <1>1, <2>2, <2>3
<1> QED
  BY <1>1, <1>3, <1>4

(* What the bits at a place come to.                                       *)
LEMMA OfBitsFacts ==
  ASSUME NEW a \in {0, 1}, NEW b \in {0, 1}
  PROVE  /\ \A op \in BitOps : OfBits(op, a, b) \in {0, 1}
         /\ OfBits("and", a, b) + OfBits("or", a, b) = a + b
         /\ OfBits("xor", a, b) = OfBits("or", a, b) - OfBits("and", a, b)
BY DEF OfBits, BitOps

(* The lowest i bits of a combined word make a number of i bits.           *)
Places(op, x, y) == \A i \in 0 .. WordBits : BitSums(op, x, y)[i] \in 0 .. 2^i - 1

(* The lowest bits of a combined word make a number of as many bits.       *)
LEMMA SumsInRange ==
  ASSUME NEW op \in BitOps, NEW x \in Int, NEW y \in Int
  PROVE  Places(op, x, y)
<1> DEFINE f == BitSums(op, x, y)
           Bad == {i \in 0 .. WordBits : f[i] \notin 0 .. 2^i - 1}
<1> SUFFICES ASSUME Bad # {} PROVE FALSE
  BY DEF Places
<1>1. PICK i \in Bad : \A k \in Bad : i <= k
  <2>1. Bad \subseteq Nat
    OBVIOUS
  <2> HIDE DEF Bad
  <2> QED BY <2>1, LeastExists
<1>2. f[0] = 0 /\ \A k \in 1 .. WordBits : f[k] = f[k - 1] + Place(op, x, y, k - 1)
  BY BitSumsEquations
<1>3. i # 0
  <2>1. 0 \in 0 .. 2^0 - 1
    OBVIOUS
  <2>2. f[i] \notin 0 .. 2^i - 1
    BY <1>1
  <2> HIDE DEF f
  <2> QED BY <1>2, <2>1, <2>2
<1>4. /\ i - 1 \in Nat /\ i \in 1 .. WordBits /\ i - 1 \in 0 .. WordBits
      /\ f[i - 1] \in 0 .. 2^(i - 1) - 1
  <2>1. i \in 1 .. WordBits /\ i - 1 \in 0 .. WordBits /\ i - 1 \in Nat /\ ~ (i <= i - 1)
    BY <1>3, WordFacts
  <2>2. i - 1 \notin Bad
    <3> HIDE DEF Bad
    <3> QED BY <1>1, <2>1
  <2> QED BY <2>1, <2>2
<1>5. Bit(x, i - 1) \in {0, 1} /\ Bit(y, i - 1) \in {0, 1}
  BY <1>4, BitFacts
<1>6. OfBits(op, Bit(x, i - 1), Bit(y, i - 1)) \in {0, 1}
  BY <1>5, OfBitsFacts
<1>7. 2^i = 2 * 2^(i - 1) /\ 2^(i - 1) \in Nat
  <2>1. (i - 1) + 1 = i
    BY <1>4
  <2>2. 2^((i - 1) + 1) = 2 * 2^(i - 1)
    BY <1>4, PowerDoubles
  <2> QED BY <1>4, <2>1, <2>2, PowerNat
<1>8. Place(op, x, y, i - 1) \in {0, 2^(i - 1)}
  BY <1>6, <1>7 DEF Place
<1>9. f[i] = f[i - 1] + Place(op, x, y, i - 1)
  BY <1>2, <1>4
<1> HIDE DEF f
<1>10. f[i] \in 0 .. 2^i - 1
  BY <1>4, <1>7, <1>8, <1>9
<1> QED
  BY <1>10

(* The sums of and, or and xor belong together at every place.             *)
Together(x, y) ==
    \A i \in 0 .. WordBits :
      /\ BitSums("and", x, y)[i] + BitSums("or", x, y)[i] = (x % 2^i) + (y % 2^i)
      /\ BitSums("xor", x, y)[i] = BitSums("or", x, y)[i] - BitSums("and", x, y)[i]

(* At every place, what the bits both have and the bits either has add up  *)
(* to is the sum of the two numbers so far, and what only one has is their *)
(* difference.                                                             *)
LEMMA SumsTogether ==
  ASSUME NEW x \in Int, NEW y \in Int
  PROVE  Together(x, y)
<1> DEFINE a == BitSums("and", x, y)
           o == BitSums("or", x, y)
           e == BitSums("xor", x, y)
           Right(i) == a[i] + o[i] = (x % 2^i) + (y % 2^i) /\ e[i] = o[i] - a[i]
           Bad == {i \in 0 .. WordBits : ~ Right(i)}
<1> SUFFICES ASSUME Bad # {} PROVE FALSE
  BY DEF Together
<1>0. a[0] = 0 /\ o[0] = 0 /\ e[0] = 0
  BY BitSumsEquations
<1>1. PICK i \in Bad : \A k \in Bad : i <= k
  <2>1. Bad \subseteq Nat
    OBVIOUS
  <2> HIDE DEF Bad
  <2> QED BY <2>1, LeastExists
<1>2. i # 0
  <2>1. 2^0 = 1 /\ x % 1 = 0 /\ y % 1 = 0
    OBVIOUS
  <2>2. x % 2^0 = 0 /\ y % 2^0 = 0
    BY <2>1
  <2>3. ~ Right(i)
    BY <1>1
  <2>4. Right(0)
    <3> HIDE DEF a, o, e
    <3> QED BY <1>0, <2>2
  <2> QED BY <2>3, <2>4
<1>3. /\ i - 1 \in Nat /\ i \in 1 .. WordBits /\ i - 1 \in 0 .. WordBits /\ (i - 1) + 1 = i
      /\ Right(i - 1) /\ ~ Right(i)
  <2>1. i \in 1 .. WordBits /\ i - 1 \in 0 .. WordBits /\ i - 1 \in Nat /\ ~ (i <= i - 1) /\ (i - 1) + 1 = i
    BY <1>2, WordFacts
  <2>2. i - 1 \notin Bad
    <3> HIDE DEF Bad
    <3> QED BY <1>1, <2>1
  <2>3. i \in Bad
    BY <1>1
  <2> QED BY <2>1, <2>2, <2>3
<1> DEFINE p == 2^(i - 1)
           bx == Bit(x, i - 1)
           by == Bit(y, i - 1)
<1>4. /\ bx \in {0, 1} /\ by \in {0, 1} /\ p \in Nat
      /\ x % 2^i = (x % p) + bx * p /\ y % 2^i = (y % p) + by * p
      /\ x % p \in Int /\ y % p \in Int
  BY <1>3, BitFacts, PowerNat
<1>5. /\ a[i] = a[i - 1] + Place("and", x, y, i - 1)
      /\ o[i] = o[i - 1] + Place("or", x, y, i - 1)
      /\ e[i] = e[i - 1] + Place("xor", x, y, i - 1)
  BY <1>3, BitSumsEquations
<1>6. /\ Place("and", x, y, i - 1) + Place("or", x, y, i - 1) = bx * p + by * p
      /\ Place("xor", x, y, i - 1) = Place("or", x, y, i - 1) - Place("and", x, y, i - 1)
      /\ Place("and", x, y, i - 1) \in Int /\ Place("or", x, y, i - 1) \in Int
  <2> HIDE DEF bx, by, p
  <2> QED
    BY <1>4 DEF Place, OfBits, bx, by, p
<1>7. a[i - 1] \in Int /\ o[i - 1] \in Int /\ e[i - 1] \in Int
  <2>1. Places("and", x, y) /\ Places("or", x, y) /\ Places("xor", x, y)
    BY SumsInRange DEF BitOps
  <2>2. 2^(i - 1) \in Nat
    BY <1>3, PowerNat
  <2> QED
    BY <1>3, <2>1, <2>2 DEF Places
<1>8. a[i - 1] + o[i - 1] = (x % p) + (y % p) /\ e[i - 1] = o[i - 1] - a[i - 1]
  BY <1>3
<1> HIDE DEF a, o, e, p, bx, by
<1>9. a[i] + o[i] = (x % 2^i) + (y % 2^i) /\ e[i] = o[i] - a[i]
  <2>1. bx * p \in Int /\ by * p \in Int
    BY <1>4
  <2> DEFINE u == Place("and", x, y, i - 1)
             v == Place("or", x, y, i - 1)
             xp == x % p
             yp == y % p
             bxp == bx * p
             byp == by * p
  <2>2. /\ a[i] = a[i - 1] + u /\ o[i] = o[i - 1] + v /\ e[i] = e[i - 1] + Place("xor", x, y, i - 1)
        /\ u + v = bxp + byp /\ u \in Int /\ v \in Int /\ Place("xor", x, y, i - 1) = v - u
        /\ xp \in Int /\ yp \in Int /\ bxp \in Int /\ byp \in Int
        /\ x % 2^i = xp + bxp /\ y % 2^i = yp + byp
        /\ a[i - 1] + o[i - 1] = xp + yp /\ e[i - 1] = o[i - 1] - a[i - 1]
    BY <1>4, <1>5, <1>6, <1>8, <2>1
  <2> HIDE DEF u, v, xp, yp, bxp, byp
  <2>3. a[i] + o[i] = (x % 2^i) + (y % 2^i)
    BY ONLY <1>7, <2>2
  <2>4. e[i] = o[i] - a[i]
    BY ONLY <1>7, <2>2
  <2> QED BY <2>3, <2>4
<1> QED
  BY <1>3, <1>9

(* A combined word is the fixnum of the combined bits and sign.            *)
LEMMA BitWiseFixnum ==
  ASSUME NEW op \in BitOps, NEW x \in Fixnums, NEW y \in Fixnums
  PROVE  /\ BitWise(op, x, y) = BitSums(op, x, y)[FixnumBits]
                                 - OfBits(op, SignBit(x), SignBit(y)) * 2^FixnumBits
         /\ BitWise(op, x, y) \in Fixnums
<1> DEFINE f == BitSums(op, x, y)
           F == FixnumBits
           s == OfBits(op, SignBit(x), SignBit(y))
           g(i) == f[F] + s * (2^i - 2^F)
           Bad == {i \in F .. WordBits : f[i] # g(i)}
<1>1. /\ x \in Int /\ y \in Int
      /\ \A i \in F .. WordBits : Bit(x, i) = SignBit(x) /\ Bit(y, i) = SignBit(y)
  BY SignBits
<1>2. F \in Nat /\ F > 0 /\ F <= WordBits - 1 /\ WordBits \in Nat
  BY WordFacts
<1>3. s \in {0, 1}
  <2>1. SignBit(x) \in {0, 1} /\ SignBit(y) \in {0, 1}
    BY DEF SignBit
  <2> QED BY <2>1, OfBitsFacts
<1>4. \A i \in 0 .. WordBits : f[i] \in 0 .. 2^i - 1 /\ 2^i \in Nat
  BY <1>1, SumsInRange, PowerNat DEF Places
<1>5. f[F] \in 0 .. 2^F - 1 /\ 2^F \in Nat
  BY <1>2, <1>4
<1>6. f[WordBits] = g(WordBits)
  <2> SUFFICES ASSUME Bad # {} PROVE FALSE
    BY <1>2
  <2>1. PICK i \in Bad : \A k \in Bad : i <= k
    <3>1. Bad \subseteq Nat
      BY <1>2
    <3> HIDE DEF Bad
    <3> QED BY <3>1, LeastExists
  <2>2. i # F
    <3>1. 2^F - 2^F = 0 /\ s * 0 = 0
      BY <1>3, <1>5
    <3> QED BY <1>5, <3>1
  <2>3. i - 1 \in F .. WordBits /\ i \in 1 .. WordBits /\ i - 1 \in Nat /\ (i - 1) + 1 = i /\ ~ (i <= i - 1)
    BY <1>2, <2>2
  <2>4. f[i - 1] = f[F] + s * (2^(i - 1) - 2^F)
    <3>1. i - 1 \notin Bad
      <4> HIDE DEF Bad
      <4> QED BY <2>1, <2>3
    <3> QED BY <2>3, <3>1
  <2>5. f[i] = f[i - 1] + Place(op, x, y, i - 1)
    BY <2>3, BitSumsEquations
  <2>6. Place(op, x, y, i - 1) = s * 2^(i - 1)
    BY <1>1, <2>3 DEF Place
  <2>7. 2^((i - 1) + 1) = 2 * 2^(i - 1) /\ 2^(i - 1) \in Nat
    BY <2>3, PowerDoubles, PowerNat
  <2>8. f[i] # f[F] + s * (2^i - 2^F)
    BY <2>1
  <2> HIDE DEF f, s, Bad, g, F
  <2>9. CASE s = 0
    BY <1>5, <2>3, <2>4, <2>5, <2>6, <2>7, <2>8, <2>9
  <2>10. CASE s = 1
    BY <1>5, <2>3, <2>4, <2>5, <2>6, <2>7, <2>8, <2>10
  <2> QED BY <1>3, <2>9, <2>10
<1>7. BitWise(op, x, y) = Signed(f[WordBits])
  BY BitSumsEquations
<1> DEFINE h == 2^(WordBits - 1)
           w == 2^WordBits
           v == f[F] - s * 2^F
<1>8. /\ h \in Nat /\ w = 2 * h /\ 2^F = FixnumMax + 1 /\ 2^F <= h
      /\ FixnumMin = -FixnumMax - 1 /\ FixnumMax \in Nat
  BY WordFacts
<1>9. f[WordBits] = f[F] + s * (w - 2^F)
  BY <1>6
<1> HIDE DEF f, s, h, w, F
<1>10. v \in Int /\ FixnumMin <= v /\ v <= FixnumMax
  BY <1>3, <1>5, <1>8
<1>11. Signed(f[WordBits]) = v
  <2>1. Signed(f[WordBits]) = IF f[WordBits] % w >= h THEN (f[WordBits] % w) - w ELSE f[WordBits] % w
    BY DEF Signed, w, h
  <2>2. CASE s = 0
    <3>1. f[WordBits] = f[F] /\ f[F] \in 0 .. w - 1 /\ f[F] < h /\ w > 0
      BY <1>5, <1>8, <1>9, <2>2
    <3>2. f[WordBits] % w = f[F]
      BY <1>8, <3>1
    <3> QED
      BY <1>5, <1>8, <2>1, <2>2, <3>1, <3>2
  <2>3. CASE s = 1
    <3>1. f[WordBits] = f[F] + w - 2^F /\ f[WordBits] \in 0 .. w - 1 /\ f[WordBits] >= h /\ w > 0
      BY <1>5, <1>8, <1>9, <2>3
    <3>2. f[WordBits] % w = f[WordBits]
      BY <1>8, <3>1
    <3> QED
      BY <1>5, <1>8, <2>1, <2>3, <3>1, <3>2
  <2> QED BY <1>3, <2>2, <2>3
<1>12. v \in Fixnums
  BY <1>10, FixnumsBounds
<1> QED
  BY <1>7, <1>11, <1>12 DEF f, s, F
-----------------------------------------------------------------------------
(* and, or, xor.                                                           *)

(* On two fixnums a bit operation answers the fixnum of the combined       *)
(* words.                                                                  *)
LEMMA BitOperationFixnum ==
  ASSUME NEW op \in BitOps, NEW x, NEW y, FixnumArg(x), FixnumArg(y)
  PROVE  BitOperation(op, x, y) = Fixnum(BitWise(op, x.n, y.n))
<1>1. FixnumP(x) /\ FixnumP(y) /\ y # Nil /\ BitWise(op, x.n, y.n) \in Fixnums
  BY FixnumRead, BitWiseFixnum
<1> QED
  BY <1>1 DEF BitOperation, Typed, Fixcons

(* The bits two numbers share and the bits of either add up to their sum,  *)
(* and the bits of only one are the difference.                            *)
LEMMA BitWiseTogether ==
  ASSUME NEW x \in Fixnums, NEW y \in Fixnums
  PROVE  /\ BitWise("and", x, y) + BitWise("or", x, y) = x + y
         /\ BitWise("xor", x, y) = BitWise("or", x, y) - BitWise("and", x, y)
<1> DEFINE w == 2^FixnumBits
           sx == SignBit(x)
           sy == SignBit(y)
           sa == OfBits("and", sx, sy)
           so == OfBits("or", sx, sy)
           se == OfBits("xor", sx, sy)
           fa == BitSums("and", x, y)[FixnumBits]
           fo == BitSums("or", x, y)[FixnumBits]
           fe == BitSums("xor", x, y)[FixnumBits]
           xr == x % w
           yr == y % w
<1>1. x \in Int /\ y \in Int /\ x = xr - sx * w /\ y = yr - sy * w
  BY SignBits
<1>2. sx \in {0, 1} /\ sy \in {0, 1}
  BY DEF SignBit
<1>3. sa + so = sx + sy /\ se = so - sa /\ sa \in {0, 1} /\ so \in {0, 1} /\ se \in {0, 1}
  <2> HIDE DEF sx, sy
  <2> QED BY <1>2, OfBitsFacts DEF BitOps
<1>4. FixnumBits \in 0 .. WordBits /\ FixnumBits \in Nat
  BY WordFacts
<1>5. fa + fo = xr + yr /\ fe = fo - fa
  BY <1>1, <1>4, SumsTogether DEF Together
<1>6. w \in Nat /\ w > 0 /\ xr \in Int /\ yr \in Int
  <2>1. w \in Nat /\ w > 0
    BY <1>4, PowerNat
  <2> HIDE DEF w
  <2> QED BY <1>1, <2>1
<1>7. fa \in Int /\ fo \in Int /\ fe \in Int
  <2>1. Places("and", x, y) /\ Places("or", x, y) /\ Places("xor", x, y)
    BY <1>1, SumsInRange DEF BitOps
  <2> QED
    BY <1>4, <1>6, <2>1 DEF Places
<1>8. /\ BitWise("and", x, y) = fa - sa * w
      /\ BitWise("or", x, y) = fo - so * w
      /\ BitWise("xor", x, y) = fe - se * w
  BY BitWiseFixnum DEF BitOps
<1> HIDE DEF w, sx, sy, sa, so, se, fa, fo, fe, xr, yr
<1>9. /\ sa * w \in Int /\ so * w \in Int /\ se * w \in Int /\ sx * w \in Int /\ sy * w \in Int
      /\ sa * w + so * w = sx * w + sy * w
      /\ se * w = so * w - sa * w
  <2>1. sa * w \in {0, w} /\ so * w \in {0, w} /\ se * w \in {0, w} /\ sx * w \in {0, w} /\ sy * w \in {0, w}
    BY <1>2, <1>3, <1>6
  <2>2. /\ sa * w = IF sa = 0 THEN 0 ELSE w
        /\ so * w = IF so = 0 THEN 0 ELSE w
        /\ se * w = IF se = 0 THEN 0 ELSE w
        /\ sx * w = IF sx = 0 THEN 0 ELSE w
        /\ sy * w = IF sy = 0 THEN 0 ELSE w
    BY <1>2, <1>3, <1>6
  <2>3. sa * w + so * w = sx * w + sy * w
    BY <1>2, <1>3, <1>6, <2>2
  <2>4. se * w = so * w - sa * w
    BY <1>2, <1>3, <1>6, <2>2
  <2> QED
    BY <1>6, <2>1, <2>3, <2>4
<1> QED
  <2> DEFINE aw == sa * w
             ow == so * w
             ew == se * w
             xw == sx * w
             yw == sy * w
  <2>1. /\ aw \in Int /\ ow \in Int /\ ew \in Int /\ xw \in Int /\ yw \in Int
        /\ aw + ow = xw + yw /\ ew = ow - aw
        /\ x = xr - xw /\ y = yr - yw
        /\ BitWise("and", x, y) = fa - aw /\ BitWise("or", x, y) = fo - ow
        /\ BitWise("xor", x, y) = fe - ew
    BY <1>1, <1>8, <1>9
  <2> HIDE DEF aw, ow, ew, xw, yw
  <2>2. BitWise("and", x, y) + BitWise("or", x, y) = x + y
    BY ONLY <1>5, <1>6, <1>7, <2>1
  <2>3. BitWise("xor", x, y) = BitWise("or", x, y) - BitWise("and", x, y)
    BY ONLY <1>5, <1>7, <2>1
  <2> QED BY <2>2, <2>3

(* and and or together are the sum.                                        *)
LEMMA AndOrAgree ==
  ASSUME NEW x, NEW y, FixnumArg(x), FixnumArg(y)
  PROVE  BitOperation("and", x, y).n + BitOperation("or", x, y).n = x.n + y.n
<1>1. x.n \in Fixnums /\ y.n \in Fixnums
  BY FixnumRead
<1>2. /\ BitOperation("and", x, y) = Fixnum(BitWise("and", x.n, y.n))
      /\ BitOperation("or", x, y) = Fixnum(BitWise("or", x.n, y.n))
  BY BitOperationFixnum DEF BitOps
<1>3. /\ BitOperation("and", x, y).n = BitWise("and", x.n, y.n)
      /\ BitOperation("or", x, y).n = BitWise("or", x.n, y.n)
  BY <1>2 DEF Fixnum
<1> QED
  BY <1>1, <1>3, BitWiseTogether

(* xor is what or has and and has not.                                     *)
LEMMA XorAgrees ==
  ASSUME NEW x, NEW y, FixnumArg(x), FixnumArg(y)
  PROVE  LSubtract(BitOperation("or", x, y), BitOperation("and", x, y)) = BitOperation("xor", x, y)
<1> DEFINE o == BitWise("or", x.n, y.n)
           a == BitWise("and", x.n, y.n)
           e == BitWise("xor", x.n, y.n)
<1>1. x.n \in Fixnums /\ y.n \in Fixnums
  BY FixnumRead
<1>2. /\ BitOperation("and", x, y) = Fixnum(a)
      /\ BitOperation("or", x, y) = Fixnum(o)
      /\ BitOperation("xor", x, y) = Fixnum(e)
  BY BitOperationFixnum DEF BitOps
<1>3. o \in Fixnums /\ a \in Fixnums /\ e \in Fixnums
  BY <1>1, BitWiseFixnum DEF BitOps
<1>4. e = o - a
  BY <1>1, BitWiseTogether
<1> HIDE DEF o, a, e
<1>5. FixnumArg(Fixnum(o)) /\ FixnumArg(Fixnum(a)) /\ Fixnum(o).n = o /\ Fixnum(a).n = a
  BY <1>3 DEF FixnumArg, Fixnum
<1>6. ExactOr(LSubtract(Fixnum(o), Fixnum(a)), Fixnum(o).n - Fixnum(a).n)
  BY <1>5, DifferenceExact
<1> QED
  BY <1>2, <1>3, <1>4, <1>5, <1>6 DEF ExactOr
-----------------------------------------------------------------------------
(* Calls with two arguments.                                               *)

(* What a call of two arguments that ArithmeticAgrees speaks of answers.    *)
Pairs == {"+", "-", "*", "quotient", "modulo", "and", "xor", "ashr", "shl"}

PairAnswer(op, x, y) ==
    CASE op = "+" -> LAdd(x, y)
      [] op = "-" -> LSubtract(x, y)
      [] op = "*" -> LMultiply(x, y)
      [] op = "quotient" -> LQuotient(x, y)
      [] op = "modulo" -> LModulo(x, y)
      [] op = "and" -> BitOperation("and", x, y)
      [] op = "xor" -> BitOperation("xor", x, y)
      [] op = "ashr" -> LBitwiseAshr(x, y)
      [] op = "shl" -> LBitwiseShl(x, y)

(* ArithmeticAgrees of a call of two fixnums answered by v.                *)
PairAgrees(op, x, y, v) ==
    /\ op = "+" => ExactOr(v, x.n + y.n)
    /\ op = "-" => ExactOr(v, x.n - y.n)
    /\ op = "*" => ExactOr(v, x.n * y.n)
    /\ op = "quotient" /\ y.n # 0 =>
         \E q \in -x.n .. x.n \cup x.n .. -x.n :
           LET r == LRemainder(x, y).n
           IN  /\ q * y.n + r = x.n /\ Magnitude(r) < Magnitude(y.n) /\ r * x.n >= 0
               /\ ExactOr(v, q)
    /\ op = "modulo" /\ v.type = "fixnum" =>
         /\ (x.n - v.n) % Magnitude(y.n) = 0
         /\ Magnitude(v.n) <= Magnitude(y.n) /\ v.n * y.n >= 0
    /\ op = "and" => v.n + BitOperation("or", x, y).n = x.n + y.n
    /\ op = "xor" => LSubtract(BitOperation("or", x, y), BitOperation("and", x, y)) = v
    /\ op = "ashr" /\ y.n \in 0 .. WordBits - 1 => ExactOr(v, x.n \div 2^y.n)
    /\ op = "shl" /\ v.type = "fixnum" /\ y.n < WordBits => v.n = x.n * 2^y.n

(* Every operation on two fixnums answers what it should.                  *)
LEMMA PairsAgree ==
  ASSUME NEW op \in Pairs, NEW x, NEW y, FixnumArg(x), FixnumArg(y)
  PROVE  PairAgrees(op, x, y, PairAnswer(op, x, y))
<1> DEFINE v == PairAnswer(op, x, y)
<1>1. CASE op = "+"
  <2>1. v = LAdd(x, y)
    BY <1>1 DEF PairAnswer
  <2> QED BY <1>1, <2>1, SumExact DEF PairAgrees
<1>2. CASE op = "-"
  <2>1. v = LSubtract(x, y)
    BY <1>2 DEF PairAnswer
  <2> QED BY <1>2, <2>1, DifferenceExact DEF PairAgrees
<1>3. CASE op = "*"
  <2>1. v = LMultiply(x, y)
    BY <1>3 DEF PairAnswer
  <2> QED BY <1>3, <2>1, ProductExact DEF PairAgrees
<1>4. CASE op = "quotient"
  <2>1. v = LQuotient(x, y)
    BY <1>4 DEF PairAnswer
  <2>2. SUFFICES ASSUME y.n # 0
        PROVE  \E q \in -x.n .. x.n \cup x.n .. -x.n :
                 LET r == LRemainder(x, y).n
                 IN  /\ q * y.n + r = x.n /\ Magnitude(r) < Magnitude(y.n) /\ r * x.n >= 0
                     /\ ExactOr(LQuotient(x, y), q)
    BY <1>4, <2>1 DEF PairAgrees
  <2> QED BY <2>2, QuotientExact
<1>5. CASE op = "modulo"
  <2>1. v = LModulo(x, y)
    BY <1>5 DEF PairAnswer
  <2> QED BY <1>5, <2>1, ModuloCongruent DEF PairAgrees
<1>6. CASE op = "and"
  <2>1. v = BitOperation("and", x, y)
    BY <1>6 DEF PairAnswer
  <2> QED BY <1>6, <2>1, AndOrAgree DEF PairAgrees
<1>7. CASE op = "xor"
  <2>1. v = BitOperation("xor", x, y)
    BY <1>7 DEF PairAnswer
  <2> QED BY <1>7, <2>1, XorAgrees DEF PairAgrees
<1>8. CASE op = "ashr"
  <2>1. v = LBitwiseAshr(x, y)
    BY <1>8 DEF PairAnswer
  <2> QED BY <1>8, <2>1, ShiftRightExact DEF PairAgrees
<1>9. CASE op = "shl"
  <2>1. v = LBitwiseShl(x, y)
    BY <1>9 DEF PairAnswer
  <2> QED BY <1>9, <2>1, ShiftLeftExact DEF PairAgrees
<1> QED
  BY <1>1, <1>2, <1>3, <1>4, <1>5, <1>6, <1>7, <1>8, <1>9 DEF Pairs

(* A fixnum that a program passes is in range.                             *)
LEMMA FixnumValue ==
  ASSUME NEW x, Value(x), FixnumP(x)
  PROVE  FixnumArg(x)
BY DEF Value, FixnumP, FixnumArg

(* Likewise with one argument.                                             *)
Singles == {"magnitude", "random", "exact->inexact", "round"}
Arithmetic == Pairs \cup Singles \cup {"<"}

(* Of other calls ArithmeticAgrees says nothing.                           *)
LEMMA OtherCallsAgree ==
  ASSUME call'.op \notin Arithmetic
  PROVE  ArithmeticAgrees'
BY DEF Arithmetic, Pairs, Singles, ArithmeticAgrees, IntegersAgree, Done

(* A call with two arguments agrees with the integers.                     *)
LEMMA PairCallsAgree ==
  ASSUME NEW op \in Pairs, NEW x, NEW y, Value(x), Value(y),
         call' = [op |-> op, args |-> <<x, y>>],
         answer' = PairAnswer(op, x, y)
  PROVE  ArithmeticAgrees'
<1>1. /\ call'.op = op /\ call'.args[1] = x /\ call'.args[2] = y
      /\ op \notin Singles \cup {"<"}
  BY DEF Pairs, Singles
<1>2. ASSUME FixnumP(x), FixnumP(y)
      PROVE  IntegersAgree(x.n, y.n)'
  <2>1. FixnumArg(x) /\ FixnumArg(y)
    BY <1>2, FixnumValue
  <2>2. PairAgrees(op, x, y, answer')
    BY <2>1, PairsAgree
  <2>3. x = Fixnum(x.n) /\ y = Fixnum(y.n)
    BY <2>1, FixnumRead
  <2>4. /\ Exactly(x.n + y.n)' <=> ExactOr(answer', x.n + y.n)
        /\ Exactly(x.n - y.n)' <=> ExactOr(answer', x.n - y.n)
        /\ Exactly(x.n * y.n)' <=> ExactOr(answer', x.n * y.n)
        /\ Exactly(x.n \div 2^y.n)' <=> ExactOr(answer', x.n \div 2^y.n)
    BY DEF Exactly, ExactOr
  <2>5. op = "quotient" /\ y.n # 0 => QuotientAgrees(x.n, y.n)'
    BY <2>2, <2>3 DEF PairAgrees, QuotientAgrees, Exactly, ExactOr
  <2> QED
    BY <1>1, <2>2, <2>4, <2>5 DEF PairAgrees, IntegersAgree, Done, Arg
<1>3. ASSUME op = "-", FixnumP(x), y = Nil
      PROVE  Exactly(-x.n)'
  <2>1. FixnumArg(x) /\ answer' = LSubtract(x, Nil)
    BY <1>3, FixnumValue DEF PairAnswer
  <2> QED
    BY <2>1, NegativeExact DEF Exactly, ExactOr
<1> QED
  BY <1>1, <1>2, <1>3 DEF ArithmeticAgrees, Done, Arg, Singles
-----------------------------------------------------------------------------
(* Calls with one argument, and the invariant of the specification.        *)

(* ArithmeticAgrees of a call with one argument.                           *)
SingleAgrees(op, x, v) ==
    /\ op = "magnitude" /\ FixnumP(x) => ExactOr(v, Magnitude(x.n))
    /\ op = "random" /\ x.n > 0 /\ v.type = "fixnum" => v.n < x.n
    /\ op = "exact->inexact" /\ FixnumP(x) =>
         /\ Magnitude(v.n - 2 * x.n) * 2^MantissaBits <= Magnitude(2 * x.n)
         /\ Magnitude(x.n) <= 2^MantissaBits => LInexactToExact(v) = Fixnum(x.n)
    /\ op = "round" /\ v.type = "flonum" =>
         /\ Magnitude(v.n - x.n) <= 1
         /\ Magnitude(v.n) >= Magnitude(x.n)

(* A call with one argument agrees with the integers.                      *)
LEMMA SingleCallsAgree ==
  ASSUME NEW op \in Singles, NEW x, SingleAgrees(op, x, answer'),
         call' = [op |-> op, args |-> <<x>>]
  PROVE  ArithmeticAgrees'
<1>1. /\ call'.op = op /\ call'.args[1] = x /\ Len(call'.args) = 1
      /\ op \notin Pairs \cup {"<"}
  BY DEF Pairs, Singles
<1>2. Exactly(Magnitude(x.n))' <=> ExactOr(answer', Magnitude(x.n))
  BY DEF Exactly, ExactOr
<1> QED
  BY <1>1, <1>2 DEF ArithmeticAgrees, ConversionNear, SingleAgrees, Done, Arg, Pairs

(* One of the programs runs.                                               *)
ProgramRuns == chosen \in DOMAIN Programs

(* The arguments of the program that runs are values.                      *)
LEMMA ArgumentsAreValues ==
  ASSUME ProgramRuns, NEW x \in program.xs \cup program.ys
  PROVE  Value(x)
BY ProgramsAssumption DEF ProgramRuns, program

(* The invariant: a program runs, and its last answer was right. The       *)
(* arguments of the next call are those of a program, hence values.        *)
NumbersInv == ProgramRuns /\ ArithmeticAgrees

(* Nothing is answered at first.                                           *)
LEMMA NumbersInit == Init => NumbersInv
BY DEF Init, NumbersInv, ProgramRuns, ArithmeticAgrees, IntegersAgree, Done, Idle

(* Every call answers what it should, one step for each action.            *)
LEMMA NumbersStep == NumbersInv /\ [Next]_vars => NumbersInv'
<1> SUFFICES ASSUME NumbersInv, [Next]_vars
             PROVE  NumbersInv'
  OBVIOUS
<1> USE DEF NumbersInv
<1>1. ASSUME ArithmeticAgrees', UNCHANGED chosen
      PROVE  NumbersInv'
  BY <1>1 DEF ProgramRuns
<1>2. ASSUME NEW op, NEW args, NEW t, Calls(op, args, t), op \notin Arithmetic
      PROVE  NumbersInv'
  <2>1. call'.op \notin Arithmetic /\ UNCHANGED chosen
    BY <1>2 DEF Calls
  <2> QED BY <1>1, <2>1, OtherCallsAgree
<1>3. ASSUME NEW op \in Pairs, NEW x \in program.xs, NEW y \in program.ys,
             Computes(op, <<x, y>>, PairAnswer(op, x, y))
      PROVE  NumbersInv'
  <2>1. /\ call' = [op |-> op, args |-> <<x, y>>] /\ answer' = PairAnswer(op, x, y)
        /\ UNCHANGED chosen
    BY <1>3 DEF Computes, Calls, Gives
  <2>2. Value(x) /\ Value(y)
    BY ArgumentsAreValues
  <2> QED BY <1>1, <2>1, <2>2, PairCallsAgree
<1>4. ASSUME NEW op \in Singles, NEW x \in program.xs, NEW v, Computes(op, <<x>>, v),
             SingleAgrees(op, x, v)
      PROVE  NumbersInv'
  <2>1. call' = [op |-> op, args |-> <<x>>] /\ answer' = v /\ UNCHANGED chosen
    BY <1>4 DEF Computes, Calls, Gives
  <2> QED BY <1>1, <1>4, <2>1, SingleCallsAgree
<1>5. CASE Sums
  <2>1. PICK x \in program.xs, y \in program.ys :
          \/ Computes("+", <<x, y>>, LAdd(x, y))
          \/ Computes("-", <<x, y>>, LSubtract(x, y))
          \/ Computes("*", <<x, y>>, LMultiply(x, y))
    BY <1>5 DEF Sums
  <2>2. \E op \in Pairs : Computes(op, <<x, y>>, PairAnswer(op, x, y))
    BY <2>1 DEF Pairs, PairAnswer
  <2> QED BY <1>3, <2>2
<1>6. CASE Divisions
  <2>1. PICK x \in program.xs, y \in program.ys :
          \/ Computes("quotient", <<x, y>>, LQuotient(x, y))
          \/ Computes("remainder", <<x, y>>, LRemainder(x, y))
          \/ Computes("modulo", <<x, y>>, LModulo(x, y))
    BY <1>6 DEF Divisions
  <2>2. CASE Computes("remainder", <<x, y>>, LRemainder(x, y))
    BY <1>2, <2>2 DEF Computes, Arithmetic, Pairs, Singles
  <2>3. CASE ~ Computes("remainder", <<x, y>>, LRemainder(x, y))
    <3>1. \E op \in Pairs : Computes(op, <<x, y>>, PairAnswer(op, x, y))
      BY <2>1, <2>3 DEF Pairs, PairAnswer
    <3> QED BY <1>3, <3>1
  <2> QED BY <2>2, <2>3
<1>7. CASE Comparisons
  <2>1. PICK x \in program.xs, y \in program.ys, z \in program.ys, op \in {"=", ">=", ">", "<=", "<"} :
          Computes(op, <<x, y, z>>, Compare(op, <<x, y, z>>))
    BY <1>7 DEF Comparisons
  <2>2. CASE op # "<"
    BY <1>2, <2>1, <2>2 DEF Computes, Arithmetic, Pairs, Singles
  <2>3. CASE op = "<"
    <3>1. /\ call' = [op |-> "<", args |-> <<x, y, z>>]
          /\ answer' = Compare("<", <<x, y, z>>) /\ UNCHANGED chosen
      BY <2>1, <2>3 DEF Computes, Calls, Gives
    <3>2. Value(x) /\ Value(y) /\ Value(z)
      BY ArgumentsAreValues
    <3>3. Range(<<x, y, z>>) = {x, y, z}
      BY DEF Range
    <3>4. ASSUME \A v \in Range(<<x, y, z>>) : FixnumP(v)
          PROVE  answer' = Truth(x.n < y.n /\ y.n < z.n)
      <4>1. FixnumArg(x) /\ FixnumArg(y) /\ FixnumArg(z)
        BY <3>2, <3>3, <3>4, FixnumValue
      <4> QED BY <3>1, <4>1, ComparisonExact
    <3>5. /\ call'.op = "<" /\ call'.args = <<x, y, z>> /\ Len(call'.args) # 2
          /\ call'.args[1] = x /\ call'.args[2] = y /\ call'.args[3] = z
      BY <3>1
    <3>6. ArithmeticAgrees'
      BY <3>4, <3>5 DEF ArithmeticAgrees, Done, Arg
    <3> QED BY <1>1, <3>1, <3>6
  <2> QED BY <2>2, <2>3
<1>8. CASE Conversions
  <2>1. PICK x \in program.xs :
          \/ Computes("exact->inexact", <<x>>, LExactToInexact(x))
          \/ Computes("inexact->exact", <<x>>, LInexactToExact(x))
          \/ Computes("magnitude", <<x>>, LMagnitude(x))
          \/ \E how \in {"floor", "ceiling", "round", "truncate"} : Computes(how, <<x>>, Rounding(how, x))
    BY <1>8 DEF Conversions
  <2>2. Value(x) /\ (FixnumP(x) => FixnumArg(x)) /\ x.n \in Int
    BY ArgumentsAreValues, FixnumValue DEF Value
  <2>3. SingleAgrees("exact->inexact", x, LExactToInexact(x))
    BY <2>2, ConversionExact, FixnumRead DEF SingleAgrees
  <2>4. SingleAgrees("magnitude", x, LMagnitude(x))
    BY <2>2, MagnitudeExact DEF SingleAgrees
  <2>5. SingleAgrees("round", x, Rounding("round", x))
    BY <2>2, RoundNearest DEF SingleAgrees
  <2>6. CASE \E op \in {"inexact->exact", "floor", "ceiling", "truncate"} : \E v : Computes(op, <<x>>, v)
    BY <1>2, <2>6 DEF Computes, Arithmetic, Pairs, Singles
  <2>7. CASE \E op \in Singles : \E v : Computes(op, <<x>>, v) /\ SingleAgrees(op, x, v)
    BY <1>4, <2>7
  <2> QED BY <2>1, <2>3, <2>4, <2>5, <2>6, <2>7 DEF Singles
<1>9. CASE BitwiseOperations
  <2>1. PICK x \in program.xs, y \in program.ys :
          \/ \E op \in {"and", "or", "xor"} : Computes(op, <<x, y>>, BitOperation(op, x, y))
          \/ Computes("not", <<x>>, LBitwiseNot(x))
    BY <1>9 DEF BitwiseOperations
  <2>2. CASE \E op \in {"or", "not"} : \E args, v : Computes(op, args, v)
    BY <1>2, <2>2 DEF Computes, Arithmetic, Pairs, Singles
  <2>3. CASE \E op \in Pairs : Computes(op, <<x, y>>, PairAnswer(op, x, y))
    BY <1>3, <2>3
  <2> QED BY <2>1, <2>2, <2>3 DEF Pairs, PairAnswer
<1>10. CASE Shifts
  <2>1. PICK x \in program.xs, n \in program.ys :
          \/ Computes("shl", <<x, n>>, LBitwiseShl(x, n))
          \/ Computes("shr", <<x, n>>, LBitwiseShr(x, n))
          \/ Computes("ashr", <<x, n>>, LBitwiseAshr(x, n))
    BY <1>10 DEF Shifts
  <2>2. CASE Computes("shr", <<x, n>>, LBitwiseShr(x, n))
    BY <1>2, <2>2 DEF Computes, Arithmetic, Pairs, Singles
  <2>3. CASE \E op \in Pairs : Computes(op, <<x, n>>, PairAnswer(op, x, n))
    BY <1>3, <2>3
  <2> QED BY <2>1, <2>2, <2>3 DEF Pairs, PairAnswer
<1>11. CASE Random
  <2>1. PICK x \in program.xs, word \in 0 .. 2^WordBits - 1 :
          FixnumP(x) /\ Computes("random", <<x>>, LRandom(x, word))
    BY <1>11 DEF Random
  <2>2. FixnumArg(x)
    BY <2>1, ArgumentsAreValues, FixnumValue
  <2>3. SingleAgrees("random", x, LRandom(x, word))
    BY <2>2, RandomBelow DEF SingleAgrees
  <2> QED BY <1>4, <2>1, <2>3 DEF Singles
<1>12. CASE Formats \/ Parses \/ BinaryNumbers \/ Characters
  BY <1>2, <1>12 DEF Formats, Parses, BinaryNumbers, Characters, Computes, Arithmetic, Pairs, Singles
<1>13. CASE StringAccess \/ StringPorts \/ StringConstructors
  BY <1>2, <1>13 DEF StringAccess, StringPorts, StringConstructors, Arithmetic, Pairs, Singles
<1>14. CASE StringCases \/ StringSearches \/ StringComparisons
  BY <1>2, <1>14 DEF StringCases, StringSearches, StringComparisons, Arithmetic, Pairs, Singles
<1>15. CASE VectorAccess \/ VectorConstructors
  BY <1>2, <1>15 DEF VectorAccess, VectorConstructors, Arithmetic, Pairs, Singles
<1>16. CASE Lists \/ Lengths \/ Structures
  BY <1>2, <1>16 DEF Lists, Lengths, Structures, Arithmetic, Pairs, Singles
<1>17. CASE Return \/ Keep
  <2>1. call' = Idle /\ UNCHANGED chosen
    BY <1>17 DEF Return, Keep
  <2>2. call'.op \notin Arithmetic
    BY <2>1 DEF Idle, Arithmetic, Pairs, Singles
  <2> QED BY <1>1, <2>1, <2>2, OtherCallsAgree
<1>18. CASE UNCHANGED vars
  BY <1>18 DEF vars, ProgramRuns, ArithmeticAgrees, ConversionNear, IntegersAgree, QuotientAgrees, Exactly, Done, Arg, Answered
<1> QED
  BY <1>5, <1>6, <1>7, <1>8, <1>9, <1>10, <1>11, <1>12, <1>13, <1>14, <1>15, <1>16, <1>17, <1>18 DEF Next

(* Arithmetic on fixnums is that of the integers, for every word size and  *)
(* every program: what the primitives of numbers answer is exact, or a     *)
(* trap (number.c:229-758, 991-1023).                                      *)
THEOREM ArithmeticIsExact == Spec => []ArithmeticAgrees
<1>1. NumbersInv => ArithmeticAgrees
  BY DEF NumbersInv
<1> QED BY <1>1, NumbersInit, NumbersStep, PTL DEF Spec
-----------------------------------------------------------------------------
(* Stores and the changes made to them.                                    *)

(* A sequence of anything is one of its own elements.                      *)
LEMMA SequenceOf ==
  ASSUME NEW S, NEW s \in Seq(S)
  PROVE  IsSequence(s) /\ DOMAIN s = 1 .. Len(s) /\ Len(s) \in Nat
<1>1. DOMAIN s = 1 .. Len(s) /\ Len(s) \in Nat /\ s = [i \in 1 .. Len(s) |-> s[i]]
  OBVIOUS
<1>2. \A i \in 1 .. Len(s) : s[i] \in Range(s)
  BY <1>1 DEF Range
<1>3. s \in Seq(Range(s))
  BY <1>1, <1>2
<1> QED
  BY <1>1, <1>3 DEF IsSequence

(* What a sequence is.                                                     *)
LEMMA SequenceRead ==
  ASSUME NEW s, IsSequence(s)
  PROVE  /\ s \in Seq(Range(s)) /\ DOMAIN s = 1 .. Len(s) /\ Len(s) \in Nat
         /\ \A i \in 1 .. Len(s) : s[i] \in Range(s)
BY DEF IsSequence

(* A function on 1 .. n is a sequence.                                     *)
LEMMA SequenceMade ==
  ASSUME NEW n \in Nat, NEW f, DOMAIN f = 1 .. n, f = [i \in 1 .. n |-> f[i]]
  PROVE  IsSequence(f) /\ Len(f) = n
<1> DEFINE S == {f[i] : i \in 1 .. n}
<1>1. f \in Seq(S) /\ Len(f) = n
  <2>1. \A i \in 1 .. n : f[i] \in S
    OBVIOUS
  <2> HIDE DEF S
  <2>2. [i \in 1 .. n |-> f[i]] \in Seq(S)
    BY <2>1
  <2> QED
    BY <2>2
<1> QED
  BY <1>1, SequenceOf

(* Appending keeps the elements before.                                    *)
LEMMA SequenceAppended ==
  ASSUME NEW s, IsSequence(s), NEW x
  PROVE  /\ IsSequence(Append(s, x)) /\ Len(Append(s, x)) = Len(s) + 1
         /\ \A i \in 1 .. Len(s) : Append(s, x)[i] = s[i]
         /\ Append(s, x)[Len(s) + 1] = x
<1> DEFINE S == Range(s) \cup {x}
<1>1. s \in Seq(S) /\ x \in S /\ Len(s) \in Nat
  <2>1. Range(s) \subseteq S
    OBVIOUS
  <2>2. s \in Seq(Range(s)) /\ Len(s) \in Nat /\ \A i \in 1 .. Len(s) : s[i] \in Range(s)
    BY SequenceRead
  <2> HIDE DEF S
  <2>3. \A i \in 1 .. Len(s) : s[i] \in S
    BY <2>1, <2>2
  <2>4. s \in Seq(S)
    BY <2>2, <2>3
  <2> QED BY <2>2, <2>4 DEF S
<1> HIDE DEF S
<1>2. Append(s, x) \in Seq(S)
  BY <1>1
<1>3. IsSequence(Append(s, x))
  BY <1>2, SequenceOf
<1>4. /\ Len(Append(s, x)) = Len(s) + 1
      /\ \A i \in 1 .. Len(s) : Append(s, x)[i] = s[i]
      /\ Append(s, x)[Len(s) + 1] = x
  BY <1>1
<1> QED
  BY <1>3, <1>4

(* A sequence with x in place k.                                           *)
Put(s, k, x) == [s EXCEPT ![k] = x]

(* Putting an element keeps the others.                                    *)
LEMMA SequenceChanged ==
  ASSUME NEW s, IsSequence(s), NEW k, NEW x
  PROVE  /\ IsSequence(Put(s, k, x)) /\ Len(Put(s, k, x)) = Len(s)
         /\ \A i \in 1 .. Len(s) : i # k => Put(s, k, x)[i] = s[i]
         /\ \A i \in 1 .. Len(s) : i = k => Put(s, k, x)[i] = x
<1> DEFINE f == Put(s, k, x)
<1>1. DOMAIN s = 1 .. Len(s) /\ Len(s) \in Nat
  BY SequenceRead
<1>2. /\ DOMAIN f = 1 .. Len(s)
      /\ f = [i \in 1 .. Len(s) |-> IF i = k THEN x ELSE s[i]]
  BY <1>1 DEF Put
<1>3. f = [i \in 1 .. Len(s) |-> f[i]]
  BY <1>2
<1>4. /\ \A i \in 1 .. Len(s) : i # k => f[i] = s[i]
      /\ \A i \in 1 .. Len(s) : i = k => f[i] = x
  BY <1>2
<1> HIDE DEF f
<1>5. IsSequence(f) /\ Len(f) = Len(s)
  BY <1>1, <1>2, <1>3, SequenceMade
<1> QED
  BY <1>4, <1>5 DEF f

(* A store that has more objects, and one with a changed object.           *)
Grows(s, t) == IsStore(t) /\ Len(s) <= Len(t) /\ \A i \in 1 .. Len(s) : t[i] = s[i]
Changes(s, t, k) == IsStore(t) /\ Len(s) = Len(t) /\ \A i \in 1 .. Len(s) : i # k => t[i] = s[i]

(* A store is a sequence of objects.                                       *)
LEMMA StoreRead ==
  ASSUME NEW s, IsStore(s)
  PROVE  /\ IsSequence(s) /\ DOMAIN s = 1 .. Len(s) /\ Len(s) \in Nat
         /\ \A i \in 1 .. Len(s) : IsObject(s[i])
BY SequenceRead DEF IsStore

(* A store that stays grows by nothing, and nothing in it changes.         *)
LEMMA StoreSame == ASSUME NEW s, IsStore(s) PROVE Grows(s, s) /\ \A k : Changes(s, s, k)
<1>1. Len(s) \in Nat
  BY StoreRead
<1> QED BY <1>1 DEF Grows, Changes

(* Allocating an object changes none.                                      *)
LEMMA StoreAllocates ==
  ASSUME NEW s, IsStore(s), NEW o, IsObject(o)
  PROVE  Grows(s, Allocates(s, o).store)
<1> DEFINE t == Append(s, o)
<1>1. /\ IsSequence(s) /\ Len(s) \in Nat /\ DOMAIN s = 1 .. Len(s) /\ \A i \in 1 .. Len(s) : IsObject(s[i])
      /\ IsSequence(t) /\ Len(t) = Len(s) + 1
      /\ \A i \in 1 .. Len(s) : t[i] = s[i]
      /\ t[Len(s) + 1] = o
  <2>1. /\ IsSequence(s) /\ Len(s) \in Nat /\ DOMAIN s = 1 .. Len(s) /\ \A i \in 1 .. Len(s) : IsObject(s[i])
    BY StoreRead
  <2> QED BY <2>1, SequenceAppended
<1>2. Allocates(s, o).store = t
  BY DEF Allocates, Gives
<1> HIDE DEF t
<1>3. DOMAIN t = 1 .. Len(s) + 1
  BY <1>1, SequenceRead
<1>4. \A i \in 1 .. Len(s) + 1 : i \in 1 .. Len(s) \/ i = Len(s) + 1
  BY <1>1
<1>5. \A i \in DOMAIN t : IsObject(t[i])
  BY <1>1, <1>3, <1>4
<1> QED
  BY <1>1, <1>2, <1>5 DEF Grows, IsStore

(* Putting an object in a place changes that place only.                   *)
LEMMA StoreChanges ==
  ASSUME NEW s, IsStore(s), NEW k, NEW o, IsObject(o)
  PROVE  Changes(s, Put(s, k, o), k)
<1> DEFINE t == Put(s, k, o)
<1>1. /\ IsSequence(s) /\ Len(s) \in Nat /\ \A i \in 1 .. Len(s) : IsObject(s[i])
  BY StoreRead
<1>2. /\ IsSequence(t) /\ Len(t) = Len(s)
      /\ \A i \in 1 .. Len(s) : i # k => t[i] = s[i]
      /\ \A i \in 1 .. Len(s) : i = k => t[i] = o
  BY <1>1, SequenceChanged
<1> HIDE DEF t
<1>3. DOMAIN t = 1 .. Len(s)
  BY <1>2, SequenceRead
<1>4. \A i \in DOMAIN t : IsObject(t[i])
  BY <1>1, <1>2, <1>3
<1> QED
  BY <1>2, <1>4 DEF Changes, IsStore, t

(* What a value refers to is an object.                                    *)
LEMMA ObjectRead ==
  ASSUME NEW s, IsStore(s), NEW v, v.n \in DOMAIN s
  PROVE  IsObject(s[v.n]) /\ (IsA(s[v.n], "vector") => IsSequence(s[v.n].data))
BY DEF IsStore, IsObject

(* A new object is one.                                                    *)
LEMMA ObjectMade ==
  ASSUME NEW type, NEW data, NEW dim, NEW layout, type = "vector" => IsSequence(data)
  PROVE  /\ IsObject(Object(type, data, dim, layout))
         /\ Object(type, data, dim, layout).type = type
BY DEF IsObject, Object, IsA

(* An object with other data is an object.                                 *)
LEMMA ObjectFilled ==
  ASSUME NEW o, IsObject(o), NEW data, IsA(o, "vector") => IsSequence(data)
  PROVE  IsObject([o EXCEPT !.data = data])
<1> DEFINE p == [o EXCEPT !.data = data]
<1>1. o = [type |-> o.type, data |-> o.data, dim |-> o.dim, layout |-> o.layout]
  BY DEF IsObject, Object
<1>2. p = [type |-> o.type, data |-> data, dim |-> o.dim, layout |-> o.layout]
  BY <1>1
<1> HIDE DEF p
<1>3. p.type = o.type /\ p.data = data /\ p.dim = o.dim /\ p.layout = o.layout
  BY <1>2
<1> QED
  BY <1>2, <1>3 DEF IsObject, Object, IsA, p

(* So is a vector of any elements.                                         *)
LEMMA VectorMade ==
  ASSUME NEW n \in Nat, NEW f, DOMAIN f = 1 .. n, f = [i \in 1 .. n |-> f[i]]
  PROVE  IsObject(VectorCons(f))
BY SequenceMade, ObjectMade DEF VectorCons

(* So is a string, in either case.                                         *)
LEMMA StringMade ==
  ASSUME NEW text, NEW junk
  PROVE  /\ IsObject(StrCons(text, junk)) /\ StrCons(text, junk).type = "string"
         /\ \A upper : IsObject(Cased(StrCons(text, junk), upper))
<1>1. IsObject(StrCons(text, junk)) /\ StrCons(text, junk).type = "string"
  BY ObjectMade DEF StrCons
<1> QED
  BY <1>1, ObjectFilled DEF Cased, IsA

(* A primitive that changes no object, and one that changes the object in  *)
(* place k, but never before an error.                                     *)
Creates(s, t) == Grows(s, t.store)
Mutates(s, t, k) == Changes(s, t.store, k) /\ (t.store = s \/ t.answer.type # "error")

(* An answer or an error leaves the store.                                 *)
LEMMA CreatesNothing ==
  ASSUME NEW s, IsStore(s)
  PROVE  /\ \A v : Creates(s, Gives(s, v))
         /\ \A name : Creates(s, Fails(s, name))
         /\ \A name, k : Mutates(s, Fails(s, name), k)
BY StoreSame DEF Creates, Mutates, Gives, Fails

(* An allocation creates an object.                                        *)
LEMMA CreatesObject ==
  ASSUME NEW s, IsStore(s), NEW o, IsObject(o)
  PROVE  Creates(s, Allocates(s, o))
BY StoreAllocates DEF Creates

(* A check in front of what creates leaves the store when it fails.        *)
LEMMA CreatesChecked ==
  ASSUME NEW s, IsStore(s), NEW test, NEW name, NEW t, test => Creates(s, t)
  PROVE  Creates(s, Checks(s, test, name, t))
BY CreatesNothing DEF Checks

(* So does a count that never ends.                                        *)
LEMMA CreatesCounted ==
  ASSUME NEW s, IsStore(s), NEW v, NEW t, Creates(s, t)
  PROVE  Creates(s, Counting(s, v, t))
BY CreatesNothing DEF Counting

(* A check in front of what mutates leaves the store when it fails.        *)
LEMMA MutatesChecked ==
  ASSUME NEW s, IsStore(s), NEW test, NEW name, NEW t, NEW k, test => Mutates(s, t, k)
  PROVE  Mutates(s, Checks(s, test, name, t), k)
BY CreatesNothing DEF Checks

(* Replacing an object mutates it.                                         *)
LEMMA MutatesObject ==
  ASSUME NEW s, IsStore(s), NEW k, NEW o, IsObject(o), NEW v, v.type # "error"
  PROVE  Mutates(s, Gives(Put(s, k, o), v), k)
BY StoreChanges DEF Mutates, Gives

(* A primitive that sets an element of an object.                           *)
LEMMA MutatesElement ==
  ASSUME NEW s, IsStore(s), NEW k \in DOMAIN s, NEW j, NEW x, NEW v, v.type # "error"
  PROVE  Mutates(s, Gives([s EXCEPT ![k].data[j] = x], v), k)
<1> DEFINE o == s[k]
           data == Put(o.data, j, x)
           p == [o EXCEPT !.data = data]
<1>1. IsObject(o) /\ (IsA(o, "vector") => IsSequence(o.data))
  BY DEF IsStore, IsObject
<1>2. IsA(o, "vector") => IsSequence(data)
  BY <1>1, SequenceChanged
<1> HIDE DEF data
<1>3. IsObject(p)
  BY <1>1, <1>2, ObjectFilled
<1>4. [s EXCEPT ![k].data[j] = x] = Put(s, k, p)
  BY DEF Put, data
<1> QED
  BY <1>3, <1>4, MutatesObject

(* A primitive that sets all elements of an object.                        *)
LEMMA MutatesData ==
  ASSUME NEW s, IsStore(s), NEW k \in DOMAIN s, NEW data, IsA(s[k], "vector") => IsSequence(data),
         NEW v, v.type # "error"
  PROVE  Mutates(s, Gives([s EXCEPT ![k].data = data], v), k)
<1> DEFINE p == [s[k] EXCEPT !.data = data]
<1>1. IsObject(s[k])
  BY DEF IsStore
<1>2. IsObject(p)
  BY <1>1, ObjectFilled
<1>3. [s EXCEPT ![k].data = data] = Put(s, k, p)
  BY DEF Put
<1> QED
  BY <1>2, <1>3, MutatesObject
-----------------------------------------------------------------------------
(* Lists in the store.                                                     *)

(* Appending objects changes none of those before.                         *)
LEMMA StoreExtended ==
  ASSUME NEW s, IsStore(s), NEW u, IsStore(u)
  PROVE  Grows(s, s \o u)
<1> DEFINE t == s \o u
           S == Range(s) \cup Range(u)
           m == Len(s)
           n == Len(u)
<1>1. /\ s \in Seq(Range(s)) /\ u \in Seq(Range(u)) /\ m \in Nat /\ n \in Nat
      /\ \A i \in 1 .. m : IsObject(s[i])
      /\ \A i \in 1 .. n : IsObject(u[i])
  <2>1. IsSequence(s) /\ IsSequence(u)
    BY StoreRead
  <2> QED BY <2>1, StoreRead, SequenceRead
<1>2. s \in Seq(S) /\ u \in Seq(S)
  <2>1. /\ DOMAIN s = 1 .. m /\ s = [i \in 1 .. m |-> s[i]] /\ \A i \in 1 .. m : s[i] \in Range(s)
        /\ DOMAIN u = 1 .. n /\ u = [i \in 1 .. n |-> u[i]] /\ \A i \in 1 .. n : u[i] \in Range(u)
    BY <1>1
  <2>2. \A i \in 1 .. m : s[i] \in S
    BY <2>1
  <2>3. \A i \in 1 .. n : u[i] \in S
    BY <2>1
  <2> HIDE DEF S
  <2> QED BY <1>1, <2>2, <2>3
<1> HIDE DEF S
<1>3. /\ t \in Seq(S) /\ Len(t) = m + n
      /\ \A i \in 1 .. m : t[i] = s[i]
      /\ \A i \in 1 .. n : t[m + i] = u[i]
  BY <1>2
<1> HIDE DEF t, m, n
<1>4. IsSequence(t) /\ DOMAIN t = 1 .. m + n
  BY <1>3, SequenceOf
<1>5. \A i \in 1 .. m + n : IsObject(t[i])
  <2> TAKE i \in 1 .. m + n
  <2>1. CASE i \in 1 .. m
    BY <1>1, <1>3, <2>1
  <2>2. CASE i \notin 1 .. m
    <3>1. i - m \in 1 .. n /\ m + (i - m) = i
      BY <1>1, <2>2
    <3>2. t[m + (i - m)] = u[i - m]
      BY <1>3, <3>1
    <3> QED
      BY <1>1, <3>1, <3>2
  <2> QED BY <2>1, <2>2
<1> QED
  BY <1>1, <1>3, <1>4, <1>5 DEF Grows, IsStore, t, m, n

(* Conses follows the list one cons at a time.                             *)
NextCons(s, v, seen) ==
    LET next == IF seen = << >> THEN v ELSE CdrOf(s, Last(seen))
    IN  IF ConsP(next) THEN Append(seen, next) ELSE seen

Follows(f, s, v, n) == f = [k \in 0 .. n |-> IF k = 0 THEN << >> ELSE NextCons(s, v, f[k - 1])]

(* What the conses after k steps are.                                      *)
LEMMA FollowsEquations ==
  ASSUME NEW s, NEW v, NEW n \in Nat, NEW f, Follows(f, s, v, n)
  PROVE  f[0] = << >> /\ \A k \in 1 .. n : f[k] = NextCons(s, v, f[k - 1])
<1> DEFINE e == [k \in 0 .. n |-> IF k = 0 THEN << >> ELSE NextCons(s, v, f[k - 1])]
<1>1. \A k \in 0 .. n : e[k] = IF k = 0 THEN << >> ELSE NextCons(s, v, f[k - 1])
  OBVIOUS
<1>2. f = e
  BY DEF Follows
<1> HIDE DEF e
<1> QED
  BY <1>1, <1>2

(* The walk exists for any number of steps.                                *)
LEMMA FollowsExists ==
  ASSUME NEW s, NEW v, NEW n \in Nat
  PROVE  \E f : Follows(f, s, v, n)
<1> DEFINE Bad == {m \in Nat : ~ \E f : Follows(f, s, v, m)}
<1> SUFFICES ASSUME Bad # {} PROVE FALSE
  OBVIOUS
<1>1. PICK m \in Bad : \A j \in Bad : m <= j
  <2>1. Bad \subseteq Nat
    OBVIOUS
  <2> HIDE DEF Bad
  <2> QED BY <2>1, LeastExists
<1>2. CASE m = 0
  <2> DEFINE f == [k \in 0 .. 0 |-> << >>]
  <2>1. f = [k \in 0 .. 0 |-> IF k = 0 THEN << >> ELSE NextCons(s, v, f[k - 1])]
    OBVIOUS
  <2> QED
    BY <1>1, <1>2, <2>1 DEF Follows
<1>3. CASE m # 0
  <2>1. m \in Nat \ {0} /\ m - 1 \in Nat
    BY <1>3
  <2>2. PICK g : Follows(g, s, v, m - 1)
    BY <1>1, <2>1
  <2> DEFINE f == [k \in 0 .. m |-> IF k < m THEN g[k] ELSE NextCons(s, v, g[m - 1])]
  <2>3. \A k \in 0 .. m - 1 : f[k] = g[k]
    BY <2>1
  <2>4. f[m] = NextCons(s, v, g[m - 1])
    BY <2>1
  <2>5. g[0] = << >> /\ \A k \in 1 .. m - 1 : g[k] = NextCons(s, v, g[k - 1])
    BY <2>1, <2>2, FollowsEquations
  <2>6. f = [k \in 0 .. m |-> f[k]]
    OBVIOUS
  <2> HIDE DEF f
  <2>7. f[0] = << >>
    BY <2>1, <2>3, <2>5
  <2>8. ASSUME NEW k \in 0 .. m, k # 0
        PROVE  f[k] = NextCons(s, v, f[k - 1])
    <3>1. k - 1 \in 0 .. m - 1
      BY <2>1, <2>8
    <3>2. f[k - 1] = g[k - 1]
      BY <2>3, <3>1
    <3>3. CASE k = m
      BY <2>4, <3>2, <3>3
    <3>4. CASE k # m
      <4>1. k \in 1 .. m - 1 /\ k \in 0 .. m - 1
        BY <2>1, <2>8, <3>4
      <4> QED
        BY <2>3, <2>5, <3>2, <4>1
    <3> QED BY <3>3, <3>4
  <2>9. \A k \in 0 .. m : f[k] = IF k = 0 THEN << >> ELSE NextCons(s, v, f[k - 1])
    BY <2>7, <2>8
  <2>10. [k \in 0 .. m |-> f[k]] = [k \in 0 .. m |-> IF k = 0 THEN << >> ELSE NextCons(s, v, f[k - 1])]
    BY <2>9
  <2>11. Follows(f, s, v, m)
    BY <2>6, <2>10 DEF Follows
  <2> QED
    BY <1>1, <2>11
<1> QED BY <1>2, <1>3

(* The conses of a list are a sequence, be the list circular or not.       *)
LEMMA ConsesAreSequence ==
  ASSUME NEW s, IsStore(s), NEW v
  PROVE  Len(Conses(s, v)) \in Nat
<1> DEFINE n == Len(s) + 1
           f == CHOOSE g : Follows(g, s, v, n)
           Bad == {k \in 0 .. n : ~ IsSequence(f[k])}
<1>1. n \in Nat
  BY StoreRead
<1>2. Follows(f, s, v, n)
  BY <1>1, FollowsExists
<1>3. Conses(s, v) = f[n]
  BY DEF Conses, Follows, NextCons
<1> HIDE DEF f, n
<1>4. f[0] = << >> /\ \A k \in 1 .. n : f[k] = NextCons(s, v, f[k - 1])
  BY <1>1, <1>2, FollowsEquations
<1>5. Bad = {}
  <2> SUFFICES ASSUME Bad # {} PROVE FALSE
    OBVIOUS
  <2>1. PICK k \in Bad : \A j \in Bad : k <= j
    <3>1. Bad \subseteq Nat
      BY <1>1
    <3> HIDE DEF Bad
    <3> QED BY <3>1, LeastExists
  <2>2. IsSequence(<< >>)
    <3>1. << >> \in Seq({})
      OBVIOUS
    <3> QED BY <3>1, SequenceOf
  <2>3. k \in 1 .. n /\ k - 1 \in 0 .. n /\ ~ (k <= k - 1)
    BY <1>1, <1>4, <2>1, <2>2
  <2>4. IsSequence(f[k - 1])
    BY <2>1, <2>3
  <2>5. IsSequence(NextCons(s, v, f[k - 1]))
    BY <2>4, SequenceAppended DEF NextCons
  <2> QED
    BY <1>4, <2>1, <2>3, <2>5
<1>6. IsSequence(f[n])
  BY <1>1, <1>5
<1> QED
  BY <1>3, <1>6, SequenceRead
-----------------------------------------------------------------------------
(* What each primitive does to the store.                                  *)

(* The invariant: the objects of the program are in the store, and each is *)
(* one.                                                                    *)
StoreInv == ProgramRuns /\ IsStore(store) /\ Roots <= Len(store)

(* What OnlyNamedChange says of a step.                                    *)
Named ==
    call' # Idle =>
      \A i \in DOMAIN store :
        store'[i] # store[i] =>
          call'.op \in Mutators /\ call'.args[1].n = i /\ answer'.type # "error"

(* An argument that names an object names one that is there.               *)
LEMMA RootObjects ==
  ASSUME StoreInv, NEW type, NEW v \in Objects(type)
  PROVE  /\ v.type = type /\ v.n \in DOMAIN store /\ store[v.n].type = type
         /\ IsObject(store[v.n])
         /\ type = "vector" => IsSequence(store[v.n].data)
<1>1. Roots \in Nat /\ DOMAIN store = 1 .. Len(store) /\ Len(store) \in Nat
  BY ProgramsAssumption, StoreRead DEF StoreInv, ProgramRuns, Roots, program
<1>2. PICK i \in 1 .. Roots : v = Ref(type, i) /\ store[i].type = type
  BY DEF Objects
<1>3. v.type = type /\ v.n = i /\ i \in DOMAIN store
  BY <1>1, <1>2 DEF Ref, StoreInv
<1> QED
  BY <1>2, <1>3, ObjectRead DEF StoreInv, IsA

(* A call that creates keeps the invariant and changes no object.          *)
LEMMA CallCreates ==
  ASSUME StoreInv, NEW op, NEW args, NEW t, Calls(op, args, t), Creates(store, t)
  PROVE  StoreInv' /\ Named
<1>1. store' = t.store /\ UNCHANGED chosen
  BY DEF Calls
<1>2. DOMAIN store = 1 .. Len(store) /\ Len(store) \in Nat /\ Len(store') \in Nat /\ Roots \in Nat
  BY <1>1, ProgramsAssumption, StoreRead DEF StoreInv, Creates, Grows, ProgramRuns, Roots, program
<1>3. Roots' = Roots
  BY <1>1 DEF Roots, program
<1> QED
  BY <1>1, <1>2, <1>3 DEF StoreInv, Named, Creates, Grows, ProgramRuns

(* A call that mutates its first argument keeps it too.                    *)
LEMMA CallMutates ==
  ASSUME StoreInv, NEW op \in Mutators, NEW args, NEW t, Calls(op, args, t), Mutates(store, t, args[1].n)
  PROVE  StoreInv' /\ Named
<1>1. store' = t.store /\ answer' = t.answer /\ call'.op = op /\ call'.args = args /\ UNCHANGED chosen
  BY DEF Calls
<1>2. DOMAIN store = 1 .. Len(store) /\ Len(store) \in Nat
  BY StoreRead DEF StoreInv
<1>3. Roots' = Roots
  BY <1>1 DEF Roots, program
<1> QED
  BY <1>1, <1>2, <1>3 DEF StoreInv, Named, Mutates, Changes, ProgramRuns

(* Primitives of strings that create at most.                              *)
LEMMA StringsCreate ==
  ASSUME NEW s, IsStore(s), NEW v, NEW x, NEW y, NEW junk, NEW sides
  PROVE  /\ Creates(s, LStringRef(s, v, x))
         /\ Creates(s, LStringCopy(s, v, junk))
         /\ Creates(s, LStringAppend(s, <<v, x>>, junk))
         /\ Creates(s, LSubstring(s, v, x, y, junk))
         /\ Creates(s, LStringTrim(s, v, x, sides, junk))
         /\ Creates(s, LStringUpcase(s, v, junk))
         /\ Creates(s, LStringDowncase(s, v, junk))
<1>1. Creates(s, LStringRef(s, v, x))
  BY CreatesNothing, CreatesChecked DEF LStringRef
<1>2. Creates(s, LStringCopy(s, v, junk))
  BY StringMade, CreatesObject DEF LStringCopy
<1>3. Creates(s, LStringAppend(s, <<v, x>>, junk))
  BY StringMade, CreatesObject, CreatesChecked DEF LStringAppend
<1>4. Creates(s, LSubstring(s, v, x, y, junk))
  BY StringMade, CreatesObject, CreatesChecked DEF LSubstring
<1>5. Creates(s, LStringTrim(s, v, x, sides, junk))
  BY StringMade, CreatesObject, CreatesChecked DEF LStringTrim
<1>6. Creates(s, LStringUpcase(s, v, junk)) /\ Creates(s, LStringDowncase(s, v, junk))
  BY StringMade, CreatesObject DEF LStringUpcase, LStringDowncase
<1> QED
  BY <1>1, <1>2, <1>3, <1>4, <1>5, <1>6

(* Searches and comparisons create nothing.                                *)
LEMMA SearchesCreate ==
  ASSUME NEW s, IsStore(s), NEW v, NEW w, NEW from, NEW junk, NEW stray
  PROVE  /\ Creates(s, LStringSearch(s, v, w, from, junk))
         /\ Creates(s, LStringSearchFromRight(s, v, w, from, junk))
         /\ Creates(s, LStringFirstChar(s, v, w, from, stray))
         /\ Creates(s, LStringFirstSubstring(s, v, w, from, stray))
         /\ Creates(s, LStrCmp(s, v, w))
         /\ Creates(s, LStrICmp(s, v, w))
<1>1. Creates(s, LStringSearch(s, v, w, from, junk))
  BY CreatesNothing, CreatesChecked DEF LStringSearch
<1>2. Creates(s, LStringSearchFromRight(s, v, w, from, junk))
  BY CreatesNothing, CreatesChecked DEF LStringSearchFromRight
<1>3. Creates(s, LStringFirstChar(s, v, w, from, stray))
  BY CreatesNothing, CreatesChecked DEF LStringFirstChar, CharSet
<1>4. Creates(s, LStringFirstSubstring(s, v, w, from, stray))
  BY CreatesNothing, CreatesChecked, ZenonT(60) DEF LStringFirstSubstring, CharSet
<1>5. Creates(s, LStrCmp(s, v, w)) /\ Creates(s, LStrICmp(s, v, w))
  BY CreatesNothing DEF LStrCmp, LStrICmp
<1> QED
  BY <1>1, <1>2, <1>3, <1>4, <1>5

(* Primitives of vectors that create at most.                              *)
LEMMA VectorsCreate ==
  ASSUME NEW s, IsStore(s), NEW v, NEW n, Value(n), NEW x
  PROVE  /\ Creates(s, LVectorRef(s, v, n, x))
         /\ Creates(s, LMakeVector(s, n, x))
         /\ Creates(s, LVector(s, <<n, x>>))
         /\ Creates(s, LVectorResize(s, v, n, x))
<1>1. Creates(s, LVectorRef(s, v, n, x))
  <2>1. Creates(s, Gives(s, x)) /\ Creates(s, Gives(s, s[v.n].data[IndexOf(n) + 1]))
    BY CreatesNothing
  <2>2. Creates(s, Checks(s, x # Nil, "index-out-of-bounds", Gives(s, x)))
    BY <2>1, CreatesChecked
  <2> QED
    BY <2>1, <2>2, CreatesChecked DEF LVectorRef
<1>2. Creates(s, LMakeVector(s, n, x))
  <2> DEFINE d == Whole(n)
             f == [i \in 1 .. d |-> x]
  <2>1. d \in Int
    BY DEF Value, Whole, TruncateOf, CeilingOf, FloorOf
  <2>2. ASSUME d >= 0
        PROVE  IsObject(VectorCons(f))
    <3>1. d \in Nat /\ DOMAIN f = 1 .. d /\ f = [i \in 1 .. d |-> f[i]]
      BY <2>1, <2>2
    <3> HIDE DEF f, d
    <3> QED BY <3>1, VectorMade
  <2> HIDE DEF f, d
  <2>3. d >= 0 => Creates(s, Allocates(s, VectorCons(f)))
    BY <2>2, CreatesObject
  <2>4. Creates(s, Checks(s, d >= 0, "arg-out-of-range", Allocates(s, VectorCons(f))))
    BY <2>3, CreatesChecked
  <2> QED
    BY <2>4, CreatesChecked DEF LMakeVector, f, d
<1>3. Creates(s, LVector(s, <<n, x>>))
  <2> DEFINE f == <<n, x>>
  <2>1. DOMAIN f = 1 .. 2 /\ f = [i \in 1 .. 2 |-> f[i]] /\ 2 \in Nat
    OBVIOUS
  <2> HIDE DEF f
  <2>2. IsObject(VectorCons(f))
    BY <2>1, VectorMade
  <2> QED
    BY <2>2, CreatesObject DEF LVector, f
<1>4. Creates(s, LVectorResize(s, v, n, x))
  <2> DEFINE old == s[v.n].data
             f == [i \in 1 .. n.n |-> IF i <= Len(old) THEN old[i] ELSE x]
  <2>1. ASSUME n.n >= 0
        PROVE  IsObject(VectorCons(f))
    <3>1. n.n \in Nat /\ DOMAIN f = 1 .. n.n /\ f = [i \in 1 .. n.n |-> f[i]]
      BY <2>1 DEF Value
    <3> HIDE DEF f
    <3> QED BY <3>1, VectorMade
  <2> HIDE DEF f
  <2>2. n.n >= 0 => Creates(s, Allocates(s, VectorCons(f)))
    BY <2>1, CreatesObject
  <2>3. Creates(s, Checks(s, n.n >= 0, "arg-out-of-range", Allocates(s, VectorCons(f))))
    BY <2>2, CreatesChecked
  <2> QED
    BY <2>3, CreatesChecked DEF LVectorResize, f, old
<1> QED
  BY <1>1, <1>2, <1>3, <1>4

(* So do those that copy one.                                              *)
LEMMA VectorsCopied ==
  ASSUME NEW s, IsStore(s), NEW v, v.n \in DOMAIN s, IsSequence(s[v.n].data)
  PROVE  Creates(s, LVectorCopy(s, v)) /\ Creates(s, LVectorToList(s, v))
<1>1. Creates(s, LVectorCopy(s, v))
  BY ObjectMade, CreatesObject DEF LVectorCopy, VectorCons
<1>2. Creates(s, LVectorToList(s, v))
  <2> DEFINE data == s[v.n].data
             m == Len(s)
             f == [i \in 1 .. Len(data) |->
                     ConsObject(data[i], IF i = Len(data) THEN Nil ELSE Ref("cons", m + i + 1))]
  <2>1. Len(data) \in Nat
    BY SequenceRead
  <2>2. DOMAIN f = 1 .. Len(data) /\ f = [i \in 1 .. Len(data) |-> f[i]]
    OBVIOUS
  <2>3. \A a, b : IsObject(ConsObject(a, b))
    BY ObjectMade DEF ConsObject
  <2>4. \A i \in 1 .. Len(data) : IsObject(f[i])
    BY <2>3
  <2> HIDE DEF f, data
  <2>5. IsStore(f)
    BY <2>1, <2>2, <2>4, SequenceMade DEF IsStore
  <2>6. Grows(s, s \o f)
    BY <2>5, StoreExtended
  <2> QED
    BY <2>6 DEF LVectorToList, Creates, Gives, f, data
<1> QED
  BY <1>1, <1>2

(* Primitives of lists that create at most.                                *)
LEMMA ListsCreate ==
  ASSUME NEW s, IsStore(s), NEW v, NEW x
  PROVE  /\ Creates(s, LCar(s, v))
         /\ Creates(s, LCdr(s, v))
         /\ Creates(s, LCons(s, v, x))
         /\ Creates(s, LLength(s, v))
         /\ Creates(s, LListToVector(s, v))
<1>1. Creates(s, LCar(s, v)) /\ Creates(s, LCdr(s, v))
  BY CreatesNothing, CreatesChecked DEF LCar, LCdr
<1>2. Creates(s, LCons(s, v, x))
  BY ObjectMade, CreatesObject DEF LCons, ConsObject
<1>3. Creates(s, LLength(s, v))
  BY CreatesNothing, CreatesCounted DEF LLength
<1>4. Creates(s, LListToVector(s, v))
  <2> DEFINE n == Len(Conses(s, v))
             f == Elements(s, v)
  <2>1. n \in Nat /\ DOMAIN f = 1 .. n /\ f = [i \in 1 .. n |-> f[i]]
    BY ConsesAreSequence DEF Elements
  <2> HIDE DEF n, f
  <2>2. Creates(s, Allocates(s, VectorCons(f)))
    BY <2>1, VectorMade, CreatesObject
  <2> QED
    BY <2>2, CreatesChecked, CreatesCounted DEF LListToVector, f
<1> QED
  BY <1>1, <1>2, <1>3, <1>4

(* Primitives of structures that create at most.                           *)
LEMMA StructuresCreate ==
  ASSUME NEW s, IsStore(s), NEW v, NEW x
  PROVE  /\ Creates(s, LStructureCons(s, v, x))
         /\ Creates(s, LCopyStructure(s, v))
         /\ Creates(s, LStructureP(s, v, x))
         /\ Creates(s, LStructureRef(s, v, x))
<1>1. \A data, layout : IsObject(StructureObject(data, layout))
  BY ObjectMade DEF StructureObject
<1>2. Creates(s, LStructureCons(s, v, x))
  BY <1>1, CreatesObject, CreatesChecked, CreatesCounted DEF LStructureCons
<1>3. Creates(s, LCopyStructure(s, v))
  BY <1>1, CreatesObject DEF LCopyStructure
<1>4. Creates(s, LStructureP(s, v, x)) /\ Creates(s, LStructureRef(s, v, x))
  BY CreatesNothing, CreatesChecked DEF LStructureP, LStructureRef
<1> QED
  BY <1>2, <1>3, <1>4

(* Primitives that change a string.                                        *)
LEMMA StringsMutate ==
  ASSUME NEW s, IsStore(s), NEW v, v.n \in DOMAIN s, v.type # "error", s[v.n].type = "string",
         NEW i, NEW x, NEW text, NEW junk
  PROVE  /\ Mutates(s, LStringSet(s, v, i, x), v.n)
         /\ Mutates(s, LStringUpcaseD(s, v), v.n)
         /\ Mutates(s, LStringDowncaseD(s, v), v.n)
         /\ Mutates(s, Gives([s EXCEPT ![v.n] = StringAppendD(s[v.n], text, junk)], v), v.n)
<1>1. IsObject(s[v.n]) /\ ~ IsA(s[v.n], "vector")
  BY DEF IsStore, IsA
<1>2. Mutates(s, LStringSet(s, v, i, x), v.n)
  BY MutatesElement, MutatesChecked DEF LStringSet
<1>3. Mutates(s, LStringUpcaseD(s, v), v.n) /\ Mutates(s, LStringDowncaseD(s, v), v.n)
  <2>1. \A upper : IsObject(Cased(s[v.n], upper))
    BY <1>1, ObjectFilled DEF Cased
  <2>2. \A upper : Mutates(s, Gives(Put(s, v.n, Cased(s[v.n], upper)), v), v.n)
    BY <2>1, MutatesObject
  <2> QED
    BY <2>2 DEF LStringUpcaseD, LStringDowncaseD, Put
<1>4. Mutates(s, Gives([s EXCEPT ![v.n] = StringAppendD(s[v.n], text, junk)], v), v.n)
  <2> DEFINE o == s[v.n]
             p == StringAppendD(o, text, junk)
  <2>1. \E a, b, c : o = [type |-> "string", data |-> a, dim |-> b, layout |-> c]
    BY <1>1, ZenonT(60) DEF IsObject, Object
  <2>2. \E data, dim : p = [o EXCEPT !.dim = dim, !.data = data]
    BY ZenonT(60) DEF StringAppendD
  <2> HIDE DEF p, o
  <2>3. \E data, dim, layout : p = Object("string", data, dim, layout)
    <3>0. PICK a, b, c : o = [type |-> "string", data |-> a, dim |-> b, layout |-> c]
      BY <2>1
    <3>1. PICK data, dim : p = [o EXCEPT !.dim = dim, !.data = data]
      BY <2>2
    <3>2. p = [type |-> "string", data |-> data, dim |-> dim, layout |-> c]
      BY <3>0, <3>1
    <3> QED BY <3>2 DEF Object
  <2>4. IsObject(p)
    BY <2>3, ObjectMade
  <2>5. Mutates(s, Gives(Put(s, v.n, p), v), v.n)
    BY <2>4, MutatesObject
  <2> QED
    BY <2>5 DEF Put, p, o
<1> QED
  BY <1>2, <1>3, <1>4

(* Primitives that change a vector.                                        *)
LEMMA VectorsMutate ==
  ASSUME NEW s, IsStore(s), NEW v, v.n \in DOMAIN s, v.type # "error", IsSequence(s[v.n].data),
         NEW i, NEW x
  PROVE  /\ Mutates(s, LVectorSet(s, v, i, x), v.n)
         /\ Mutates(s, LVectorFill(s, v, x), v.n)
<1>1. Mutates(s, LVectorSet(s, v, i, x), v.n)
  <2>1. Mutates(s, Gives([s EXCEPT ![v.n].data[IndexOf(i) + 1] = x], v), v.n)
    BY MutatesElement
  <2>2. Mutates(s, Checks(s, IndexOf(i) < Len(s[v.n].data), "index-out-of-bounds",
                          Gives([s EXCEPT ![v.n].data[IndexOf(i) + 1] = x], v)), v.n)
    BY <2>1, MutatesChecked
  <2> QED
    BY <2>2, MutatesChecked DEF LVectorSet
<1>2. Mutates(s, LVectorFill(s, v, x), v.n)
  <2> DEFINE data == s[v.n].data
             f == [j \in DOMAIN data |-> x]
  <2>1. DOMAIN data = 1 .. Len(data) /\ Len(data) \in Nat
    BY SequenceRead
  <2>2. DOMAIN f = 1 .. Len(data) /\ f = [j \in 1 .. Len(data) |-> f[j]]
    BY <2>1
  <2> HIDE DEF f, data
  <2>3. IsSequence(f)
    BY <2>1, <2>2, SequenceMade
  <2>4. Mutates(s, Gives([s EXCEPT ![v.n].data = f], v), v.n)
    BY <2>3, MutatesData
  <2> QED
    BY <2>4 DEF LVectorFill, f, data
<1> QED
  BY <1>1, <1>2

(* Primitives that change a cons.                                          *)
LEMMA ListsMutate ==
  ASSUME NEW s, IsStore(s), NEW v, ConsP(v) => v.n \in DOMAIN s, NEW x, x.type # "error"
  PROVE  /\ Mutates(s, LSetCar(s, v, x), v.n)
         /\ Mutates(s, LSetCdr(s, v, x), v.n)
<1>1. ConsP(v) => /\ Mutates(s, Gives([s EXCEPT ![v.n].data[1] = x], x), v.n)
                  /\ Mutates(s, Gives([s EXCEPT ![v.n].data[2] = x], x), v.n)
  BY MutatesElement
<1> QED
  BY <1>1, MutatesChecked DEF LSetCar, LSetCdr

(* The primitive that changes a structure.                                 *)
LEMMA StructuresMutate ==
  ASSUME NEW s, IsStore(s), NEW v, v.n \in DOMAIN s, v.type # "error", NEW i, NEW x
  PROVE  Mutates(s, LStructureSet(s, v, i, x), v.n)
BY MutatesElement, MutatesChecked DEF LStructureSet

(* A program starts with objects.                                          *)
LEMMA StoreInit == Init => StoreInv
<1> SUFFICES ASSUME Init PROVE StoreInv
  OBVIOUS
<1>1. chosen \in DOMAIN Programs /\ store \in Programs[chosen].starts
  BY DEF Init, program
<1>2. Programs[chosen].roots \in Nat /\ IsStore(store) /\ Len(store) = Programs[chosen].roots
  BY <1>1, ProgramsAssumption
<1> QED
  BY <1>1, <1>2 DEF StoreInv, ProgramRuns, Roots, program

(* Every call keeps the objects, and changes what it names, one step for   *)
(* each action.                                                            *)
LEMMA StoreStep == StoreInv /\ [Next]_vars => StoreInv' /\ (Named \/ UNCHANGED vars)
<1> SUFFICES ASSUME StoreInv, [Next]_vars
             PROVE  StoreInv' /\ (Named \/ UNCHANGED vars)
  OBVIOUS
<1>0. IsStore(store) /\ ProgramRuns
  BY DEF StoreInv
<1>1. ASSUME NEW op, NEW args, NEW v, Computes(op, args, v)
      PROVE  StoreInv' /\ Named
  BY <1>0, <1>1, CreatesNothing, CallCreates DEF Computes
<1>2. ASSUME NEW op, NEW args, NEW t, Calls(op, args, t), Creates(store, t)
      PROVE  StoreInv' /\ Named
  BY <1>2, CallCreates
<1>4. CASE Sums \/ Divisions \/ Comparisons \/ Conversions \/ BitwiseOperations \/ Shifts \/ Random
  BY <1>1, <1>4 DEF Sums, Divisions, Comparisons, Conversions, BitwiseOperations, Shifts, Random
<1>5. CASE Formats \/ Parses \/ BinaryNumbers \/ Characters
  BY <1>1, <1>5 DEF Formats, Parses, BinaryNumbers, Characters
<1>6. CASE StringAccess
  <2>1. PICK s \in Objects("string"), i \in program.xs :
          \/ Calls("string-ref", <<s, i>>, LStringRef(store, s, i))
          \/ \E v \in program.ys : Calls("string-set!", <<s, i, v>>, LStringSet(store, s, i, v))
    BY <1>6 DEF StringAccess
  <2>2. CASE Calls("string-ref", <<s, i>>, LStringRef(store, s, i))
    BY <1>0, <1>2, <2>2, StringsCreate
  <2>3. CASE \E v \in program.ys : Calls("string-set!", <<s, i, v>>, LStringSet(store, s, i, v))
    <3>1. PICK v \in program.ys : Calls("string-set!", <<s, i, v>>, LStringSet(store, s, i, v))
      BY <2>3
    <3>2. Mutates(store, LStringSet(store, s, i, v), s.n)
      BY <1>0, RootObjects, StringsMutate
    <3> QED
      BY <3>1, <3>2, CallMutates DEF Mutators
  <2> QED BY <2>1, <2>2, <2>3
<1>7. CASE StringPorts
  <2>1. PICK s \in Objects("string"), t \in Objects("string"), reused \in BOOLEAN :
          Calls("write-strings", <<s, t>>, LWriteString(store, s, t, program.junk, reused))
    BY <1>7 DEF StringPorts
  <2> DEFINE r == LWriteString(store, s, t, program.junk, reused)
  <2>2. Mutates(store, r, s.n)
    BY <1>0, RootObjects, StringsMutate DEF LWriteString
  <2> HIDE DEF r
  <2>3. Calls("write-strings", <<s, t>>, r)
    BY <2>1 DEF r
  <2> QED
    BY <2>2, <2>3, CallMutates DEF Mutators
<1>8. CASE StringConstructors
  BY <1>0, <1>2, <1>8, StringsCreate DEF StringConstructors
<1>9. CASE StringCases
  <2>1. PICK s \in Objects("string") :
          \/ Calls("string-upcase", <<s>>, LStringUpcase(store, s, program.junk))
          \/ Calls("string-downcase", <<s>>, LStringDowncase(store, s, program.junk))
          \/ Calls("string-upcase!", <<s>>, LStringUpcaseD(store, s))
          \/ Calls("string-downcase!", <<s>>, LStringDowncaseD(store, s))
    BY <1>9 DEF StringCases
  <2>2. /\ Creates(store, LStringUpcase(store, s, program.junk))
        /\ Creates(store, LStringDowncase(store, s, program.junk))
    BY <1>0, StringsCreate
  <2>3. Mutates(store, LStringUpcaseD(store, s), s.n) /\ Mutates(store, LStringDowncaseD(store, s), s.n)
    BY <1>0, RootObjects, StringsMutate
  <2>4. \A op \in Mutators : \A t : Calls(op, <<s>>, t) /\ Mutates(store, t, s.n) => StoreInv' /\ Named
    BY CallMutates
  <2> QED
    BY <1>2, <2>1, <2>2, <2>3, <2>4 DEF Mutators
<1>10. CASE StringSearches \/ StringComparisons
  BY <1>0, <1>2, <1>10, SearchesCreate, ZenonT(60) DEF StringSearches, StringComparisons
<1>11. CASE VectorAccess
  <2>1. PICK v \in Objects("vector"), i \in program.xs, x \in program.ys :
          \/ Calls("vector-ref", <<v, i, x>>, LVectorRef(store, v, i, x))
          \/ Calls("vector-set!", <<v, i, x>>, LVectorSet(store, v, i, x))
          \/ Calls("vector-fill!", <<v, x>>, LVectorFill(store, v, x))
    BY <1>11 DEF VectorAccess
  <2>2. v.n \in DOMAIN store /\ v.type # "error" /\ IsSequence(store[v.n].data)
    BY RootObjects
  <2>3. Creates(store, LVectorRef(store, v, i, x))
    BY <1>0, <2>2, ArgumentsAreValues, VectorsCreate
  <2>4. Mutates(store, LVectorSet(store, v, i, x), v.n) /\ Mutates(store, LVectorFill(store, v, x), v.n)
    BY <1>0, <2>2, VectorsMutate
  <2>5. /\ Calls("vector-set!", <<v, i, x>>, LVectorSet(store, v, i, x)) => StoreInv' /\ Named
        /\ Calls("vector-fill!", <<v, x>>, LVectorFill(store, v, x)) => StoreInv' /\ Named
    BY <2>4, CallMutates DEF Mutators
  <2> QED
    BY <1>2, <2>1, <2>3, <2>5
<1>12. CASE VectorConstructors
  <2>1. CASE \E n \in program.xs, x \in program.ys :
               \/ Calls("make-vector", <<n, x>>, LMakeVector(store, n, x))
               \/ Calls("vector", <<n, x>>, LVector(store, <<n, x>>))
               \/ \E v \in Objects("vector") : Calls("vector-resize", <<v, n, x>>, LVectorResize(store, v, n, x))
    <3>1. PICK n \in program.xs, x \in program.ys :
               \/ Calls("make-vector", <<n, x>>, LMakeVector(store, n, x))
               \/ Calls("vector", <<n, x>>, LVector(store, <<n, x>>))
               \/ \E v \in Objects("vector") : Calls("vector-resize", <<v, n, x>>, LVectorResize(store, v, n, x))
      BY <2>1
    <3>2. \A v : /\ Creates(store, LMakeVector(store, n, x))
                 /\ Creates(store, LVector(store, <<n, x>>))
                 /\ Creates(store, LVectorResize(store, v, n, x))
      BY <1>0, ArgumentsAreValues, VectorsCreate
    <3> QED
      BY <1>2, <3>1, <3>2
  <2>2. CASE \E v \in Objects("vector") :
               \/ Calls("vector-copy", <<v>>, LVectorCopy(store, v))
               \/ Calls("vector->list", <<v>>, LVectorToList(store, v))
    BY <1>0, <1>2, <2>2, RootObjects, VectorsCopied
  <2> QED BY <1>12, <2>1, <2>2 DEF VectorConstructors
<1>13. CASE Lists
  <2>1. PICK v \in Objects("cons") \cup {Nil} :
         \/ Calls("car", <<v>>, LCar(store, v))
         \/ Calls("cdr", <<v>>, LCdr(store, v))
         \/ Calls("list->vector", <<v>>, LListToVector(store, v))
         \/ \E x \in program.ys \cup Objects("cons") :
              \/ Calls("cons", <<v, x>>, LCons(store, v, x))
              \/ Calls("set-car!", <<v, x>>, LSetCar(store, v, x))
              \/ Calls("set-cdr!", <<v, x>>, LSetCdr(store, v, x))
    BY <1>13 DEF Lists
  <2>2. CASE \/ Calls("car", <<v>>, LCar(store, v))
             \/ Calls("cdr", <<v>>, LCdr(store, v))
             \/ Calls("list->vector", <<v>>, LListToVector(store, v))
    BY <1>0, <1>2, <2>2, ListsCreate
  <2>3. CASE \E x \in program.ys \cup Objects("cons") :
               \/ Calls("cons", <<v, x>>, LCons(store, v, x))
               \/ Calls("set-car!", <<v, x>>, LSetCar(store, v, x))
               \/ Calls("set-cdr!", <<v, x>>, LSetCdr(store, v, x))
    <3>1. PICK x \in program.ys \cup Objects("cons") :
               \/ Calls("cons", <<v, x>>, LCons(store, v, x))
               \/ Calls("set-car!", <<v, x>>, LSetCar(store, v, x))
               \/ Calls("set-cdr!", <<v, x>>, LSetCdr(store, v, x))
      BY <2>3
    <3>2. Creates(store, LCons(store, v, x))
      BY <1>0, ListsCreate
    <3>3. x.type # "error"
      BY <1>0, ArgumentsAreValues, RootObjects DEF Value, ValueTypes
    <3>4. ConsP(v) => v.n \in DOMAIN store
      BY RootObjects DEF ConsP, IsA, Nil
    <3>5. Mutates(store, LSetCar(store, v, x), v.n) /\ Mutates(store, LSetCdr(store, v, x), v.n)
      BY <1>0, <3>3, <3>4, ListsMutate
    <3>6. \A op \in Mutators : \A t : Calls(op, <<v, x>>, t) /\ Mutates(store, t, v.n) => StoreInv' /\ Named
      BY CallMutates
    <3> QED
      BY <1>2, <3>1, <3>2, <3>5, <3>6 DEF Mutators
  <2> QED BY <2>1, <2>2, <2>3
<1>14. CASE Lengths
  BY <1>0, <1>2, <1>14, ListsCreate DEF Lengths
<1>15. CASE Structures
  <2>1. CASE \E slots \in Objects("vector"), layout \in Objects("cons") :
               Calls("%structurecons", <<slots, layout>>, LStructureCons(store, slots, layout))
    BY <1>0, <1>2, <2>1, StructuresCreate
  <2>2. CASE \E st \in Objects("structure") :
               \/ Calls("%copy-structure", <<st>>, LCopyStructure(store, st))
               \/ \E layout \in Objects("cons") \cup {Nil} :
                    Calls("%structure?", <<st, layout>>, LStructureP(store, st, layout))
               \/ \E i \in program.xs : Calls("%structure-ref", <<st, i>>, LStructureRef(store, st, i))
    BY <1>0, <1>2, <2>2, StructuresCreate
  <2>3. CASE \E st \in Objects("structure"), i \in program.xs, x \in program.ys :
               Calls("%structure-set!", <<st, i, x>>, LStructureSet(store, st, i, x))
    <3>1. PICK st \in Objects("structure"), i \in program.xs, x \in program.ys :
            Calls("%structure-set!", <<st, i, x>>, LStructureSet(store, st, i, x))
      BY <2>3
    <3>2. st.n \in DOMAIN store /\ st.type # "error"
      BY RootObjects
    <3>3. Mutates(store, LStructureSet(store, st, i, x), st.n)
      BY <1>0, <3>2, StructuresMutate
    <3> QED
      BY <3>1, <3>3, CallMutates DEF Mutators
  <2> QED BY <1>15, <2>1, <2>2, <2>3 DEF Structures
<1>16. CASE Return \/ Keep
  <2>1. call' = Idle /\ UNCHANGED chosen
    BY <1>16 DEF Return, Keep
  <2> DEFINE kept == SubSeq(store, 1, Roots)
  <2>2. Roots \in Nat /\ Roots <= Len(store) /\ Len(store) \in Nat /\ store \in Seq(Range(store))
    BY <1>0, ProgramsAssumption, StoreRead, SequenceRead DEF StoreInv, ProgramRuns, Roots, program
  <2>3. DOMAIN kept = 1 .. Roots /\ Len(kept) = Roots /\ \A i \in 1 .. Roots : kept[i] = store[i]
    BY <2>2
  <2>4. kept \in Seq(Range(store))
    BY <2>2
  <2>5. \A i \in DOMAIN store : IsObject(store[i])
    BY <1>0 DEF IsStore
  <2>6. DOMAIN store = 1 .. Len(store)
    BY <1>0, StoreRead
  <2>7. IsStore(kept) /\ Len(kept) = Roots
    <3>1. IsSequence(kept)
      <4> HIDE DEF kept
      <4> QED BY <2>4, SequenceOf
    <3> QED BY <2>2, <2>3, <2>5, <2>6, <3>1 DEF IsStore
  <2>8. CASE Return
    <3>1. store' = kept
      BY <2>8 DEF Return
    <3> QED
      BY <2>1, <2>2, <2>7, <3>1 DEF StoreInv, ProgramRuns, Roots, program, Named
  <2>9. CASE Keep
    <3>1. store' = Put(kept, 1, store[answer.n]) /\ answer.n \in DOMAIN store
      <4>1. answer.n \in Roots + 1 .. Len(store) /\ store' = Put(kept, 1, store[answer.n])
        BY <2>9 DEF Keep, Put
      <4> QED BY <2>2, <2>6, <4>1
    <3> HIDE DEF kept
    <3>2. Changes(kept, Put(kept, 1, store[answer.n]), 1)
      BY <2>5, <2>7, <3>1, StoreChanges
    <3> QED
      BY <2>1, <2>2, <2>7, <3>1, <3>2 DEF StoreInv, ProgramRuns, Roots, program, Named, Changes
  <2> QED BY <1>16, <2>8, <2>9
<1>17. CASE UNCHANGED vars
  BY <1>17 DEF vars, StoreInv, ProgramRuns, Roots, program
<1> QED
  BY <1>4, <1>5, <1>6, <1>7, <1>8, <1>9, <1>10, <1>11, <1>12, <1>13, <1>14, <1>15, <1>16, <1>17 DEF Next

(* Only the primitives whose names say so change an object they were       *)
(* given, and only their first argument, and none that answers an error,   *)
(* for any objects and any program that calls them (string.c, vector.c,    *)
(* list.c, structure.c).                                                   *)
THEOREM OnlyNamedPrimitivesChange == Spec => OnlyNamedChange
<1>1. StoreInv /\ [Next]_vars => [call' # Idle =>
         \A i \in DOMAIN store :
           store'[i] # store[i] =>
             call'.op \in Mutators /\ call'.args[1].n = i /\ answer'.type # "error"]_vars
  BY StoreStep DEF Named
<1>2. StoreInv /\ [Next]_vars => StoreInv'
  BY StoreStep
<1> QED BY <1>1, <1>2, StoreInit, PTL DEF Spec, OnlyNamedChange
-----------------------------------------------------------------------------
(* The buffers of strings.                                                 *)

(* The characters, and the numbers a byte holds.                           *)
LEMMA CharFacts ==
  /\ CharMax \in Nat /\ 2^ByteBits \in Nat /\ 2^ByteBits = 2 * (CharMax + 1)
  /\ Chars \subseteq Int /\ 0 \in Chars
  /\ \A c : c \in Chars <=> c \in Int /\ -CharMax - 1 <= c /\ c <= CharMax
<1>1. ByteBits - 1 \in Nat /\ (ByteBits - 1) + 1 = ByteBits
  BY WordsHoldTags
<1>2. 2^(ByteBits - 1) \in Nat /\ 2^(ByteBits - 1) > 0 /\ 2^((ByteBits - 1) + 1) = 2 * 2^(ByteBits - 1)
  BY <1>1, PowerNat, PowerDoubles
<1> QED
  BY <1>1, <1>2 DEF CharMax, Chars

(* A number stored as a character becomes one.                             *)
LEMMA CharOfIsChar == ASSUME NEW n \in Int PROVE CharOf(n) \in Chars
<1> DEFINE w == 2^ByteBits
           b == n % w
<1>1. w \in Nat /\ w > 0 /\ w = 2 * (CharMax + 1) /\ CharMax \in Nat
  BY CharFacts
<1>2. b \in 0 .. w - 1
  <2> HIDE DEF w
  <2> QED BY <1>1
<1>3. CharOf(n) = IF b > CharMax THEN b - w ELSE b
  BY DEF CharOf
<1> HIDE DEF b, w
<1> QED
  BY <1>1, <1>2, <1>3, CharFacts

(* A letter in the other case is a character.                              *)
LEMMA CaseIsChar == ASSUME NEW c \in Chars, NEW upper PROVE InCase(upper, c) \in Chars
<1>1. \A l \in DOMAIN UpperOf : l \in Chars /\ UpperOf[l] \in Chars
  BY LettersAreCharacters DEF Range
<1>2. ToUpper(c) \in Chars
  BY <1>1 DEF ToUpper
<1>3. ToLower(c) \in Chars
  <2>1. CASE \E l \in DOMAIN UpperOf : UpperOf[l] = c
    <3>1. (CHOOSE l \in DOMAIN UpperOf : UpperOf[l] = c) \in DOMAIN UpperOf
      BY <2>1
    <3> QED BY <1>1, <2>1, <3>1 DEF ToLower
  <2>2. CASE ~ \E l \in DOMAIN UpperOf : UpperOf[l] = c
    BY <2>2 DEF ToLower
  <2> QED BY <2>1, <2>2
<1> QED BY <1>2, <1>3 DEF InCase

(* There is a buffer for a text of any length, and it is longer than the   *)
(* text (string.c): the smallest that is.                                  *)
LEMMA StorageFits == ASSUME NEW n \in Nat PROVE StorageSize(n) \in Nat /\ StorageSize(n) > n
<1> DEFINE P(b) == b > n /\ (b = MinStorage \/ b \div 2 <= n)
           Sizes == {MinStorage * 2^k : k \in 0 .. n}
           Long == {k \in Nat : MinStorage * 2^k > n}
<1>1. MinStorage \in Nat /\ MinStorage > 0
  BY LettersAreCharacters
<1>2. \A k \in Nat : MinStorage * 2^k \in Nat
  BY <1>1, PowerNat
<1>3. n \in Long
  <2>1. 2^n \in Nat /\ n < 2^n
    BY PowerNat, PowerExceeds
  <2> QED BY <1>1, <2>1
<1>4. PICK k \in Long : \A j \in Long : k <= j
  <2>1. Long \subseteq Nat /\ Long # {}
    BY <1>3
  <2> HIDE DEF Long
  <2> QED BY <2>1, LeastExists
<1>5. k \in 0 .. n
  BY <1>3, <1>4
<1>6. P(MinStorage * 2^k)
  <2>1. CASE k = 0
    BY <1>1, <1>4, <2>1
  <2>2. CASE k # 0
    <3>1. k - 1 \in Nat /\ (k - 1) + 1 = k /\ ~ (k <= k - 1)
      BY <1>4, <2>2
    <3>2. ~ (MinStorage * 2^(k - 1) > n) /\ MinStorage * 2^(k - 1) \in Nat
      BY <1>2, <1>4, <3>1
    <3>3. 2^k = 2 * 2^(k - 1) /\ 2^(k - 1) \in Nat
      <4>1. 2^((k - 1) + 1) = 2 * 2^(k - 1)
        BY <3>1, PowerDoubles
      <4> QED BY <3>1, <4>1, PowerNat
    <3> DEFINE q == 2^(k - 1)
    <3>4. MinStorage * (2 * q) = 2 * (MinStorage * q)
      <4> HIDE DEF q
      <4>1. q \in Nat
        BY <3>3 DEF q
      <4> QED BY <1>1, <4>1
    <3>5. MinStorage * 2^k = 2 * (MinStorage * q)
      BY <3>3, <3>4
    <3>6. (MinStorage * 2^k) \div 2 = MinStorage * q
      BY <3>2, <3>5
    <3> QED
      BY <1>4, <3>2, <3>6
  <2> QED BY <2>1, <2>2
<1>7. MinStorage * 2^k \in Sizes
  BY <1>5
<1>8. StorageSize(n) = CHOOSE b \in Sizes : P(b)
  BY DEF StorageSize
<1>9. Sizes \subseteq Nat
  BY <1>2
<1> HIDE DEF Sizes, P
<1>10. StorageSize(n) \in Sizes /\ P(StorageSize(n))
  BY <1>6, <1>7, <1>8
<1> QED BY <1>9, <1>10 DEF P

(* What a text is.                                                         *)
LEMMA TextRead ==
  ASSUME NEW text \in Seq(Chars)
  PROVE  /\ Len(text) \in Nat /\ DOMAIN text = 1 .. Len(text) /\ \A i \in 1 .. Len(text) : text[i] \in Chars
OBVIOUS

(* A buffer holds characters only, as many as it was asked for.            *)
LEMMA BufferMade ==
  ASSUME NEW text \in Seq(Chars), NEW junk \in Chars, NEW size \in Nat, Len(text) <= size
  PROVE  Buffer(text, size, junk) \in [1 .. size -> Chars]
<1> DEFINE n == size - Len(text)
           f == [i \in 1 .. n |-> junk]
<1>1. n \in Nat
  OBVIOUS
<1>2. f \in Seq(Chars) /\ Len(f) = n
  <2> HIDE DEF n
  <2> QED BY <1>1
<1> HIDE DEF f
<1>3. text \o f \in Seq(Chars) /\ Len(text \o f) = Len(text) + n
  BY <1>1, <1>2
<1> DEFINE t == text \o f
<1> HIDE DEF t
<1>4. t \in Seq(Chars) /\ Len(t) = size
  BY <1>3 DEF t
<1>5. t \in [1 .. size -> Chars]
  BY <1>4
<1> QED BY <1>5 DEF Buffer, t, f

(* What an object that is a string is.                                     *)
TextObject(o) == o.type = "string" /\ o.dim \in Nat /\ o.data \in [1 .. StorageSize(o.dim) -> Chars]

(* The buffer of a string is a sequence longer than its text.              *)
LEMMA TextObjectRead ==
  ASSUME NEW o, TextObject(o)
  PROVE  /\ o.dim \in Nat /\ o.data \in Seq(Chars) /\ Len(o.data) = StorageSize(o.dim)
         /\ Len(o.data) > o.dim /\ DOMAIN o.data = 1 .. Len(o.data)
         /\ \A i \in 1 .. Len(o.data) : o.data[i] \in Chars
<1> DEFINE n == StorageSize(o.dim)
           d == o.data
<1>1. o.dim \in Nat /\ n \in Nat /\ n > o.dim
  BY StorageFits DEF TextObject
<1>2. d \in [1 .. n -> Chars]
  BY DEF TextObject
<1> HIDE DEF n, d
<1>3. d \in Seq(Chars) /\ Len(d) = n
  BY <1>1, <1>2
<1> QED BY <1>1, <1>3 DEF n, d

(* The text of a string.                                                   *)
LEMMA TextOfRead ==
  ASSUME NEW o, TextObject(o)
  PROVE  /\ TextOf(o) \in Seq(Chars) /\ Len(TextOf(o)) = o.dim
         /\ \A m, n \in Nat : m >= 1 /\ n <= o.dim => SubSeq(o.data, m, n) \in Seq(Chars)
<1>1. o.dim \in Nat /\ o.data \in Seq(Chars) /\ Len(o.data) > o.dim
  BY TextObjectRead
<1> QED BY <1>1 DEF TextOf

(* A new string is well made.                                              *)
LEMMA StrConsMade ==
  ASSUME NEW text \in Seq(Chars), NEW junk \in Chars
  PROVE  /\ TextObject(StrCons(text, junk)) /\ StrCons(text, junk).dim = Len(text)
         /\ IsObject(StrCons(text, junk))
<1> DEFINE n == StorageSize(Len(text))
<1>1. Len(text) \in Nat /\ n \in Nat /\ Len(text) <= n
  BY StorageFits
<1>2. Buffer(text, n, junk) \in [1 .. n -> Chars]
  BY <1>1, BufferMade
<1> QED
  BY <1>1, <1>2, StringMade DEF TextObject, StrCons, Object
-----------------------------------------------------------------------------
(* Stores of well-made objects.                                            *)

(* The objects a program began with have the types they had, and are well  *)
(* made of values over them; so is each object made since, but for the     *)
(* conses of one list, which refer to one another.                         *)
Fits(o) == Size(o) <= FixnumMax

Made(b, s) ==
    /\ IsStore(b) /\ IsStore(s) /\ Len(b) <= Len(s)
    /\ \A i \in 1 .. Len(b) : s[i].type = b[i].type /\ WellMade(b, s[i]) /\ Fits(s[i])
    /\ \A i \in Len(b) + 1 .. Len(s) : WellMade(IF IsA(s[i], "cons") THEN s ELSE b, s[i])

(* Between calls there are no others.                                      *)
AtRest(b, s) == Made(b, s) /\ Len(s) = Len(b)

(* What a call leaves and answers.                                         *)
Sound(b, t) == Made(b, t.store) /\ KnownIn(t.store, t.answer)

(* A string is well made in any store.                                     *)
LEMMA TextIsMade ==
  ASSUME NEW o, NEW s
  PROVE  /\ TextObject(o) => WellMade(s, o)
         /\ WellMade(s, o) /\ o.type = "string" => TextObject(o)
BY DEF TextObject, WellMade, IsA

(* An object that is no string is one of values.                           *)
LEMMA ValuesRead ==
  ASSUME NEW s, NEW o, WellMade(s, o), o.type # "string"
  PROVE  /\ IsSequence(o.data) /\ DOMAIN o.data = 1 .. Len(o.data) /\ Len(o.data) \in Nat
         /\ o.type = "cons" => Len(o.data) = 2
         /\ \A i \in 1 .. Len(o.data) : KnownIn(s, o.data[i])
<1>1. IsSequence(o.data) /\ (o.type = "cons" => Len(o.data) = 2) /\ \A v \in Range(o.data) : KnownIn(s, v)
  BY DEF WellMade, IsA
<1> QED BY <1>1, SequenceRead

(* An object of a sequence of values is well made.                         *)
LEMMA ValuesMade ==
  ASSUME NEW s, NEW o, o.type # "string", IsSequence(o.data), o.type = "cons" => Len(o.data) = 2,
         \A i \in 1 .. Len(o.data) : KnownIn(s, o.data[i])
  PROVE  WellMade(s, o)
<1>1. \A v \in Range(o.data) : \E i \in 1 .. Len(o.data) : v = o.data[i]
  BY SequenceRead DEF Range
<1> QED BY <1>1 DEF WellMade, IsA

(* What is known of a store is known of one with more objects.             *)
LEMMA KnownLater ==
  ASSUME NEW b, NEW s, IsStore(b), IsStore(s), Len(b) <= Len(s),
         \A i \in 1 .. Len(b) : s[i].type = b[i].type
  PROVE  /\ \A v : KnownIn(b, v) => KnownIn(s, v)
         /\ \A o : WellMade(b, o) => WellMade(s, o)
         /\ Len(s) = Len(b) => \A v : KnownIn(s, v) => KnownIn(b, v)
<1>1. DOMAIN b = 1 .. Len(b) /\ DOMAIN s = 1 .. Len(s) /\ Len(b) \in Nat /\ Len(s) \in Nat
  BY StoreRead
<1>2. DOMAIN b \subseteq DOMAIN s /\ \A i \in DOMAIN b : s[i].type = b[i].type
  BY <1>1
<1>3. \A v : KnownIn(b, v) => KnownIn(s, v)
  BY <1>2 DEF KnownIn
<1>4. \A o : WellMade(b, o) => WellMade(s, o)
  BY <1>3 DEF WellMade
<1>5. Len(s) = Len(b) => DOMAIN s = DOMAIN b
  BY <1>1
<1>6. Len(s) = Len(b) => \A v : KnownIn(s, v) => KnownIn(b, v)
  BY <1>2, <1>5 DEF KnownIn
<1> QED BY <1>3, <1>4, <1>6

(* The facts of a store between calls.                                     *)
LEMMA RestRead ==
  ASSUME NEW b, NEW s, AtRest(b, s)
  PROVE  /\ IsStore(b) /\ IsStore(s) /\ Len(s) = Len(b) /\ Len(s) \in Nat
         /\ DOMAIN s = 1 .. Len(s) /\ DOMAIN b = 1 .. Len(s)
         /\ \A i \in 1 .. Len(s) : IsObject(s[i]) /\ s[i].type = b[i].type /\ WellMade(b, s[i]) /\ Fits(s[i])
         /\ \A v : KnownIn(b, v) <=> KnownIn(s, v)
<1>1. /\ IsStore(b) /\ IsStore(s) /\ Len(s) = Len(b)
      /\ \A i \in 1 .. Len(b) : s[i].type = b[i].type /\ WellMade(b, s[i]) /\ Fits(s[i])
  BY DEF AtRest, Made
<1>2. /\ Len(s) \in Nat /\ DOMAIN s = 1 .. Len(s) /\ DOMAIN b = 1 .. Len(b)
      /\ \A i \in 1 .. Len(s) : IsObject(s[i])
  BY <1>1, StoreRead
<1>3. \A v : KnownIn(b, v) <=> KnownIn(s, v)
  BY <1>1, <1>2, KnownLater
<1> QED BY <1>1, <1>2, <1>3

(* An answer that is a value of the store, and an error.                   *)
LEMMA GivesTyped ==
  ASSUME NEW b, NEW s, AtRest(b, s)
  PROVE  /\ \A v : KnownIn(b, v) => Sound(b, Gives(s, v))
         /\ \A name : Sound(b, Fails(s, name))
<1>1. Made(b, s) /\ \A v : KnownIn(b, v) => KnownIn(s, v)
  BY RestRead DEF AtRest
<1>2. \A name : KnownIn(s, Error(name))
  BY DEF KnownIn, Error
<1> QED BY <1>1, <1>2 DEF Sound, Gives, Fails

(* A check, and a count that may not end.                                  *)
LEMMA ChecksTyped ==
  ASSUME NEW b, NEW s, AtRest(b, s), NEW t
  PROVE  /\ \A test, name : (test => Sound(b, t)) => Sound(b, Checks(s, test, name, t))
         /\ \A v : (~ Circular(s, v) => Sound(b, t)) => Sound(b, Counting(s, v, t))
BY GivesTyped DEF Checks, Counting

(* A new object is known by a reference of its type.                       *)
LEMMA AllocatesTyped ==
  ASSUME NEW b, NEW s, AtRest(b, s), NEW o, IsObject(o), WellMade(b, o),
         o.type \notin {"fixnum", "character"}
  PROVE  Sound(b, Allocates(s, o))
<1> DEFINE t == Append(s, o)
           v == Ref(o.type, Len(s) + 1)
<1>1. Allocates(s, o).store = t /\ Allocates(s, o).answer = v
  BY DEF Allocates, Gives
<1>2. /\ Len(s) = Len(b) /\ Len(s) \in Nat /\ IsStore(b) /\ IsSequence(s)
      /\ \A i \in 1 .. Len(s) : s[i].type = b[i].type /\ WellMade(b, s[i]) /\ Fits(s[i])
  BY RestRead, StoreRead
<1>3. /\ IsStore(t) /\ Len(t) = Len(s) + 1 /\ t[Len(s) + 1] = o
      /\ \A i \in 1 .. Len(s) : t[i] = s[i]
  <2>1. IsStore(s)
    BY RestRead
  <2>2. Grows(s, t)
    BY <1>1, <2>1, StoreAllocates
  <2> QED BY <1>2, <2>2, SequenceAppended DEF Grows
<1>4. v.type = o.type /\ v.n = Len(s) + 1
  BY DEF Ref
<1> HIDE DEF t, v
<1>5. DOMAIN t = 1 .. Len(s) + 1
  BY <1>3, StoreRead
<1>6. WellMade(t, o)
  BY <1>2, <1>3, KnownLater
<1>7. Made(b, t)
  <2>1. \A i \in Len(b) + 1 .. Len(t) : i = Len(s) + 1
    BY <1>2, <1>3
  <2>2. \A i \in Len(b) + 1 .. Len(t) : WellMade(IF IsA(t[i], "cons") THEN t ELSE b, t[i])
    BY <1>3, <1>6, <2>1
  <2> QED BY <1>2, <1>3, <2>2 DEF Made
<1>8. KnownIn(t, v)
  BY <1>2, <1>3, <1>4, <1>5 DEF KnownIn
<1> QED BY <1>1, <1>7, <1>8 DEF Sound

(* An object of the same type in place of one of the first.                *)
LEMMA PutTyped ==
  ASSUME NEW b, NEW s, AtRest(b, s), NEW k, NEW o, IsObject(o), WellMade(b, o), Fits(o),
         k \in 1 .. Len(s) => o.type = s[k].type, NEW v, KnownIn(b, v)
  PROVE  AtRest(b, Put(s, k, o)) /\ Sound(b, Gives(Put(s, k, o), v))
<1> DEFINE t == Put(s, k, o)
<1>1. /\ Len(s) = Len(b) /\ Len(s) \in Nat /\ IsStore(b) /\ IsStore(s) /\ IsSequence(s)
      /\ \A i \in 1 .. Len(s) : s[i].type = b[i].type /\ WellMade(b, s[i]) /\ Fits(s[i])
  BY RestRead, StoreRead
<1>2. IsStore(t) /\ Len(t) = Len(s)
  BY <1>1, StoreChanges DEF Changes
<1>3. \A i \in 1 .. Len(s) : (i # k => t[i] = s[i]) /\ (i = k => t[i] = o)
  BY <1>1, SequenceChanged
<1> HIDE DEF t
<1>4. \A i \in 1 .. Len(b) : t[i].type = b[i].type /\ WellMade(b, t[i]) /\ Fits(t[i])
  BY <1>1, <1>3
<1>5. AtRest(b, t)
  BY <1>1, <1>2, <1>4 DEF AtRest, Made
<1> QED BY <1>5, GivesTyped DEF t

(* An object with other data.                                              *)
LEMMA FilledRead ==
  ASSUME NEW o, IsObject(o), NEW data
  PROVE  /\ [o EXCEPT !.data = data].type = o.type
         /\ [o EXCEPT !.data = data].data = data
         /\ [o EXCEPT !.data = data].dim = o.dim
<1> DEFINE p == [o EXCEPT !.data = data]
<1>1. o = [type |-> o.type, data |-> o.data, dim |-> o.dim, layout |-> o.layout]
  BY DEF IsObject, Object
<1>2. p = [type |-> o.type, data |-> data, dim |-> o.dim, layout |-> o.layout]
  BY <1>1
<1> HIDE DEF p
<1> QED BY <1>2 DEF p

(* Other elements for an object that is no string, as many as before.      *)
LEMMA DataTyped ==
  ASSUME NEW b, NEW s, AtRest(b, s), NEW k \in 1 .. Len(s), s[k].type # "string",
         NEW data, IsSequence(data), Len(data) = Len(s[k].data),
         \A i \in 1 .. Len(data) : KnownIn(b, data[i]), NEW v, KnownIn(b, v)
  PROVE  Sound(b, Gives([s EXCEPT ![k].data = data], v))
<1> DEFINE p == [s[k] EXCEPT !.data = data]
<1>1. IsObject(s[k]) /\ WellMade(b, s[k]) /\ Fits(s[k])
  BY RestRead
<1>2. p.type = s[k].type /\ p.data = data
  BY <1>1, FilledRead
<1>3. IsObject(p)
  BY <1>1, ObjectFilled
<1> HIDE DEF p
<1>4. WellMade(b, p)
  BY <1>1, <1>2, ValuesRead, ValuesMade
<1>5. Fits(p)
  BY <1>1, <1>2 DEF Fits, Size, IsA
<1>6. [s EXCEPT ![k].data = data] = Put(s, k, p)
  BY DEF Put, p
<1> QED BY <1>2, <1>3, <1>4, <1>5, <1>6, PutTyped

(* Another element for such an object.                                     *)
LEMMA ElementTyped ==
  ASSUME NEW b, NEW s, AtRest(b, s), NEW k \in 1 .. Len(s), s[k].type # "string",
         NEW j, NEW x, KnownIn(b, x), NEW v, KnownIn(b, v)
  PROVE  Sound(b, Gives([s EXCEPT ![k].data[j] = x], v))
<1> DEFINE data == Put(s[k].data, j, x)
<1>1. WellMade(b, s[k])
  BY RestRead
<1>2. IsSequence(s[k].data) /\ \A i \in 1 .. Len(s[k].data) : KnownIn(b, s[k].data[i])
  BY <1>1, ValuesRead
<1>3. IsSequence(data) /\ Len(data) = Len(s[k].data) /\ \A i \in 1 .. Len(data) : KnownIn(b, data[i])
  BY <1>2, SequenceChanged
<1>4. [s EXCEPT ![k].data[j] = x] = [s EXCEPT ![k].data = data]
  BY DEF Put
<1> HIDE DEF data
<1> QED BY <1>3, <1>4, DataTyped
-----------------------------------------------------------------------------
(* What the primitives of numbers answer.                                  *)

(* Answers that refer to no object are known in every store.               *)
LEMMA PlainAnswers ==
  ASSUME NEW b
  PROVE  /\ \A n : KnownIn(b, Fixcons(n))
         /\ \A n \in Fixnums : KnownIn(b, Fixnum(n))
         /\ \A c \in Chars : KnownIn(b, Char(c))
         /\ \A h : KnownIn(b, Flonum(h))
         /\ \A test : KnownIn(b, Truth(test))
         /\ \A name : KnownIn(b, Trap(name)) /\ KnownIn(b, Error(name))
         /\ KnownIn(b, Nil)
         /\ \A blanks, sign, digits : KnownIn(b, Numeral(blanks, sign, digits))
<1>1. \A n \in Fixnums : KnownIn(b, Fixnum(n))
  BY DEF KnownIn, Fixnum
<1>2. \A name : KnownIn(b, Trap(name)) /\ KnownIn(b, Error(name))
  BY DEF KnownIn, Trap, Error
<1>3. \A n : KnownIn(b, Fixcons(n))
  BY <1>1, <1>2 DEF Fixcons
<1>4. \A c \in Chars : KnownIn(b, Char(c))
  BY DEF KnownIn, Char
<1>5. (\A h : KnownIn(b, Flonum(h))) /\ (\A test : KnownIn(b, Truth(test))) /\ KnownIn(b, Nil)
  BY DEF KnownIn, Flonum, Truth, Nil
<1>6. \A blanks, sign, digits : KnownIn(b, Numeral(blanks, sign, digits))
  BY DEF KnownIn, Numeral
<1> QED BY <1>1, <1>2, <1>3, <1>4, <1>5, <1>6

(* A check of types answers what it guards, or an error.                   *)
LEMMA TypedKnown ==
  ASSUME NEW b, NEW test, NEW v, test => KnownIn(b, v)
  PROVE  KnownIn(b, Typed(test, v))
BY PlainAnswers DEF Typed

(* Sums, differences and products (number.c:319-457).                      *)
LEMMA SumsKnown ==
  ASSUME NEW b, NEW x, NEW y, KnownIn(b, x)
  PROVE  KnownIn(b, LAdd(x, y)) /\ KnownIn(b, LSubtract(x, y)) /\ KnownIn(b, LMultiply(x, y))
<1>1. KnownIn(b, LAdd(x, y))
  BY PlainAnswers, TypedKnown DEF LAdd
<1>2. KnownIn(b, LSubtract(x, y))
  BY PlainAnswers, TypedKnown DEF LSubtract, Negate
<1>3. KnownIn(b, LMultiply(x, y))
  BY PlainAnswers, TypedKnown DEF LMultiply
<1> QED BY <1>1, <1>2, <1>3

(* Divisions (number.c:459-585).                                           *)
LEMMA DivisionsKnown ==
  ASSUME NEW b, NEW x, NEW y
  PROVE  KnownIn(b, LQuotient(x, y)) /\ KnownIn(b, LRemainder(x, y)) /\ KnownIn(b, LModulo(x, y))
<1>1. \A v : KnownIn(b, v) => KnownIn(b, Divides(y, v))
  BY PlainAnswers DEF Divides
<1>2. KnownIn(b, LQuotient(x, y))
  BY <1>1, PlainAnswers, TypedKnown DEF LQuotient
<1>3. KnownIn(b, LRemainder(x, y))
  BY <1>1, PlainAnswers, TypedKnown DEF LRemainder
<1>4. KnownIn(b, LModulo(x, y))
  BY <1>1, PlainAnswers, TypedKnown DEF LModulo
<1> QED BY <1>2, <1>3, <1>4

(* Comparisons, conversions, bits and shifts.                              *)
LEMMA ConversionsKnown ==
  ASSUME NEW b, NEW x, KnownIn(b, x)
  PROVE  /\ \A op, args : KnownIn(b, Compare(op, args))
         /\ KnownIn(b, LExactToInexact(x)) /\ KnownIn(b, LInexactToExact(x)) /\ KnownIn(b, LMagnitude(x))
         /\ \A how : KnownIn(b, Rounding(how, x))
<1>1. \A op, args : KnownIn(b, Compare(op, args))
  BY PlainAnswers, TypedKnown DEF Compare
<1>2. KnownIn(b, LExactToInexact(x))
  BY PlainAnswers, TypedKnown DEF LExactToInexact
<1>3. KnownIn(b, LInexactToExact(x))
  BY PlainAnswers, TypedKnown DEF LInexactToExact
<1>4. KnownIn(b, LMagnitude(x))
  BY PlainAnswers, TypedKnown DEF LMagnitude
<1>5. \A how : KnownIn(b, Rounding(how, x))
  BY PlainAnswers, TypedKnown DEF Rounding
<1> QED BY <1>1, <1>2, <1>3, <1>4, <1>5

(* Operations on bits (number.c:587-757).                                  *)
LEMMA BitsKnown ==
  ASSUME NEW b, NEW x, NEW n, KnownIn(b, x)
  PROVE  /\ \A op : KnownIn(b, BitOperation(op, x, n))
         /\ KnownIn(b, LBitwiseNot(x))
         /\ KnownIn(b, LBitwiseShl(x, n)) /\ KnownIn(b, LBitwiseShr(x, n)) /\ KnownIn(b, LBitwiseAshr(x, n))
<1>1. \A op : KnownIn(b, BitOperation(op, x, n))
  BY PlainAnswers, TypedKnown DEF BitOperation
<1>2. KnownIn(b, LBitwiseNot(x))
  BY PlainAnswers, TypedKnown DEF LBitwiseNot
<1>3. \A v : KnownIn(b, v) => KnownIn(b, Shift(x, n, v))
  BY PlainAnswers, TypedKnown DEF Shift
<1>4. KnownIn(b, LBitwiseShl(x, n)) /\ KnownIn(b, LBitwiseShr(x, n)) /\ KnownIn(b, LBitwiseAshr(x, n))
  BY <1>3, PlainAnswers DEF LBitwiseShl, LBitwiseShr, LBitwiseAshr
<1> QED BY <1>1, <1>2, <1>4

(* Random numbers, numbers as text and as bytes.                           *)
LEMMA FormatsKnown ==
  ASSUME NEW b
  PROVE  /\ \A x, word : KnownIn(b, LRandom(x, word))
         /\ \A x, radix, signed : KnownIn(b, LNumberToString(x, radix, signed))
         /\ \A text, radix, errno : KnownIn(b, LStringToNumber(text, radix, errno))
         /\ \A bytes, signed : KnownIn(b, ReadBinaryFixnum(bytes, signed))
<1>1. \A x, word : KnownIn(b, LRandom(x, word))
  BY PlainAnswers DEF LRandom
<1>2. \A x, radix, signed : KnownIn(b, LNumberToString(x, radix, signed))
  BY PlainAnswers DEF LNumberToString, NumeralOf
<1>3. \A text, radix, errno : KnownIn(b, LStringToNumber(text, radix, errno))
  BY PlainAnswers DEF LStringToNumber
<1>4. \A bytes, signed : KnownIn(b, ReadBinaryFixnum(bytes, signed))
  BY PlainAnswers DEF ReadBinaryFixnum
<1> QED BY <1>1, <1>2, <1>3, <1>4

(* A number becomes a whole one.                                           *)
LEMMA TruncateWhole ==
  ASSUME NEW x, Value(x)
  PROVE  Whole(x) \in Int /\ Offset(x) \in Int
BY DEF Value, Whole, TruncateOf, CeilingOf, FloorOf, Offset

(* Characters and their codes (string.c).                                  *)
LEMMA CharactersKnown ==
  ASSUME NEW b, NEW x, Value(x)
  PROVE  KnownIn(b, LCharToInteger(x)) /\ KnownIn(b, LIntegerToChar(x))
<1>1. KnownIn(b, LCharToInteger(x))
  BY PlainAnswers, TypedKnown DEF LCharToInteger
<1>2. KnownIn(b, Char(CharOf(Whole(x))))
  BY TruncateWhole, CharOfIsChar, PlainAnswers
<1>3. KnownIn(b, LIntegerToChar(x))
  BY <1>2, PlainAnswers, TypedKnown DEF LIntegerToChar
<1> QED BY <1>1, <1>3

(* An argument: its characters fit a byte and its flonums a word.          *)
Argument(b, x) ==
    /\ Value(x) /\ KnownIn(b, x)
    /\ IsA(x, "flonum") => TruncateOf(x.n) \in -(2^(WordBits - 1)) .. 2^WordBits - 1

(* A number becomes an index that is not below nought.                     *)
LEMMA IndexIsNat ==
  ASSUME NEW b, NEW x, Argument(b, x)
  PROVE  /\ NumberP(x) => AsIndex(x) \in Nat
         /\ Indexes(x) => IndexOf(x) \in Nat
<1> DEFINE h == 2^(WordBits - 1)
<1>0. h \in Nat /\ 2^WordBits = 2 * h /\ FixnumMin >= -h /\ FixnumMax < h /\ FixnumMax \in Nat /\ FixnumMin \in Int
  BY WordFacts
<1> HIDE DEF h
<1>2. ASSUME NEW v, Whole(v) \in Int, Whole(v) >= -h
      PROVE  AsIndex(v) \in Nat
  BY <1>0, <1>2 DEF AsIndex
<1>3. ASSUME NEW n \in Int, n >= -h
      PROVE  AsIndex(Fixnum(n)) \in Nat
  BY <1>2, <1>3 DEF Whole, FixnumP, Fixnum
<1>4. CASE FixnumP(x)
  <2>1. x.n \in Fixnums /\ x.n \in Int
    BY <1>4 DEF Argument, Value
  <2>2. x.n >= -h
    BY <1>0, <2>1, FixnumsBounds
  <2>3. AsIndex(x) \in Nat
    BY <1>2, <1>4, <2>1, <2>2 DEF Whole
  <2> QED BY <1>4, <2>3 DEF IndexOf, IsA, FixnumP
<1>5. CASE x.type = "flonum"
  <2>1. TruncateOf(x.n) \in Int /\ TruncateOf(x.n) >= -h
    <3>1. TruncateOf(x.n) \in -(2^(WordBits - 1)) .. 2^WordBits - 1
      BY <1>5 DEF Argument, IsA
    <3> HIDE DEF TruncateOf
    <3> QED BY <1>0, <3>1 DEF h
  <2>2. Whole(x) = TruncateOf(x.n)
    BY <1>5 DEF Whole, FixnumP
  <2>3. AsIndex(x) \in Nat
    BY <1>2, <2>1, <2>2
  <2> QED BY <1>5, <2>3 DEF IndexOf, IsA
<1>6. CASE x.type = "character"
  <2>1. x.n \in Chars
    BY <1>6 DEF Argument, KnownIn
  <2>2. CharMax + 1 <= h
    <3>1. ByteBits - 1 \in Nat /\ WordBits - 1 \in Nat /\ ByteBits - 1 <= WordBits - 1
      <4>1. ByteBits \in Nat \ {0} /\ WordBytes \in Nat \ {0}
        BY WordsHoldTags
      <4>2. ByteBits <= WordBytes * ByteBits
        <5>1. (WordBytes - 1) * ByteBits >= 0 /\ WordBytes * ByteBits = (WordBytes - 1) * ByteBits + ByteBits
          BY <4>1
        <5> QED BY <4>1, <5>1
      <4> QED BY <4>1, <4>2, WordFacts DEF WordBits
    <3>2. 2^(ByteBits - 1) <= 2^(WordBits - 1) /\ 2^(ByteBits - 1) \in Nat
      BY <3>1, PowerGrows, PowerNat
    <3> QED BY <1>0, <3>2 DEF CharMax, h
  <2>3. x.n \in Int /\ x.n >= -h
    BY <1>0, <2>1, <2>2, CharFacts
  <2> QED BY <1>3, <1>6, <2>3 DEF IndexOf, IsA, NumberP, Fixnum
<1> QED BY <1>4, <1>5, <1>6 DEF Indexes, NumberP, FixnumP, IsA
-----------------------------------------------------------------------------
(* Primitives of strings.                                                  *)

(* A reference to an object of a type.                                     *)
RefTo(s, v, type) == v.type = type /\ v.n \in 1 .. Len(s) /\ s[v.n].type = type

(* What a reference is to.                                                 *)
LEMMA RefRead ==
  ASSUME NEW b, NEW s, AtRest(b, s), NEW type, NEW v, RefTo(s, v, type)
  PROVE  /\ v.n \in 1 .. Len(s) /\ v.n \in DOMAIN s /\ v.type = type /\ s[v.n].type = type
         /\ IsObject(s[v.n]) /\ WellMade(b, s[v.n]) /\ Fits(s[v.n])
         /\ type \in {"string", "vector", "cons", "structure"} => KnownIn(b, v)
         /\ type = "string" => TextObject(s[v.n]) /\ s[v.n].dim <= FixnumMax
<1>1. /\ v.n \in 1 .. Len(s) /\ v.type = type /\ s[v.n].type = type
      /\ DOMAIN s = 1 .. Len(s)
      /\ IsObject(s[v.n]) /\ WellMade(b, s[v.n]) /\ Fits(s[v.n])
      /\ KnownIn(s, v) => KnownIn(b, v)
  BY RestRead DEF RefTo
<1>2. type \in {"string", "vector", "cons", "structure"} => KnownIn(s, v)
  BY <1>1 DEF KnownIn
<1>3. type = "string" => TextObject(s[v.n]) /\ s[v.n].dim <= FixnumMax
  BY <1>1, TextIsMade DEF Fits, Size, IsA
<1> QED BY <1>1, <1>2, <1>3

(* A new string, and a string put in the place of one.                     *)
LEMMA NewString ==
  ASSUME NEW b, NEW s, AtRest(b, s), NEW text \in Seq(Chars), NEW junk \in Chars
  PROVE  Sound(b, Allocates(s, StrCons(text, junk)))
<1>1. TextObject(StrCons(text, junk)) /\ IsObject(StrCons(text, junk))
  BY StrConsMade
<1> QED BY <1>1, TextIsMade, AllocatesTyped DEF TextObject

(* Reading a character: there is one at every index in bounds.             *)
LEMMA StringRefSound ==
  ASSUME NEW b, NEW s, AtRest(b, s), NEW v, RefTo(s, v, "string"), NEW i, Value(i)
  PROVE  Sound(b, LStringRef(s, v, i))
<1>1. ASSUME InBounds(i, s[v.n].dim)
      PROVE  Sound(b, Gives(s, Char(s[v.n].data[i.n + 1])))
  <2>1. TextObject(s[v.n])
    BY RefRead
  <2>2. i.n + 1 \in 1 .. Len(s[v.n].data)
    BY <1>1, <2>1, TextObjectRead DEF InBounds, Value
  <2>3. s[v.n].data[i.n + 1] \in Chars
    BY <2>1, <2>2, TextObjectRead
  <2> QED BY <2>3, PlainAnswers, GivesTyped
<1> QED BY <1>1, ChecksTyped DEF LStringRef

(* A character in place of one of a string, which stays as long.           *)
LEMMA StringSetSound ==
  ASSUME NEW b, NEW s, AtRest(b, s), NEW v, RefTo(s, v, "string"), NEW i, NEW x, Value(x)
  PROVE  Sound(b, LStringSet(s, v, i, x))
<1> DEFINE o == s[v.n]
           data == Put(o.data, i.n + 1, CharOf(x.n))
           p == [o EXCEPT !.data = data]
<1>1. TextObject(o) /\ IsObject(o) /\ Fits(o) /\ KnownIn(b, v) /\ o.type = "string"
  BY RefRead
<1>2. CharOf(x.n) \in Chars
  BY CharOfIsChar DEF Value
<1>3. data \in [1 .. StorageSize(o.dim) -> Chars]
  BY <1>1, <1>2 DEF TextObject, Put
<1>4. p.type = "string" /\ p.data = data /\ p.dim = o.dim
  BY <1>1, FilledRead
<1>5. IsObject(p)
  BY <1>1, ObjectFilled DEF IsA
<1>6. [s EXCEPT ![v.n].data[i.n + 1] = CharOf(x.n)] = Put(s, v.n, p)
  BY DEF Put
<1> HIDE DEF p, data
<1>7. TextObject(p) /\ Fits(p)
  BY <1>1, <1>3, <1>4 DEF TextObject, Fits, Size, IsA
<1> HIDE DEF o
<1>8. Sound(b, Gives(Put(s, v.n, p), v))
  BY <1>1, <1>4, <1>5, <1>7, TextIsMade, PutTyped DEF o
<1> QED BY <1>6, <1>8, ChecksTyped DEF LStringSet

(* Copies, and strings made of two.                                        *)
LEMMA StringCopySound ==
  ASSUME NEW b, NEW s, AtRest(b, s), NEW v, RefTo(s, v, "string"), NEW junk \in Chars
  PROVE  Sound(b, LStringCopy(s, v, junk))
BY RefRead, TextOfRead, NewString DEF LStringCopy

(* Two sequences in one, as the recursive definition has them.             *)
LEMMA FlattenTwo ==
  ASSUME NEW f, DOMAIN f = 1 .. 2, Len(f) = 2
  PROVE  FlattenSeq(f) = f[1] \o f[2]
<1> DEFINE Flat(g) == g = [i \in 1 .. 2 |-> IF i = 1 THEN f[i] ELSE g[i - 1] \o f[i]]
           h == [i \in 1 .. 2 |-> IF i = 1 THEN f[1] ELSE f[1] \o f[2]]
           c == CHOOSE g : Flat(g)
<1>1. h[1] = f[1] /\ h[2] = f[1] \o f[2]
  OBVIOUS
<1>2. Flat(h)
  <2>1. \A i \in 1 .. 2 : i = 1 \/ i = 2
    OBVIOUS
  <2>2. \A i \in 1 .. 2 : h[i] = IF i = 1 THEN f[i] ELSE h[i - 1] \o f[i]
    BY <1>1, <2>1
  <2>3. h = [i \in 1 .. 2 |-> h[i]]
    OBVIOUS
  <2> HIDE DEF h
  <2>4. [i \in 1 .. 2 |-> h[i]] = [i \in 1 .. 2 |-> IF i = 1 THEN f[i] ELSE h[i - 1] \o f[i]]
    BY <2>2
  <2> QED BY <2>3, <2>4
<1> HIDE DEF h
<1>3. Flat(c)
  <2> HIDE DEF Flat
  <2> QED BY <1>2
<1>4. FlattenSeq(f) = c[2]
  BY DEF FlattenSeq
<1> HIDE DEF c
<1>5. c[1] = f[1] /\ c[2] = c[1] \o f[2]
  <2> DEFINE e == [i \in 1 .. 2 |-> IF i = 1 THEN f[i] ELSE c[i - 1] \o f[i]]
  <2>1. e[1] = f[1] /\ e[2] = c[1] \o f[2]
    OBVIOUS
  <2>2. c = e
    BY <1>3
  <2> HIDE DEF e
  <2> QED BY <2>1, <2>2
<1> QED BY <1>4, <1>5

(* string-append: a character outside a byte is an error, not a piece.     *)
LEMMA StringAppendSound ==
  ASSUME NEW b, NEW s, AtRest(b, s), NEW v, RefTo(s, v, "string"), NEW x,
         RefTo(s, x, "string") \/ Argument(b, x), NEW junk \in Chars
  PROVE  Sound(b, LStringAppend(s, <<v, x>>, junk))
<1> DEFINE f == [i \in DOMAIN <<v, x>> |-> Piece(s, <<v, x>>[i])]
<1>1. DOMAIN <<v, x>> = 1 .. 2
  OBVIOUS
<1>2. DOMAIN f = 1 .. 2 /\ Len(f) = 2 /\ f[1] = Piece(s, v) /\ f[2] = Piece(s, x)
  BY <1>1
<1> HIDE DEF f
<1>3. Piece(s, v) \in Seq(Chars)
  BY RefRead, TextOfRead DEF Piece, IsA
<1>4. Piece(s, x) \in Seq(Chars)
  <2>1. CASE RefTo(s, x, "string")
    BY <2>1, RefRead, TextOfRead DEF Piece, IsA
  <2>2. CASE Argument(b, x) /\ x.type = "string"
    <3>1. RefTo(s, x, "string")
      BY <2>2, RestRead DEF Argument, KnownIn, RefTo
    <3> QED BY <2>1, <3>1
  <2>3. CASE Argument(b, x) /\ x.type # "string"
    <3>1. CharOf(x.n) \in Chars
      BY <2>3, CharOfIsChar DEF Argument, Value
    <3>2. <<CharOf(x.n)>> \in Seq(Chars)
      BY <3>1
    <3> QED BY <2>3, <3>2 DEF Piece, IsA
  <2> QED BY <2>1, <2>2, <2>3
<1>5. FlattenSeq(f) \in Seq(Chars)
  <2>1. FlattenSeq(f) = f[1] \o f[2]
    BY <1>2, FlattenTwo
  <2>2. Piece(s, v) \o Piece(s, x) \in Seq(Chars)
    BY <1>3, <1>4
  <2> QED BY <1>2, <2>1, <2>2
<1>6. Sound(b, Allocates(s, StrCons(FlattenSeq(f), junk)))
  BY <1>5, NewString
<1> QED BY <1>6, ChecksTyped DEF LStringAppend, f

(* substring: the checks keep the part within the buffer.                  *)
LEMMA SubstringSound ==
  ASSUME NEW b, NEW s, AtRest(b, s), NEW v, RefTo(s, v, "string"), NEW start, Argument(b, start),
         NEW end, Argument(b, end), NEW junk \in Chars
  PROVE  Sound(b, LSubstring(s, v, start, end, junk))
<1> DEFINE o == s[v.n]
           e == IF end = Nil THEN o.dim ELSE AsIndex(end)
           t == Allocates(s, StrCons(SubSeq(o.data, AsIndex(start) + 1, e), junk))
<1>1. TextObject(o) /\ o.dim \in Nat
  BY RefRead DEF TextObject
<1>2. ASSUME NumberP(start), end = Nil \/ NumberP(end), AsIndex(start) <= o.dim, e <= o.dim
      PROVE  Sound(b, t)
  <2>1. AsIndex(start) \in Nat /\ e \in Nat
    BY <1>1, <1>2, IndexIsNat
  <2> HIDE DEF e
  <2>2. AsIndex(start) + 1 \in Nat /\ AsIndex(start) + 1 >= 1 /\ e <= o.dim /\ e \in Nat
    BY <1>2, <2>1
  <2>3. SubSeq(o.data, AsIndex(start) + 1, e) \in Seq(Chars)
    BY <1>1, <2>2, TextOfRead
  <2> QED BY <2>3, NewString
<1> HIDE DEF t, e
<1>3. ASSUME NumberP(start) /\ (end = Nil \/ NumberP(end))
      PROVE  Sound(b, Checks(s, AsIndex(start) <= o.dim /\ e <= o.dim, "index-out-of-bounds",
                        Checks(s, AsIndex(start) <= e, "arg-out-of-range", t)))
  BY <1>2, <1>3, ChecksTyped
<1> QED BY <1>3, ChecksTyped DEF LSubstring, t, e

(* Text appended in place: the buffer that was kept is the one the longer  *)
(* text asks for, or a new one is (string.c:string_append).                *)
LEMMA AppendedText ==
  ASSUME NEW o, IsObject(o), TextObject(o), NEW text \in Seq(Chars), NEW junk \in Chars
  PROVE  /\ TextObject(StringAppendD(o, text, junk)) /\ IsObject(StringAppendD(o, text, junk))
         /\ StringAppendD(o, text, junk).dim = o.dim + Len(text)
<1> DEFINE n == o.dim + Len(text)
           size == StorageSize(n)
           kept == IF size = StorageSize(o.dim) THEN o.data ELSE Buffer(TextOf(o), size, junk)
           data == [i \in DOMAIN kept |-> IF i \in o.dim + 1 .. n THEN text[i - o.dim] ELSE kept[i]]
           p == StringAppendD(o, text, junk)
<1>1. /\ o.dim \in Nat /\ o.type = "string" /\ Len(text) \in Nat /\ n \in Nat /\ size \in Nat /\ size > n
      /\ o.data \in [1 .. StorageSize(o.dim) -> Chars]
  <2>1. o.dim \in Nat /\ o.type = "string" /\ o.data \in [1 .. StorageSize(o.dim) -> Chars]
    BY DEF TextObject
  <2>2. Len(text) \in Nat /\ n \in Nat
    BY <2>1
  <2> HIDE DEF n
  <2> QED BY <2>1, <2>2, StorageFits
<1>2. kept \in [1 .. size -> Chars]
  <2>1. CASE size = StorageSize(o.dim)
    BY <1>1, <2>1
  <2>2. CASE size # StorageSize(o.dim)
    <3>1. TextOf(o) \in Seq(Chars) /\ Len(TextOf(o)) <= size
      BY <1>1, TextOfRead
    <3>2. Buffer(TextOf(o), size, junk) \in [1 .. size -> Chars]
      BY <1>1, <3>1, BufferMade
    <3> QED BY <2>2, <3>2
  <2> QED BY <2>1, <2>2
<1>3. p = [o EXCEPT !.dim = n, !.data = data]
  BY DEF StringAppendD
<1>4. o = [type |-> o.type, data |-> o.data, dim |-> o.dim, layout |-> o.layout]
  BY DEF IsObject, Object
<1>5. p = [type |-> "string", data |-> data, dim |-> n, layout |-> o.layout]
  <2> HIDE DEF data, n, p
  <2> QED BY <1>1, <1>3, <1>4
<1> HIDE DEF kept, p
<1>6. data \in [1 .. size -> Chars]
  <2>1. DOMAIN kept = 1 .. size
    BY <1>2
  <2>2. ASSUME NEW i \in 1 .. size, i \in o.dim + 1 .. n
        PROVE  text[i - o.dim] \in Chars
    <3>1. i - o.dim \in 1 .. Len(text)
      BY <1>1, <2>2
    <3> QED BY <3>1
  <2>3. \A i \in 1 .. size : kept[i] \in Chars
    BY <1>2
  <2> HIDE DEF n, size
  <2> QED BY <2>1, <2>2, <2>3
<1> HIDE DEF data, n
<1>7. p.type = "string" /\ p.data = data /\ p.dim = n
  BY <1>5
<1>8. IsObject(p)
  BY <1>5, ObjectMade DEF Object
<1> QED BY <1>1, <1>6, <1>7, <1>8 DEF TextObject, p, n

(* A write to a string port leaves a string, also of what it reads from    *)
(* the buffer it has freed.                                                *)
LEMMA StringPortSound ==
  ASSUME NEW b, NEW s, AtRest(b, s), NEW v, RefTo(s, v, "string"), NEW w, RefTo(s, w, "string"),
         NEW junk \in Chars, NEW reused, s[v.n].dim + s[w.n].dim <= FixnumMax
  PROVE  Sound(b, LWriteString(s, v, w, junk, reused))
<1> DEFINE text == Appended(s, v, w, junk, reused)
           p == StringAppendD(s[v.n], text, junk)
<1>1. /\ IsObject(s[v.n]) /\ TextObject(s[v.n]) /\ KnownIn(b, v) /\ s[v.n].type = "string"
      /\ TextObject(s[w.n])
  BY RefRead
<1>2. text \in Seq(Chars) /\ Len(text) = s[w.n].dim
  <2> DEFINE whole == TextOf(s[w.n])
             other == [i \in DOMAIN whole |-> junk]
  <2>1. whole \in Seq(Chars) /\ Len(whole) = s[w.n].dim
    BY <1>1, TextOfRead
  <2>2. text = whole \/ text = other
    BY DEF Appended
  <2> HIDE DEF whole, text
  <2>3. other \in Seq(Chars) /\ Len(other) = Len(whole)
    <3>1. DOMAIN whole = 1 .. Len(whole) /\ Len(whole) \in Nat
      BY <2>1
    <3> QED BY <3>1
  <2> QED BY <2>1, <2>2, <2>3
<1> HIDE DEF text
<1>3. TextObject(p) /\ IsObject(p) /\ p.dim = s[v.n].dim + s[w.n].dim
  BY <1>1, <1>2, AppendedText
<1> HIDE DEF p
<1>4. Fits(p) /\ WellMade(b, p) /\ p.type = "string"
  BY <1>3, TextIsMade DEF Fits, Size, IsA, TextObject
<1>5. Sound(b, Gives(Put(s, v.n, p), v))
  BY <1>1, <1>3, <1>4, PutTyped
<1> QED BY <1>5 DEF Put, p, text, LWriteString

(* A string in the other case is one.                                      *)
LEMMA CasedText ==
  ASSUME NEW o, IsObject(o), TextObject(o), NEW upper
  PROVE  TextObject(Cased(o, upper)) /\ IsObject(Cased(o, upper)) /\ Cased(o, upper).dim = o.dim
<1> DEFINE data == [i \in DOMAIN o.data |-> IF i <= o.dim THEN InCase(upper, o.data[i]) ELSE o.data[i]]
           n == StorageSize(o.dim)
<1>1. o.data \in [1 .. n -> Chars] /\ o.type = "string" /\ o.dim \in Nat
  BY DEF TextObject
<1>2. data \in [1 .. n -> Chars]
  <2> HIDE DEF n
  <2>1. DOMAIN o.data = 1 .. n /\ \A i \in 1 .. n : o.data[i] \in Chars
    BY <1>1
  <2>2. \A i \in 1 .. n : InCase(upper, o.data[i]) \in Chars
    BY <2>1, CaseIsChar
  <2> QED BY <2>1, <2>2
<1>3. Cased(o, upper) = [o EXCEPT !.data = data]
  BY DEF Cased
<1> HIDE DEF data
<1> QED BY <1>1, <1>2, <1>3, FilledRead, ObjectFilled DEF TextObject, IsA

(* Strings in the other case, new and in place.                            *)
LEMMA StringCasesSound ==
  ASSUME NEW b, NEW s, AtRest(b, s), NEW v, RefTo(s, v, "string"), NEW junk \in Chars
  PROVE  /\ Sound(b, LStringUpcase(s, v, junk)) /\ Sound(b, LStringDowncase(s, v, junk))
         /\ Sound(b, LStringUpcaseD(s, v)) /\ Sound(b, LStringDowncaseD(s, v))
<1>1. /\ TextObject(s[v.n]) /\ IsObject(s[v.n]) /\ Fits(s[v.n]) /\ KnownIn(b, v)
      /\ s[v.n].type = "string" /\ s[v.n].dim <= FixnumMax
  BY RefRead
<1>2. ASSUME NEW upper
      PROVE  Sound(b, Allocates(s, Cased(StrCons(TextOf(s[v.n]), junk), upper)))
  <2> DEFINE o == StrCons(TextOf(s[v.n]), junk)
  <2>1. TextObject(o) /\ IsObject(o)
    BY <1>1, TextOfRead, StrConsMade
  <2> HIDE DEF o
  <2>2. TextObject(Cased(o, upper)) /\ IsObject(Cased(o, upper))
    BY <2>1, CasedText
  <2> QED BY <2>2, TextIsMade, AllocatesTyped DEF TextObject, o
<1>3. ASSUME NEW upper
      PROVE  Sound(b, Gives([s EXCEPT ![v.n] = Cased(s[v.n], upper)], v))
  <2> DEFINE p == Cased(s[v.n], upper)
  <2>1. TextObject(p) /\ IsObject(p) /\ p.dim = s[v.n].dim
    BY <1>1, CasedText
  <2> HIDE DEF p
  <2>2. Fits(p) /\ WellMade(b, p) /\ p.type = "string"
    BY <1>1, <2>1, TextIsMade DEF Fits, Size, IsA, TextObject
  <2>3. Sound(b, Gives(Put(s, v.n, p), v))
    BY <1>1, <2>1, <2>2, PutTyped
  <2> QED BY <2>3 DEF Put, p
<1> QED
  BY <1>2, <1>3 DEF LStringUpcase, LStringDowncase, LStringUpcaseD, LStringDowncaseD

(* The least and the greatest of a set of numbers within bounds.           *)
LEMMA ExtremesBounded ==
  ASSUME NEW m \in Int, NEW n \in Int, NEW S, S \subseteq m .. n, S # {}
  PROVE  Min(S) \in m .. n /\ Max(S) \in m .. n
<1>1. \E x \in S : \A y \in S : x <= y
  <2> DEFINE A == {x - m : x \in S}
  <2>1. A \subseteq Nat /\ A # {}
    <3>1. \A x \in S : x - m \in Nat
      OBVIOUS
    <3> QED BY <3>1
  <2> HIDE DEF A
  <2>2. PICK k \in A : \A j \in A : k <= j
    BY <2>1, LeastExists
  <2>3. PICK x \in S : k = x - m
    BY <2>2 DEF A
  <2>4. ASSUME NEW y \in S PROVE x <= y
    <3>1. y - m \in A
      BY DEF A
    <3>2. k <= y - m
      BY <2>2, <3>1
    <3> QED BY <2>3, <3>2
  <2> QED BY <2>4
<1>2. \E x \in S : \A y \in S : x >= y
  <2> DEFINE A == {n - x : x \in S}
  <2>1. A \subseteq Nat /\ A # {}
    <3>1. \A x \in S : n - x \in Nat
      OBVIOUS
    <3> QED BY <3>1
  <2> HIDE DEF A
  <2>2. PICK k \in A : \A j \in A : k <= j
    BY <2>1, LeastExists
  <2>3. PICK x \in S : k = n - x
    BY <2>2 DEF A
  <2>4. ASSUME NEW y \in S PROVE x >= y
    <3>1. n - y \in A
      BY DEF A
    <3>2. k <= n - y
      BY <2>2, <3>1
    <3> QED BY <2>3, <3>2
  <2> QED BY <2>4
<1>3. Min(S) \in S
  BY <1>1 DEF Min
<1>4. Max(S) \in S
  BY <1>2 DEF Max
<1> QED BY <1>3, <1>4

(* What a trim leaves is a part of the text.                               *)
LEMMA TrimmedText ==
  ASSUME NEW text \in Seq(Chars), NEW trim, NEW sides
  PROVE  Trimmed(text, trim, sides) \in Seq(Chars)
<1> DEFINE kept == {i \in DOMAIN text : text[i] \notin trim}
           n == Len(text)
           first == IF "left" \in sides THEN Min(kept) ELSE 1
           last == IF "right" \in sides THEN Max(kept) ELSE n
<1>1. n \in Nat /\ DOMAIN text = 1 .. n
  OBVIOUS
<1>2. CASE kept = {}
  BY <1>2 DEF Trimmed
<1>3. CASE kept # {}
  <2>1. kept \subseteq 1 .. n /\ 1 \in Int /\ n \in Int
    BY <1>1
  <2> HIDE DEF kept
  <2>2. Min(kept) \in 1 .. n /\ Max(kept) \in 1 .. n
    BY ONLY <1>3, <2>1, ExtremesBounded
  <2>3. first \in Nat /\ first >= 1 /\ last \in Nat /\ last <= n
    BY <1>1, <2>2
  <2> HIDE DEF first, last
  <2>4. SubSeq(text, first, last) \in Seq(Chars)
    BY <1>1, <2>3
  <2>5. Trimmed(text, trim, sides) = SubSeq(text, first, last)
    BY <1>3 DEF Trimmed, first, last, kept, n
  <2> QED BY <2>4, <2>5
<1> QED BY <1>2, <1>3

(* string-trim.                                                            *)
LEMMA StringTrimSound ==
  ASSUME NEW b, NEW s, AtRest(b, s), NEW v, RefTo(s, v, "string"), NEW tc, NEW sides, NEW junk \in Chars
  PROVE  Sound(b, LStringTrim(s, v, tc, sides, junk))
<1>1. \A trim : Sound(b, Allocates(s, StrCons(Trimmed(TextOf(s[v.n]), trim, sides), junk)))
  BY RefRead, TextOfRead, TrimmedText, NewString
<1> DEFINE trim == IF tc = Nil THEN TrimChars \cup {0} ELSE TrimSet(s[tc.n])
           t == Allocates(s, StrCons(Trimmed(TextOf(s[v.n]), trim, sides), junk))
<1>2. Sound(b, t)
  BY <1>1
<1>3. LStringTrim(s, v, tc, sides, junk) =
        Checks(s, tc = Nil \/ IsA(tc, "string"), "wrong-type",
          Checks(s, tc = Nil \/ s[tc.n].dim < BufLen, "arg-out-of-range", t))
  BY DEF LStringTrim
<1> HIDE DEF t
<1> QED BY <1>2, <1>3, ChecksTyped

(* The numbers of bounds that are fixnums.                                 *)
LEMMA SmallFixnums ==
  /\ FixnumMax \in Nat
  /\ \A n \in Nat : n <= FixnumMax => n \in Fixnums
  /\ \A n \in Int : -FixnumMax <= n /\ n <= FixnumMax => n \in Fixnums
BY WordFacts, FixnumsBounds

(* A comparison answers -1, 0 or 1.                                        *)
LEMMA ComparisonsSound ==
  ASSUME NEW b, NEW s, AtRest(b, s), NEW v, NEW w
  PROVE  Sound(b, LStrCmp(s, v, w)) /\ Sound(b, LStrICmp(s, v, w))
<1>1. \A x, y : StrCmp(x, y) \in {-1, 0, 1}
  BY DEF StrCmp
<1>2. {-1, 0, 1} \subseteq Fixnums
  BY WordFacts, FixnumsBounds
<1> QED BY <1>1, <1>2, PlainAnswers, GivesTyped DEF LStrCmp, LStrICmp

(* A search from the left answers a place in the string.                   *)
LEMMA StringSearchSound ==
  ASSUME NEW b, NEW s, AtRest(b, s), NEW v, RefTo(s, v, "string"), NEW tok, NEW ofs, Value(ofs), NEW junk
  PROVE  Sound(b, LStringSearch(s, tok, v, ofs, junk))
<1> DEFINE str == s[v.n]
           p == Pattern(s, tok, junk)
           from == Offset(ofs)
           hits == {loc \in from .. str.dim - 1 : MatchLength(p, str, loc) = p.dim}
           t == Gives(s, StringSearch(p, str, from))
<1>1. str.dim \in Nat /\ str.dim <= FixnumMax /\ FixnumMax \in Nat /\ from \in Int
  BY RefRead, TruncateWhole, SmallFixnums DEF TextObject
<1>2. ASSUME from >= 0
      PROVE  Sound(b, t)
  <2>1. hits \subseteq from .. str.dim - 1
    OBVIOUS
  <2>2. StringSearch(p, str, from) = IF hits = {} THEN Truth(FALSE) ELSE Fixnum(Min(hits))
    BY DEF StringSearch
  <2> HIDE DEF hits
  <2>3. hits # {} => Min(hits) \in Fixnums
    <3>1. ASSUME hits # {}
          PROVE  Min(hits) \in from .. str.dim - 1
      <4>1. str.dim - 1 \in Int
        BY <1>1
      <4> HIDE DEF from, str
      <4> QED BY <1>1, <2>1, <3>1, <4>1, ExtremesBounded
    <3> QED BY <1>1, <1>2, <3>1, SmallFixnums
  <2>4. KnownIn(b, StringSearch(p, str, from))
    BY <2>2, <2>3, PlainAnswers
  <2> QED BY <2>4, GivesTyped
<1>3. LStringSearch(s, tok, v, ofs, junk) =
        Checks(s, Sought(tok) /\ (ofs = Nil \/ NumberP(ofs)), "wrong-type",
          Checks(s, from >= 0, "arg-out-of-range", t))
  BY DEF LStringSearch
<1> HIDE DEF t, from
<1> QED BY <1>2, <1>3, ChecksTyped

(* So does a search from the right: the place where the pattern begins.    *)
LEMMA SearchFromRightSound ==
  ASSUME NEW b, NEW s, AtRest(b, s), NEW v, RefTo(s, v, "string"), NEW ofs, NEW junk,
         NEW tok, RefTo(s, tok, "string") \/ Argument(b, tok)
  PROVE  Sound(b, LStringSearchFromRight(s, tok, v, ofs, junk))
<1> DEFINE str == s[v.n]
           p == Pattern(s, tok, junk)
           from == IF ofs = Nil THEN str.dim - 1 ELSE Whole(ofs)
           ends == {loc \in 0 .. from : EndsAt(p, str, loc)}
           r == StringSearchFromRight(p, str, from)
<1>1. str.dim \in Nat /\ str.dim <= FixnumMax /\ FixnumMax \in Nat /\ FixnumMax >= 1
  BY RefRead, WordFacts DEF TextObject
<1>2. p.dim \in Nat /\ p.dim <= FixnumMax
  <2>1. CASE RefTo(s, tok, "string")
    BY <2>1, RefRead DEF Pattern, IsA, TextObject
  <2>2. CASE Argument(b, tok) /\ tok.type = "string"
    <3>1. RefTo(s, tok, "string")
      BY <2>2, RestRead DEF Argument, KnownIn, RefTo
    <3> QED BY <2>1, <3>1
  <2>3. CASE tok.type # "string"
    <3>1. p = StrCons(<<tok.n>>, junk)
      BY <2>3 DEF Pattern, IsA
    <3>2. p.dim = 1
      BY <3>1 DEF StrCons, Object
    <3> QED BY <1>1, <3>2
  <2> QED BY <2>1, <2>2, <2>3
<1>3. r = IF from \notin 0 .. str.dim - 1 \/ ends = {} THEN Truth(FALSE)
          ELSE Fixnum(Max(ends) - (p.dim - 1))
  BY DEF StringSearchFromRight
<1>4. ASSUME from \in 0 .. str.dim - 1, ends # {}
      PROVE  Max(ends) - (p.dim - 1) \in Fixnums
  <2>1. from \in Int /\ from <= str.dim - 1 /\ from >= 0
    BY <1>1, <1>4
  <2>2. ends \subseteq 0 .. from
    OBVIOUS
  <2> HIDE DEF ends, from
  <2>3. Max(ends) \in 0 .. from
    <3>1. 0 \in Int
      OBVIOUS
    <3> QED BY ONLY <1>4, <2>1, <2>2, <3>1, ExtremesBounded
  <2> DEFINE m == Max(ends)
  <2> HIDE DEF m
  <2>4. m \in Int /\ m >= 0 /\ m <= str.dim - 1
    BY <1>1, <2>1, <2>3 DEF m
  <2>5. m - (p.dim - 1) \in Int /\ -FixnumMax <= m - (p.dim - 1) /\ m - (p.dim - 1) <= FixnumMax
    <3> HIDE DEF p, str
    <3> QED BY <1>1, <1>2, <2>4
  <2> QED BY <2>5, SmallFixnums DEF m
<1> HIDE DEF from, ends, p
<1>5. KnownIn(b, r)
  BY <1>3, <1>4, PlainAnswers
<1>6. LStringSearchFromRight(s, tok, v, ofs, junk) =
        Checks(s, Sought(tok) /\ (ofs = Nil \/ NumberP(ofs)), "wrong-type", Gives(s, r))
  BY DEF LStringSearchFromRight, from, p
<1> HIDE DEF r
<1> QED BY <1>5, <1>6, GivesTyped, ChecksTyped

(* Searches for the characters of a set.                                   *)
LEMMA SetSearchesSound ==
  ASSUME NEW b, NEW s, AtRest(b, s), NEW v, RefTo(s, v, "string"), NEW set, NEW ofs, Value(ofs), NEW stray
  PROVE  Sound(b, LStringFirstChar(s, v, set, ofs, stray)) /\ Sound(b, LStringFirstSubstring(s, v, set, ofs, stray))
<1> DEFINE o == s[v.n]
           from == Offset(ofs)
<1>1. o.dim \in Nat /\ o.dim <= FixnumMax /\ FixnumMax \in Nat /\ from \in Int
  BY RefRead, TruncateWhole, SmallFixnums DEF TextObject
<1>2. ASSUME from >= 0, NEW wanted, Beyond(o, from, s[set.n], stray, wanted) # {}
      PROVE  /\ Min(Beyond(o, from, s[set.n], stray, wanted)) \in Nat
             /\ Min(Beyond(o, from, s[set.n], stray, wanted)) <= FixnumMax
  <2> DEFINE found == Beyond(o, from, s[set.n], stray, wanted)
  <2>1. found \subseteq from .. o.dim - 1
    BY DEF Beyond
  <2>2. o.dim - 1 \in Int
    BY <1>1
  <2> HIDE DEF found, from, o
  <2>3. Min(found) \in from .. o.dim - 1
    BY <1>1, <1>2, <2>1, <2>2, ExtremesBounded DEF found
  <2> QED BY <1>1, <1>2, <2>3 DEF found
<1>3. ASSUME NEW t, from >= 0 => Sound(b, t)
      PROVE  Sound(b, CharSet(s, set, ofs, t))
  <2>1. Sound(b, Checks(s, from >= 0, "arg-out-of-range", t))
    BY <1>3, ChecksTyped
  <2> DEFINE u == Checks(s, from >= 0, "arg-out-of-range", t)
  <2>2. CharSet(s, set, ofs, t) =
          Checks(s, Len(s[set.n].data) = CharMax, "index-out-of-bounds",
            Checks(s, ofs = Nil \/ NumberP(ofs), "wrong-type", u))
    BY DEF CharSet
  <2> HIDE DEF u
  <2>3. Sound(b, Checks(s, ofs = Nil \/ NumberP(ofs), "wrong-type", u))
    BY <2>1, ChecksTyped DEF u
  <2> QED BY <2>2, <2>3, ChecksTyped
<1>4. Sound(b, LStringFirstChar(s, v, set, ofs, stray))
  <2> DEFINE found == Beyond(o, from, s[set.n], stray, TRUE)
             w == IF found = {} THEN Truth(FALSE) ELSE Fixnum(Min(found))
  <2>1. from >= 0 => KnownIn(b, w)
    BY <1>2, SmallFixnums, PlainAnswers
  <2>2. LStringFirstChar(s, v, set, ofs, stray) = CharSet(s, set, ofs, Gives(s, w))
    BY DEF LStringFirstChar
  <2> HIDE DEF w, from
  <2> QED BY <1>3, <2>1, <2>2, GivesTyped
<1>5. Sound(b, LStringFirstSubstring(s, v, set, ofs, stray))
  <2> DEFINE others == Beyond(o, from, s[set.n], stray, FALSE)
             stop == IF others = {} THEN o.dim ELSE Min(others)
             w == IF stop <= from THEN Truth(FALSE) ELSE Fixnum(stop)
  <2>1. from >= 0 => stop \in Nat /\ stop <= FixnumMax
    BY <1>1, <1>2
  <2>2. LStringFirstSubstring(s, v, set, ofs, stray) = CharSet(s, set, ofs, Gives(s, w))
    BY DEF LStringFirstSubstring
  <2> HIDE DEF stop
  <2>3. from >= 0 => KnownIn(b, w)
    BY <2>1, SmallFixnums, PlainAnswers
  <2> HIDE DEF w, from
  <2> QED BY <1>3, <2>2, <2>3, GivesTyped
<1> QED BY <1>4, <1>5
-----------------------------------------------------------------------------
(* Primitives of vectors.                                                  *)

(* A new vector of values.                                                 *)
LEMMA NewVector ==
  ASSUME NEW b, NEW s, AtRest(b, s), NEW n \in Nat, NEW f, DOMAIN f = 1 .. n,
         f = [i \in 1 .. n |-> f[i]], \A i \in 1 .. n : KnownIn(b, f[i])
  PROVE  Sound(b, Allocates(s, VectorCons(f)))
<1> DEFINE o == VectorCons(f)
<1>1. IsObject(o) /\ o.type = "vector" /\ o.data = f
  BY VectorMade DEF VectorCons, Object
<1>2. IsSequence(f) /\ Len(f) = n
  BY SequenceMade
<1> HIDE DEF o
<1>3. WellMade(b, o)
  BY <1>1, <1>2, ValuesMade
<1> QED BY <1>1, <1>3, AllocatesTyped DEF o

(* What a vector is.                                                       *)
LEMMA VectorRead ==
  ASSUME NEW b, NEW s, AtRest(b, s), NEW v, NEW type \in {"vector", "cons", "structure"}, RefTo(s, v, type)
  PROVE  /\ v.n \in 1 .. Len(s) /\ s[v.n].type # "string" /\ KnownIn(b, v)
         /\ IsSequence(s[v.n].data) /\ DOMAIN s[v.n].data = 1 .. Len(s[v.n].data)
         /\ Len(s[v.n].data) \in Nat /\ Len(s[v.n].data) <= FixnumMax
         /\ \A i \in 1 .. Len(s[v.n].data) : KnownIn(b, s[v.n].data[i])
         /\ type = "cons" => Len(s[v.n].data) = 2
<1>1. /\ v.n \in 1 .. Len(s) /\ s[v.n].type = type /\ KnownIn(b, v)
      /\ WellMade(b, s[v.n]) /\ Fits(s[v.n]) /\ type # "string"
  BY RefRead
<1> QED BY <1>1, ValuesRead DEF Fits, Size, IsA

(* Reading and changing an element.                                        *)
LEMMA VectorAccessSound ==
  ASSUME NEW b, NEW s, AtRest(b, s), NEW v, RefTo(s, v, "vector"), NEW i, Argument(b, i),
         NEW x, KnownIn(b, x)
  PROVE  /\ Sound(b, LVectorRef(s, v, i, x)) /\ Sound(b, LVectorSet(s, v, i, x))
         /\ Sound(b, LVectorFill(s, v, x))
<1> DEFINE data == s[v.n].data
<1>1. /\ v.n \in 1 .. Len(s) /\ s[v.n].type # "string" /\ KnownIn(b, v)
      /\ IsSequence(data) /\ DOMAIN data = 1 .. Len(data) /\ Len(data) \in Nat
      /\ \A j \in 1 .. Len(data) : KnownIn(b, data[j])
  BY VectorRead
<1>2. Sound(b, LVectorRef(s, v, i, x))
  <2> DEFINE t == IF IndexOf(i) < Len(data) THEN Gives(s, data[IndexOf(i) + 1])
                  ELSE Checks(s, x # Nil, "index-out-of-bounds", Gives(s, x))
  <2>1. ASSUME Indexes(i)
        PROVE  Sound(b, t)
    <3>1. IndexOf(i) \in Nat
      BY <2>1, IndexIsNat
    <3> DEFINE k == IndexOf(i)
    <3> HIDE DEF k, data
    <3>2. k \in Nat
      BY <3>1 DEF k
    <3>3. k < Len(data) => KnownIn(b, data[k + 1])
      BY <1>1, <3>2
    <3>4. Sound(b, Checks(s, x # Nil, "index-out-of-bounds", Gives(s, x)))
      BY GivesTyped, ChecksTyped
    <3> QED BY <3>3, <3>4, GivesTyped DEF k
  <2>2. LVectorRef(s, v, i, x) = Checks(s, Indexes(i), "wrong-type", t)
    BY DEF LVectorRef
  <2> HIDE DEF t
  <2> QED BY <2>1, <2>2, ChecksTyped
<1>3. Sound(b, LVectorSet(s, v, i, x))
  <2>1. Sound(b, Gives([s EXCEPT ![v.n].data[IndexOf(i) + 1] = x], v))
    BY <1>1, ElementTyped
  <2>2. Sound(b, Checks(s, IndexOf(i) < Len(s[v.n].data), "index-out-of-bounds",
                        Gives([s EXCEPT ![v.n].data[IndexOf(i) + 1] = x], v)))
    BY <2>1, ChecksTyped
  <2> QED BY <2>2, ChecksTyped DEF LVectorSet
<1>4. Sound(b, LVectorFill(s, v, x))
  <2> DEFINE f == [j \in DOMAIN data |-> x]
  <2>1. DOMAIN f = 1 .. Len(data) /\ f = [j \in 1 .. Len(data) |-> f[j]]
        /\ \A j \in 1 .. Len(data) : f[j] = x
    BY <1>1
  <2> HIDE DEF f, data
  <2>2. IsSequence(f) /\ Len(f) = Len(data)
    BY <1>1, <2>1, SequenceMade
  <2>3. Sound(b, Gives([s EXCEPT ![v.n].data = f], v))
    BY <1>1, <2>1, <2>2, DataTyped DEF data
  <2> QED BY <2>3 DEF LVectorFill, f, data
<1> QED BY <1>2, <1>3, <1>4

(* New vectors.                                                            *)
LEMMA VectorsSound ==
  ASSUME NEW b, NEW s, AtRest(b, s), NEW n, Argument(b, n), NEW x, KnownIn(b, x)
  PROVE  /\ Sound(b, LMakeVector(s, n, x)) /\ Sound(b, LVector(s, <<n, x>>))
         /\ \A v : RefTo(s, v, "vector") => Sound(b, LVectorResize(s, v, n, x))
<1>0. Value(n) /\ KnownIn(b, n) /\ n.n \in Int
  BY DEF Argument, Value
<1>1. Sound(b, LMakeVector(s, n, x))
  <2> DEFINE d == Whole(n)
             f == [i \in 1 .. d |-> x]
  <2>1. d \in Int
    BY <1>0, TruncateWhole
  <2>2. ASSUME d >= 0
        PROVE  Sound(b, Allocates(s, VectorCons(f)))
    <3>1. d \in Nat /\ DOMAIN f = 1 .. d /\ f = [i \in 1 .. d |-> f[i]] /\ \A i \in 1 .. d : f[i] = x
      BY <2>1, <2>2
    <3> HIDE DEF f, d
    <3> QED BY <3>1, NewVector
  <2> HIDE DEF f, d
  <2>3. Sound(b, Checks(s, d >= 0, "arg-out-of-range", Allocates(s, VectorCons(f))))
    BY <2>2, ChecksTyped
  <2> QED BY <2>3, ChecksTyped DEF LMakeVector, f, d
<1>2. Sound(b, LVector(s, <<n, x>>))
  <2> DEFINE f == <<n, x>>
  <2>1. DOMAIN f = 1 .. 2 /\ f = [i \in 1 .. 2 |-> f[i]] /\ 2 \in Nat
    OBVIOUS
  <2>2. \A i \in 1 .. 2 : KnownIn(b, f[i])
    <3>1. \A i \in 1 .. 2 : i = 1 \/ i = 2
      OBVIOUS
    <3>2. f[1] = n /\ f[2] = x
      OBVIOUS
    <3> QED BY <1>0, <3>1, <3>2
  <2> HIDE DEF f
  <2>3. Sound(b, Allocates(s, VectorCons(f)))
    BY <2>1, <2>2, NewVector
  <2> QED BY <2>3 DEF LVector, f
<1>3. ASSUME NEW v, RefTo(s, v, "vector")
      PROVE  Sound(b, LVectorResize(s, v, n, x))
  <2> DEFINE old == s[v.n].data
             f == [i \in 1 .. n.n |-> IF i <= Len(old) THEN old[i] ELSE x]
  <2>1. Len(old) \in Nat /\ \A i \in 1 .. Len(old) : KnownIn(b, old[i])
    BY <1>3, VectorRead
  <2>2. ASSUME n.n >= 0
        PROVE  Sound(b, Allocates(s, VectorCons(f)))
    <3>1. n.n \in Nat /\ DOMAIN f = 1 .. n.n /\ f = [i \in 1 .. n.n |-> f[i]]
      BY <1>0, <2>2
    <3>2. \A i \in 1 .. n.n : f[i] = IF i <= Len(old) THEN old[i] ELSE x
      OBVIOUS
    <3> HIDE DEF f, old
    <3>3. \A i \in 1 .. n.n : KnownIn(b, f[i])
      BY <2>1, <3>1, <3>2
    <3> QED BY <3>1, <3>3, NewVector
  <2> HIDE DEF f
  <2>3. Sound(b, Checks(s, n.n >= 0, "arg-out-of-range", Allocates(s, VectorCons(f))))
    BY <2>2, ChecksTyped
  <2> QED BY <2>3, ChecksTyped DEF LVectorResize, f, old
<1> QED BY <1>1, <1>2, <1>3

(* A copy of a vector.                                                     *)
LEMMA VectorCopySound ==
  ASSUME NEW b, NEW s, AtRest(b, s), NEW v, RefTo(s, v, "vector")
  PROVE  Sound(b, LVectorCopy(s, v))
<1> DEFINE data == s[v.n].data
<1>1. IsSequence(data) /\ Len(data) \in Nat /\ \A i \in 1 .. Len(data) : KnownIn(b, data[i])
  BY VectorRead
<1> HIDE DEF data
<1>2. DOMAIN data = 1 .. Len(data) /\ data = [i \in 1 .. Len(data) |-> data[i]]
  <2>1. data \in Seq(Range(data))
    BY <1>1, SequenceRead
  <2> QED BY <2>1
<1>3. Sound(b, Allocates(s, VectorCons(data)))
  BY <1>1, <1>2, NewVector
<1> QED BY <1>3 DEF LVectorCopy, data

(* A list made of a vector: each cons has an element and, but for the      *)
(* last, the cons after it, which is there.                                *)
LEMMA VectorToListSound ==
  ASSUME NEW b, NEW s, AtRest(b, s), NEW v, RefTo(s, v, "vector")
  PROVE  Sound(b, LVectorToList(s, v))
<1> DEFINE data == s[v.n].data
           m == Len(s)
           n == Len(data)
           next(i) == IF i = n THEN Nil ELSE Ref("cons", m + i + 1)
           f == [i \in 1 .. n |-> ConsObject(data[i], next(i))]
           t == s \o f
           w == IF data = << >> THEN Nil ELSE Ref("cons", m + 1)
<1>1. /\ IsSequence(data) /\ n \in Nat /\ \A i \in 1 .. n : KnownIn(b, data[i])
  BY VectorRead
<1>2. /\ IsStore(b) /\ IsStore(s) /\ m = Len(b) /\ m \in Nat
      /\ \A i \in 1 .. m : s[i].type = b[i].type /\ WellMade(b, s[i]) /\ Fits(s[i])
  BY RestRead
<1>3. LVectorToList(s, v) = Gives(t, w)
  BY DEF LVectorToList
<1>4. DOMAIN f = 1 .. n /\ f = [i \in 1 .. n |-> f[i]]
      /\ \A i \in 1 .. n : f[i] = ConsObject(data[i], next(i))
  OBVIOUS
<1>5. n = 0 <=> data = << >>
  <2> HIDE DEF data
  <2>1. data \in Seq(Range(data))
    BY <1>1, SequenceRead
  <2> QED BY <2>1
<1> HIDE DEF f, data, n, m
<1>6. IsStore(f) /\ Len(f) = n
  <2>1. IsSequence(f) /\ Len(f) = n
    BY <1>1, <1>4, SequenceMade
  <2>2. \A x, y : IsObject(ConsObject(x, y))
    BY ObjectMade DEF ConsObject
  <2> QED BY <1>4, <2>1, <2>2 DEF IsStore
<1>7. Grows(s, t)
  BY <1>2, <1>6, StoreExtended
<1>8. Len(t) = m + n /\ \A i \in 1 .. n : t[m + i] = f[i]
  <2>1. s \in Seq(Range(s)) /\ f \in Seq(Range(f))
    BY <1>2, <1>6, SequenceRead, StoreRead
  <2> DEFINE S == Range(s) \cup Range(f)
  <2>2. s \in Seq(S) /\ f \in Seq(S)
    <3>1. /\ DOMAIN s = 1 .. Len(s) /\ s = [i \in 1 .. Len(s) |-> s[i]] /\ \A i \in 1 .. Len(s) : s[i] \in Range(s)
          /\ DOMAIN f = 1 .. Len(f) /\ f = [i \in 1 .. Len(f) |-> f[i]] /\ \A i \in 1 .. Len(f) : f[i] \in Range(f)
      BY <2>1
    <3>2. \A i \in 1 .. Len(s) : s[i] \in S
      BY <3>1
    <3>3. \A i \in 1 .. Len(f) : f[i] \in S
      BY <3>1
    <3> HIDE DEF S
    <3> QED BY <2>1, <3>2, <3>3
  <2> HIDE DEF S
  <2> QED BY <1>6, <2>2 DEF m
<1> HIDE DEF t
<1>9. IsStore(t) /\ DOMAIN t = 1 .. m + n /\ \A i \in 1 .. m : t[i] = s[i]
  BY <1>7, <1>8, StoreRead DEF Grows, m
<1>10. ASSUME NEW i \in m + 1 .. m + n
       PROVE  t[i] = ConsObject(data[i - m], next(i - m)) /\ i - m \in 1 .. n
  <2>1. i - m \in 1 .. n /\ m + (i - m) = i
    BY <1>1, <1>2
  <2>2. t[m + (i - m)] = f[i - m]
    BY <1>8, <2>1
  <2> QED BY <1>4, <2>1, <2>2
<1>11. \A x, y : ConsObject(x, y).type = "cons" /\ ConsObject(x, y).data = <<x, y>>
  BY DEF ConsObject, Object
<1>12. \A x : KnownIn(b, x) => KnownIn(t, x)
  BY <1>1, <1>2, <1>8, <1>9, KnownLater
<1>13. ASSUME NEW i \in m + 1 .. m + n
       PROVE  KnownIn(t, Ref("cons", i))
  <2>1. t[i].type = "cons" /\ i \in DOMAIN t
    BY <1>1, <1>2, <1>9, <1>10, <1>11
  <2> QED BY <2>1 DEF KnownIn, Ref
<1>14. ASSUME NEW i \in m + 1 .. m + n
       PROVE  t[i].type = "cons" /\ WellMade(t, t[i])
  <2>1. KnownIn(t, data[i - m])
    BY <1>1, <1>10, <1>12
  <2>2. KnownIn(t, next(i - m))
    <3>1. CASE i - m = n
      BY <3>1, PlainAnswers
    <3>2. CASE i - m # n
      <4>1. m + (i - m) + 1 \in m + 1 .. m + n
        BY <1>1, <1>2, <3>2
      <4> QED BY <1>13, <3>2, <4>1
    <3> QED BY <3>1, <3>2
  <2> DEFINE x == data[i - m]
             y == next(i - m)
  <2> HIDE DEF x, y
  <2>3. t[i].type = "cons" /\ t[i].data = <<x, y>>
    BY <1>10, <1>11 DEF x, y
  <2>4. KnownIn(t, x) /\ KnownIn(t, y)
    BY <2>1, <2>2 DEF x, y
  <2> HIDE DEF next
  <2>5. IsSequence(<<x, y>>) /\ Len(<<x, y>>) = 2 /\ \A j \in 1 .. 2 : KnownIn(t, <<x, y>>[j])
    <3>1. <<x, y>> \in Seq({x, y})
      OBVIOUS
    <3>2. \A j \in 1 .. 2 : <<x, y>>[j] = x \/ <<x, y>>[j] = y
      OBVIOUS
    <3> QED BY <2>4, <3>1, <3>2, SequenceOf
  <2> QED BY <2>3, <2>5, ValuesMade
<1>15. Made(b, t)
  <2>1. \A i \in 1 .. Len(b) : t[i].type = b[i].type /\ WellMade(b, t[i]) /\ Fits(t[i])
    BY <1>2, <1>9
  <2>2. \A i \in Len(b) + 1 .. Len(t) : WellMade(IF IsA(t[i], "cons") THEN t ELSE b, t[i])
    BY <1>2, <1>8, <1>14 DEF IsA
  <2>3. Len(b) <= Len(t)
    BY <1>1, <1>2, <1>8
  <2> QED BY <1>2, <1>9, <2>1, <2>2, <2>3 DEF Made
<1>16. KnownIn(t, w)
  <2>1. CASE data = << >>
    BY <2>1, PlainAnswers
  <2>2. CASE data # << >>
    <3>1. m + 1 \in m + 1 .. m + n
      BY <1>1, <1>2, <1>5, <2>2
    <3> QED BY <1>13, <2>2, <3>1
  <2> QED BY <2>1, <2>2
<1> HIDE DEF w
<1> QED BY <1>3, <1>15, <1>16 DEF Sound, Gives
-----------------------------------------------------------------------------
(* Primitives of lists and structures.                                     *)

(* A value that is a cons refers to one.                                   *)
LEMMA KnownCons ==
  ASSUME NEW b, NEW s, AtRest(b, s), NEW x, KnownIn(b, x), ConsP(x)
  PROVE  RefTo(s, x, "cons")
BY RestRead DEF KnownIn, RefTo, ConsP, IsA

(* Both parts of a cons are values.                                        *)
LEMMA ConsRead ==
  ASSUME NEW b, NEW s, AtRest(b, s), NEW x, KnownIn(b, x), ConsP(x)
  PROVE  KnownIn(b, CarOf(s, x)) /\ KnownIn(b, CdrOf(s, x)) /\ x.n \in 1 .. Len(s) /\ s[x.n].type # "string"
<1>1. RefTo(s, x, "cons")
  BY KnownCons
<1>2. /\ x.n \in 1 .. Len(s) /\ s[x.n].type # "string" /\ Len(s[x.n].data) = 2
      /\ \A i \in 1 .. Len(s[x.n].data) : KnownIn(b, s[x.n].data[i])
  BY <1>1, VectorRead
<1> QED BY <1>2 DEF CarOf, CdrOf

(* The conses that a walk along a list meets are conses of the store.      *)
LEMMA ConsesKnown ==
  ASSUME NEW b, NEW s, AtRest(b, s), NEW v, KnownIn(b, v)
  PROVE  /\ Len(Conses(s, v)) \in Nat
         /\ \A i \in 1 .. Len(Conses(s, v)) : ConsP(Conses(s, v)[i]) /\ KnownIn(b, Conses(s, v)[i])
<1> DEFINE n == Len(s) + 1
           f == CHOOSE g : Follows(g, s, v, n)
           Good(q) == IsSequence(q) /\ \A i \in 1 .. Len(q) : ConsP(q[i]) /\ KnownIn(b, q[i])
           Bad == {k \in 0 .. n : ~ Good(f[k])}
<1>1. n \in Nat
  BY RestRead
<1>2. Follows(f, s, v, n)
  BY <1>1, FollowsExists
<1>3. Conses(s, v) = f[n]
  BY DEF Conses, Follows, NextCons
<1> HIDE DEF f, n
<1>4. f[0] = << >> /\ \A k \in 1 .. n : f[k] = NextCons(s, v, f[k - 1])
  BY <1>1, <1>2, FollowsEquations
<1>5. Bad = {}
  <2> SUFFICES ASSUME Bad # {} PROVE FALSE
    OBVIOUS
  <2>1. PICK k \in Bad : \A j \in Bad : k <= j
    <3>1. Bad \subseteq Nat
      BY <1>1
    <3> HIDE DEF Bad
    <3> QED BY <3>1, LeastExists
  <2>2. Good(<< >>)
    <3>1. << >> \in Seq({}) /\ 1 .. Len(<< >>) = {}
      OBVIOUS
    <3>2. IsSequence(<< >>)
      BY <3>1, SequenceOf
    <3> QED BY <3>1, <3>2
  <2>3. k \in 1 .. n /\ k - 1 \in 0 .. n /\ ~ (k <= k - 1)
    <3>1. k \in 0 .. n /\ ~ Good(f[k])
      BY <2>1
    <3> HIDE DEF Good
    <3> QED BY <1>1, <1>4, <2>2, <3>1
  <2>4. Good(f[k - 1])
    BY <2>1, <2>3
  <2> DEFINE seen == f[k - 1]
             next == IF seen = << >> THEN v ELSE CdrOf(s, Last(seen))
  <2>5. KnownIn(b, next)
    <3>1. CASE seen = << >>
      BY <3>1
    <3>2. CASE seen # << >>
      <4>1. Len(seen) \in 1 .. Len(seen)
        <5>1. seen \in Seq(Range(seen))
          BY <2>4, SequenceRead
        <5> HIDE DEF seen
        <5> QED BY <3>2, <5>1
      <4>2. Last(seen) = seen[Len(seen)]
        BY DEF Last
      <4>3. KnownIn(b, CdrOf(s, Last(seen)))
        BY <2>4, <4>1, <4>2, ConsRead
      <4> QED BY <3>2, <4>3
    <3> QED BY <3>1, <3>2
  <2>6. f[k] = IF ConsP(next) THEN Append(seen, next) ELSE seen
    BY <1>4, <2>3 DEF NextCons
  <2> HIDE DEF next
  <2>7. ASSUME ConsP(next)
        PROVE  Good(Append(seen, next))
    <3>1. /\ IsSequence(Append(seen, next)) /\ Len(Append(seen, next)) = Len(seen) + 1
          /\ \A i \in 1 .. Len(seen) : Append(seen, next)[i] = seen[i]
          /\ Append(seen, next)[Len(seen) + 1] = next
          /\ Len(seen) \in Nat
      BY <2>4, SequenceAppended, SequenceRead
    <3> DEFINE q == Append(seen, next)
    <3> HIDE DEF q, seen
    <3>2. \A i \in 1 .. Len(q) : i \in 1 .. Len(seen) \/ i = Len(seen) + 1
      BY <3>1 DEF q
    <3>3. \A i \in 1 .. Len(seen) : ConsP(seen[i]) /\ KnownIn(b, seen[i])
      BY <2>4 DEF seen
    <3> QED BY <2>5, <2>7, <3>1, <3>2, <3>3 DEF q
  <2>8. Good(f[k])
    BY <2>4, <2>6, <2>7
  <2> QED BY <2>1, <2>8
<1>6. Good(f[n])
  BY <1>1, <1>5
<1> QED BY <1>3, <1>6, SequenceRead

(* Parts of lists, and lists made and changed (list.c).                    *)
LEMMA ListsSound ==
  ASSUME NEW b, NEW s, AtRest(b, s), NEW v, KnownIn(b, v), NEW x, KnownIn(b, x)
  PROVE  /\ Sound(b, LCar(s, v)) /\ Sound(b, LCdr(s, v)) /\ Sound(b, LCons(s, v, x))
         /\ Sound(b, LSetCar(s, v, x)) /\ Sound(b, LSetCdr(s, v, x))
<1>1. Sound(b, LCar(s, v)) /\ Sound(b, LCdr(s, v))
  <2>1. KnownIn(b, Nil)
    BY PlainAnswers
  <2>2. /\ ConsP(v) => Sound(b, Gives(s, CarOf(s, v)))
        /\ ConsP(v) => Sound(b, Gives(s, CdrOf(s, v)))
    BY ConsRead, GivesTyped
  <2>3. Sound(b, Checks(s, ConsP(v), "wrong-type", Gives(s, CarOf(s, v))))
    BY <2>2, ChecksTyped
  <2>4. Sound(b, Checks(s, ConsP(v), "wrong-type", Gives(s, CdrOf(s, v))))
    BY <2>2, ChecksTyped
  <2> QED BY <2>1, <2>3, <2>4, GivesTyped DEF LCar, LCdr
<1>2. Sound(b, LCons(s, v, x))
  <2> DEFINE o == ConsObject(v, x)
  <2>1. o.type = "cons" /\ o.data = <<v, x>> /\ IsObject(o)
    BY ObjectMade DEF ConsObject, Object
  <2>2. IsSequence(<<v, x>>) /\ Len(<<v, x>>) = 2 /\ \A j \in 1 .. 2 : KnownIn(b, <<v, x>>[j])
    <3>1. <<v, x>> \in Seq({v, x})
      OBVIOUS
    <3>2. \A j \in 1 .. 2 : <<v, x>>[j] = v \/ <<v, x>>[j] = x
      OBVIOUS
    <3> QED BY <3>1, <3>2, SequenceOf
  <2> HIDE DEF o
  <2>3. WellMade(b, o)
    BY <2>1, <2>2, ValuesMade
  <2> QED BY <2>1, <2>3, AllocatesTyped DEF LCons, o
<1>3. Sound(b, LSetCar(s, v, x))
  <2>1. ConsP(v) => Sound(b, Gives([s EXCEPT ![v.n].data[1] = x], x))
    BY ConsRead, ElementTyped
  <2> QED BY <2>1, ChecksTyped DEF LSetCar
<1>4. Sound(b, LSetCdr(s, v, x))
  <2>1. ConsP(v) => Sound(b, Gives([s EXCEPT ![v.n].data[2] = x], x))
    BY ConsRead, ElementTyped
  <2> QED BY <2>1, ChecksTyped DEF LSetCdr
<1> QED BY <1>1, <1>2, <1>3, <1>4

(* The length of a list that ends is at most the number of the objects,    *)
(* which a fixnum counts.                                                  *)
LEMMA LengthSound ==
  ASSUME NEW b, NEW s, AtRest(b, s), Len(s) <= FixnumMax, NEW v,
         v = Nil \/ \E type \in {"cons", "string", "vector"} : RefTo(s, v, type)
  PROVE  Sound(b, LLength(s, v))
<1>1. ASSUME ~ Circular(s, v)
      PROVE  ObjectLength(s, v) \in Nat /\ ObjectLength(s, v) <= FixnumMax
  <2>0. FixnumMax \in Nat
    BY SmallFixnums
  <2>1. CASE v = Nil
    BY <2>0, <2>1 DEF ObjectLength, Nil
  <2>2. CASE RefTo(s, v, "cons")
    <3>1. KnownIn(b, v) /\ v.type = "cons"
      BY <2>2, RefRead
    <3>2. Len(Conses(s, v)) \in Nat /\ Len(s) \in Nat
      BY <3>1, ConsesKnown, RestRead
    <3> QED BY <1>1, <2>0, <3>1, <3>2 DEF ObjectLength, Circular
  <2>3. CASE RefTo(s, v, "string")
    BY <2>3, RefRead DEF ObjectLength, TextObject
  <2>4. CASE RefTo(s, v, "vector")
    <3>1. v.type = "vector" /\ Len(s[v.n].data) \in Nat /\ Len(s[v.n].data) <= FixnumMax
      BY <2>4, RefRead, VectorRead
    <3> QED BY <3>1 DEF ObjectLength
  <2> QED BY <2>1, <2>2, <2>3, <2>4
<1>2. ~ Circular(s, v) => Sound(b, Gives(s, Fixnum(ObjectLength(s, v))))
  BY <1>1, SmallFixnums, PlainAnswers, GivesTyped
<1> QED BY <1>2, ChecksTyped DEF LLength

(* The vector of the elements of a list.                                   *)
LEMMA ListToVectorSound ==
  ASSUME NEW b, NEW s, AtRest(b, s), NEW v, KnownIn(b, v)
  PROVE  Sound(b, LListToVector(s, v))
<1> DEFINE c == Conses(s, v)
           n == Len(c)
           f == Elements(s, v)
<1>1. n \in Nat /\ \A i \in 1 .. n : ConsP(c[i]) /\ KnownIn(b, c[i])
  BY ConsesKnown
<1>2. DOMAIN f = 1 .. n /\ f = [i \in 1 .. n |-> f[i]] /\ \A i \in 1 .. n : f[i] = CarOf(s, c[i])
  BY DEF Elements
<1> HIDE DEF c, f
<1>3. \A i \in 1 .. n : KnownIn(b, f[i])
  BY <1>1, <1>2, ConsRead
<1> HIDE DEF n
<1>4. Sound(b, Allocates(s, VectorCons(f)))
  BY <1>1, <1>2, <1>3, NewVector
<1>5. Sound(b, Checks(s, TailOf(s, v) = Nil, "wrong-type", Allocates(s, VectorCons(f))))
  BY <1>4, ChecksTyped
<1> QED BY <1>5, ChecksTyped DEF LListToVector, f

(* A structure of the slots of a vector or of a structure.                 *)
LEMMA NewStructure ==
  ASSUME NEW b, NEW s, AtRest(b, s), NEW v, NEW type \in {"vector", "structure"}, RefTo(s, v, type), NEW layout
  PROVE  Sound(b, Allocates(s, StructureObject(s[v.n].data, layout)))
<1> DEFINE data == s[v.n].data
           o == StructureObject(data, layout)
<1>1. IsSequence(data) /\ \A i \in 1 .. Len(data) : KnownIn(b, data[i])
  BY VectorRead
<1>2. IsObject(o) /\ o.type = "structure" /\ o.data = data
  BY ObjectMade DEF StructureObject, Object
<1> HIDE DEF o
<1>3. WellMade(b, o)
  BY <1>1, <1>2, ValuesMade
<1> QED BY <1>2, <1>3, AllocatesTyped DEF o

(* Structures (structure.c).                                               *)
LEMMA StructuresSound ==
  ASSUME NEW b, NEW s, AtRest(b, s), NEW v, NEW x, NEW layout
  PROVE  /\ RefTo(s, v, "vector") => Sound(b, LStructureCons(s, v, layout))
         /\ RefTo(s, v, "structure") =>
              /\ Sound(b, LCopyStructure(s, v)) /\ Sound(b, LStructureP(s, v, layout))
              /\ \A i : Argument(b, i) =>
                   /\ Sound(b, LStructureRef(s, v, i))
                   /\ KnownIn(b, x) => Sound(b, LStructureSet(s, v, i, x))
<1>1. ASSUME RefTo(s, v, "vector")
      PROVE  Sound(b, LStructureCons(s, v, layout))
  <2> DEFINE t == Allocates(s, StructureObject(s[v.n].data, layout))
             test == ValidLayout(s, Len(s[v.n].data), layout)
             slots == IF Len(Conses(s, layout)) = 2 THEN SlotLayout(s, layout) ELSE Nil
             u == Counting(s, layout, Counting(s, slots, Checks(s, test, "arg-out-of-range", t)))
  <2>1. Sound(b, t)
    BY <1>1, NewStructure
  <2>2. LStructureCons(s, v, layout) =
          Checks(s, IsA(v, "vector"), "wrong-type", Checks(s, ConsP(layout), "wrong-type", u))
    BY DEF LStructureCons
  <2> HIDE DEF t, test, slots
  <2>3. Sound(b, Checks(s, test, "arg-out-of-range", t))
    BY <2>1, ChecksTyped
  <2>4. Sound(b, u)
    <3>1. Sound(b, Counting(s, slots, Checks(s, test, "arg-out-of-range", t)))
      BY <2>3, ChecksTyped
    <3> QED BY <3>1, ChecksTyped
  <2> HIDE DEF u
  <2> QED BY <2>2, <2>4, ChecksTyped
<1>2. ASSUME RefTo(s, v, "structure")
      PROVE  Sound(b, LCopyStructure(s, v)) /\ Sound(b, LStructureP(s, v, layout))
  BY <1>2, NewStructure, PlainAnswers, GivesTyped DEF LCopyStructure, LStructureP
<1>3. ASSUME RefTo(s, v, "structure"), NEW i, Argument(b, i)
      PROVE  /\ Sound(b, LStructureRef(s, v, i))
             /\ KnownIn(b, x) => Sound(b, LStructureSet(s, v, i, x))
  <2>1. /\ v.n \in 1 .. Len(s) /\ s[v.n].type # "string" /\ KnownIn(b, v) /\ Len(s[v.n].data) \in Nat
        /\ \A j \in 1 .. Len(s[v.n].data) : KnownIn(b, s[v.n].data[j])
    BY <1>3, VectorRead
  <2>2. InBounds(i, Len(s[v.n].data)) => i.n + 1 \in 1 .. Len(s[v.n].data)
    BY <1>3, <2>1 DEF InBounds, Argument, Value
  <2>3. InBounds(i, Len(s[v.n].data)) => Sound(b, Gives(s, s[v.n].data[i.n + 1]))
    BY <2>1, <2>2, GivesTyped
  <2>4. Sound(b, Checks(s, InBounds(i, Len(s[v.n].data)), "index-out-of-bounds", Gives(s, s[v.n].data[i.n + 1])))
    BY <2>3, ChecksTyped
  <2>5. KnownIn(b, x) => Sound(b, Gives([s EXCEPT ![v.n].data[i.n + 1] = x], v))
    BY <2>1, ElementTyped
  <2>6. KnownIn(b, x) => Sound(b, Checks(s, InBounds(i, Len(s[v.n].data)), "index-out-of-bounds",
                                         Gives([s EXCEPT ![v.n].data[i.n + 1] = x], v)))
    BY <2>5, ChecksTyped
  <2> QED BY <2>4, <2>6, ChecksTyped DEF LStructureRef, LStructureSet
<1> QED BY <1>1, <1>2, <1>3
-----------------------------------------------------------------------------
(* The invariant: the objects are those of a start of the program, or in   *)
(* their place, and those the last call made, which are gone when the next *)
(* call is made.                                                           *)
TypedInv ==
    /\ ProgramRuns
    /\ KnownIn(store, answer)
    /\ \E b \in program.starts : Made(b, store) /\ (call = Idle => Len(store) = Len(b))

(* A store the program starts with, and its arguments.                     *)
LEMMA StartRead ==
  ASSUME ProgramRuns, NEW b \in program.starts
  PROVE  /\ IsStore(b) /\ Len(b) = Roots /\ Roots \in Nat /\ Roots <= FixnumMax
         /\ program.most \in Nat /\ program.most <= FixnumMax /\ program.junk \in Chars
         /\ AtRest(b, b)
         /\ \A x \in program.xs \cup program.ys : Argument(b, x)
<1>1. chosen \in DOMAIN Programs /\ program = Programs[chosen]
  BY DEF ProgramRuns, program
<1>2. IsStore(b) /\ Len(b) = Roots /\ Roots \in Nat
  BY <1>1, ProgramsAssumption DEF Roots
<1>3. /\ Roots <= FixnumMax /\ program.most \in Nat /\ program.most <= FixnumMax
      /\ program.junk \in Chars
      /\ \A j \in DOMAIN b : WellMade(b, b[j]) /\ Fits(b[j])
  BY <1>1, ObjectsAssumption DEF Roots, Fits
<1>4. \A x \in program.xs \cup program.ys : Argument(b, x)
  <2> TAKE x \in program.xs \cup program.ys
  <2>1. Value(x)
    BY ArgumentsAreValues
  <2>2. /\ KnownIn(b, x)
        /\ IsA(x, "flonum") => TruncateOf(x.n) \in -(2^(WordBits - 1)) .. 2^WordBits - 1
    BY <1>1, ObjectsAssumption
  <2> QED BY <2>1, <2>2 DEF Argument
<1>5. AtRest(b, b)
  <2>1. DOMAIN b = 1 .. Len(b) /\ Len(b) \in Nat
    BY <1>2, StoreRead
  <2> QED BY <1>2, <1>3, <2>1 DEF AtRest, Made
<1> QED BY <1>2, <1>3, <1>4, <1>5

(* An argument that names an object of the program.                        *)
LEMMA ObjectsAreRefs ==
  ASSUME ProgramRuns, NEW b \in program.starts, AtRest(b, store), NEW type, NEW v \in Objects(type)
  PROVE  RefTo(store, v, type)
<1>1. Len(store) = Roots
  BY StartRead, RestRead
<1> QED BY <1>1 DEF Objects, RefTo, Ref

(* A program starts with well-made objects.                                *)
LEMMA TypedInit == Init => TypedInv
<1> SUFFICES ASSUME Init PROVE TypedInv
  OBVIOUS
<1>1. ProgramRuns /\ store \in program.starts /\ answer = Nil
  BY DEF Init, ProgramRuns
<1>2. AtRest(store, store)
  BY <1>1, StartRead
<1> QED BY <1>1, <1>2, PlainAnswers DEF TypedInv, AtRest

(* A call that is sound keeps the invariant.                               *)
LEMMA CallTyped ==
  ASSUME ProgramRuns, NEW b \in program.starts, NEW op, op # "none", NEW args, NEW t, Calls(op, args, t),
         Sound(b, t)
  PROVE  TypedInv'
<1>1. store' = t.store /\ answer' = t.answer /\ call' = [op |-> op, args |-> args] /\ UNCHANGED chosen
  BY DEF Calls
<1>2. program' = program /\ ProgramRuns'
  BY <1>1 DEF program, ProgramRuns
<1>3. call' # Idle
  BY <1>1 DEF Idle
<1>4. Made(b, store') /\ KnownIn(store', answer')
  BY <1>1 DEF Sound
<1>5. \E c \in program'.starts : Made(c, store') /\ (call' = Idle => Len(store') = Len(c))
  BY <1>2, <1>3, <1>4
<1>6. KnownIn(store, answer)'
  BY <1>4
<1> QED BY <1>2, <1>5, <1>6 DEF TypedInv

(* So is one that answers a value and leaves the store.                    *)
LEMMA ComputationTyped ==
  ASSUME ProgramRuns, NEW b \in program.starts, AtRest(b, store), NEW op, op # "none", NEW args,
         NEW v, Computes(op, args, v), KnownIn(b, v)
  PROVE  TypedInv'
<1>1. Sound(b, Gives(store, v))
  BY GivesTyped
<1> QED BY <1>1, CallTyped DEF Computes

(* After a call the first objects are well made by themselves.             *)
LEMMA FirstObjects ==
  ASSUME ProgramRuns, NEW b \in program.starts, Made(b, store)
  PROVE  AtRest(b, SubSeq(store, 1, Roots)) /\ Len(SubSeq(store, 1, Roots)) = Roots
<1> DEFINE kept == SubSeq(store, 1, Roots)
<1>1. /\ IsStore(b) /\ IsStore(store) /\ Roots \in Nat /\ Len(b) = Roots /\ Roots <= Len(store)
      /\ \A i \in 1 .. Roots : store[i].type = b[i].type /\ WellMade(b, store[i]) /\ Fits(store[i])
  BY StartRead DEF Made
<1>2. /\ DOMAIN store = 1 .. Len(store) /\ Len(store) \in Nat /\ store \in Seq(Range(store))
      /\ \A i \in 1 .. Len(store) : IsObject(store[i])
  BY <1>1, StoreRead, SequenceRead
<1>3. /\ DOMAIN kept = 1 .. Roots /\ Len(kept) = Roots /\ kept \in Seq(Range(store))
      /\ \A i \in 1 .. Roots : kept[i] = store[i]
  BY <1>1, <1>2
<1> HIDE DEF kept
<1>4. IsSequence(kept)
  BY <1>3, SequenceOf
<1>5. \A i \in 1 .. Roots : IsObject(kept[i])
  BY <1>1, <1>2, <1>3
<1>6. IsStore(kept)
  BY <1>3, <1>4, <1>5 DEF IsStore
<1>7. Made(b, kept)
  BY <1>1, <1>3, <1>6 DEF Made
<1> QED BY <1>1, <1>3, <1>7 DEF AtRest, kept

(* What is kept is a string or a vector of values over the first objects.  *)
LEMMA KeepTyped == ASSUME TypedInv, Keep PROVE TypedInv'
<1>1. PICK b \in program.starts : Made(b, store)
  BY DEF TypedInv
<1>2. ProgramRuns
  BY DEF TypedInv
<1> DEFINE kept == SubSeq(store, 1, Roots)
           o == store[answer.n]
<1>3. AtRest(b, kept) /\ Len(kept) = Roots
  BY <1>1, <1>2, FirstObjects
<1>4. /\ answer.type \in {"string", "vector"} /\ answer.type = store[1].type
      /\ answer.n \in Roots + 1 .. Len(store) /\ Size(o) <= program.most
      /\ store' = Put(kept, 1, o) /\ answer' = Nil /\ UNCHANGED chosen
  BY DEF Keep, Put
<1>5. /\ IsStore(store) /\ Len(b) = Roots /\ Roots \in Nat /\ Len(store) \in Nat
      /\ Roots <= Len(store) /\ DOMAIN store = 1 .. Len(store)
      /\ \A i \in 1 .. Len(store) : IsObject(store[i])
      /\ program.most \in Nat /\ program.most <= FixnumMax
  BY <1>1, <1>2, StartRead, StoreRead DEF Made
<1>6. o.type = answer.type
  BY <1>4 DEF TypedInv, KnownIn
<1>7. WellMade(b, o) /\ IsObject(o)
  <2>1. WellMade(IF IsA(o, "cons") THEN store ELSE b, o)
    BY <1>1, <1>4, <1>5 DEF Made
  <2>2. ~ IsA(o, "cons")
    BY <1>4, <1>6 DEF IsA
  <2>3. answer.n \in 1 .. Len(store)
    BY <1>4, <1>5
  <2> QED BY <1>5, <2>1, <2>2, <2>3
<1>8. Fits(o)
  <2>1. Size(o) \in Int
    <3>1. CASE o.type = "string"
      BY <1>7, <3>1, TextIsMade DEF Size, IsA, TextObject
    <3>2. CASE o.type # "string"
      BY <1>7, <3>2, ValuesRead DEF Size, IsA
    <3> QED BY <3>1, <3>2
  <2> DEFINE z == Size(o)
  <2> HIDE DEF z
  <2>2. z \in Int /\ z <= program.most
    BY <1>4, <2>1 DEF z
  <2>3. z <= FixnumMax
    BY <1>5, <2>2, SmallFixnums
  <2> QED BY <2>3 DEF Fits, z
<1>9. 1 \in 1 .. Len(kept) => o.type = kept[1].type
  <2>1. ASSUME 1 \in 1 .. Roots
        PROVE  kept[1] = store[1]
    BY <1>5, <2>1, StoreRead, SequenceRead
  <2> QED BY <1>3, <1>4, <1>6, <2>1
<1> HIDE DEF kept, o
<1>10. AtRest(b, Put(kept, 1, o))
  BY <1>3, <1>7, <1>8, <1>9, PlainAnswers, PutTyped
<1>11. Made(b, store') /\ Len(store') = Len(b)
  BY <1>4, <1>10 DEF AtRest
<1>12. program' = program /\ ProgramRuns'
  BY <1>2, <1>4 DEF program, ProgramRuns
<1>13. KnownIn(store, answer)'
  BY <1>4, PlainAnswers
<1> QED BY <1>11, <1>12, <1>13 DEF TypedInv

(* Every call leaves well-made objects, one step for each action.          *)
LEMMA TypedStep == TypedInv /\ [Next]_vars => TypedInv'
<1> SUFFICES ASSUME TypedInv, [Next]_vars PROVE TypedInv'
  OBVIOUS
<1>0. ProgramRuns
  BY DEF TypedInv
<1>1. PICK b \in program.starts : Made(b, store) /\ (call = Idle => Len(store) = Len(b))
  BY DEF TypedInv
<1>2. call = Idle => AtRest(b, store)
  BY <1>1 DEF AtRest
<1>3. ASSUME call = Idle, NEW op, op # "none", NEW args, NEW v, Computes(op, args, v), KnownIn(b, v)
      PROVE  TypedInv'
  BY <1>0, <1>2, <1>3, ComputationTyped
<1>4. ASSUME NEW op, op # "none", NEW args, NEW t, Calls(op, args, t), Sound(b, t)
      PROVE  TypedInv'
  BY <1>0, <1>4, CallTyped
<1>5. \A x \in program.xs \cup program.ys : Argument(b, x) /\ Value(x) /\ KnownIn(b, x)
  BY <1>0, StartRead DEF Argument
<1>6. \A type : \A v \in Objects(type) : call = Idle => RefTo(store, v, type)
  BY <1>0, <1>2, ObjectsAreRefs
<1>7. program.junk \in Chars /\ program.most \in Nat /\ program.most <= FixnumMax /\ FixnumMax \in Nat
  BY <1>0, StartRead, SmallFixnums
<1>8. CASE Sums
  BY <1>3, <1>5, <1>8, SumsKnown DEF Sums
<1>9. CASE Divisions
  BY <1>3, <1>9, DivisionsKnown DEF Divisions
<1>10. CASE Comparisons
  BY <1>3, <1>5, <1>10, ConversionsKnown DEF Comparisons
<1>11. CASE Conversions
  BY <1>3, <1>5, <1>11, ConversionsKnown DEF Conversions
<1>12. CASE BitwiseOperations \/ Shifts
  BY <1>3, <1>5, <1>12, BitsKnown DEF BitwiseOperations, Shifts
<1>13. CASE Random \/ Formats \/ Parses
  BY <1>3, <1>13, FormatsKnown DEF Random, Formats, Parses
<1>14. CASE BinaryNumbers
  BY <1>3, <1>14, FormatsKnown DEF BinaryNumbers
<1>15. CASE Characters
  BY <1>3, <1>5, <1>15, CharactersKnown DEF Characters
<1>16. CASE StringAccess
  <2>1. call = Idle /\ AtRest(b, store)
    BY <1>2, <1>16 DEF StringAccess
  <2>2. PICK s \in Objects("string"), i \in program.xs :
          \/ Calls("string-ref", <<s, i>>, LStringRef(store, s, i))
          \/ \E v \in program.ys : Calls("string-set!", <<s, i, v>>, LStringSet(store, s, i, v))
    BY <1>16 DEF StringAccess
  <2>3. Sound(b, LStringRef(store, s, i)) /\ \A v \in program.ys : Sound(b, LStringSet(store, s, i, v))
    BY <1>5, <1>6, <2>1, StringRefSound, StringSetSound
  <2> QED BY <1>4, <2>2, <2>3
<1>17. CASE StringPorts
  <2>1. call = Idle /\ AtRest(b, store)
    BY <1>2, <1>17 DEF StringPorts
  <2>2. PICK s \in Objects("string"), t \in Objects("string"), reused \in BOOLEAN :
          /\ store[s.n].dim + store[t.n].dim <= program.most
          /\ Calls("write-strings", <<s, t>>, LWriteString(store, s, t, program.junk, reused))
    BY <1>17 DEF StringPorts
  <2>3. RefTo(store, s, "string") /\ RefTo(store, t, "string")
    BY <1>6, <2>1
  <2>4. store[s.n].dim + store[t.n].dim <= FixnumMax
    <3>1. store[s.n].dim \in Nat /\ store[t.n].dim \in Nat
      BY <2>1, <2>3, RefRead DEF TextObject
    <3> QED BY <1>7, <2>2, <3>1
  <2> DEFINE r == LWriteString(store, s, t, program.junk, reused)
  <2>5. Sound(b, r)
    BY <1>7, <2>1, <2>3, <2>4, StringPortSound
  <2>6. Calls("write-strings", <<s, t>>, r)
    BY <2>2
  <2> HIDE DEF r
  <2> QED BY <1>4, <2>5, <2>6
<1>18. CASE StringConstructors
  <2>1. call = Idle /\ AtRest(b, store)
    BY <1>2, <1>18 DEF StringConstructors
  <2>2. PICK s \in Objects("string") :
         \/ Calls("string-copy", <<s>>, LStringCopy(store, s, program.junk))
         \/ \E v \in Objects("string") \cup program.xs :
              Calls("string-append", <<s, v>>, LStringAppend(store, <<s, v>>, program.junk))
         \/ \E start \in program.xs, end \in program.ys :
              Calls("substring", <<s, start, end>>, LSubstring(store, s, start, end, program.junk))
         \/ \E tc \in Objects("string") \cup {Nil} :
            \E side \in {{"left", "right"}, {"left"}, {"right"}} :
              Calls("string-trim", <<s, tc, side>>, LStringTrim(store, s, tc, side, program.junk))
    BY <1>18 DEF StringConstructors
  <2>3. RefTo(store, s, "string")
    BY <1>6, <2>1
  <2>4. Sound(b, LStringCopy(store, s, program.junk))
    BY <1>7, <2>1, <2>3, StringCopySound
  <2>5. \A v \in Objects("string") \cup program.xs : Sound(b, LStringAppend(store, <<s, v>>, program.junk))
    BY <1>5, <1>6, <1>7, <2>1, <2>3, StringAppendSound
  <2>6. \A start \in program.xs, end \in program.ys : Sound(b, LSubstring(store, s, start, end, program.junk))
    BY <1>5, <1>7, <2>1, <2>3, SubstringSound
  <2>7. \A tc, side : Sound(b, LStringTrim(store, s, tc, side, program.junk))
    BY <1>7, <2>1, <2>3, StringTrimSound
  <2> QED BY <1>4, <2>2, <2>4, <2>5, <2>6, <2>7
<1>19. CASE StringCases
  <2>1. call = Idle /\ AtRest(b, store)
    BY <1>2, <1>19 DEF StringCases
  <2>2. PICK s \in Objects("string") :
         \/ Calls("string-upcase", <<s>>, LStringUpcase(store, s, program.junk))
         \/ Calls("string-downcase", <<s>>, LStringDowncase(store, s, program.junk))
         \/ Calls("string-upcase!", <<s>>, LStringUpcaseD(store, s))
         \/ Calls("string-downcase!", <<s>>, LStringDowncaseD(store, s))
    BY <1>19 DEF StringCases
  <2>3. /\ Sound(b, LStringUpcase(store, s, program.junk)) /\ Sound(b, LStringDowncase(store, s, program.junk))
        /\ Sound(b, LStringUpcaseD(store, s)) /\ Sound(b, LStringDowncaseD(store, s))
    BY <1>6, <1>7, <2>1, StringCasesSound
  <2> QED BY <1>4, <2>2, <2>3
<1>20. CASE StringSearches
  <2>1. call = Idle /\ AtRest(b, store)
    BY <1>2, <1>20 DEF StringSearches
  <2>2. PICK s \in Objects("string"), from \in program.ys :
         \/ \E tok \in Objects("string") \cup program.xs :
              \/ Calls("string-search", <<tok, s, from>>, LStringSearch(store, tok, s, from, program.junk))
              \/ Calls("string-search-from-right", <<tok, s, from>>,
                       LStringSearchFromRight(store, tok, s, from, program.junk))
         \/ \E set \in Objects("vector"), stray \in BOOLEAN :
              \/ Calls("string-first-character", <<s, set, from>>,
                       LStringFirstChar(store, s, set, from, stray))
              \/ Calls("string-first-substring", <<s, set, from>>,
                       LStringFirstSubstring(store, s, set, from, stray))
    BY <1>20 DEF StringSearches
  <2>3. RefTo(store, s, "string") /\ Value(from)
    BY <1>5, <1>6, <2>1
  <2>4. \A tok : Sound(b, LStringSearch(store, tok, s, from, program.junk))
    BY <2>1, <2>3, StringSearchSound
  <2>5. \A tok \in Objects("string") \cup program.xs :
          Sound(b, LStringSearchFromRight(store, tok, s, from, program.junk))
    BY <1>5, <1>6, <2>1, <2>3, SearchFromRightSound
  <2>6. \A set, stray : /\ Sound(b, LStringFirstChar(store, s, set, from, stray))
                        /\ Sound(b, LStringFirstSubstring(store, s, set, from, stray))
    BY <2>1, <2>3, SetSearchesSound
  <2> QED BY <1>4, <2>2, <2>4, <2>5, <2>6
<1>21. CASE StringComparisons
  <2>1. call = Idle /\ AtRest(b, store)
    BY <1>2, <1>21 DEF StringComparisons
  <2>2. \A v, w : Sound(b, LStrCmp(store, v, w)) /\ Sound(b, LStrICmp(store, v, w))
    BY <2>1, ComparisonsSound
  <2> QED BY <1>4, <1>21, <2>2 DEF StringComparisons
<1>22. CASE VectorAccess
  <2>1. call = Idle /\ AtRest(b, store)
    BY <1>2, <1>22 DEF VectorAccess
  <2>2. PICK v \in Objects("vector"), i \in program.xs, x \in program.ys :
          \/ Calls("vector-ref", <<v, i, x>>, LVectorRef(store, v, i, x))
          \/ Calls("vector-set!", <<v, i, x>>, LVectorSet(store, v, i, x))
          \/ Calls("vector-fill!", <<v, x>>, LVectorFill(store, v, x))
    BY <1>22 DEF VectorAccess
  <2>3. /\ Sound(b, LVectorRef(store, v, i, x)) /\ Sound(b, LVectorSet(store, v, i, x))
        /\ Sound(b, LVectorFill(store, v, x))
    BY <1>5, <1>6, <2>1, VectorAccessSound
  <2> QED BY <1>4, <2>2, <2>3
<1>23. CASE VectorConstructors
  <2>1. call = Idle /\ AtRest(b, store)
    BY <1>2, <1>23 DEF VectorConstructors
  <2>2. CASE \E n \in program.xs, x \in program.ys :
               \/ Calls("make-vector", <<n, x>>, LMakeVector(store, n, x))
               \/ Calls("vector", <<n, x>>, LVector(store, <<n, x>>))
               \/ \E v \in Objects("vector") : Calls("vector-resize", <<v, n, x>>, LVectorResize(store, v, n, x))
    <3>1. PICK n \in program.xs, x \in program.ys :
               \/ Calls("make-vector", <<n, x>>, LMakeVector(store, n, x))
               \/ Calls("vector", <<n, x>>, LVector(store, <<n, x>>))
               \/ \E v \in Objects("vector") : Calls("vector-resize", <<v, n, x>>, LVectorResize(store, v, n, x))
      BY <2>2
    <3>2. /\ Sound(b, LMakeVector(store, n, x)) /\ Sound(b, LVector(store, <<n, x>>))
          /\ \A v \in Objects("vector") : Sound(b, LVectorResize(store, v, n, x))
      BY <1>5, <1>6, <2>1, VectorsSound
    <3> QED BY <1>4, <3>1, <3>2
  <2>3. CASE \E v \in Objects("vector") :
               \/ Calls("vector-copy", <<v>>, LVectorCopy(store, v))
               \/ Calls("vector->list", <<v>>, LVectorToList(store, v))
    <3>1. \A v \in Objects("vector") : Sound(b, LVectorCopy(store, v)) /\ Sound(b, LVectorToList(store, v))
      BY <1>6, <2>1, VectorCopySound, VectorToListSound
    <3> QED BY <1>4, <2>3, <3>1
  <2> QED BY <1>23, <2>2, <2>3 DEF VectorConstructors
<1>24. CASE Lists
  <2>1. call = Idle /\ AtRest(b, store)
    BY <1>2, <1>24 DEF Lists
  <2>2. PICK v \in Objects("cons") \cup {Nil} :
         \/ Calls("car", <<v>>, LCar(store, v))
         \/ Calls("cdr", <<v>>, LCdr(store, v))
         \/ Calls("list->vector", <<v>>, LListToVector(store, v))
         \/ \E x \in program.ys \cup Objects("cons") :
              \/ Calls("cons", <<v, x>>, LCons(store, v, x))
              \/ Calls("set-car!", <<v, x>>, LSetCar(store, v, x))
              \/ Calls("set-cdr!", <<v, x>>, LSetCdr(store, v, x))
    BY <1>24 DEF Lists
  <2>3. \A w \in Objects("cons") : KnownIn(b, w)
    BY <1>6, <2>1, RefRead
  <2>4. KnownIn(b, v) /\ \A x \in program.ys \cup Objects("cons") : KnownIn(b, x)
    BY <1>5, <2>3, PlainAnswers
  <2>5. \A x \in program.ys \cup Objects("cons") :
          Sound(b, LCons(store, v, x)) /\ Sound(b, LSetCar(store, v, x)) /\ Sound(b, LSetCdr(store, v, x))
    BY <2>1, <2>4, ListsSound
  <2>6. Sound(b, LCar(store, v)) /\ Sound(b, LCdr(store, v)) /\ Sound(b, LListToVector(store, v))
    BY <2>1, <2>4, ListsSound, ListToVectorSound
  <2> QED BY <1>4, <2>2, <2>5, <2>6
<1>25. CASE Lengths
  <2>1. call = Idle /\ AtRest(b, store)
    BY <1>2, <1>25 DEF Lengths
  <2>2. PICK type \in {"cons", "string", "vector"} :
          \E v \in Objects(type) \cup {Nil} : Calls("length", <<v>>, LLength(store, v))
    BY <1>25 DEF Lengths
  <2>3. Len(store) <= FixnumMax
    BY <1>0, <2>1, StartRead, RestRead
  <2>4. \A v \in Objects(type) \cup {Nil} : Sound(b, LLength(store, v))
    BY <1>6, <2>1, <2>3, LengthSound
  <2> QED BY <1>4, <2>2, <2>4
<1>26. CASE Structures
  <2>1. call = Idle /\ AtRest(b, store)
    BY <1>2, <1>26 DEF Structures
  <2>2. \A v \in Objects("vector") : \A layout : Sound(b, LStructureCons(store, v, layout))
    BY <1>6, <2>1, StructuresSound
  <2>3. \A v \in Objects("structure") : \A layout : Sound(b, LCopyStructure(store, v)) /\ Sound(b, LStructureP(store, v, layout))
    BY <1>6, <2>1, StructuresSound
  <2>4. \A v \in Objects("structure"), i \in program.xs, x \in program.ys :
          Sound(b, LStructureRef(store, v, i)) /\ Sound(b, LStructureSet(store, v, i, x))
    BY <1>5, <1>6, <2>1, StructuresSound
  <2>5. \A v \in Objects("structure"), i \in program.xs : Sound(b, LStructureRef(store, v, i))
    BY <1>5, <1>6, <2>1, StructuresSound
  <2>6. CASE \E slots \in Objects("vector"), layout \in Objects("cons") :
               Calls("%structurecons", <<slots, layout>>, LStructureCons(store, slots, layout))
    BY <1>4, <2>2, <2>6
  <2>7. CASE \E st \in Objects("structure") :
               \/ Calls("%copy-structure", <<st>>, LCopyStructure(store, st))
               \/ \E layout \in Objects("cons") \cup {Nil} :
                    Calls("%structure?", <<st, layout>>, LStructureP(store, st, layout))
    BY <1>4, <2>3, <2>7
  <2>8. CASE \E st \in Objects("structure"), i \in program.xs :
               \/ Calls("%structure-ref", <<st, i>>, LStructureRef(store, st, i))
               \/ \E x \in program.ys :
                    Calls("%structure-set!", <<st, i, x>>, LStructureSet(store, st, i, x))
    BY <1>4, <2>4, <2>5, <2>8
  <2> QED BY <1>26, <2>6, <2>7, <2>8 DEF Structures
<1>27. CASE Return
  <2>1. store' = SubSeq(store, 1, Roots) /\ answer' = Nil /\ UNCHANGED chosen
    BY <1>27 DEF Return
  <2>2. AtRest(b, store')
    BY <1>0, <1>1, <2>1, FirstObjects
  <2>3. program' = program /\ ProgramRuns'
    BY <1>0, <2>1 DEF program, ProgramRuns
  <2>4. KnownIn(store, answer)'
    BY <2>1, PlainAnswers
  <2> QED BY <2>2, <2>3, <2>4 DEF TypedInv, AtRest
<1>28. CASE Keep
  BY <1>28, KeepTyped
<1>29. CASE UNCHANGED vars
  BY <1>29 DEF vars, TypedInv, ProgramRuns, program
<1> QED
  BY <1>8, <1>9, <1>10, <1>11, <1>12, <1>13, <1>14, <1>15, <1>16, <1>17, <1>18, <1>19, <1>20, <1>21,
     <1>22, <1>23, <1>24, <1>25, <1>26, <1>27, <1>28, <1>29 DEF Next

(* The invariant says what TypeOK says.                                    *)
LEMMA TypedMeansTypeOK == TypedInv => TypeOK
<1> SUFFICES ASSUME TypedInv PROVE TypeOK
  OBVIOUS
<1>1. PICK b \in program.starts : Made(b, store)
  BY DEF TypedInv
<1>2. /\ IsStore(b) /\ IsStore(store) /\ DOMAIN store = 1 .. Len(store) /\ Len(store) \in Nat
      /\ Len(b) \in Nat /\ Len(b) <= Len(store)
  BY <1>1, StoreRead DEF Made
<1>3. \A o : WellMade(b, o) => WellMade(store, o)
  BY <1>1, <1>2, KnownLater DEF Made
<1>4. ASSUME NEW i \in 1 .. Len(store)
      PROVE  WellMade(store, store[i])
  <2>1. CASE i \in 1 .. Len(b)
    BY <1>1, <1>3, <2>1 DEF Made
  <2>2. CASE i \notin 1 .. Len(b)
    <3>1. i \in Len(b) + 1 .. Len(store)
      BY <1>2, <2>2
    <3> QED BY <1>1, <1>3, <3>1 DEF Made
  <2> QED BY <2>1, <2>2
<1>5. ASSUME NEW o \in Range(store)
      PROVE  IF IsA(o, "string")
             THEN Range(o.data) \subseteq Chars /\ Len(o.data) = StorageSize(o.dim) /\ Len(o.data) > o.dim
             ELSE \A v \in Range(o.data) : KnownIn(store, v)
  <2>1. WellMade(store, o)
    BY <1>2, <1>4 DEF Range
  <2>2. CASE IsA(o, "string")
    <3>1. TextObject(o)
      BY <2>1, <2>2, TextIsMade DEF IsA
    <3> QED BY <2>2, <3>1, TextObjectRead DEF Range
  <2>3. CASE ~ IsA(o, "string")
    BY <2>1, <2>3 DEF WellMade
  <2> QED BY <2>2, <2>3
<1>6. chosen \in DOMAIN Programs /\ KnownIn(store, answer)
  BY DEF TypedInv, ProgramRuns
<1> QED BY <1>5, <1>6 DEF TypeOK

(* No primitive, called with any arguments in any order, leaves a string   *)
(* whose buffer is not the one its length asks for, with room past the     *)
(* text, or a reference that leads to no object or to one of another type; *)
(* a fixnum answered fits its word and a character its byte (number.c,     *)
(* string.c, vector.c, list.c, structure.c).                               *)
THEOREM PrimitivesKeepObjects == Spec => []TypeOK
BY TypedInit, TypedStep, TypedMeansTypeOK, PTL DEF Spec
=============================================================================
