----------------------------- MODULE Primitives -----------------------------
(***************************************************************************)
(* A program that calls the primitives of numbers, strings, vectors, lists *)
(* and structures.  A call gives its answer and changes the store at once; *)
(* then the program drops the objects it made (Return), or keeps the       *)
(* answer in place of its first object (Keep), and calls again.            *)
(***************************************************************************)
EXTENDS Aggregates

CONSTANT Programs    \* a sequence: what is called, with which arguments, on which objects

(* A program passes values: a fixnum is one that its word holds.           *)
ValueTypes ==
    {"fixnum", "flonum", "character", "boolean", "nil", "symbol", "string", "vector", "cons", "structure"}

Value(x) ==
    /\ x = [type |-> x.type, n |-> x.n]
    /\ x.type \in ValueTypes /\ x.n \in Int
    /\ FixnumP(x) => x.n \in Fixnums

(* It starts with objects, of which a vector has a sequence of elements.   *)
IsSequence(s) == s \in Seq(Range(s))
IsObject(o) ==
    /\ o = Object(o.type, o.data, o.dim, o.layout)
    /\ IsA(o, "vector") => IsSequence(o.data)
IsStore(s) == IsSequence(s) /\ \A i \in DOMAIN s : IsObject(s[i])

ASSUME ProgramsAssumption ==
    \A i \in DOMAIN Programs :
      /\ \A x \in Programs[i].xs \cup Programs[i].ys : Value(x)
      /\ Programs[i].roots \in Nat
      /\ \A s \in Programs[i].starts : IsStore(s) /\ Len(s) = Programs[i].roots

(* Values over the objects of a store: a character fits a byte, and a      *)
(* reference is to an object of its type.                                  *)
KnownIn(s, v) ==
    /\ v.type = "fixnum" => v.n \in Fixnums
    /\ v.type = "character" => v.n \in Chars
    /\ v.type \in {"string", "vector", "cons", "structure"} =>
         v.n \in DOMAIN s /\ s[v.n].type = v.type

(* The buffer of a string is the one its length asks for; a cons has two   *)
(* parts; what an object that is no string holds are values.               *)
WellMade(s, o) ==
    IF IsA(o, "string") THEN o.dim \in Nat /\ o.data \in [1 .. StorageSize(o.dim) -> Chars]
    ELSE /\ IsSequence(o.data)
         /\ IsA(o, "cons") => Len(o.data) = 2
         /\ \A v \in Range(o.data) : KnownIn(s, v)

Size(o) == IF IsA(o, "string") THEN o.dim ELSE Len(o.data)

(* So are the objects and the arguments of a program; its flonums are in   *)
(* the range of a word, outside which C does not define their conversion.  *)
ASSUME ObjectsAssumption ==
    \A i \in DOMAIN Programs :
      /\ Programs[i].roots <= FixnumMax /\ Programs[i].most <= FixnumMax
      /\ Programs[i].most \in Nat /\ Programs[i].junk \in Chars
      /\ \A x \in Programs[i].xs \cup Programs[i].ys :
           /\ \A s \in Programs[i].starts : KnownIn(s, x)
           /\ IsA(x, "flonum") => TruncateOf(x.n) \in -(2^(WordBits - 1)) .. 2^WordBits - 1
      /\ \A s \in Programs[i].starts : \A j \in DOMAIN s : WellMade(s, s[j]) /\ Size(s[j]) <= FixnumMax

VARIABLES
    chosen,    \* the number of the program that runs
    store,     \* its objects
    call,      \* the call made and its arguments, or Idle
    answer     \* what the call answered

vars == <<chosen, store, call, answer>>

program == Programs[chosen]

Idle == [op |-> "none", args |-> << >>]

Calls(op, args, t) ==
    /\ op \in program.calls
    /\ call' = [op |-> op, args |-> args]
    /\ store' = t.store /\ answer' = t.answer
    /\ UNCHANGED chosen

Computes(op, args, v) == Calls(op, args, Gives(store, v))

Roots == program.roots
Objects(type) == {Ref(type, i) : i \in {j \in 1 .. Roots : store[j].type = type}}

Init ==
    /\ chosen \in DOMAIN Programs
    /\ store \in program.starts
    /\ call = Idle
    /\ answer = Nil
-----------------------------------------------------------------------------
(* Numbers.                                                                *)
Sums ==
    /\ call = Idle
    /\ \E x \in program.xs, y \in program.ys :
         \/ Computes("+", <<x, y>>, LAdd(x, y))
         \/ Computes("-", <<x, y>>, LSubtract(x, y))
         \/ Computes("*", <<x, y>>, LMultiply(x, y))

Divisions ==
    /\ call = Idle
    /\ \E x \in program.xs, y \in program.ys :
         \/ Computes("quotient", <<x, y>>, LQuotient(x, y))
         \/ Computes("remainder", <<x, y>>, LRemainder(x, y))
         \/ Computes("modulo", <<x, y>>, LModulo(x, y))

Comparisons ==
    /\ call = Idle
    /\ \E x \in program.xs, y, z \in program.ys :
       \E op \in {"=", ">=", ">", "<=", "<"} :
         Computes(op, <<x, y, z>>, Compare(op, <<x, y, z>>))

Conversions ==
    /\ call = Idle
    /\ \E x \in program.xs :
         \/ Computes("exact->inexact", <<x>>, LExactToInexact(x))
         \/ Computes("inexact->exact", <<x>>, LInexactToExact(x))
         \/ Computes("magnitude", <<x>>, LMagnitude(x))
         \/ \E how \in {"floor", "ceiling", "round", "truncate"} : Computes(how, <<x>>, Rounding(how, x))

BitwiseOperations ==
    /\ call = Idle
    /\ \E x \in program.xs, y \in program.ys :
         \/ \E op \in {"and", "or", "xor"} : Computes(op, <<x, y>>, BitOperation(op, x, y))
         \/ Computes("not", <<x>>, LBitwiseNot(x))

Shifts ==
    /\ call = Idle
    /\ \E x \in program.xs, n \in program.ys :
         \/ Computes("shl", <<x, n>>, LBitwiseShl(x, n))
         \/ Computes("shr", <<x, n>>, LBitwiseShr(x, n))
         \/ Computes("ashr", <<x, n>>, LBitwiseAshr(x, n))

(* Of fixnums; a random flonum is left out.                                *)
Random ==
    /\ call = Idle
    /\ \E x \in program.xs, word \in 0 .. 2^WordBits - 1 :
         FixnumP(x) /\ Computes("random", <<x>>, LRandom(x, word))

Formats ==
    /\ call = Idle
    /\ \E x \in program.xs, radix \in program.radixes, signed \in BOOLEAN :
         Computes("number->string", <<x, radix, signed>>, LNumberToString(x, radix, signed))

Parses ==
    /\ call = Idle
    /\ \E text \in program.numerals, radix \in program.radixes, errno \in BOOLEAN :
         Computes("string->number", <<text, radix>>, LStringToNumber(text, radix, errno))

BinaryNumbers ==
    /\ call = Idle
    /\ \E x \in program.xs, width \in program.widths, signed \in BOOLEAN :
         LET bytes == Encode(width, x.n)
         IN  Computes("binary", <<x, width, signed>>, ReadBinaryFixnum(bytes, signed))

Characters ==
    /\ call = Idle
    /\ \E x \in program.xs :
         \/ Computes("char->integer", <<x>>, LCharToInteger(x))
         \/ Computes("integer->char", <<x>>, LIntegerToChar(x))
-----------------------------------------------------------------------------
(* Strings.                                                                *)
StringAccess ==
    /\ call = Idle
    /\ \E s \in Objects("string"), i \in program.xs :
         \/ Calls("string-ref", <<s, i>>, LStringRef(store, s, i))
         \/ \E v \in program.ys : Calls("string-set!", <<s, i, v>>, LStringSet(store, s, i, v))

StringPorts ==
    /\ call = Idle
    /\ \E s, t \in Objects("string"), reused \in BOOLEAN :
         /\ store[s.n].dim + store[t.n].dim <= program.most
         /\ Calls("write-strings", <<s, t>>, LWriteString(store, s, t, program.junk, reused))

StringConstructors ==
    /\ call = Idle
    /\ \E s \in Objects("string") :
         \/ Calls("string-copy", <<s>>, LStringCopy(store, s, program.junk))
         \/ \E v \in Objects("string") \cup program.xs :
              Calls("string-append", <<s, v>>, LStringAppend(store, <<s, v>>, program.junk))
         \/ \E start \in program.xs, end \in program.ys :
              Calls("substring", <<s, start, end>>, LSubstring(store, s, start, end, program.junk))
         \/ \E tc \in Objects("string") \cup {Nil} :
            \E side \in {{"left", "right"}, {"left"}, {"right"}} :
              Calls("string-trim", <<s, tc, side>>, LStringTrim(store, s, tc, side, program.junk))

StringCases ==
    /\ call = Idle
    /\ \E s \in Objects("string") :
         \/ Calls("string-upcase", <<s>>, LStringUpcase(store, s, program.junk))
         \/ Calls("string-downcase", <<s>>, LStringDowncase(store, s, program.junk))
         \/ Calls("string-upcase!", <<s>>, LStringUpcaseD(store, s))
         \/ Calls("string-downcase!", <<s>>, LStringDowncaseD(store, s))

StringSearches ==
    /\ call = Idle
    /\ \E s \in Objects("string"), from \in program.ys :
         \/ \E tok \in Objects("string") \cup program.xs :
              \/ Calls("string-search", <<tok, s, from>>, LStringSearch(store, tok, s, from, program.junk))
              \/ Calls("string-search-from-right", <<tok, s, from>>,
                       LStringSearchFromRight(store, tok, s, from, program.junk))
         \/ \E set \in Objects("vector"), stray \in BOOLEAN :
              \/ Calls("string-first-character", <<s, set, from>>,
                       LStringFirstChar(store, s, set, from, stray))
              \/ Calls("string-first-substring", <<s, set, from>>,
                       LStringFirstSubstring(store, s, set, from, stray))

StringComparisons ==
    /\ call = Idle
    /\ \E a, b \in Objects("string") :
         \/ Calls("strcmp", <<a, b>>, LStrCmp(store, a, b))
         \/ Calls("stricmp", <<a, b>>, LStrICmp(store, a, b))
-----------------------------------------------------------------------------
(* Vectors, lists and structures.                                          *)
VectorAccess ==
    /\ call = Idle
    /\ \E v \in Objects("vector"), i \in program.xs, x \in program.ys :
         \/ Calls("vector-ref", <<v, i, x>>, LVectorRef(store, v, i, x))
         \/ Calls("vector-set!", <<v, i, x>>, LVectorSet(store, v, i, x))
         \/ Calls("vector-fill!", <<v, x>>, LVectorFill(store, v, x))

VectorConstructors ==
    /\ call = Idle
    /\ \/ \E n \in program.xs, x \in program.ys :
            \/ Calls("make-vector", <<n, x>>, LMakeVector(store, n, x))
            \/ Calls("vector", <<n, x>>, LVector(store, <<n, x>>))
            \/ \E v \in Objects("vector") : Calls("vector-resize", <<v, n, x>>, LVectorResize(store, v, n, x))
       \/ \E v \in Objects("vector") :
            \/ Calls("vector-copy", <<v>>, LVectorCopy(store, v))
            \/ Calls("vector->list", <<v>>, LVectorToList(store, v))

Lists ==
    /\ call = Idle
    /\ \E v \in Objects("cons") \cup {Nil} :
         \/ Calls("car", <<v>>, LCar(store, v))
         \/ Calls("cdr", <<v>>, LCdr(store, v))
         \/ Calls("list->vector", <<v>>, LListToVector(store, v))
         \/ \E x \in program.ys \cup Objects("cons") :
              \/ Calls("cons", <<v, x>>, LCons(store, v, x))
              \/ Calls("set-car!", <<v, x>>, LSetCar(store, v, x))
              \/ Calls("set-cdr!", <<v, x>>, LSetCdr(store, v, x))

Lengths ==
    /\ call = Idle
    /\ \E type \in {"cons", "string", "vector"} :
       \E v \in Objects(type) \cup {Nil} : Calls("length", <<v>>, LLength(store, v))

Structures ==
    /\ call = Idle
    /\ \/ \E slots \in Objects("vector"), layout \in Objects("cons") :
            Calls("%structurecons", <<slots, layout>>, LStructureCons(store, slots, layout))
       \/ \E st \in Objects("structure") :
            \/ Calls("%copy-structure", <<st>>, LCopyStructure(store, st))
            \/ \E layout \in Objects("cons") \cup {Nil} :
                 Calls("%structure?", <<st, layout>>, LStructureP(store, st, layout))
            \/ \E i \in program.xs :
                 \/ Calls("%structure-ref", <<st, i>>, LStructureRef(store, st, i))
                 \/ \E x \in program.ys :
                      Calls("%structure-set!", <<st, i, x>>, LStructureSet(store, st, i, x))
-----------------------------------------------------------------------------
(* A primitive that hangs or that the system kills does not return.        *)
Returns == call # Idle /\ answer \notin {Error("hang"), Error("killed")}

Return ==
    /\ Returns
    /\ store' = SubSeq(store, 1, Roots)
    /\ call' = Idle /\ answer' = Nil
    /\ UNCHANGED chosen

(* What is kept holds no more than most, and refers to the first objects.  *)
Keep ==
    /\ Returns /\ program.keeps
    /\ answer.type \in {"string", "vector"} /\ answer.type = store[1].type
    /\ answer.n \in Roots + 1 .. Len(store)
    /\ Size(store[answer.n]) <= program.most
    /\ store' = [SubSeq(store, 1, Roots) EXCEPT ![1] = store[answer.n]]
    /\ call' = Idle /\ answer' = Nil
    /\ UNCHANGED chosen

Next ==
    \/ Sums \/ Divisions \/ Comparisons \/ Conversions \/ BitwiseOperations \/ Shifts \/ Random
    \/ Formats \/ Parses \/ BinaryNumbers \/ Characters
    \/ StringAccess \/ StringPorts \/ StringConstructors \/ StringCases \/ StringSearches
    \/ StringComparisons
    \/ VectorAccess \/ VectorConstructors \/ Lists \/ Lengths \/ Structures
    \/ Return \/ Keep

Spec == Init /\ [][Next]_vars
-----------------------------------------------------------------------------
(* Properties.                                                             *)
Done(op) == call.op = op
Arg(i) == call.args[i]
Answered == answer.type # "error"

(* Types: a fixnum answered fits the tagged word, a character fits a byte, *)
(* a reference is to an object of its type, and the buffer of a string is  *)
(* the one its length asks for, with room past the text: what the next     *)
(* append, and a search that looks one character too far, rely on.         *)
TypeOK ==
    /\ chosen \in DOMAIN Programs
    /\ KnownIn(store, answer)
    /\ \A o \in Range(store) :
         IF IsA(o, "string")
         THEN Range(o.data) \subseteq Chars /\ Len(o.data) = StorageSize(o.dim) /\ Len(o.data) > o.dim
         ELSE \A v \in Range(o.data) : KnownIn(store, v)

(* Arithmetic on fixnums is that of the integers: the answer is the number *)
(* when a fixnum holds it, and an overflow trap when none does; quotients  *)
(* and remainders belong together; an arithmetic shift divides; shl, which *)
(* traps early, never answers another number (number.c:322-585, 620-757).  *)
(* What modulo answers has the divisor's sign and is no larger.  A fixnum  *)
(* of more bits than a double holds loses the last ones in exact->inexact, *)
(* of its value not more than the first bit left out; a smaller one is the *)
(* same again when made exact.  Rounding goes to the nearest number,       *)
(* halves away from zero.                                                  *)
Exactly(n) == IF n \in Fixnums THEN answer = Fixnum(n) ELSE answer.type = "trap"

QuotientAgrees(x, y) ==
    \E q \in -x .. x \cup x .. -x :
      LET r == LRemainder(Fixnum(x), Fixnum(y)).n
      IN  /\ q * y + r = x /\ Magnitude(r) < Magnitude(y) /\ r * x >= 0
          /\ Exactly(q)

IntegersAgree(x, y) ==
    /\ Done("+") => Exactly(x + y)
    /\ Done("-") => Exactly(x - y)
    /\ Done("*") => Exactly(x * y)
    /\ Done("quotient") /\ y # 0 => QuotientAgrees(x, y)
    /\ Done("modulo") /\ answer.type = "fixnum" =>
         /\ (x - answer.n) % Magnitude(y) = 0
         /\ Magnitude(answer.n) <= Magnitude(y) /\ answer.n * y >= 0
    /\ Done("and") => answer.n + BitOperation("or", Arg(1), Arg(2)).n = x + y
    /\ Done("xor") =>
         LSubtract(BitOperation("or", Arg(1), Arg(2)), BitOperation("and", Arg(1), Arg(2))) = answer
    /\ Done("ashr") /\ y \in 0 .. WordBits - 1 => Exactly(x \div 2^y)
    /\ Done("shl") /\ answer.type = "fixnum" /\ y < WordBits => answer.n = x * 2^y

ConversionNear(n) ==
    /\ Magnitude(answer.n - 2 * n) * 2^MantissaBits <= Magnitude(2 * n)
    /\ Magnitude(n) <= 2^MantissaBits => LInexactToExact(answer) = Fixnum(n)

ArithmeticAgrees ==
    /\ Len(call.args) = 2 /\ FixnumP(Arg(1)) /\ FixnumP(Arg(2)) => IntegersAgree(Arg(1).n, Arg(2).n)
    /\ Done("-") /\ FixnumP(Arg(1)) /\ Arg(2) = Nil => Exactly(-Arg(1).n)
    /\ Done("magnitude") /\ FixnumP(Arg(1)) => Exactly(Magnitude(Arg(1).n))
    /\ Done("<") /\ (\A v \in Range(call.args) : FixnumP(v)) =>
         answer = Truth(Arg(1).n < Arg(2).n /\ Arg(2).n < Arg(3).n)
    /\ Done("random") /\ Arg(1).n > 0 /\ answer.type = "fixnum" => answer.n < Arg(1).n
    /\ Done("exact->inexact") /\ FixnumP(Arg(1)) => ConversionNear(Arg(1).n)
    /\ Done("round") /\ answer.type = "flonum" =>
         /\ Magnitude(answer.n - Arg(1).n) <= 1
         /\ Magnitude(answer.n) >= Magnitude(Arg(1).n)

(* A fixnum written in radix 8, 10 or 16 as a signed number, or as bytes   *)
(* of a width whose range has it, is read back as it was, whatever errno   *)
(* others left (number-format.c:19-47 and 90-157, io-encdec.c, io.c).      *)
NumbersReadBack ==
    /\ Done("number->string") /\ Answered /\ (Arg(3) \/ Arg(1).n >= 0) =>
         \A errno \in BOOLEAN : LStringToNumber(answer, Arg(2), errno) = Arg(1)
    /\ Done("binary") =>
         LET bits == ByteBits * Arg(2)
             range == IF Arg(3) THEN -(2^(bits - 1)) .. 2^(bits - 1) - 1 ELSE 0 .. 2^bits - 1
         IN  Arg(1).n \in range => answer = Arg(1)

(* What the primitives of strings and lists answer is what their names     *)
(* say, by definitions that know of texts and not of buffers: the first    *)
(* and the last place a pattern is found, the order of the dictionary,     *)
(* what a trim leaves, the first character of a set (string.c:286-603);    *)
(* a vector and the list made of it have the same elements.                *)
Text(v) == IF IsA(v, "string") THEN TextOf(store[v.n]) ELSE <<v.n>>

Occurs(tok, text, loc) ==
    loc + Len(tok) <= Len(text) /\ SubSeq(text, loc + 1, loc + Len(tok)) = tok

Found(places, Choose(_)) ==
    answer = IF places = {} THEN Truth(FALSE) ELSE Fixnum(Choose(places))

SearchAgrees(tok, text, from) ==
    /\ Done("string-search") =>
         Found({loc \in Offset(from) .. Len(text) - 1 : Occurs(tok, text, loc)}, Min)
    /\ Done("string-search-from-right") /\ tok # << >> =>
         LET last == IF from = Nil THEN Len(text) - 1 ELSE from.n
         IN  Found({loc \in 0 .. last + 1 - Len(tok) : last < Len(text) /\ Occurs(tok, text, loc)}, Max)

Before(a, b) ==
    \E i \in 0 .. Len(b) - 1 :
      /\ i <= Len(a) /\ SubSeq(a, 1, i) = SubSeq(b, 1, i)
      /\ i = Len(a) \/ a[i + 1] < b[i + 1]

TrimAgrees(text, trim, sides, kept) ==
    \E i \in 0 .. Len(text) - Len(kept) :
      LET left == SubSeq(text, 1, i)
          right == SubSeq(text, i + Len(kept) + 1, Len(text))
      IN  /\ text = left \o kept \o right
          /\ Range(left) \cup Range(right) \subseteq trim
          /\ "left" \notin sides => left = << >> \/ kept = << >>
          /\ "right" \notin sides => right = << >> \/ kept = << >>
          /\ "left" \in sides /\ kept # << >> => Head(kept) \notin trim
          /\ "right" \in sides /\ kept # << >> => Last(kept) \notin trim

TextsAgree ==
    /\ call.op \in {"string-search", "string-search-from-right"} /\ Answered =>
         SearchAgrees(Text(Arg(1)), Text(Arg(2)), Arg(3))
    /\ Done("strcmp") =>
         LET a == Text(Arg(1))
             b == Text(Arg(2))
         IN  answer.n = IF a = b THEN 0 ELSE IF Before(a, b) THEN -1 ELSE 1
    /\ Done("string-trim") /\ Answered =>
         LET trim == IF Arg(2) = Nil THEN TrimChars ELSE TrimSet(store[Arg(2).n])
         IN  TrimAgrees(Text(Arg(1)), trim \cup {0}, Arg(3), Text(answer))
    /\ Done("string-first-character") /\ Answered =>
         LET text == Text(Arg(1))
             set == {c \in 0 .. CharMax - 1 : store[Arg(2).n].data[c + 1] # Truth(FALSE)}
         IN  Range(text) \subseteq 0 .. CharMax - 1 =>
               Found({loc \in Offset(Arg(3)) .. Len(text) - 1 : text[loc + 1] \in set}, Min)
    /\ Done("vector->list") => Elements(store, answer) = store[Arg(1).n].data
    /\ Done("list->vector") /\ Answered => store[answer.n].data = Elements(store, Arg(1))

(* Only the primitives whose names say so change an object they were       *)
(* given, and only their first argument; an error changes nothing.  A copy *)
(* shares nothing with what it was made from (string.c:384-424, vector.c). *)
Mutators ==
    {"string-set!", "write-strings", "string-upcase!", "string-downcase!", "vector-set!",
     "vector-fill!", "set-car!", "set-cdr!", "%structure-set!"}

OnlyNamedChange ==
    [][call' # Idle =>
         \A i \in DOMAIN store :
           store'[i] # store[i] =>
             call'.op \in Mutators /\ call'.args[1].n = i /\ answer'.type # "error"]_vars

(* The documented range of modulo: its absolute value is less than that of *)
(* the divisor.  It is not: (modulo 0 5) is 5 (number.c:579-584).          *)
ModuloBelowDivisor ==
    Done("modulo") /\ answer.type = "fixnum" => Magnitude(answer.n) < Magnitude(Arg(2).n)
=============================================================================
