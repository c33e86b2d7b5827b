----------------------------- MODULE Aggregates -----------------------------
(***************************************************************************)
(* Strings, vectors, lists and structures.  The store is the sequence of   *)
(* the objects; a value is a number, a character, a symbol, Nil, or refers *)
(* to an object by its place.  An operator named after a primitive takes   *)
(* the store and gives the store and the answer the primitive leaves.      *)
(***************************************************************************)
EXTENDS Numbers, FiniteSetsExt

CONSTANTS
    MinStorage,   \* smallest buffer of a string: 16
    TrimChars,    \* what a trim removes unless told
    UpperOf       \* the upper case of each letter in lower case

CharMax == 2^(ByteBits - 1) - 1
Chars == -CharMax - 1 .. CharMax

ASSUME LettersAreCharacters ==
    MinStorage \in Nat \ {0} /\ DOMAIN UpperOf \cup Range(UpperOf) \subseteq Chars

CharOf(n) == LET b == n % 2^ByteBits IN IF b > CharMax THEN b - 2^ByteBits ELSE b

ToUpper(c) == IF c \in DOMAIN UpperOf THEN UpperOf[c] ELSE c
ToLower(c) == IF \E l \in DOMAIN UpperOf : UpperOf[l] = c
              THEN CHOOSE l \in DOMAIN UpperOf : UpperOf[l] = c ELSE c

Ref(type, n) == [type |-> type, n |-> n]
Symbol(n) == [type |-> "symbol", n |-> n]
Object(type, data, dim, layout) == [type |-> type, data |-> data, dim |-> dim, layout |-> layout]

Gives(store, answer) == [store |-> store, answer |-> answer]
Allocates(store, o) == Gives(Append(store, o), Ref(o.type, Len(store) + 1))
Fails(store, name) == Gives(store, Error(name))
Checks(store, test, name, t) == IF test THEN t ELSE Fails(store, name)

IsA(v, type) == v.type = type
-----------------------------------------------------------------------------
(* Strings: a buffer longer than the text.                                 *)
(* Mutant: a buffer that is just full is not replaced.                     *)
StorageSizeTight(n) ==
    CHOOSE b \in {MinStorage * 2^k : k \in 0 .. n} : b >= n /\ (b = MinStorage \/ b \div 2 < n)

StorageSize(n) ==
    CHOOSE b \in {MinStorage * 2^k : k \in 0 .. n} : b > n /\ (b = MinStorage \/ b \div 2 <= n)

(* What the allocator left in the buffer is arbitrary.                     *)
Buffer(text, size, junk) == text \o [i \in 1 .. size - Len(text) |-> junk]

StrCons(text, junk) ==
    Object("string", Buffer(text, StorageSize(Len(text)), junk), Len(text), Nil)

TextOf(o) == SubSeq(o.data, 1, o.dim)

StringAppendD(o, text, junk) ==
    LET size == StorageSize(o.dim + Len(text))
        kept == IF size = StorageSize(o.dim) THEN o.data ELSE Buffer(TextOf(o), size, junk)
    IN  [o EXCEPT !.dim = o.dim + Len(text),
                  !.data = [i \in DOMAIN kept |-> IF i \in o.dim + 1 .. o.dim + Len(text)
                                                  THEN text[i - o.dim] ELSE kept[i]]]

(* A port may be given its own string to write.  When that gets another    *)
(* buffer, the text is read from the one just freed, where anything may be.*)
Appended(store, s, t, junk, reused) ==
    LET text == TextOf(store[t.n])
        moved == StorageSize(store[s.n].dim + Len(text)) # StorageSize(store[s.n].dim)
    IN  IF s = t /\ moved /\ reused THEN [i \in DOMAIN text |-> junk] ELSE text

LWriteString(store, s, t, junk, reused) ==
    Gives([store EXCEPT ![s.n] = StringAppendD(store[s.n], Appended(store, s, t, junk, reused), junk)], s)

InBounds(i, dim) == FixnumP(i) /\ i.n \in 0 .. dim - 1

LStringRef(store, s, i) ==
    Checks(store, FixnumP(i), "wrong-type",
      Checks(store, InBounds(i, store[s.n].dim), "index-out-of-bounds",
        Gives(store, Char(store[s.n].data[i.n + 1]))))

LStringSet(store, s, i, v) ==
    Checks(store, FixnumP(i), "wrong-type",
      Checks(store, InBounds(i, store[s.n].dim), "index-out-of-bounds",
        Checks(store, v.type \in {"fixnum", "character"}, "wrong-type",
          Gives([store EXCEPT ![s.n].data[i.n + 1] = CharOf(v.n)], s))))

LStringCopy(store, s, junk) == Allocates(store, StrCons(TextOf(store[s.n]), junk))

Piece(store, v) == IF IsA(v, "string") THEN TextOf(store[v.n]) ELSE <<CharOf(v.n)>>

(* A symbol stands for its name, here the character that numbers it.       *)
LStringAppend(store, args, junk) ==
    Checks(store, \A i \in DOMAIN args : args[i].type \in {"string", "symbol", "character", "fixnum"},
           "wrong-type",
      Checks(store, \A i \in DOMAIN args : FixnumP(args[i]) => args[i].n \in 0 .. 2^ByteBits - 1,
             "arg-out-of-range",
        Allocates(store, StrCons(FlattenSeq([i \in DOMAIN args |-> Piece(store, args[i])]), junk))))

(* A number becomes a size: one below zero is larger than any.             *)
AsIndex(v) == LET n == Whole(v) IN IF n < 0 THEN 2^WordBits + n ELSE n

LSubstring(store, s, start, end, junk) ==
    LET o == store[s.n]
        e == IF end = Nil THEN o.dim ELSE AsIndex(end)
    IN  Checks(store, NumberP(start) /\ (end = Nil \/ NumberP(end)), "wrong-type",
          Checks(store, AsIndex(start) <= o.dim /\ e <= o.dim, "index-out-of-bounds",
            Checks(store, AsIndex(start) <= e, "arg-out-of-range",
              Allocates(store, StrCons(SubSeq(o.data, AsIndex(start) + 1, e), junk)))))
-----------------------------------------------------------------------------
(* Searching.  A character is sought as a string of one.                   *)
Offset(v) == IF v = Nil THEN 0 ELSE Whole(v)

Pattern(store, v, junk) == IF IsA(v, "string") THEN store[v.n] ELSE StrCons(<<v.n>>, junk)

(* How much of tok is at loc; the characters are compared before the       *)
(* bounds, one past the end of both texts at most.                         *)
(* Mutant: what is left of a text that ends early matches.                 *)
MatchLengthUnbounded(tok, str, loc) ==
    LET m[k \in 0 .. tok.dim] ==
          IF k < tok.dim /\ (loc + k >= str.dim \/ tok.data[k + 1] = str.data[loc + k + 1])
          THEN m[k + 1] ELSE k
    IN  m[0]

MatchLength(tok, str, loc) ==
    LET m[k \in 0 .. tok.dim] ==
          IF tok.data[k + 1] = str.data[loc + k + 1] /\ k < tok.dim /\ loc + k < str.dim
          THEN m[k + 1] ELSE k
    IN  m[0]

StringSearch(tok, str, from) ==
    LET hits == {loc \in from .. str.dim - 1 : MatchLength(tok, str, loc) = tok.dim}
    IN  IF hits = {} THEN Truth(FALSE) ELSE Fixnum(Min(hits))

Sought(v) == v.type \in {"string", "character"}

LStringSearch(store, tok, s, ofs, junk) ==
    Checks(store, Sought(tok) /\ (ofs = Nil \/ NumberP(ofs)), "wrong-type",
      Checks(store, Offset(ofs) >= 0, "arg-out-of-range",
        Gives(store, StringSearch(Pattern(store, tok, junk), store[s.n], Offset(ofs)))))

(* Whether tok ends at loc, compared from its end.  For an empty tok the   *)
(* loop reads what is before both buffers and never succeeds.              *)
EndsAt(tok, str, loc) ==
    LET m[k \in 0 .. tok.dim] ==
          LET at == loc - (tok.dim - k - 1)
          IN  /\ tok.data[k + 1] = str.data[at + 1]
              /\ k = 0 \/ (at # 0 /\ m[k - 1])
    IN  tok.dim > 0 /\ m[tok.dim - 1]

StringSearchFromRight(tok, str, from) ==
    LET ends == {loc \in 0 .. from : EndsAt(tok, str, loc)}
    IN  IF from \notin 0 .. str.dim - 1 \/ ends = {} THEN Truth(FALSE)
        ELSE Fixnum(Max(ends) - (tok.dim - 1))

LStringSearchFromRight(store, tok, s, from, junk) ==
    Checks(store, Sought(tok) /\ (from = Nil \/ NumberP(from)), "wrong-type",
      Gives(store, StringSearchFromRight(Pattern(store, tok, junk), store[s.n],
                     IF from = Nil THEN store[s.n].dim - 1 ELSE Whole(from))))

(* A vector says which characters are sought.  Its length excludes         *)
(* CharMax, and the codes of that and of characters below nought lead out  *)
(* of it, where anything may be read.                                      *)
InSet(set, c, stray) == IF c \in 0 .. Len(set.data) - 1 THEN set.data[c + 1] # Truth(FALSE) ELSE stray

CharSet(store, set, ofs, t) ==
    Checks(store, Len(store[set.n].data) = CharMax, "index-out-of-bounds",
      Checks(store, ofs = Nil \/ NumberP(ofs), "wrong-type",
        Checks(store, Offset(ofs) >= 0, "arg-out-of-range", t)))

Beyond(o, ofs, set, stray, wanted) ==
    {loc \in ofs .. o.dim - 1 : InSet(set, o.data[loc + 1], stray) = wanted}

LStringFirstChar(store, s, set, ofs, stray) ==
    LET found == Beyond(store[s.n], Offset(ofs), store[set.n], stray, TRUE)
    IN  CharSet(store, set, ofs,
          Gives(store, IF found = {} THEN Truth(FALSE) ELSE Fixnum(Min(found))))

LStringFirstSubstring(store, s, set, ofs, stray) ==
    LET o == store[s.n]
        others == Beyond(o, Offset(ofs), store[set.n], stray, FALSE)
        stop == IF others = {} THEN o.dim ELSE Min(others)
    IN  CharSet(store, set, ofs,
          Gives(store, IF stop <= Offset(ofs) THEN Truth(FALSE) ELSE Fixnum(stop)))
-----------------------------------------------------------------------------
(* Trimming, case and order.                                               *)
(* The characters to trim are a C string: NUL ends it, and is found in it. *)
TrimSet(o) ==
    {o.data[i] : i \in {j \in 1 .. o.dim : \A k \in 1 .. j : o.data[k] # 0}} \cup {0}

Trimmed(text, trim, sides) ==
    LET kept == {i \in DOMAIN text : text[i] \notin trim}
        first == IF "left" \in sides THEN Min(kept) ELSE 1
        last == IF "right" \in sides THEN Max(kept) ELSE Len(text)
    IN  IF kept = {} THEN << >> ELSE SubSeq(text, first, last)

LStringTrim(store, s, tc, sides, junk) ==
    Checks(store, tc = Nil \/ IsA(tc, "string"), "wrong-type",
      Checks(store, tc = Nil \/ store[tc.n].dim < BufLen, "arg-out-of-range",
        LET trim == IF tc = Nil THEN TrimChars \cup {0} ELSE TrimSet(store[tc.n])
        IN  Allocates(store, StrCons(Trimmed(TextOf(store[s.n]), trim, sides), junk))))

InCase(upper, c) == IF upper THEN ToUpper(c) ELSE ToLower(c)

Cased(o, upper) ==
    [o EXCEPT !.data = [i \in DOMAIN o.data |->
       IF i <= o.dim THEN InCase(upper, o.data[i]) ELSE o.data[i]]]

LStringUpcaseD(store, s) == Gives([store EXCEPT ![s.n] = Cased(store[s.n], TRUE)], s)
LStringDowncaseD(store, s) == Gives([store EXCEPT ![s.n] = Cased(store[s.n], FALSE)], s)

LStringUpcase(store, s, junk) == Allocates(store, Cased(StrCons(TextOf(store[s.n]), junk), TRUE))
LStringDowncase(store, s, junk) == Allocates(store, Cased(StrCons(TextOf(store[s.n]), junk), FALSE))

(* Characters are compared as signed.                                      *)
StrCmp(a, b) ==
    LET differ == {i \in 1 .. Min({Len(a), Len(b)}) : a[i] # b[i]}
        Order(m, n) == IF m > n THEN 1 ELSE IF m < n THEN -1 ELSE 0
    IN  IF differ = {} THEN Order(Len(a), Len(b))
        ELSE Order(a[Min(differ)], b[Min(differ)])

LStrCmp(store, a, b) == Gives(store, Fixnum(StrCmp(TextOf(store[a.n]), TextOf(store[b.n]))))
LStrICmp(store, a, b) ==
    Gives(store, Fixnum(StrCmp(TextOf(Cased(store[a.n], FALSE)), TextOf(Cased(store[b.n], FALSE)))))

LCharToInteger(v) == Typed(IsA(v, "character"), Fixcons(v.n))

LIntegerToChar(v) ==
    Typed(NumberP(v), IF Whole(v) \in 0 .. 2^ByteBits - 1
                      THEN Char(CharOf(Whole(v))) ELSE Error("arg-out-of-range"))
-----------------------------------------------------------------------------
(* Vectors.                                                                *)
VectorCons(data) == Object("vector", data, 0, Nil)

LMakeVector(store, dim, initial) ==
    LET d == Whole(dim)
    IN  Checks(store, NumberP(dim), "wrong-type",
          Checks(store, d >= 0, "arg-out-of-range",
            Allocates(store, VectorCons([i \in 1 .. d |-> initial]))))

LVector(store, args) == Allocates(store, VectorCons(args))

(* Numbers and characters index a vector; below nought they are too large. *)
IndexOf(v) == IF IsA(v, "character") THEN AsIndex(Fixnum(v.n)) ELSE AsIndex(v)
Indexes(v) == NumberP(v) \/ IsA(v, "character")

LVectorRef(store, v, i, default) ==
    Checks(store, Indexes(i), "wrong-type",
      IF IndexOf(i) < Len(store[v.n].data) THEN Gives(store, store[v.n].data[IndexOf(i) + 1])
      ELSE Checks(store, default # Nil, "index-out-of-bounds", Gives(store, default)))

LVectorSet(store, v, i, x) ==
    Checks(store, Indexes(i), "wrong-type",
      Checks(store, IndexOf(i) < Len(store[v.n].data), "index-out-of-bounds",
        Gives([store EXCEPT ![v.n].data[IndexOf(i) + 1] = x], v)))

LVectorFill(store, v, x) ==
    Gives([store EXCEPT ![v.n].data = [i \in DOMAIN store[v.n].data |-> x]], v)

LVectorCopy(store, v) == Allocates(store, VectorCons(store[v.n].data))

LVectorResize(store, v, size, x) ==
    LET old == store[v.n].data
    IN  Checks(store, FixnumP(size), "wrong-type",
          Checks(store, size.n >= 0, "arg-out-of-range",
            Allocates(store, VectorCons([i \in 1 .. size.n |-> IF i <= Len(old) THEN old[i] ELSE x]))))
-----------------------------------------------------------------------------
(* Lists.                                                                  *)
ConsObject(x, y) == Object("cons", <<x, y>>, 0, Nil)
ConsP(v) == IsA(v, "cons")
CarOf(store, v) == store[v.n].data[1]
CdrOf(store, v) == store[v.n].data[2]

LCons(store, x, y) == Allocates(store, ConsObject(x, y))

LCar(store, v) ==
    IF v = Nil THEN Gives(store, Nil)
    ELSE Checks(store, ConsP(v), "wrong-type", Gives(store, CarOf(store, v)))

LCdr(store, v) ==
    IF v = Nil THEN Gives(store, Nil)
    ELSE Checks(store, ConsP(v), "wrong-type", Gives(store, CdrOf(store, v)))

LSetCar(store, v, x) ==
    Checks(store, ConsP(v), "wrong-type", Gives([store EXCEPT ![v.n].data[1] = x], x))
LSetCdr(store, v, x) ==
    Checks(store, ConsP(v), "wrong-type", Gives([store EXCEPT ![v.n].data[2] = x], x))

(* The conses of a list in order; one more than the store holds when the   *)
(* list is circular.                                                       *)
Conses(store, v) ==
    LET after[k \in 0 .. Len(store) + 1] ==
          IF k = 0 THEN << >>
          ELSE LET seen == after[k - 1]
                   next == IF seen = << >> THEN v ELSE CdrOf(store, Last(seen))
               IN  IF ConsP(next) THEN Append(seen, next) ELSE seen
    IN  after[Len(store) + 1]

Circular(store, v) == Len(Conses(store, v)) > Len(store)
TailOf(store, v) == IF ConsP(v) THEN CdrOf(store, Last(Conses(store, v))) ELSE v
Elements(store, v) == [i \in 1 .. Len(Conses(store, v)) |-> CarOf(store, Conses(store, v)[i])]

ObjectLength(store, v) ==
    CASE v.type = "cons" -> Len(Conses(store, v))
      [] v.type = "string" -> store[v.n].dim
      [] v.type = "vector" -> Len(store[v.n].data)
      [] OTHER -> 0

(* Counting the conses of a circular list never ends.                      *)
Counting(store, v, t) == IF Circular(store, v) THEN Fails(store, "hang") ELSE t

LLength(store, v) == Counting(store, v, Gives(store, Fixnum(ObjectLength(store, v))))

LListToVector(store, xs) ==
    Counting(store, xs,
      Checks(store, TailOf(store, xs) = Nil, "wrong-type",
        Allocates(store, VectorCons(Elements(store, xs)))))

LVectorToList(store, v) ==
    LET data == store[v.n].data
        n == Len(store)
        cell(i) == ConsObject(data[i], IF i = Len(data) THEN Nil ELSE Ref("cons", n + i + 1))
    IN  Gives(store \o [i \in 1 .. Len(data) |-> cell(i)],
              IF data = << >> THEN Nil ELSE Ref("cons", n + 1))
-----------------------------------------------------------------------------
(* Structures: slots and a layout, a list of a name and the slots' layout. *)
SlotLayout(store, layout) == CarOf(store, CdrOf(store, layout))

ValidLayout(store, slots, layout) ==
    /\ Len(Conses(store, layout)) = 2
    /\ LET slotLayout == SlotLayout(store, layout)
           each == Elements(store, slotLayout)
       IN  /\ ObjectLength(store, slotLayout) = slots
           /\ \A i \in DOMAIN each : ConsP(each[i]) /\ IsA(CarOf(store, each[i]), "symbol")

StructureObject(data, layout) == Object("structure", data, 0, layout)

(* Both the layout and the slots' layout are counted.                      *)
LStructureCons(store, slots, layout) ==
    Checks(store, IsA(slots, "vector"), "wrong-type",
      Checks(store, ConsP(layout), "wrong-type",
        Counting(store, layout,
          Counting(store, IF Len(Conses(store, layout)) = 2 THEN SlotLayout(store, layout) ELSE Nil,
            Checks(store, ValidLayout(store, Len(store[slots.n].data), layout), "arg-out-of-range",
              Allocates(store, StructureObject(store[slots.n].data, layout)))))))

LCopyStructure(store, st) ==
    Allocates(store, StructureObject(store[st.n].data, store[st.n].layout))

LStructureP(store, v, expected) ==
    Gives(store, Truth(IsA(v, "structure") /\ expected \in {Nil, store[v.n].layout}))

LStructureRef(store, st, i) ==
    Checks(store, FixnumP(i), "wrong-type",
      Checks(store, InBounds(i, Len(store[st.n].data)), "index-out-of-bounds",
        Gives(store, store[st.n].data[i.n + 1])))

LStructureSet(store, st, i, x) ==
    Checks(store, FixnumP(i), "wrong-type",
      Checks(store, InBounds(i, Len(store[st.n].data)), "index-out-of-bounds",
        Gives([store EXCEPT ![st.n].data[i.n + 1] = x], st)))
=============================================================================
