---------------------------- MODULE MCPrimitives ----------------------------
(***************************************************************************)
(* Small programs for TLC: each calls a group of primitives on all the     *)
(* arguments of a small word, or on small objects.                         *)
(***************************************************************************)
EXTENDS Primitives

MCTrimChars == {1}
MCUpperOf == [c \in {3} |-> 2]

Program(calls, roots, starts) ==
    [calls |-> calls, roots |-> roots, starts |-> starts, xs |-> {}, ys |-> {}, radixes |-> {},
     numerals |-> {}, widths |-> {}, junk |-> 3, most |-> 0, keeps |-> FALSE]

AllFixnums == {Fixnum(n) : n \in Fixnums}
SomeFixnums == {Fixnum(n) : n \in {FixnumMin, -1, 0, 1, FixnumMax}}
SomeFlonums == {Flonum(h) : h \in -5 .. 5}
Mixed == {Fixnum(-2), Fixnum(0), Fixnum(10), Fixnum(29), Flonum(-1), Flonum(3), Char(1), Char(2), Nil}
Texts(chars, n) == UNION {[1 .. m -> chars] : m \in 0 .. n}

Binary == {"+", "-", "*", "quotient", "remainder", "modulo", "and", "or", "xor", "shl", "shr", "ashr"}
Unary == {"not", "exact->inexact", "inexact->exact", "magnitude", "floor", "ceiling", "round", "truncate",
          "integer->char", "char->integer"}
Orders == {"=", ">=", ">", "<=", "<"}

Calculator(calls, xs, ys) == [Program(calls, 0, {<< >>}) EXCEPT !.xs = xs, !.ys = ys]
AllPairs == Calculator(Binary, AllFixnums, AllFixnums)
MixedPairs == Calculator(Binary, Mixed \cup SomeFlonums, Mixed \cup SomeFlonums)
AllNumbers == Calculator(Unary \cup {"random"}, AllFixnums, {Nil})
MixedNumbers == Calculator(Unary, SomeFlonums \cup Mixed \cup {Flonum(2 * FixnumMax + 2)}, {Nil})
Triples == Calculator(Orders, SomeFixnums \cup Mixed, SomeFixnums \cup Mixed)

Formatter ==
    [Program({"number->string", "binary"}, 0, {<< >>}) EXCEPT
       !.xs = AllFixnums, !.radixes = {2, 8, 10, 16}, !.widths = 1 .. WordBytes]

Parser ==
    [Program({"string->number"}, 0, {<< >>}) EXCEPT
       !.radixes = {1, 2, 8, 10, 16, 37},
       !.numerals = {Numeral(b, s, d) : b \in {0, 1}, s \in {"", "-", "+"}, d \in Texts({0, 1, 7, 12}, 3)}]

Str(text) == StrCons(text, 3)
VectorOf(set) == VectorCons([i \in 1 .. CharMax |-> Truth(i - 1 \in set)])
Indices == {Nil} \cup {Fixnum(n) : n \in -1 .. 5}

Searcher ==
    [Program({"string-search", "string-search-from-right", "strcmp", "stricmp"}, 2,
             {<<Str(text), Str(tok)>> : text \in Texts({2, 3}, 5), tok \in Texts({2, 3}, 3)}) EXCEPT
       !.xs = {Char(3)}, !.ys = Indices]

Trimmer ==
    [Program({"string-trim", "strcmp", "string-first-character", "string-first-substring"}, 3,
             {<<Str(text), Str(tok), VectorOf({2, 3})>> :
                text \in Texts({0, 1, 3}, 3), tok \in {<< >>, <<-1>>, <<3, 1>>, <<2, 0, 3>>, <<1, 2, 3, 7>>}})
       EXCEPT !.ys = Indices \cup {Flonum(3)}]

(* Strings made and changed in every order.                                *)
Editor ==
    [Program({"string-ref", "string-set!", "write-strings", "string-copy", "string-append", "substring",
              "string-upcase", "string-downcase", "string-upcase!", "string-downcase!", "length",
              "string-first-character"}, 3, {<<Str(<< >>), Str(<<3>>), VectorOf({3})>>}) EXCEPT
       !.xs = {Fixnum(n) : n \in -1 .. 2} \cup {Char(2), Symbol(2)}, !.ys = {Nil, Char(2), Fixnum(1), Fixnum(-3)},
       !.most = 2, !.keeps = TRUE]

VectorUser ==
    [Program({"vector-ref", "vector-set!", "vector-fill!", "make-vector", "vector", "vector-resize",
              "vector-copy", "vector->list", "length"}, 2, {<<VectorCons(<<Fixnum(1)>>), Str(<<2>>)>>}) EXCEPT
       !.xs = {Fixnum(n) : n \in -1 .. 3} \cup {Flonum(1), Nil}, !.ys = {Nil, Fixnum(1), Ref("string", 2)},
       !.most = 3, !.keeps = TRUE]

(* A list of two conses, whose parts the program replaces.                 *)
Lister ==
    [Program({"car", "cdr", "list->vector", "cons", "set-car!", "set-cdr!", "length"}, 3,
             {<<ConsObject(Fixnum(1), Ref("cons", 2)), ConsObject(Fixnum(2), Nil), VectorCons(<<Nil>>)>>}) EXCEPT
       !.ys = {Nil, Fixnum(1)}]

(* A layout (name (slot...)) for as many slots as the vector has, one more *)
(* or one that is no slot; or a circular one.                              *)
Layout(slot, last) ==
    <<VectorCons(<<Fixnum(1)>>),
      ConsObject(Symbol(1), Ref("cons", 3)), ConsObject(Ref("cons", 4), Nil),
      ConsObject(slot, last), ConsObject(Symbol(2), Nil), ConsObject(Ref("cons", 5), Nil),
      StructureObject(<<Fixnum(1)>>, Ref("cons", 2))>>

Structurer ==
    [Program({"%structurecons", "%copy-structure", "%structure?", "%structure-ref", "%structure-set!"}, 7,
             {Layout(slot, last) : slot \in {Ref("cons", 5), Fixnum(1), Ref("cons", 6)},
                                   last \in {Nil, Ref("cons", 4), Ref("cons", 6)}}) EXCEPT
       !.xs = {Fixnum(n) : n \in -1 .. 1} \cup {Nil}, !.ys = {Nil, Fixnum(2)}]

MCPrograms ==
    <<AllPairs, MixedPairs, AllNumbers, MixedNumbers, Triples, Formatter, Parser,
      Searcher, Trimmer, Editor, VectorUser, Lister, Structurer>>
=============================================================================
