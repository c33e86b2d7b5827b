------------------------------- MODULE MCFasl -------------------------------
(* Instances of Fasl for TLC: the graphs of objects that are written, and  *)
(* the operations that write them.                                         *)
EXTENDS Fasl

(* Objects 1 to 3 are chosen; the others are the same in every graph: the  *)
(* two symbols defined, a thunk that answers object 1, the name of the     *)
(* load unit.                                                              *)
SymA == Ref(4)
SymB == Ref(5)
Thunk == Ref(6)
UnitName == Ref(8)

Fixed == <<Node("symbol", "a", <<Named("package", "p")>>), Node("symbol", "b", <<Named("package", "p")>>),
           Node("closure", 0, <<Nil, Ref(7), Nil>>), Cons(Ref(1), Nil),
           Node("string", "file", << >>)>>

Choices == {Nil, Ref(1), Ref(2), SymA}

ConsNodes(V) == {Cons(v, w) : v \in V, w \in V}

VectorNodes(V) == {Node("vector", 0, <<v>>) : v \in V}

CodeNodes(V) == {Node("closure", 0, <<e, c, Nil>>) : e \in V, c \in V}
             \cup {Node("macro", 0, <<v>>) : v \in V}
             \cup {Node("fast-op", 7, <<v, n>>) : v \in V, n \in V}

OtherNodes(V) == {Node("hash", "true", << >>), Node("vector", 0, << >>),
              Node("string", "s", << >>), Node("symbol", "u", <<Nil>>),
              Node("vector", 0, <<<<"false">>, <<"character", "c">>, <<"flonum", 1>>>>)}
             \cup {Node("hash", "false", <<v, w>>) : v \in {SymA}, w \in V}
             \cup {Node("structure", l, <<v>>) : l \in {1, 2}, v \in V}

(* What the compiler and the evaluator make: environments, code and        *)
(* property lists are lists, macros have closures.                         *)
Proper(g) ==
    \A i \in DOMAIN g :
       LET kind(j) == LET v == g[i].parts[j]
                      IN  IF IsObject(v) THEN g[v[2]].kind ELSE v[1]
       IN  /\ g[i].kind = "closure" => \A j \in 1 .. 3 : kind(j) \in {"nil", "cons"}
           /\ g[i].kind = "macro" => kind(1) = "closure"
           /\ g[i].kind = "fast-op" => kind(2) \in {"nil", "fast-op"}

GraphsOf(M, N) ==
    {g \in {<<a, b, Node("string", "s", << >>)>> \o Fixed : a \in M, b \in N} : Proper(g)}

DefineTo(op, s, v) == <<<<op>>, Write(s), Write(v)>>

InUnit(body) ==
    <<<<"BEGIN">>, Write(UnitName), <<"APPLY0">>, Write(Named("subr", "get")), <<"PUSH">>>>
      \o body \o
    <<<<"APPLYN">>, Write(Named("subr", "set")), Write(Fix(1)), <<"END">>, Write(UnitName)>>

Image(g, ops, tools, cuts) == [graph |-> g, ops |-> ops, tools |-> tools, cuts |-> cuts]

(* fast-write of one object.                                               *)
Single(v) == <<Write(v)>>

Pair == <<<<"RESET">>>> \o DefineTo("DEFINEQ", SymA, Ref(1)) \o DefineTo("DEFINEQ", SymB, Ref(2))

(* A file with another included, each in its load unit.                    *)
File ==
    <<<<"RESET">>>> \o InUnit(DefineTo("DEFINEA0", SymA, Thunk)
       \o <<<<"APPLY0">>, Write(Named("subr", "in-user"))>>
       \o InUnit(<<<<"APPLY0">>, Write(Named("subr", "in-user"))>>)
       \o DefineTo("DEFINEQ", SymB, Ref(2)))

(* Operations that the loader has no room or no use for, and some more.    *)
Odd ==
    {InUnit(InUnit(InUnit(<< >>))),
     <<<<"PUSH">>, <<"NOP">>, <<"DROP">>, <<"COMMENT">>, <<"DROP">>>>,
     <<<<"APPLYN">>, Write(Named("subr", "set")), Write(Fix(1))>>}

Nodes == ConsNodes(Choices) \cup VectorNodes(Choices) \cup CodeNodes(Choices)
           \cup OtherNodes(Choices)

Inner == {Node("vector", 0, <<Ref(1)>>), Cons(Ref(1), Nil), Node("fast-op", 7, <<Nil, Nil>>)}

(* Closures for a macro, free of the macro and in a cycle with it.         *)
Transformers == {Node("closure", 0, <<Nil, Nil, Nil>>), Node("closure", 0, <<Nil, Ref(7), Nil>>)}

(* A closure whose code holds a macro made of the closure.                 *)
MacroInCycle ==
    <<Node("closure", 0, <<Nil, Ref(2), Nil>>), Cons(Ref(3), Nil), Node("macro", 0, <<Ref(1)>>)>>

Knots == ConsNodes({Ref(1), Ref(2), Ref(3)})

MCImages ==
    {Image(g, Pair, {"load", "dump"}, FALSE) : g \in GraphsOf(Nodes, Nodes)}
    \cup {Image(g, File, {"load", "dump"}, TRUE) :
            g \in GraphsOf(VectorNodes({Ref(2)}) \cup CodeNodes({Nil, Ref(2)})
                             \cup ConsNodes({Ref(2), Nil}), Inner)}
    \cup {Image(g, File, {"load", "dump"}, TRUE) :
            g \in GraphsOf({Node("macro", 0, <<Ref(2)>>)}, Transformers)}
    \cup {Image(MacroInCycle \o Fixed, Single(Ref(1)), {"read"}, FALSE)}
    \cup {Image(Repeat(3, Cons(Nil, Nil)) \o Fixed, ops, {"load", "read"}, FALSE) : ops \in Odd}
    \cup {Image(<<a, b, c>> \o Fixed, Single(Ref(1)), {"read"}, FALSE) :
            a \in Knots, b \in Knots \cup VectorNodes({Ref(1), Ref(3)}),
            c \in ConsNodes({Ref(1), Nil, Ref(2)})}
=============================================================================
