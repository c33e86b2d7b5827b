----------------------------- MODULE FaslWriter -----------------------------
(***************************************************************************)
(* Writing objects so that shared and circular structure survives          *)
(* (scheme-core/fast-write.scm, fasl-stream.scm).  What is met more than   *)
(* once on a walk over the objects is written at its first occurrence,     *)
(* with an index, and referred to by its index afterwards.  The recursion  *)
(* of fast-write-object is the sequence todo.                              *)
(***************************************************************************)
EXTENDS FaslObjects

(* The objects given to fasl-write and fasl-write-op.                      *)
Roots == SelectSeq(image.ops, LAMBDA t : t[1] = "write")

Reachable ==
    LET grow[n \in Nat] ==
          IF n = 0 THEN {Roots[i][2] : i \in DOMAIN Roots}
          ELSE LET R == grow[n - 1] IN R \cup UNION {Values(Parts(v)) : v \in R}
    IN  grow[Len(image.graph) + 1]

(* How often find-shared-structures meets v: it enters each object once.   *)
Meetings(v) ==
    Cardinality({i \in DOMAIN Roots : Roots[i][2] = v}) +
    Cardinality(UNION {{<<w, i>> : i \in {j \in DOMAIN Parts(w) : Parts(w)[j] = v}}
                         : w \in Reachable})

NoIndex == -1

(* commit-fasl-writes looks for what is shared before it writes.           *)
FindSharedStructures ==
    /\ status = "open"
    /\ status' = "writing"
    /\ index' = [v \in {w \in Reachable : ~ Immediate(w) /\ Meetings(w) > 1} |-> NoIndex]
    /\ UNCHANGED <<given, mem, todo, layouts, next, file, cut, pos, frames, ret, table,
                   growths, accum, stack, interned, globals, package>>

Shared(v) == v \in DOMAIN index

(* length-excluding-shared: the cells of a list, up to one that is shared. *)
CellsOf(v) ==
    LET from[i \in Nat] ==
          LET cdr == mem[i].parts[2]
          IN  IF Kind(cdr) = "cons" /\ ~ Shared(cdr) THEN <<i>> \o from[cdr[2]] ELSE <<i>>
    IN  from[v[2]]

Write(v) == <<"write", v>>

WriteAll(s) == [i \in DOMAIN s |-> Write(s[i])]

WriteList(v) ==
    LET cells == CellsOf(v)
        tail == mem[cells[Len(cells)]].parts[2]
    IN  <<<<IF tail = Nil THEN "LIST" ELSE "LISTD">>, <<"FIX", Len(cells)>>>>
          \o [i \in DOMAIN cells |-> Write(mem[cells[i]].parts[1])]
          \o (IF tail = Nil THEN << >> ELSE <<Write(tail)>>)

WriteString(s) == <<<<"STRING">>, <<"FIX", 1>>, <<"DATA", s>>>>

(* A fast-op's last part is the operation that follows it.                 *)
WriteFastOp(v) ==
    LET k == Len(Parts(v)) - 1
        hasNext == Parts(v)[k + 1] # Nil
    IN  <<<<"FOP", k, hasNext>>, <<"FIX", Data(v)>>>>
          \o WriteAll(IF hasNext THEN Parts(v) ELSE SubSeq(Parts(v), 1, k))

Counted(v) == <<"FIX", Len(Parts(v))>>

(* fast-write-object, except for hash tables.                              *)
WriteObject(v) ==
    CASE v[1] = "nil"       -> <<<<"NIL">>>>
      [] v[1] = "true"      -> <<<<"TRUE">>>>
      [] v[1] = "false"     -> <<<<"FALSE">>>>
      [] v[1] = "fixnum"    -> <<<<"FIX", v[2]>>>>
      [] v[1] = "character" -> <<<<"CHARACTER", v[2]>>>>
      [] v[1] = "flonum"    -> <<<<"FLOAT", v[2]>>>>
      [] v[1] = "package"   -> <<<<"PACKAGE">>>> \o WriteString(v[2])
      [] v[1] = "subr"      -> <<<<"SUBR">>>> \o WriteString(v[2])
      [] Kind(v) = "cons"      -> WriteList(v)
      [] Kind(v) = "string"    -> WriteString(Data(v))
      [] Kind(v) = "symbol"    -> <<<<"SYMBOL">>>> \o WriteString(Data(v)) \o WriteAll(Parts(v))
      [] Kind(v) = "vector"    -> <<<<"VECTOR">>, Counted(v)>> \o WriteAll(Parts(v))
      [] Kind(v) = "structure" ->
           <<<<"STRUCTURE">>, <<"layout", Data(v)>>, Counted(v)>> \o WriteAll(Parts(v))
      [] Kind(v) = "closure"   -> <<<<"CLOSURE">>>> \o WriteAll(Parts(v))
      [] Kind(v) = "macro"     -> <<<<"MACRO">>>> \o WriteAll(Parts(v))
      [] Kind(v) = "fast-op"   -> WriteFastOp(v)

(* hash->a-list makes a list, which is then written.                       *)
AList(p) ==
    LET n == Len(p) \div 2
        at == Len(mem)
    IN  [i \in 1 .. n |-> Cons(Ref(at + n + i), IF i < n THEN Ref(at + i + 1) ELSE Nil)]
          \o [i \in 1 .. n |-> Cons(p[2 * i - 1], p[2 * i])]

WriteHash(v) ==
    /\ mem' = mem \o AList(Parts(v))
    /\ todo' = <<<<"HASH">>, Write(<<Data(v)>>),
                 Write(IF Parts(v) = << >> THEN Nil ELSE Ref(Len(mem) + 1))>> \o Tail(todo)

WriteReference(i) ==
    /\ file' = file \o <<<<"REFERENCE">>, <<"FIX", i>>>>
    /\ todo' = Tail(todo)
    /\ UNCHANGED <<mem, next>>

(* Mutant: the index is not used up.                                       *)
BeginSameDefinition ==
    /\ file' = file \o <<<<"DEFINITION">>, <<"FIX", next>>>>
    /\ UNCHANGED next

BeginDefinition ==
    /\ file' = file \o <<<<"DEFINITION">>, <<"FIX", next>>>>
    /\ next' = next + 1

Writing == todo # << >> /\ status = "writing"

(* check-sharing-and-write                                                 *)
WriteNext ==
    /\ Writing
    /\ Head(todo)[1] = "write"
    /\ LET v == Head(todo)[2]
       IN  IF Shared(v) /\ index[v] # NoIndex
             THEN WriteReference(index[v]) /\ UNCHANGED index
             ELSE /\ IF Shared(v)
                       THEN BeginDefinition /\ index' = [index EXCEPT ![v] = next]
                       ELSE UNCHANGED <<index, next, file>>
                  /\ IF Kind(v) = "hash"
                       THEN WriteHash(v)
                       ELSE todo' = WriteObject(v) \o Tail(todo) /\ UNCHANGED mem
    /\ UNCHANGED <<given, layouts, reader>>

(* fast-write-structure-layout: a layout is written once, with an index.   *)
WriteLayout ==
    /\ Writing
    /\ Head(todo)[1] = "layout"
    /\ LET l == Head(todo)[2]
       IN  IF l \in DOMAIN layouts
             THEN WriteReference(layouts[l]) /\ UNCHANGED layouts
             ELSE /\ BeginDefinition
                  /\ layouts' = With(layouts, l, next)
                  /\ todo' = <<<<"LAYOUT">>, <<"LIST">>, <<"FIX", 1>>, <<"FIX", l>>>>
                               \o Tail(todo)
                  /\ UNCHANGED mem
    /\ UNCHANGED <<given, index, reader>>

WriteToken ==
    /\ Writing
    /\ Head(todo)[1] \notin {"write", "layout"}
    /\ file' = Append(file, Head(todo))
    /\ todo' = Tail(todo)
    /\ UNCHANGED <<given, mem, index, layouts, next, reader>>

(* The file is complete; or it is cut short, because the process that      *)
(* writes it ends or the disk is full.                                     *)
Close ==
    /\ todo = << >>
    /\ status = "writing"
    /\ status' = "reading"
    /\ cut' \in IF image.cuts THEN 0 .. Len(file) ELSE {Len(file)}
    /\ UNCHANGED <<given, mem, writer, pos, frames, ret, table, growths, accum, stack,
                   interned, globals, package>>

Writes == FindSharedStructures \/ WriteNext \/ WriteLayout \/ WriteToken \/ Close
=============================================================================
