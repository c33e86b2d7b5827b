----------------------------- MODULE FaslLoader -----------------------------
(***************************************************************************)
(* The fast loader (vm/fasl.c).  The recursion of fast_read is the         *)
(* sequence frames: a frame is an opcode whose components are being read,  *)
(* with those read so far (got), and with the place of its object in mem,  *)
(* or, for a definition, the state of the table it will be stored in (at). *)
(* The value that the innermost fast_read has answered is in ret.          *)
(***************************************************************************)
EXTENDS FaslWriter

(* What each component of an object may be, when its length n is known.    *)
Object ==
    {"nil", "true", "false", "fixnum", "character", "flonum", "cons", "string",
     "package", "subr", "symbol", "vector", "structure", "hash", "closure", "macro",
     "fast-op"}

Any == Object \cup {"eof"}

(* Mutant: the end of the file is an element like any other.               *)
ListAtEof(n, dotted) == <<{"fixnum"}>> \o Repeat(IF dotted THEN n + 1 ELSE n, Any)

List(n, dotted) == <<{"fixnum"}>> \o Repeat(IF dotted THEN n + 1 ELSE n, Object)

String == <<{"fixnum"}>>

Package == <<{"string"}>>

Symbol == <<{"string"}, {"package", "nil", "false"}>>

SubrName == <<{"string"}>>

Vector(n) == <<{"fixnum"}>> \o Repeat(n, Object)

(* The trap handler that resolves a layout refuses anything but a list.    *)
StructureLayout == <<{"cons"}>>

FastOp(arity, hasNext) ==
    <<{"fixnum"}>> \o Repeat(IF hasNext THEN arity + 1 ELSE arity, Any)

Structure(n) == <<{"cons"}, {"fixnum"}>> \o Repeat(n, Object)

Hash == <<Any, {"nil", "cons"}>>

Closure == Repeat(3, {"nil", "cons"})

Macro == <<{"closure"}>>

TableIndex == {"fixnum"}

LoaderDefinition == <<{"symbol"}, Any>>

LoaderApplication(n) == <<{"subr", "closure"}>> \o Repeat(n, {"fixnum"})

Shape(op, n) ==
    CASE op[1] = "LIST"       -> List(n, FALSE)
      [] op[1] = "LISTD"      -> List(n, TRUE)
      [] op[1] = "STRING"     -> String
      [] op[1] = "PACKAGE"    -> Package
      [] op[1] = "SYMBOL"     -> Symbol
      [] op[1] = "SUBR"       -> SubrName
      [] op[1] = "VECTOR"     -> Vector(n)
      [] op[1] = "LAYOUT"     -> StructureLayout
      [] op[1] = "FOP"        -> FastOp(op[2], op[3])
      [] op[1] = "STRUCTURE"  -> Structure(n)
      [] op[1] = "HASH"       -> Hash
      [] op[1] = "CLOSURE"    -> Closure
      [] op[1] = "MACRO"      -> Macro
      [] op[1] = "DEFINITION" -> <<TableIndex, Any>>
      [] op[1] = "REFERENCE"  -> <<TableIndex>>
      [] op[1] \in {"DEFINEQ", "DEFINEA0"} -> LoaderDefinition
      [] op[1] = "APPLY0"     -> LoaderApplication(0)
      [] op[1] = "APPLYN"     -> LoaderApplication(1)
      [] op[1] \in {"BEGIN", "END"} -> <<Any>>

LoaderOps == {"DEFINEQ", "DEFINEA0", "APPLY0", "APPLYN", "BEGIN", "END"}

(* The opcodes with components.                                            *)
Composite ==
    {"LIST", "LISTD", "STRING", "PACKAGE", "SYMBOL", "SUBR", "VECTOR", "LAYOUT", "FOP",
     "STRUCTURE", "HASH", "CLOSURE", "MACRO", "DEFINITION", "REFERENCE"} \cup LoaderOps

(* The opcodes that are values by themselves.                              *)
Leaves == {"NIL", "TRUE", "FALSE", "FIX", "CHARACTER", "FLOAT", "EOF"}

Leaf(t) ==
    CASE t[1] = "NIL"       -> Nil
      [] t[1] = "TRUE"      -> <<"true">>
      [] t[1] = "FALSE"     -> <<"false">>
      [] t[1] = "FIX"       -> Fix(t[2])
      [] t[1] = "CHARACTER" -> <<"character", t[2]>>
      [] t[1] = "FLOAT"     -> <<"flonum", t[2]>>
      [] t[1] = "EOF"       -> Eof

(* fast_read_opcode                                                        *)
Token == IF pos < cut THEN file[pos + 1] ELSE <<"EOF">>

Advance == pos' = IF pos < cut THEN pos + 1 ELSE pos

-----------------------------------------------------------------------------
(* Reading an opcode                                                       *)

Top == frames[Len(frames)]

Parent == frames[Len(frames) - 1]

Popped == SubSeq(frames, 1, Len(frames) - 1)

Loading == status = "reading" /\ tool \in {"load", "read"}

ReadsOpcode == Loading /\ ret = << >>

(* vmerror_fast_read, or an assertion: the load ends.                      *)
Fail(how) ==
    /\ status' = how
    /\ ret' = << >>
    /\ UNCHANGED <<given, mem, writer, cut, pos, frames, table, growths, accum, stack,
                   interned, globals, package>>

(* Only the top level, and what it reads directly in a definition or for   *)
(* the name of a load unit, may hold loader operations.                    *)
AllowLoaderOps ==
    /\ tool = "load"
    /\ \A i \in DOMAIN frames :
          \/ frames[i].op[1] \in {"BEGIN", "END"}
          \/ frames[i].op[1] = "DEFINITION" /\ Len(frames[i].got) = 1

ReadOpcode ==
    /\ ReadsOpcode
    /\ Token[1] \in Leaves \cup Composite
    /\ Token[1] \in LoaderOps => AllowLoaderOps
    /\ Advance
    /\ IF Token[1] \in Leaves
         THEN ret' = <<Leaf(Token)>> /\ UNCHANGED frames
         ELSE /\ frames' = Append(frames, [op |-> Token, got |-> << >>, at |-> 0])
              /\ UNCHANGED ret
    /\ UNCHANGED <<given, mem, writer, cut, table, growths, accum, stack, interned,
                   globals, package, status>>

RefuseOpcode ==
    /\ ReadsOpcode
    /\ Token[1] \in LoaderOps
    /\ ~ AllowLoaderOps
    /\ Fail("error")

(* Opcodes that answer nothing: the next one is read in their place.       *)
SkipOpcode ==
    /\ ReadsOpcode
    /\ Token[1] \in {"NOP", "COMMENT", "RESET"}
    /\ Advance
    /\ table' = IF Token[1] = "RESET" THEN << >> ELSE table
    /\ UNCHANGED <<given, mem, writer, cut, frames, ret, growths, accum, stack, interned,
                   globals, package, status>>

(* fast_loader_stack_pop, n times.                                         *)
Pop(n) == SubSeq(stack, 1, Len(stack) - n)

PushOrDrop ==
    /\ ReadsOpcode
    /\ Token[1] \in {"PUSH", "DROP"}
    /\ IF IF Token[1] = "PUSH" THEN Len(stack) = StackDepth - 1 ELSE stack = << >>
         THEN Fail("error")
         ELSE /\ Advance
              /\ stack' = IF Token[1] = "PUSH" THEN Append(stack, accum) ELSE Pop(1)
              /\ ret' = <<Nil>>
              /\ UNCHANGED <<given, mem, writer, cut, frames, table, growths, accum,
                             interned, globals, package, status>>

-----------------------------------------------------------------------------
(* Taking a component                                                      *)

(* The length of an object, or 0 before it is read.                        *)
LengthIn(op, got) ==
    LET i == IF op[1] = "STRUCTURE" THEN 2 ELSE 1
    IN  IF op[1] \in {"LIST", "LISTD", "VECTOR", "STRUCTURE"} /\ Len(got) >= i
          THEN got[i][2] ELSE 0

Got == Append(Top.got, ret[1])

Wanted(got) == Shape(Top.op, LengthIn(Top.op, got))

HasComponent == Loading /\ ret # << >> /\ frames # << >>

Fits == Kind(ret[1]) \in Wanted(Top.got)[Len(Got)]

Takes(ops) == HasComponent /\ Top.op[1] \in ops /\ Fits

Complete == Len(Got) = Len(Wanted(Got))

Answer(v) == ret' = <<v>> /\ frames' = Popped

AwaitNext(at) ==
    /\ ret' = << >>
    /\ frames' = Append(Popped, [op |-> Top.op, got |-> Got, at |-> at])

(* fast_read_macro gives vmerror_fast_read the transformer in place of the *)
(* reader, whose assertion ends the process.                               *)
WrongComponent ==
    HasComponent /\ ~ Fits /\ Fail(IF Top.op[1] = "MACRO" THEN "abort" ELSE "error")

(* Mutant: a definition has its object when the object is complete.        *)
UpdateLate(v) == table

(* The definition that the object belongs to has it as soon as it is made, *)
(* through the reference retval: see the comment at fasl.c:94.             *)
Update(v) ==
    IF Len(frames) > 1 /\ Parent.op[1] = "DEFINITION" /\ Parent.at = growths
      THEN [table EXCEPT ![Parent.got[1][2]] = v]
      ELSE table

(* The objects that are made before their elements are read, and the       *)
(* components read before that.                                            *)
Header == [LIST |-> 1, LISTD |-> 1, VECTOR |-> 1, HASH |-> 1, STRUCTURE |-> 2]

(* The cells of a list are made one by one, but nothing looks at them      *)
(* before their elements are there.                                        *)
NewObjects ==
    LET n == LengthIn(Top.op, Got)
    IN  CASE Top.op[1] \in {"LIST", "LISTD"} ->
               [i \in 1 .. n |-> Cons(Nil, IF i < n THEN Ref(Len(mem) + i + 1) ELSE Nil)]
          [] Top.op[1] = "VECTOR"    -> <<Node("vector", 0, Repeat(n, Nil))>>
          [] Top.op[1] = "STRUCTURE" -> <<Node("structure", Got[1][2], Repeat(n, Nil))>>
          [] Top.op[1] = "HASH"      -> <<Node("hash", ret[1][1], << >>)>>

Begin ==
    /\ Takes(DOMAIN Header)
    /\ IF Len(Got) < Header[Top.op[1]]
         THEN AwaitNext(0) /\ UNCHANGED <<mem, table>>
         ELSE /\ Len(Got) = Header[Top.op[1]]
              /\ mem' = mem \o NewObjects
              /\ LET v == IF NewObjects = << >> THEN Nil ELSE Ref(Len(mem) + 1)
                 IN  /\ table' = Update(v)
                     /\ IF Complete THEN Answer(v) ELSE AwaitNext(Len(mem) + 1)
    /\ UNCHANGED <<given, writer, cut, pos, growths, accum, stack, interned, globals,
                   package, status>>

(* Where a component goes: an element, or the last cdr of a list.          *)
Slot ==
    LET i == Len(Got) - Header[Top.op[1]]
        n == LengthIn(Top.op, Got)
    IN  CASE Top.op[1] \in {"VECTOR", "STRUCTURE"}    -> <<Top.at, i>>
          [] Top.op[1] \in {"LIST", "LISTD"} /\ i <= n -> <<Top.at + i - 1, 1>>
          [] Top.op[1] = "LISTD" /\ i > n              -> <<Top.at + n - 1, 2>>

(* The entries of a hash table are set when their list is complete.        *)
Entries ==
    LET from[v \in {Nil} \cup {Ref(i) : i \in DOMAIN mem}] ==
          IF v = Nil THEN << >> ELSE Parts(Parts(v)[1]) \o from[Parts(v)[2]]
    IN  from[ret[1]]

Fill ==
    /\ Takes(DOMAIN Header)
    /\ Len(Got) > Header[Top.op[1]]
    /\ mem' = IF Top.op[1] = "HASH"
                THEN [mem EXCEPT ![Top.at].parts = Entries]
                ELSE [mem EXCEPT ![Slot[1]].parts[Slot[2]] = ret[1]]
    /\ IF Complete THEN Answer(Ref(Top.at)) ELSE AwaitNext(Top.at)
    /\ UNCHANGED <<given, writer, cut, pos, table, growths, accum, stack, interned,
                   globals, package, status>>

(* The objects that are made of their components.                          *)
Made ==
    CASE Top.op[1] = "CLOSURE" -> Node("closure", 0, Got)
      [] Top.op[1] = "MACRO"   -> Node("macro", 0, Got)
      [] Top.op[1] = "FOP"     ->
           Node("fast-op", Got[1][2],
                IF Top.op[3] THEN Tail(Got) ELSE Append(Tail(Got), Nil))

Make ==
    /\ Takes({"CLOSURE", "MACRO", "FOP"})
    /\ IF Complete
         THEN mem' = Append(mem, Made) /\ Answer(Ref(Len(mem) + 1))
         ELSE AwaitNext(0) /\ UNCHANGED mem
    /\ UNCHANGED <<given, writer, cut, pos, table, growths, accum, stack, interned,
                   globals, package, status>>

MakeString ==
    /\ Takes({"STRING"})
    /\ IF Token[1] # "DATA"
         THEN Fail("error")
         ELSE /\ Advance
              /\ mem' = Append(mem, Node("string", Token[2], << >>))
              /\ Answer(Ref(Len(mem) + 1))
              /\ UNCHANGED <<given, writer, cut, table, growths, accum, stack, interned,
                             globals, package, status>>

(* The image loaded into has the packages, subrs and structure types of    *)
(* the image written from.                                                 *)
Find ==
    /\ Takes({"PACKAGE", "SUBR", "LAYOUT"})
    /\ Answer(CASE Top.op[1] = "PACKAGE" -> Named("package", Data(ret[1]))
                [] Top.op[1] = "SUBR"    -> Named("subr", Data(ret[1]))
                [] Top.op[1] = "LAYOUT"  -> Named("layout", Parts(ret[1])[1][2]))
    /\ UNCHANGED <<given, mem, writer, cut, pos, table, growths, accum, stack, interned,
                   globals, package, status>>

(* symcons for a symbol without a home, simple_intern for the others.      *)
MakeSymbol ==
    /\ Takes({"SYMBOL"})
    /\ IF ~ Complete
         THEN AwaitNext(0) /\ UNCHANGED <<mem, interned>>
         ELSE LET home == IF Kind(Got[2]) = "package" THEN Got[2] ELSE Nil
                  symbol == Node("symbol", Data(Got[1]), <<home>>)
                  known == {i \in interned : mem[i] = symbol}
              IN  IF known # {}
                    THEN /\ Answer(Ref(CHOOSE i \in known : TRUE))
                         /\ UNCHANGED <<mem, interned>>
                    ELSE /\ mem' = Append(mem, symbol)
                         /\ Answer(Ref(Len(mem) + 1))
                         /\ interned' = interned \cup
                              (IF home = Nil THEN {} ELSE {Len(mem) + 1})
    /\ UNCHANGED <<given, writer, cut, pos, table, growths, accum, stack, globals,
                   package, status>>

-----------------------------------------------------------------------------
(* Reader definitions                                                      *)

Resized(n) == [j \in 0 .. n - 1 |-> IF j \in DOMAIN table THEN table[j] ELSE Nil]

(* Mutant: the table grows one entry too early.                            *)
EnsureEarly(i) ==
    LET old == Cardinality(DOMAIN table)
    IN  CASE old > 0 /\ i < old - 1                     -> table
          [] old > 0 /\ i >= old - 1 /\ i < 2 * old     -> Resized(2 * old)
          [] old = 0 /\ i < TableSize                   -> Resized(TableSize)
          [] i >= TableSize /\ i >= 2 * old             -> Resized(i + TableSize)

(* fasl_ensure_valid_table_index                                           *)
Ensure(i) ==
    LET old == Cardinality(DOMAIN table)
    IN  CASE old > 0 /\ i < old                     -> table
          [] old > 0 /\ i >= old /\ i < 2 * old     -> Resized(2 * old)
          [] old = 0 /\ i < TableSize               -> Resized(TableSize)
          [] i >= TableSize /\ i >= 2 * old         -> Resized(i + TableSize)

TableIndexRead ==
    /\ table' = Ensure(ret[1][2])
    /\ growths' = IF Ensure(ret[1][2]) = table THEN growths ELSE growths + 1

(* The entry of a definition is where its object goes, and is cleared.     *)
BeginReaderDefinition ==
    /\ Takes({"DEFINITION"})
    /\ Top.got = << >>
    /\ table' = [Ensure(ret[1][2]) EXCEPT ![ret[1][2]] = Nil]
    /\ growths' = IF Ensure(ret[1][2]) = table THEN growths ELSE growths + 1
    /\ AwaitNext(growths')
    /\ UNCHANGED <<given, mem, writer, cut, pos, accum, stack, interned, globals, package,
                   status>>

(* fast_read asserts that the entry has not moved.                         *)
EndReaderDefinition ==
    /\ Takes({"DEFINITION"})
    /\ Top.got # << >>
    /\ IF Top.at # growths
         THEN Fail("abort")
         ELSE /\ table' = [table EXCEPT ![Top.got[1][2]] = ret[1]]
              /\ Answer(ret[1])
              /\ UNCHANGED <<given, mem, writer, cut, pos, growths, accum, stack, interned,
                             globals, package, status>>

ReaderReference ==
    /\ Takes({"REFERENCE"})
    /\ TableIndexRead
    /\ Answer(table'[ret[1][2]])
    /\ UNCHANGED <<given, mem, writer, cut, pos, accum, stack, interned, globals, package,
                   status>>

-----------------------------------------------------------------------------
(* Loader operations                                                       *)

(* (external) A call of a thunk that the compiler made answers the literal *)
(* that is its code; the functions of load units get and set *package*,    *)
(* and in-package sets it.                                                 *)
Call(fn, args) ==
    CASE fn = Named("subr", "get") -> [value |-> package, package |-> package]
      [] fn = Named("subr", "set") -> [value |-> args[1], package |-> args[1]]
      [] fn = Named("subr", "in-user") ->
           [value |-> Nil, package |-> Named("package", "user")]
      [] fn[1] = "object" -> [value |-> Parts(Parts(fn)[2])[1], package |-> package]

(* A definition answers nothing: the next opcode is read in its place.     *)
Define ==
    /\ Takes({"DEFINEQ", "DEFINEA0"})
    /\ IF ~ Complete THEN AwaitNext(0) /\ UNCHANGED globals
       ELSE /\ Top.op[1] = "DEFINEA0" => Kind(ret[1]) = "closure"
            /\ globals' = [globals EXCEPT ![Data(Got[1])] =
                             IF Top.op[1] = "DEFINEQ" THEN ret[1]
                             ELSE Call(ret[1], << >>).value]
            /\ ret' = << >>
            /\ frames' = Popped
    /\ UNCHANGED <<given, mem, writer, cut, pos, table, growths, accum, stack, interned,
                   package, status>>

(* apply1 of what cannot be called.                                        *)
DefineFails ==
    /\ Takes({"DEFINEA0"})
    /\ Complete
    /\ Kind(ret[1]) # "closure"
    /\ Fail("error")

Apply ==
    /\ Takes({"APPLY0", "APPLYN"})
    /\ IF ~ Complete THEN AwaitNext(0) /\ UNCHANGED <<accum, stack, package>>
       ELSE LET argc == IF Top.op[1] = "APPLYN" THEN ret[1][2] ELSE 0
                call == Call(Got[1], [i \in 1 .. argc |-> stack[Len(stack) + 1 - i]])
            IN  /\ argc <= Len(stack)
                /\ accum' = call.value
                /\ package' = call.package
                /\ stack' = Pop(argc)
                /\ Answer(Nil)
    /\ UNCHANGED <<given, mem, writer, cut, pos, table, growths, interned, globals, status>>

ApplyUnderflow ==
    /\ Takes({"APPLYN"})
    /\ Complete
    /\ ret[1][2] > Len(stack)
    /\ Fail("error")

(* The name of a load unit is passed over.                                 *)
LoadUnit ==
    /\ Takes({"BEGIN", "END"})
    /\ Answer(Nil)
    /\ UNCHANGED <<given, mem, writer, cut, pos, table, growths, accum, stack, interned,
                   globals, package, status>>

(* lfast_read answers one object; liifasl_load goes on to the end.         *)
ReturnToTop ==
    /\ Loading /\ ret # << >> /\ frames = << >>
    /\ ret' = << >>
    /\ status' = IF tool = "read" \/ ret[1] = Eof THEN "done" ELSE status
    /\ globals' = IF tool = "read" THEN [globals EXCEPT !["read"] = ret[1]] ELSE globals
    /\ UNCHANGED <<given, mem, writer, cut, pos, frames, table, growths, accum, stack,
                   interned, package>>

Loads ==
    \/ ReadOpcode \/ RefuseOpcode \/ SkipOpcode \/ PushOrDrop
    \/ WrongComponent \/ Begin \/ Fill \/ Make \/ MakeString \/ Find \/ MakeSymbol
    \/ BeginReaderDefinition \/ EndReaderDefinition \/ ReaderReference
    \/ Define \/ DefineFails \/ Apply \/ ApplyUnderflow \/ LoadUnit
    \/ ReturnToTop
=============================================================================
