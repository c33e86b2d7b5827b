----------------------------- MODULE FaslDumper -----------------------------
(***************************************************************************)
(* The dumper of fast-load files (vm/fasl-dump.c), a program of its own    *)
(* that prints what it reads.  It walks the same grammar as the loader; an *)
(* object's value is, for the object around it, the token it begins with,  *)
(* and table holds these for the definitions read so far                   *)
(* (g_reader_definition_ops and g_reader_definition_fixnums).              *)
(***************************************************************************)
EXTENDS FaslLoader

(* "unset" is the value of a definition that is still being read.          *)
Opcodes == (Leaves \ {"EOF"}) \cup Composite \cup {"RESET", "PUSH", "DROP", "unset"}

AnyOpcode == Opcodes \cup {"EOF"}

DumpList(n, dotted) == <<{"FIX"}>> \o Repeat(IF dotted THEN n + 1 ELSE n, Opcodes)

DumpString == <<{"FIX"}>>

DumpName == <<{"STRING"}>>

(* Mutant: every symbol has a home package.                                *)
DumpSymbolAtHome == <<{"STRING"}, {"PACKAGE"}>>

DumpSymbol == <<{"STRING"}, {"PACKAGE", "NIL", "FALSE"}>>

DumpVector(n) == <<{"FIX"}>> \o Repeat(n, Opcodes)

DumpHash == <<{"TRUE", "FALSE"}, {"NIL", "LIST", "LISTD"}>>

DumpClosure == Repeat(3, {"NIL", "LIST", "LISTD"})

DumpMacro == <<{"CLOSURE"}>>

DumpStructureLayout == <<{"LIST"}>>

DumpStructure(n) == <<{"LAYOUT"}, {"FIX"}>> \o Repeat(n, Opcodes)

DumpFastOp(arity, hasNext) ==
    <<{"FIX"}>> \o Repeat(IF hasNext THEN arity + 1 ELSE arity, AnyOpcode)

DumpTableIndex == {"FIX"}

DumpLoaderDefinition == <<{"SYMBOL"}, AnyOpcode>>

DumpLoaderApply(n) == <<{"CLOSURE", "SUBR"}>> \o Repeat(n, {"FIX"})

DumpShape(op, n) ==
    CASE op[1] = "LIST"       -> DumpList(n, FALSE)
      [] op[1] = "LISTD"      -> DumpList(n, TRUE)
      [] op[1] = "STRING"     -> DumpString
      [] op[1] \in {"PACKAGE", "SUBR"} -> DumpName
      [] op[1] = "SYMBOL"     -> DumpSymbol
      [] op[1] = "VECTOR"     -> DumpVector(n)
      [] op[1] = "LAYOUT"     -> DumpStructureLayout
      [] op[1] = "FOP"        -> DumpFastOp(op[2], op[3])
      [] op[1] = "STRUCTURE"  -> DumpStructure(n)
      [] op[1] = "HASH"       -> DumpHash
      [] op[1] = "CLOSURE"    -> DumpClosure
      [] op[1] = "MACRO"      -> DumpMacro
      [] op[1] = "DEFINITION" -> <<DumpTableIndex, AnyOpcode>>
      [] op[1] = "REFERENCE"  -> <<DumpTableIndex>>
      [] op[1] \in {"DEFINEQ", "DEFINEA0"} -> DumpLoaderDefinition
      [] op[1] = "APPLY0"     -> DumpLoaderApply(0)
      [] op[1] = "APPLYN"     -> DumpLoaderApply(1)
      [] op[1] \in {"BEGIN", "END"} -> <<AnyOpcode>>

Dumping == status = "reading" /\ tool = "dump"

DumperKeeps ==
    UNCHANGED <<given, mem, writer, cut, growths, accum, stack, interned, globals, package>>

(* A reset counts as an object here, unlike in the loader.                 *)
DumpOpcode ==
    /\ Dumping /\ ret = << >>
    /\ Advance
    /\ table' = IF Token[1] = "RESET" THEN << >> ELSE table
    /\ IF Token[1] \in Composite
         THEN /\ frames' = Append(frames, [op |-> Token, got |-> << >>, at |-> 0])
              /\ UNCHANGED ret
         ELSE /\ ret' = IF Token[1] \in {"NOP", "COMMENT"} THEN << >> ELSE <<Token>>
              /\ UNCHANGED frames
    /\ UNCHANGED status
    /\ DumperKeeps

DumpTakes ==
    /\ Dumping /\ ret # << >> /\ frames # << >>
    /\ ret[1][1] \in DumpShape(Top.op, LengthIn(Top.op, Top.got))[Len(Got)]
    /\ Top.op[1] = "STRING" => Token[1] = "DATA"

DumpComplete == Len(Got) = Len(DumpShape(Top.op, LengthIn(Top.op, Got)))

(* What the object is for the object around it.                            *)
DumpValue ==
    CASE Top.op[1] = "DEFINITION" -> ret
      [] Top.op[1] = "REFERENCE" ->
           IF ret[1][2] \in DOMAIN table THEN <<table[ret[1][2]]>> ELSE <<<<"unset">>>>
      [] Top.op[1] \in {"DEFINEQ", "DEFINEA0"} -> << >>
      [] OTHER -> <<Top.op>>

DumpComponent ==
    /\ DumpTakes
    /\ IF Top.op[1] = "STRING" THEN Advance ELSE UNCHANGED pos
    /\ IF DumpComplete
         THEN /\ frames' = Popped
              /\ ret' = DumpValue
              /\ table' = IF Top.op[1] = "DEFINITION" THEN With(table, Got[1][2], ret[1])
                          ELSE table
         ELSE AwaitNext(0) /\ UNCHANGED table
    /\ UNCHANGED status
    /\ DumperKeeps

(* dump_error                                                              *)
DumpFails ==
    /\ Dumping /\ ret # << >> /\ frames # << >>
    /\ ~ DumpTakes
    /\ Fail("error")

(* The loop of dump_file.                                                  *)
DumpFile ==
    /\ Dumping /\ ret # << >> /\ frames = << >>
    /\ status' = IF ret[1][1] = "EOF" THEN "done" ELSE status
    /\ ret' = << >>
    /\ UNCHANGED <<pos, frames, table>>
    /\ DumperKeeps

Dumps == DumpOpcode \/ DumpComponent \/ DumpFails \/ DumpFile
=============================================================================
