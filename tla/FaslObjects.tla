---------------------------- MODULE FaslObjects -----------------------------
(***************************************************************************)
(* The state of fast loading: the objects that are written to a file and   *)
(* read from it, the file itself, and those who read and write it.         *)
(*                                                                         *)
(* A file is a sequence of tokens: an opcode with the data that follows it *)
(* directly.                                                               *)
(***************************************************************************)
EXTENDS Integers, Sequences, FiniteSets

CONSTANTS
    Images,        \* the graphs of objects, with what is done with each
    TableSize,     \* DEFAULT_FASL_TABLE_SIZE
    StackDepth     \* FAST_LOAD_STACK_DEPTH

ASSUME FaslAssumption ==
    /\ TableSize \in Nat \ {0}
    /\ StackDepth \in Nat \ {0}

VARIABLES
    image,         \* the element of Images chosen
    tool,          \* who reads the file: "load", "read" or "dump"
    mem,           \* the objects: those written, then those the loader makes
    todo,          \* what the writer has still to write
    index,         \* sharing-map-indicies, of the shared objects met so far
    layouts,       \* sharing-map-structure-layouts
    next,          \* sharing-map-next-index
    file,          \* the tokens written
    cut,           \* the tokens that the reader finds: a file can be cut short
    pos,           \* the tokens read
    frames,        \* the opcodes whose components are being read
    ret,           \* the value that the latest read answers, if it has ended
    table, growths,    \* the reader definitions; how often they have moved
    accum, stack,      \* the loader's accumulator and stack
    interned,          \* the symbols the loader has interned
    globals, package,  \* of the image loaded into; package is *package*
    status

writer == <<todo, index, layouts, next, file>>
reader == <<cut, pos, frames, ret, table, growths, accum, stack, interned, globals,
            package, status>>
given == <<image, tool>>
vars == <<given, mem, writer, reader>>

(* Objects are known by their place in mem.  Other values are immediate,   *)
(* or found by name in every image (packages, subrs, structure layouts).   *)
Nil == <<"nil">>
Eof == <<"eof">>
Fix(n) == <<"fixnum", n>>
Ref(n) == <<"object", n>>
Named(kind, name) == <<kind, name>>

IsObject(v) == v[1] = "object"

Immediate(v) == v[1] \in {"nil", "true", "false", "fixnum", "character", "eof"}

(* A structure layout is a list.                                           *)
Kind(v) ==
    IF IsObject(v) THEN mem[v[2]].kind ELSE IF v[1] = "layout" THEN "cons" ELSE v[1]

Parts(v) == IF IsObject(v) THEN mem[v[2]].parts ELSE << >>

Data(v) == mem[v[2]].data

Node(kind, data, parts) == [kind |-> kind, data |-> data, parts |-> parts]

Cons(x, y) == Node("cons", 0, <<x, y>>)

Values(s) == {s[i] : i \in DOMAIN s}

Repeat(n, x) == [i \in 1 .. n |-> x]

(* A function with one more value.                                         *)
With(f, x, y) == [z \in DOMAIN f \cup {x} |-> IF z = x THEN y ELSE f[z]]
=============================================================================
