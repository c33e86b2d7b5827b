------------------------------- MODULE Values -------------------------------
(***************************************************************************)
(* Values of the evaluator, and the frames that hold the arguments of      *)
(* calls (vm/evaluator.c, vm/list.c).                                      *)
(*                                                                         *)
(* A value is a tuple that begins with its kind.  A closure has a lambda   *)
(* list, code and an environment.  An environment is the sequence of its   *)
(* frames, the innermost first, by number; the frames themselves are       *)
(* state, because set! changes them.  All frames without arguments are     *)
(* frame 0: nothing can tell them apart.                                   *)
(***************************************************************************)
EXTENDS Integers, Sequences

CONSTANT ArgBufLen      \* most arguments of a call

Null == <<"null">>

Boolean(b) == <<"boolean", b>>

Atom(a) == <<"atom", a>>

Pair(x, y) == <<"pair", x, y>>

Subr(name) == <<"subr", name>>

Closure(formals, code, env) == <<"closure", formals, code, env>>

(* The value of a global variable that has none.                           *)
Unbound == <<"unbound">>

(* What stands for a value after an error, which an error handler leaves   *)
(* the evaluation for, and after the end of the VM.                        *)
Failure(why) == <<"failure", why>>

IsFailure(v) == v[1] = "failure"

IsTrue(v) == v # Boolean(FALSE)

(* The list of the values of a sequence.                                   *)
ListOf(seq) ==
    LET list[i \in 1 .. Len(seq) + 1] ==
          IF i > Len(seq) THEN Null ELSE Pair(seq[i], list[i + 1])
    IN  list[1]

(* A lambda list: its variables, the last of which takes the rest of the   *)
(* arguments if rest is set.                                               *)
LambdaList(vars, rest) == [vars |-> vars, rest |-> rest]

(* The cells of the frame for a call.  Missing arguments have none.  If    *)
(* the lambda list is a symbol, its cell holds them all.                   *)
Cells(formals, args) ==
    IF formals.rest /\ Len(formals.vars) = 1 THEN <<ListOf(args)>> ELSE args

(* The number of the frame for a call, and the frames with it.             *)
NewFrame(all, cells) == IF cells = << >> THEN 0 ELSE Len(all) + 1

WithFrame(all, cells) == IF cells = << >> THEN all ELSE Append(all, cells)

CellsOf(all, f) == IF f = 0 THEN << >> ELSE all[f]

-----------------------------------------------------------------------------
(* Primitives                                                              *)

(* lcar and lcdr.                                                          *)
Part(v, k) ==
    CASE v = Null                   -> Null
      [] v[1] = "pair"              -> v[k]
      [] v # Null /\ v[1] # "pair"  -> Failure("wrong type")

Primitive(name, v) ==
    CASE name = "car"   -> Part(v, 2)
      [] name = "cdr"   -> Part(v, 3)
      [] name = "not"   -> Boolean(~ IsTrue(v))
      [] name = "null?" -> Boolean(v = Null)

(* A call of a primitive of one argument: a missing argument is (), more   *)
(* are ignored.                                                            *)
SubrApply(name, args) == Primitive(name, IF args = << >> THEN Null ELSE args[1])
=============================================================================
