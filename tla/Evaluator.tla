----------------------------- MODULE Evaluator ------------------------------
(***************************************************************************)
(* The fast-op interpreter (execute_fast_op in vm/evaluator.c).            *)
(*                                                                         *)
(* execute_fast_op calls itself for the operands of an op, and loops for   *)
(* what is in tail position.  An activation is a call of it: the op it is  *)
(* at (fop), env, retval, and the values of the operands of the op that    *)
(* have been evaluated (done; for calls the first is the function).        *)
(* Interrupts, taken when an activation begins, and catch, throw and       *)
(* unwind frames are the subject of Escape and Conditions.                 *)
(***************************************************************************)
EXTENDS Values

CONSTANT MaxDepth       \* activations the C stack has room for

ASSUME EvaluatorAssumption == MaxDepth \in Nat \ {0} /\ ArgBufLen \in Nat

VARIABLES
    stack,              \* activations, the current one last
    globals,            \* the value cell of each global variable
    frames,             \* the argument cells of each frame there has been
    value               \* what the last evaluation returned

vmVars == <<stack, globals, frames, value>>

(* fop = NIL: the loop ends.                                               *)
End == <<"end">>

Activation(fop, env) == [fop |-> fop, env |-> env, retval |-> Null, done |-> << >>]

Top == stack[Len(stack)]

At(op) == stack # << >> /\ Top.fop[1] = op

Becomes(activation) == stack' = [stack EXCEPT ![Len(stack)] = activation]

(* The op is done with value v in retval; compiled ops have no next.       *)
Complete(v) == Becomes([Top EXCEPT !.retval = v, !.fop = End, !.done = << >>])

Continue(v, fop) == Becomes([Top EXCEPT !.retval = v, !.fop = fop, !.done = << >>])

(* An error.  The handler of the trap escapes to the toplevel.             *)
Fail(why) == stack' = << >> /\ value' = Failure(why) /\ UNCHANGED <<globals, frames>>

(* A call of execute_fast_op for an operand; STACK_CHECK panics.           *)
Execute(fop) ==
    IF Len(stack) < MaxDepth
      THEN stack' = Append(stack, Activation(fop, Top.env)) /\ UNCHANGED <<globals, frames, value>>
      ELSE Fail("panic")

-----------------------------------------------------------------------------
(* Ops without operands to evaluate                                        *)

Literal ==
    /\ At("literal")
    /\ Complete(Top.fop[2])
    /\ UNCHANGED <<globals, frames, value>>

GlobalRef ==
    /\ At("global-ref")
    /\ IF globals[Top.fop[2]] = Unbound
         THEN Fail("unbound")
         ELSE Complete(globals[Top.fop[2]]) /\ UNCHANGED <<globals, frames, value>>

GlobalSet ==
    /\ At("global-set")
    /\ IF globals[Top.fop[2]] = Unbound
         THEN Fail("unbound")
         ELSE /\ globals' = [globals EXCEPT ![Top.fop[2]] = Top.retval]
              /\ Complete(Top.retval)
              /\ UNCHANGED <<frames, value>>

GlobalDef ==
    /\ At("global-def")
    /\ globals' = [globals EXCEPT ![Top.fop[2]] = Top.fop[3]]
    /\ Complete(Top.fop[3])
    /\ UNCHANGED <<frames, value>>

(* binding_cell_by_index: the cells of a frame from an index on.           *)
FrameAt(i) == Top.env[i + 1]

CellsFrom(i, k) ==
    LET cells == CellsOf(frames, FrameAt(i)) IN SubSeq(cells, k + 1, Len(cells))

LocalRef ==
    /\ At("local-ref")
    /\ LET cells == CellsFrom(Top.fop[2], Top.fop[3])
       IN  IF cells = << >>
             THEN Fail("too few arguments")
             ELSE Complete(cells[1]) /\ UNCHANGED <<globals, frames, value>>

(* The first cell of a frame holds all arguments, if they are the rest;    *)
(* otherwise the rest is the tail of the list of arguments.                *)
LocalRefRestarg ==
    /\ At("local-ref-restarg")
    /\ LET cells == CellsFrom(Top.fop[2], Top.fop[3])
       IN  IF Top.fop[3] > 0
             THEN Complete(ListOf(cells)) /\ UNCHANGED <<globals, frames, value>>
             ELSE IF cells = << >>
               THEN Fail("too few arguments")
               ELSE Complete(cells[1]) /\ UNCHANGED <<globals, frames, value>>

LocalSet ==
    /\ At("local-set")
    /\ IF CellsFrom(Top.fop[2], Top.fop[3]) = << >>
         THEN Fail("too few arguments")
         ELSE /\ frames' = [frames EXCEPT ![FrameAt(Top.fop[2])][Top.fop[3] + 1] = Top.retval]
              /\ Complete(Top.retval)
              /\ UNCHANGED <<globals, value>>

MakeClosure ==
    /\ At("closure")
    /\ Complete(Closure(Top.fop[2], Top.fop[3], Top.env))
    /\ UNCHANGED <<globals, frames, value>>

Retval ==
    /\ At("retval")
    /\ Complete(Top.retval)
    /\ UNCHANGED <<globals, frames, value>>

(* car, cdr, not and null? of retval.                                      *)
PrimitiveOf == [car |-> "car", cdr |-> "cdr", not |-> "not", nullp |-> "null?"]

ApplyPrimitive ==
    /\ stack # << >>
    /\ Top.fop[1] \in DOMAIN PrimitiveOf
    /\ LET v == Primitive(PrimitiveOf[Top.fop[1]], Top.retval)
       IN  IF IsFailure(v)
             THEN Fail(v[2])
             ELSE Complete(v) /\ UNCHANGED <<globals, frames, value>>

IfTrue ==
    /\ At("if-true")
    /\ Continue(Top.retval, IF IsTrue(Top.retval) THEN Top.fop[2] ELSE Top.fop[3])
    /\ UNCHANGED <<globals, frames, value>>

-----------------------------------------------------------------------------
(* Ops with operands                                                       *)

(* Mutant: the operand counts for the next op as well.                     *)
SequenceKeeping ==
    /\ At("sequence")
    /\ IF Top.done = << >>
         THEN Execute(Top.fop[2])
         ELSE /\ Becomes([Top EXCEPT !.retval = Top.done[1], !.fop = Top.fop[3]])
              /\ UNCHANGED <<globals, frames, value>>

Sequence ==
    /\ At("sequence")
    /\ IF Top.done = << >>
         THEN Execute(Top.fop[2])
         ELSE Continue(Top.done[1], Top.fop[3]) /\ UNCHANGED <<globals, frames, value>>

(* A round of the loop: retval is the value of the body.                   *)
WhileTrue ==
    /\ At("while-true")
    /\ CASE Top.done = << >>                         -> Execute(Top.fop[2])
         [] Len(Top.done) = 1 /\ IsTrue(Top.done[1]) -> Execute(Top.fop[3])
         [] Len(Top.done) = 1 /\ ~ IsTrue(Top.done[1]) ->
               Complete(Top.retval) /\ UNCHANGED <<globals, frames, value>>
         [] Len(Top.done) = 2                        ->
               Continue(Top.done[2], Top.fop) /\ UNCHANGED <<globals, frames, value>>

(* The function of a call: that of a global variable is read before the    *)
(* arguments are evaluated.                                                *)
FetchFunction ==
    /\ At("apply") \/ At("apply-global")
    /\ Top.done = << >>
    /\ IF Top.fop[1] = "apply" THEN Execute(Top.fop[2])
       ELSE IF globals[Top.fop[2]] = Unbound THEN Fail("unbound")
       ELSE /\ Becomes([Top EXCEPT !.done = <<globals[Top.fop[2]]>>])
            /\ UNCHANGED <<globals, frames, value>>

Arguments == Len(Top.done) - 1

EvaluateArgument ==
    /\ At("apply") \/ At("apply-global")
    /\ Top.done # << >>
    /\ Arguments < Len(Top.fop[3])
    /\ IF Arguments >= ArgBufLen
         THEN Fail("too many arguments")
         ELSE Execute(Top.fop[3][Arguments + 1])

(* Mutant: the code of a closure runs in a call of execute_fast_op.        *)
ApplyNested ==
    /\ At("apply") \/ At("apply-global")
    /\ Arguments = Len(Top.fop[3])
    /\ LET fn    == Top.done[1]
           args  == Tail(Top.done)
           cells == Cells(fn[2], args)
           v     == SubrApply(fn[2], args)
       IN  CASE fn[1] = "subr" ->
                  IF IsFailure(v)
                    THEN Fail(v[2])
                    ELSE Complete(v) /\ UNCHANGED <<globals, frames, value>>
             [] fn[1] = "closure" ->
                  /\ Becomes([Top EXCEPT !.fop = <<"sequence", fn[3], <<"retval">>>>,
                                         !.done = << >>,
                                         !.env = <<NewFrame(frames, cells)>> \o fn[4]])
                  /\ frames' = WithFrame(frames, cells)
                  /\ UNCHANGED <<globals, value>>
             [] OTHER -> Fail("wrong type")

(* apply and extend_env.  The code of a closure is next in the same        *)
(* activation, with another environment.                                   *)
Apply ==
    /\ At("apply") \/ At("apply-global")
    /\ Arguments = Len(Top.fop[3])
    /\ LET fn    == Top.done[1]
           args  == Tail(Top.done)
           cells == Cells(fn[2], args)
           v     == SubrApply(fn[2], args)
       IN  CASE fn[1] = "subr" ->
                  IF IsFailure(v)
                    THEN Fail(v[2])
                    ELSE Complete(v) /\ UNCHANGED <<globals, frames, value>>
             [] fn[1] = "closure" ->
                  /\ Becomes([Top EXCEPT !.fop = fn[3], !.done = << >>,
                                         !.env = <<NewFrame(frames, cells)>> \o fn[4]])
                  /\ frames' = WithFrame(frames, cells)
                  /\ UNCHANGED <<globals, value>>
             [] OTHER -> Fail("wrong type")

(* execute_fast_op returns, to the op that needs the value or to its       *)
(* first caller.                                                           *)
Return ==
    /\ At("end")
    /\ LET below == Len(stack) - 1
       IN  IF below = 0
             THEN stack' = << >> /\ value' = Top.retval
             ELSE /\ stack' = [SubSeq(stack, 1, below) EXCEPT ![below].done = Append(@, Top.retval)]
                  /\ UNCHANGED value
    /\ UNCHANGED <<globals, frames>>

Step ==
    \/ Literal \/ GlobalRef \/ GlobalSet \/ GlobalDef
    \/ LocalRef \/ LocalRefRestarg \/ LocalSet
    \/ MakeClosure \/ Retval \/ ApplyPrimitive \/ IfTrue
    \/ Sequence \/ WhileTrue
    \/ FetchFunction \/ EvaluateArgument \/ Apply \/ Return
=============================================================================
