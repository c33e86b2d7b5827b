------------------------------ MODULE Session -------------------------------
(***************************************************************************)
(* A session: forms are compiled and run one after another, as eval does   *)
(* for the REPL and for load (eval.scm, compiler-form.scm).  Composes      *)
(* Compiler and Evaluator, and runs the reference semantics of Language    *)
(* along with them.                                                        *)
(*                                                                         *)
(* Compiling a form runs code: the value of each definition in it is       *)
(* computed while its meaning is.                                          *)
(***************************************************************************)
EXTENDS Compiler, Evaluator

CONSTANTS
    Programs,           \* sequences of forms to be entered
    Endless,            \* those of them that do not terminate
    InitialGlobals      \* the values of global variables

VARIABLES
    program,            \* the forms of the session
    entered,            \* how many have been entered
    phase,              \* "idle", "meaning", "definition" or "run"
    pending,            \* what the meaning pass has left to do (DefinitionsIn)
    values,             \* the values of the definitions done
    ref,                \* what the language says of the forms entered
    integrated,         \* the global variables integrated in code so far
    stale,              \* one of them has got another value since
    early               \* a definition was compiled after other code of its form

sessionVars == <<program, entered, phase, pending, values, ref, integrated, stale, early>>

vars == <<stack, globals, frames, value, sessionVars>>

Form == program[entered]

Init ==
    /\ program \in Programs
    /\ entered = 0
    /\ phase = "idle"
    /\ pending = << >> /\ values = << >>
    /\ stack = << >> /\ frames = << >> /\ value = Null
    /\ globals = InitialGlobals
    /\ ref = [value |-> Null, globals |-> InitialGlobals, frames |-> << >>]
    /\ integrated = {} /\ stale = FALSE /\ early = FALSE

(* Definitions are in time: the form is one, or begins with the only one.  *)
DefinesFirst(form) ==
    \/ DefinitionsIn(form, ToplevelCenv) = << >>
    \/ form[1] = "define"
    \/ /\ form[1] = "begin"
       /\ form[2] # << >> => /\ form[2][1][1] = "define"
                             /\ Definitions(Tail(form[2]), ToplevelCenv) = 0

(* What the language says comes of a form.                                 *)
Reference(form, s) ==
    IF Allowed(form, << >>) THEN Eval(form, << >>, s) ELSE [s EXCEPT !.value = Failure("compile")]

Enter ==
    /\ phase = "idle"
    /\ value # Failure("panic")
    /\ entered < Len(program)
    /\ entered' = entered + 1
    /\ phase' = "meaning"
    /\ pending' = DefinitionsIn(program[entered + 1], ToplevelCenv)
    /\ values' = << >>
    /\ early' = (early \/ ~ DefinesFirst(program[entered + 1]))
    /\ ref' = IF program \in Endless THEN ref ELSE Reference(program[entered + 1], ref)
    /\ UNCHANGED <<program, stack, globals, frames, value, integrated, stale>>

(* Call the thunk that compile makes of a form: with no arguments.         *)
Call0(form, vals) ==
    /\ stack' = <<Activation(Compile(form, vals, globals), <<0>>)>>
    /\ integrated' = integrated \cup
          IntegratedIn(MapFop("global-applications", Meaning(form, ToplevelCenv, vals), globals),
                       globals)
    /\ UNCHANGED <<program, entered, pending, values, globals, frames, value, ref, stale, early>>

(* The value of a definition is compiled by itself and computed.           *)
BeginDefinition ==
    /\ phase = "meaning"
    /\ pending # << >>
    /\ Head(pending)[1] = "define"
    /\ phase' = "definition"
    /\ Call0(Head(pending)[2], << >>)

(* An error ends the compilation, in the meaning pass itself or in the     *)
(* value of a definition.                                                  *)
CompileError ==
    /\ \/ phase = "meaning" /\ pending # << >> /\ Head(pending)[1] = "error"
       \/ phase = "definition" /\ stack = << >> /\ IsFailure(value)
    /\ phase' = "idle"
    /\ pending' = << >>
    /\ values' = << >>
    /\ value' = IF phase = "meaning" THEN Failure("compile") ELSE value
    /\ UNCHANGED <<program, entered, stack, globals, frames, ref, integrated, stale, early>>

EndDefinition ==
    /\ phase = "definition"
    /\ stack = << >>
    /\ ~ IsFailure(value)
    /\ phase' = "meaning"
    /\ values' = Append(values, value)
    /\ pending' = Tail(pending)
    /\ UNCHANGED <<program, entered, stack, globals, frames, value, ref, integrated, stale, early>>

Run ==
    /\ phase = "meaning"
    /\ pending = << >>
    /\ phase' = "run"
    /\ Call0(Form, values)

Evaluate ==
    /\ Step
    /\ stale' = (stale \/ \E x \in integrated : globals'[x] # globals[x])
    /\ UNCHANGED <<program, entered, phase, pending, values, ref, integrated, early>>

Finish ==
    /\ phase = "run"
    /\ stack = << >>
    /\ phase' = "idle"
    /\ values' = << >>
    /\ UNCHANGED <<program, entered, pending, stack, globals, frames, value, ref, integrated,
                   stale, early>>

Next == Enter \/ BeginDefinition \/ CompileError \/ EndDefinition \/ Run \/ Evaluate \/ Finish

Spec == Init /\ [][Next]_vars

-----------------------------------------------------------------------------
(* Properties                                                              *)

IsValue(v) ==
    \/ v \in {Null, Unbound, Boolean(TRUE), Boolean(FALSE)}
    \/ v[1] \in {"atom", "pair", "subr"}
    \/ v[1] = "closure" /\ \A i \in DOMAIN v[4] : v[4][i] \in 0 .. Len(frames)

(* Activations have operands in the number their ops take, values are      *)
(* values, environments have frames there are, and compiled code refers to *)
(* frames its environment has, never to that of the toplevel thunk:        *)
(* binding_cell_by_index does not look for the end of the environment.     *)
TypeOK ==
    /\ phase \in {"idle", "meaning", "definition", "run"}
    /\ entered \in 0 .. Len(program)
    /\ Len(stack) <= MaxDepth
    /\ \A i \in DOMAIN stack :
          /\ \A k \in DOMAIN stack[i].done : IsValue(stack[i].done[k])
          /\ IsValue(stack[i].retval)
          /\ Len(stack[i].done) <=
               CASE stack[i].fop[1] \in {"apply", "apply-global"} -> Len(stack[i].fop[3]) + 1
                 [] stack[i].fop[1] = "sequence"                  -> 1
                 [] stack[i].fop[1] = "while-true"                -> 2
                 [] OTHER                                         -> 0
          /\ \A k \in DOMAIN stack[i].env : stack[i].env[k] \in 0 .. Len(frames)
          /\ stack[i].fop[1] \in {"local-ref", "local-ref-restarg", "local-set"} =>
               stack[i].fop[2] < Len(stack[i].env) - 1
    /\ \A x \in DOMAIN globals : IsValue(globals[x])
    /\ \A f \in DOMAIN frames : frames[f] # << >> /\ \A k \in DOMAIN frames[f] : IsValue(frames[f][k])
    /\ IsValue(value) \/ IsFailure(value)

(* A value of the reference and one of the evaluator are the same, up to   *)
(* the code of closures and the frame of the toplevel thunk.               *)
RECURSIVE SameValue(_, _)
SameValue(r, v) ==
    CASE r = Unspecified    -> TRUE
      [] r[1] = "closure"   ->
            /\ v[1] = "closure"
            /\ v[2] = r[2]
            /\ v[4] = [i \in DOMAIN r[4] |-> r[4][i].frame] \o <<0>>
      [] r[1] = "pair"      ->
            v[1] = "pair" /\ SameValue(r[2], v[2]) /\ SameValue(r[3], v[3])
      [] OTHER              -> v = r

Agrees ==
    /\ SameValue(ref.value, value)
    /\ \A x \in DOMAIN globals : SameValue(ref.globals[x], globals[x])
    /\ Len(ref.frames) = Len(frames)
    /\ \A f \in DOMAIN frames :
          /\ Len(ref.frames[f]) = Len(frames[f])
          /\ \A k \in DOMAIN frames[f] : SameValue(ref.frames[f][k], frames[f][k])

Settled == phase = "idle" /\ entered > 0 /\ program \notin Endless /\ value # Failure("panic")

(* Compiled, optimised and run, a form has the value and the effects the   *)
(* language gives it, whatever came before it in the session: with the     *)
(* same errors, after the same assignments to globals and to captured      *)
(* variables.  Excepted are sessions that assign to a variable whose calls *)
(* are integrated, and definitions after other code in their form.         *)
CompiledMeansSource == Settled /\ ~ stale /\ ~ early => Agrees

(* The same without one of the exceptions, which the code does not keep    *)
(* to: definitions have the values they have in order.                     *)
DefinitionsInOrder == Settled /\ ~ stale => Agrees

(* And without the other: an assignment to a variable is seen by all code. *)
AssignmentsSeen == Settled /\ ~ early => Agrees

(* The number of nested activations a form needs, were all calls in it     *)
(* tail calls or calls of primitives: by the tail contexts of the          *)
(* language.                                                               *)
RECURSIVE Nesting(_)
Nesting(form) ==
    LET n(i)     == Nesting(Subforms(form)[i])
        all      == DOMAIN Subforms(form)
        inner(S) == {1 + n(i) : i \in S}
        tail(S)  == {n(i) : i \in S}
    IN  Max({0} \cup
          CASE form[1] \in {"begin", "or", "and"} ->
                  inner(all \ {Len(Subforms(form))}) \cup tail(all \cap {Len(Subforms(form))})
            [] form[1] = "if"                  -> inner({1}) \cup tail({2, 3})
            [] form[1] \in {"lambda", "define"} -> tail(all)
            [] form[1] \in {"set!", "while"}   -> inner(all)
            [] form[1] = "call"                -> inner(all)
            [] OTHER                           -> {})

(* All calls in a form are in tail position or of primitives.              *)
RECURSIVE Iterative(_, _)
Iterative(form, tail) ==
    LET forms   == Subforms(form)
        last(i) == tail /\ i = Len(forms)
    IN  /\ form[1] = "call" /\ ~ tail =>
             form[2][1] = "name" /\ InitialGlobals[form[2][2]][1] = "subr"
        /\ \A i \in DOMAIN forms :
             Iterative(forms[i],
               CASE form[1] \in {"begin", "or", "and"}  -> last(i)
                 [] form[1] = "if"                      -> tail /\ i > 1
                 [] form[1] \in {"lambda", "define"}    -> TRUE
                 [] OTHER                               -> FALSE)

IsIterative ==
    /\ \A i \in DOMAIN program : Iterative(program[i], TRUE)
    /\ \A x \in DOMAIN InitialGlobals :
          InitialGlobals[x][1] = "subr" => globals[x] = InitialGlobals[x]

(* Programs whose calls are in tail contexts run in constant space, for    *)
(* however long: calls in tail position take no activation of their own,   *)
(* through if, or, and and begin, and through what the optimiser makes of  *)
(* the calls of primitives.                                                *)
ProperTailCalls ==
    IsIterative => Len(stack) <= 1 + Max({Nesting(program[i]) : i \in DOMAIN program} \cup {0})
=============================================================================
