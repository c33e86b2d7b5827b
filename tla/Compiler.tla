------------------------------ MODULE Compiler ------------------------------
(***************************************************************************)
(* The compiler from expanded forms to trees of fast-ops: meaning          *)
(* (compiler-meaning.scm), optimisation (compiler-foptimize.scm) and       *)
(* assembly (compiler-fasm.scm).                                           *)
(*                                                                         *)
(* Forms are those of Language.  A fast-op is a tuple of its name and      *)
(* operands.  Assembly turns a tree into objects of the same shape whose   *)
(* `next` is (), so that the tree stands for both.                         *)
(*                                                                         *)
(* The value of a %define is computed while its meaning is (:global-def    *)
(* has the value as a literal).  DefinitionsIn lists what this does, in    *)
(* order; Meaning takes the values from there.  Values of definitions      *)
(* contain no definitions themselves.                                      *)
(***************************************************************************)
EXTENDS Language, FiniteSetsExt, SequencesExt

(* Whether a variable is one of a lambda list.                             *)
BoundInFrame(x, formals) == \E k \in DOMAIN formals.vars : formals.vars[k] = x

BoundInCenv(x, cenv) == \E i \in DOMAIN cenv : BoundInFrame(x, cenv[i])

(* The binding coordinates of a variable, from 0, and how it is bound.     *)
Coordinates(x, cenv) ==
    LET frame == Min({i \in DOMAIN cenv : BoundInFrame(x, cenv[i])})
        vars  == cenv[frame].vars
        index == Min({k \in DOMAIN vars : vars[k] = x})
    IN  [frame |-> frame - 1, index |-> index - 1,
         rest  |-> cenv[frame].rest /\ index = Len(vars)]

(* A lambda list is consed onto the compile-time environment.              *)
ExtendCenv(formals, cenv) == <<formals>> \o cenv

(* The environment of the body of %toplevel-lambda.                        *)
ToplevelCenv == <<LambdaList(<< >>, FALSE)>>

-----------------------------------------------------------------------------
(* What the meaning pass does besides: it computes values of definitions,  *)
(* and signals an error for an assignment to a rest variable, which ends   *)
(* the compilation under eval.                                             *)

RECURSIVE DefinitionsIn(_, _)

DefinitionsIn(form, cenv) ==
    LET inner == IF form[1] = "lambda" THEN ExtendCenv(form[2], cenv) ELSE cenv
        parts == [i \in DOMAIN Subforms(form) |-> DefinitionsIn(Subforms(form)[i], inner)]
        here  ==
          IF form[1] = "set!" /\ BoundInCenv(form[2], cenv) /\ Coordinates(form[2], cenv).rest
            THEN << <<"error">> >> ELSE << >>
    IN  IF form[1] = "define" THEN << <<"define", form[3]>> >>
        ELSE here \o FlattenSeq(parts)

(* How many definitions a sequence of forms contains.                      *)
Definitions(forms, cenv) == Len(FlattenSeq([i \in DOMAIN forms |-> DefinitionsIn(forms[i], cenv)]))

MeaningOfName(x, cenv) ==
    IF ~ BoundInCenv(x, cenv) THEN <<"global-ref", x>>
    ELSE LET at == Coordinates(x, cenv)
         IN  <<IF at.rest THEN "local-ref-restarg" ELSE "local-ref", at.frame, at.index>>

(* The following take the meanings of the parts.                           *)
MeaningOfSet(x, val, cenv) ==
    LET at == Coordinates(x, cenv)
    IN  <<"sequence", val,
          IF BoundInCenv(x, cenv) THEN <<"local-set", at.frame, at.index>> ELSE <<"global-set", x>>>>

MeaningOfIf(c, t, e) == <<"sequence", c, <<"if-true", t, e>>>>

MeaningOfApplication(f, args) == <<"apply", f, args>>

MeaningOfLambda(formals, body) == <<"closure", formals, body>>

MeaningOfDefinition(x, val) == <<"global-def", x, val>>

RECURSIVE Meaning(_, _, _), MeaningOfBody(_, _, _, _)

(* The meaning of a form, given the values of the definitions in it.       *)
Meaning(form, cenv, values) ==
    LET forms    == Subforms(form)
        inner    == IF form[1] = "lambda" THEN ExtendCenv(form[2], cenv) ELSE cenv
        before(i) == Definitions(SubSeq(forms, 1, i - 1), inner)
        part(i)  == Meaning(forms[i], inner, SubSeq(values, before(i) + 1, Len(values)))
    IN  CASE form[1] = "const"  -> <<"literal", form[2]>>
          [] form[1] = "name"   -> MeaningOfName(form[2], cenv)
          [] form[1] = "define" -> MeaningOfDefinition(form[2], values[1])
          [] form[1] = "lambda" -> MeaningOfLambda(form[2], part(1))
          [] form[1] = "set!"   -> MeaningOfSet(form[2], part(1), cenv)
          [] form[1] = "if"     -> MeaningOfIf(part(1), part(2), part(3))
          [] form[1] = "while"  -> <<"while-true", part(1), part(2)>>
          [] form[1] = "call"   ->
                MeaningOfApplication(part(1), [i \in 1 .. Len(forms) - 1 |-> part(i + 1)])
          [] form[1] \in {"begin", "or", "and"} -> MeaningOfBody(form[1], forms, cenv, values)

(* begin, or and and nest to the right.                                    *)
MeaningOfBody(kind, forms, cenv, values) ==
    IF forms = << >>
      THEN <<"literal", CASE kind = "begin" -> Null
                          [] kind = "or"    -> Boolean(FALSE)
                          [] kind = "and"   -> Boolean(TRUE)>>
    ELSE LET first  == Meaning(Head(forms), cenv, values)
             after  == Definitions(<<Head(forms)>>, cenv)
             others == MeaningOfBody(kind, Tail(forms), cenv, SubSeq(values, after + 1, Len(values)))
         IN  IF Len(forms) = 1 THEN first
             ELSE <<"sequence", first,
                    CASE kind = "begin" -> others
                      [] kind = "or"    -> <<"if-true", <<"retval">>, others>>
                      [] kind = "and"   -> <<"if-true", others, <<"literal", Boolean(FALSE)>>>>>>

-----------------------------------------------------------------------------
(* Optimisation.  Trees are transformed from the root to the leaves, each  *)
(* result before the operands it has then.                                 *)

(* A call of a global variable has an op of its own.                       *)
GlobalApply(fop) ==
    IF fop[1] = "apply" /\ fop[2][1] = "global-ref"
      THEN <<"apply-global", fop[2][2], fop[3]>> ELSE fop

(* The op that a primitive of one argument is integrated as.               *)
Integration == [car |-> <<"car">>, cdr |-> <<"cdr">>] @@ "not" :> <<"not">> @@ "null?" :> <<"nullp">>

(* Mutant: with any number of arguments.                                   *)
IntegrableAnyArity(fop, globals) ==
    /\ fop[1] = "apply-global"
    /\ Len(fop[3]) > 0
    /\ globals[fop[2]][1] = "subr"
    /\ globals[fop[2]][2] \in DOMAIN Integration

(* The value of the variable when the call is compiled decides.            *)
Integrable(fop, globals) ==
    /\ fop[1] = "apply-global"
    /\ Len(fop[3]) = 1
    /\ globals[fop[2]][1] = "subr"
    /\ globals[fop[2]][2] \in DOMAIN Integration

Integrate(fop, globals) ==
    IF Integrable(fop, globals)
      THEN <<"sequence", fop[3][1], Integration[globals[fop[2]][2]]>> ELSE fop

Transform(pass, fop, globals) ==
    IF pass = "global-applications" THEN GlobalApply(fop) ELSE Integrate(fop, globals)

RECURSIVE MapFop(_, _, _)

MapFop(pass, asm, globals) ==
    LET fop     == Transform(pass, asm, globals)
        map(op) == MapFop(pass, op, globals)
        all(ops) == [i \in DOMAIN ops |-> map(ops[i])]
    IN  CASE fop[1] \in {"sequence", "if-true", "while-true"} -> <<fop[1], map(fop[2]), map(fop[3])>>
          [] fop[1] = "closure"      -> <<"closure", fop[2], map(fop[3])>>
          [] fop[1] = "apply"        -> <<"apply", map(fop[2]), all(fop[3])>>
          [] fop[1] = "apply-global" -> <<"apply-global", fop[2], all(fop[3])>>
          [] OTHER                   -> fop

Optimize(asm, globals) ==
    MapFop("integrate-subrs", MapFop("global-applications", asm, globals), globals)

(* The code of the thunk that compile makes of a form.                     *)
Compile(form, values, globals) == Optimize(Meaning(form, ToplevelCenv, values), globals)

(* The global variables whose calls are integrated in code for a form.     *)
RECURSIVE IntegratedIn(_, _)
IntegratedIn(asm, globals) ==
    LET all(ops) == UNION {IntegratedIn(ops[i], globals) : i \in DOMAIN ops}
    IN  CASE asm[1] \in {"sequence", "if-true", "while-true"} -> all(<<asm[2], asm[3]>>)
          [] asm[1] = "closure"      -> IntegratedIn(asm[3], globals)
          [] asm[1] = "apply"        -> all(<<asm[2]>> \o asm[3])
          [] asm[1] = "apply-global" ->
                all(asm[3]) \cup (IF Integrable(asm, globals) THEN {asm[2]} ELSE {})
          [] OTHER                   -> {}
=============================================================================
