------------------------------ MODULE Language ------------------------------
(***************************************************************************)
(* What expanded forms mean, by recursion on the forms: the reference for  *)
(* the compiler and the fast-op interpreter.  Variables are looked up by   *)
(* name in the scopes around a form, the innermost first, then globally.   *)
(***************************************************************************)
EXTENDS Values

Const(v)              == <<"const", v>>
Name(x)               == <<"name", x>>
If(c, t, e)           == <<"if", c, t, e>>
Begin(forms)          == <<"begin", forms>>
Or(forms)             == <<"or", forms>>
And(forms)            == <<"and", forms>>
Assignment(x, form)   == <<"set!", x, form>>
Define(x, form)       == <<"define", x, form>>
While(c, body)        == <<"while", c, body>>
Lambda(formals, body) == <<"lambda", formals, body>>
Call(f, args)         == <<"call", f, args>>

(* The forms directly inside a form, in the order of the text.             *)
Subforms(form) ==
    CASE form[1] \in {"const", "name"}        -> << >>
      [] form[1] \in {"begin", "or", "and"}   -> form[2]
      [] form[1] \in {"set!", "define", "lambda"} -> <<form[3]>>
      [] form[1] = "if"                       -> <<form[2], form[3], form[4]>>
      [] form[1] = "while"                    -> <<form[2], form[3]>>
      [] form[1] = "call"                     -> <<form[2]>> \o form[3]

(* The value of a loop, which the language leaves open.                    *)
Unspecified == <<"unspecified">>

(* A scope is a lambda list and the number of its frame.                   *)
Scope(formals, f) == [formals |-> formals, frame |-> f]

ScopesOf(x, scopes) ==
    {i \in DOMAIN scopes : \E k \in DOMAIN scopes[i].formals.vars :
                               scopes[i].formals.vars[k] = x}

ScopeOf(x, scopes) == CHOOSE i \in ScopesOf(x, scopes) : \A j \in ScopesOf(x, scopes) : i <= j

PositionOf(x, formals) ==
    CHOOSE k \in DOMAIN formals.vars :
        formals.vars[k] = x /\ \A j \in 1 .. k - 1 : formals.vars[j] # x

TakesRest(x, formals) == formals.rest /\ PositionOf(x, formals) = Len(formals.vars)

(* A form is evaluated in a state [value, globals, frames], where value is *)
(* that of the form before it, and leaves such a state.                    *)
ValueOf(x, scopes, s) ==
    IF ScopesOf(x, scopes) = {}
      THEN IF s.globals[x] = Unbound THEN Failure("unbound") ELSE s.globals[x]
      ELSE LET scope == scopes[ScopeOf(x, scopes)]
               cells == CellsOf(s.frames, scope.frame)
               k     == PositionOf(x, scope.formals)
           IN  IF TakesRest(x, scope.formals) /\ k > 1
                 THEN ListOf(SubSeq(cells, k, Len(cells)))
                 ELSE IF k <= Len(cells) THEN cells[k] ELSE Failure("too few arguments")

Assign(x, scopes, s) ==
    IF IsFailure(s.value) THEN s
    ELSE IF ScopesOf(x, scopes) = {}
      THEN IF s.globals[x] = Unbound
             THEN [s EXCEPT !.value = Failure("unbound")]
             ELSE [s EXCEPT !.globals[x] = s.value]
      ELSE LET scope == scopes[ScopeOf(x, scopes)]
               k     == PositionOf(x, scope.formals)
           IN  IF k <= Len(CellsOf(s.frames, scope.frame))
                 THEN [s EXCEPT !.frames[scope.frame][k] = s.value]
                 ELSE [s EXCEPT !.value = Failure("too few arguments")]

(* What a program may not do: assign to a variable for the rest of the     *)
(* arguments.                                                              *)
RECURSIVE Allowed(_, _)
Allowed(form, scopes) ==
    /\ form[1] = "set!" =>
          \/ ScopesOf(form[2], scopes) = {}
          \/ ~ TakesRest(form[2], scopes[ScopeOf(form[2], scopes)].formals)
    /\ \A i \in DOMAIN Subforms(form) :
          Allowed(Subforms(form)[i],
                  CASE form[1] = "lambda" -> <<Scope(form[2], 0)>> \o scopes
                    [] form[1] = "define" -> << >>
                    [] OTHER              -> scopes)

RECURSIVE Eval(_, _, _), EvalAll(_, _, _, _), EvalUntil(_, _, _, _), Loop(_, _, _), CallWith(_, _, _)

Eval(form, scopes, s) ==
    CASE form[1] = "const"  -> [s EXCEPT !.value = form[2]]
      [] form[1] = "name"   -> [s EXCEPT !.value = ValueOf(form[2], scopes, s)]
      [] form[1] = "set!"   -> Assign(form[2], scopes, Eval(form[3], scopes, s))
      [] form[1] = "lambda" -> [s EXCEPT !.value = Closure(form[2], form[3], scopes)]
      [] form[1] = "begin"  -> EvalUntil(form[2], {}, scopes, [s EXCEPT !.value = Null])
      [] form[1] = "or"     -> EvalUntil(form[2], {TRUE}, scopes, [s EXCEPT !.value = Boolean(FALSE)])
      [] form[1] = "and"    -> EvalUntil(form[2], {FALSE}, scopes, [s EXCEPT !.value = Boolean(TRUE)])
      [] form[1] = "while"  -> Loop(form, scopes, s)
      [] form[1] = "define" ->
            LET d == Eval(form[3], scopes, s)
            IN  IF IsFailure(d.value) THEN d ELSE [d EXCEPT !.globals[form[2]] = d.value]
      [] form[1] = "if"     ->
            LET c == Eval(form[2], scopes, s)
            IN  IF IsFailure(c.value) THEN c
                ELSE Eval(IF IsTrue(c.value) THEN form[3] ELSE form[4], scopes, c)
      [] form[1] = "call"   ->
            LET f == Eval(form[2], scopes, s)
            IN  IF IsFailure(f.value) THEN f ELSE EvalAll(form[3], << >>, scopes, f)

(* Forms one after another until the truth of one is in stop.              *)
EvalUntil(forms, stop, scopes, s) ==
    IF forms = << >> THEN s
    ELSE LET r == Eval(Head(forms), scopes, s)
         IN  IF IsFailure(r.value) \/ IsTrue(r.value) \in stop
               THEN r ELSE EvalUntil(Tail(forms), stop, scopes, r)

Loop(form, scopes, s) ==
    LET c == Eval(form[2], scopes, s)
        b == Eval(form[3], scopes, c)
    IN  IF IsFailure(c.value) THEN c
        ELSE IF ~ IsTrue(c.value) THEN [c EXCEPT !.value = Unspecified]
        ELSE IF IsFailure(b.value) THEN b
        ELSE Loop(form, scopes, b)

(* Arguments, from left to right, with args those done, and then the call. *)
(* The function is the value of f, whose state the next argument sees.     *)
EvalAll(forms, args, scopes, f) ==
    IF forms = << >> THEN CallWith(f.value, args, f)
    ELSE IF Len(args) = ArgBufLen THEN [f EXCEPT !.value = Failure("too many arguments")]
    ELSE LET r == Eval(Head(forms), scopes, f)
         IN  IF IsFailure(r.value) THEN r
             ELSE EvalAll(Tail(forms), Append(args, r.value), scopes,
                          [r EXCEPT !.value = f.value])

CallWith(fn, args, s) ==
    CASE fn[1] = "subr"    -> [s EXCEPT !.value = SubrApply(fn[2], args)]
      [] fn[1] = "closure" ->
            LET cells == Cells(fn[2], args)
            IN  Eval(fn[3], <<Scope(fn[2], NewFrame(s.frames, cells))>> \o fn[4],
                     [s EXCEPT !.frames = WithFrame(s.frames, cells)])
      [] OTHER             -> [s EXCEPT !.value = Failure("wrong type")]
=============================================================================
