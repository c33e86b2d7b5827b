----------------------------- MODULE MCSession ------------------------------
(***************************************************************************)
(* Sessions for TLC.  Global variables: g has a list, u has no value, f    *)
(* and h are for definitions, and car, cdr, not and null? are primitives.  *)
(***************************************************************************)
EXTENDS Session

False == Const(Boolean(FALSE))

Two == Pair(Atom("a"), Pair(Atom("b"), Null))

MCGlobals ==
    [g |-> Two, u |-> Unbound, f |-> Unbound, h |-> Unbound, x |-> Unbound, y |-> Unbound,
     car |-> Subr("car"), cdr |-> Subr("cdr")]
    @@ "not" :> Subr("not") @@ "null?" :> Subr("null?")

CarOf(form) == Call(Name("car"), <<form>>)
CdrOf(form) == Call(Name("cdr"), <<form>>)

None == LambdaList(<< >>, FALSE)
Vars(names) == LambdaList(names, FALSE)
WithRest(names) == LambdaList(names, TRUE)

(* ((lambda formals body) args): parameters of each kind, shadowing of     *)
(* globals and primitives, and too few, enough and too many arguments.     *)
LambdaLists ==
    {None, Vars(<<"x">>), Vars(<<"y", "x">>), WithRest(<<"x">>), WithRest(<<"y", "x">>),
     Vars(<<"car">>)}

Arguments2 == {<< >>, <<Const(Two)>>, <<False, Const(Two)>>}

Atoms == {False, Name("x"), Name("g"), Name("u")}

Small ==
    Atoms \cup {CarOf(a) : a \in Atoms}
    \cup {Assignment("x", False), Assignment("g", Name("x")), Name("car"),
          Lambda(Vars(<<"y">>), Name("x"))}

Bodies ==
    Small
    \cup {k : k \in {Begin(<< >>), Or(<< >>), And(<< >>)}}
    \cup {Begin(<<a, b>>) : a, b \in Small}
    \cup {Or(<<a, b>>) : a \in Small, b \in Atoms}
    \cup {And(<<a, b>>) : a \in Small, b \in Atoms}
    \cup {If(a, b, c) : a \in Atoms, b, c \in {False, Name("x"), Assignment("u", False)}}
    \cup {Call(a, <<b>>) : a, b \in {Name("x"), Name("g"), Name("cdr"), Name("not"), Name("null?")}}

(* Inner functions that take from and assign to variables of outer ones.   *)
InnerBodies ==
    {Begin(<<Assignment("x", Name("y")), Name("x")>>), Or(<<Name("y"), Name("x")>>),
     Lambda(None, Name("x")), CdrOf(Name("x")), Call(Name("x"), << >>),
     Begin(<<While(Name("x"), Assignment("x", Call(Name("not"), <<Name("x")>>))), Name("y")>>)}

Inner ==
    {Call(Lambda(l, b), args) : l \in LambdaLists, b \in InnerBodies,
                                args \in {<< >>, <<Name("x"), False>>}}

Single ==
    {<<Call(Lambda(l, b), args)>> : l \in LambdaLists, b \in Bodies, args \in Arguments2}
    \cup {<<Call(Lambda(l, b), <<Const(Two), False>>)>> :
             l \in {Vars(<<"x">>), Vars(<<"y", "x">>), WithRest(<<"x">>)}, b \in Inner}

(* Forms that use what others before them leave.                           *)
Common ==
    {Define("h", Name("car")), Define("f", Lambda(Vars(<<"x">>), Call(Name("h"), <<Name("x")>>))),
     Define("f", Call(Lambda(Vars(<<"x">>),
                             Lambda(None, Begin(<<Assignment("x", CdrOf(Name("x"))), Name("x")>>))),
                      <<Name("g")>>)),
     Call(Name("f"), << >>), Call(Name("f"), <<Name("g")>>), Assignment("h", Name("cdr")),
     Assignment("car", Name("cdr")), CarOf(Name("g")),
     Assignment("g", CdrOf(Name("g"))), Call(Name("h"), <<CarOf(Name("u")), Name("g")>>),
     Begin(<<Define("h", Name("cdr")), Call(Name("h"), <<Name("g")>>)>>),
     Begin(<<Assignment("g", False), Define("f", Name("g"))>>),
     Begin(<<Define("u", False), Define("h", Name("u"))>>),
     Lambda(WithRest(<<"x">>), Begin(<<Assignment("x", False), Define("f", Name("g"))>>)),
     Call(Name("g"), <<Assignment("g", False)>>),
     Call(Name("not"), <<False, Assignment("h", Name("g")), Name("h")>>)}

Sequences == {<<a, b, c>> : a, b, c \in Common}

(* Loops: by tail calls of each kind for ever or down a list, and deep     *)
(* ones that the stack has no room for.                                    *)
LoopsFor(test) ==
    {<<Define("f", Lambda(l, body)), Call(Name("f"), args)>> :
        l \in {None}, args \in {<< >>},
        body \in {test,
                  Begin(<<CarOf(Name("g")), test>>),
                  Or(<<False, test>>), And(<<Name("g"), test>>),
                  If(CarOf(CdrOf(Name("g"))), test, False)}}

Forever ==
    LoopsFor(Call(Name("f"), << >>))
    \cup LoopsFor(Call(Lambda(None, Call(Name("f"), << >>)), << >>))
    \cup LoopsFor(Call(Name("f"), <<CarOf(Call(Name("f"), << >>))>>))
    \cup LoopsFor(CarOf(Call(Name("f"), << >>)))

Down ==
    {<<Define("f", Lambda(Vars(<<"x">>), body)), Call(Name("f"), <<Name("g")>>)>> :
        body \in {If(Call(Name("null?"), <<Name("x")>>), Name("x"),
                     Call(Name("f"), <<CdrOf(Name("x"))>>)),
                  And(<<Name("x"), Call(Name("not"), <<Call(Name("null?"), <<Name("x")>>)>>),
                        Call(Name("f"), <<CdrOf(Name("x"))>>)>>),
                  Or(<<Call(Name("null?"), <<Name("x")>>),
                       Call(Name("not"), <<Call(Name("f"), <<CdrOf(Name("x"))>>)>>)>>)}}

MCEndless == Forever

MCPrograms == Single \cup Sequences \cup Down \cup Forever
=============================================================================
