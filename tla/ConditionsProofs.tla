-------------------------- MODULE ConditionsProofs --------------------------
(***************************************************************************)
(* The handlers in force in module Conditions, and that the REPL's keep    *)
(* the VM from panicking, for any program and any number of user breaks.   *)
(***************************************************************************)
EXTENDS Conditions, WellFoundedInduction, TLAPS

(* A set of natural numbers has a least element: the least counterexample  *)
(* takes the place of an induction.                                        *)
LEMMA LeastExists ==
  ASSUME NEW A, A \subseteq Nat, A # {}
  PROVE  \E m \in A : \A k \in A : m <= k
<1>1. PICK m \in A : \A k \in A : ~ (<<k, m>> \in OpToRel(<, Nat))
  BY NatLessThanWellFounded, WFMin
<1>2. \A k \in A : ~ (k < m)
  BY <1>1 DEF OpToRel
<1> QED
  BY <1>2

(* It has a greatest if it is bounded: a search from above ends there.     *)
LEMMA GreatestExists ==
  ASSUME NEW n \in Nat, NEW A, A \subseteq 0 .. n, A # {}
  PROVE  \E m \in A : \A k \in A : k <= m
<1> DEFINE T == {n - k : k \in A}
<1>1. T \subseteq Nat /\ T # {}
  <2>1. \A k \in A : n - k \in Nat
    OBVIOUS
  <2> QED BY <2>1
<1>2. PICK t \in T : \A k \in T : t <= k
  BY <1>1, LeastExists
<1>3. PICK m \in A : t = n - m
  OBVIOUS
<1>4. \A k \in A : n - k \in T
  OBVIOUS
<1> HIDE DEF T
<1> QED
  BY <1>2, <1>3, <1>4

(* What the entries of the stack are.                                      *)
AnyCondition == ReplConditions \cup Condition
CatchEntry == [type : {"catch"}, tag : Tag \cup {ReplTag, IgnoreTag}]
ProtectEntry == [type : {"protect"}]
BindEntry == [type : {"bind"}, conds : SUBSET AnyCondition, saved : HFrames, set : BOOLEAN]
HandlerEntry ==
    [type : {"handler"}, of : Nat, outer : HFrames, saved : HFrames, set : BOOLEAN]
SignalEntry ==
    [type : {"signal"}, cond : AnyCondition, rest : HFrames,
     last : {"return", "abort", "panic"}]
ThrowEntry == [type : {"throw"}, at : Nat]
CleanupEntry == [type : {"cleanup"}]
RestoreEntry ==
    [type : {"restore"}, extent : BindEntry \cup HandlerEntry]

Entry ==
    CatchEntry \cup ProtectEntry \cup BindEntry \cup HandlerEntry
    \cup SignalEntry \cup ThrowEntry \cup CleanupEntry \cup RestoreEntry

(* Throws unwind what is below them; a catch is around everything else.    *)
Stacked(s) ==
    /\ s \in Seq(Entry)
    /\ \A i \in 1 .. Len(s) : s[i].type = "throw" => s[i].at < i
    /\ Len(s) > 0 => s[1].type = "catch"

Throwing(i) == stack[i].type = "throw"

(* A throw under way is on its way to its target.                          *)
Typed ==
    /\ Stacked(stack)
    /\ hframes \in HFrames
    /\ escape \in 0 .. Depth
    /\ escape # 0 => /\ stack[escape].type = "catch"
                     /\ \E i \in escape + 1 .. Depth :
                           Throwing(i) /\ escape <= stack[i].at
    /\ {pending, panicked, nested, skipped} \subseteq BOOLEAN
    /\ breaks \in 0 .. MaxBreaks

(* Handler frames, if there are any, end with the REPL's.                  *)
Good(g) ==
    g # << >> => /\ g[Len(g)] = HFrame(ReplConditions, ReplBind)
                 /\ \A k \in 1 .. Len(g) - 1 : g[k].at # ReplBind

InRepl(s) == s[1] = Catch(ReplTag)

(* What the i-th entry of the stack s owes to those below it, for which    *)
(* the frames f[j] are in force.                                           *)
Extents(s, f, i) ==
    /\ s[i].type \in {"bind", "handler"} => s[i].saved = f[i - 1]
    /\ s[i].type = "restore" => s[i].extent.saved = f[i - 1]
    /\ s[i].type = "bind" =>
          \/ i = ReplBind /\ s[i].conds = ReplConditions /\ f[1] = << >> /\ InRepl(s)
          \/ i > ReplBind /\ f[i - 1] # << >>
    /\ s[i].type = "handler" =>
          Good(s[i].outer) /\ InRepl(s) /\ (s[i].of # ReplBind => s[i].outer # << >>)

Calls(s, f, i) ==
    /\ \/ s[i].type \in {"protect", "cleanup"}
       \/ s[i].type = "catch" /\ s[i].tag \in Tag
       => f[i - 1] # << >>
    /\ s[i].type = "signal" =>
          /\ Good(s[i].rest) /\ (s[i].rest # << >> => InRepl(s))
          /\ s[i].last # "return" => f[i - 1] # << >>
          /\ s[i].last = "panic" => s[i].cond = "unhandled-abort"

Nested(s, f, i) ==
    /\ Extents(s, f, i)
    /\ Calls(s, f, i)
    /\ Good(f[i])
    /\ f[i] # << >> => InRepl(s)

ReplHandler(s, i) == s[i].type = "handler" /\ s[i].of = ReplBind

(* A last resort of abort that has called the REPL's handler.              *)
Caught(s) ==
    \A i \in 1 .. Len(s) :
        s[i].type = "signal" /\ s[i].last = "panic" /\ s[i].rest = << >>
          => i < Len(s) /\ ReplHandler(s, i + 1)

(* One throw is under way at most, and what it calls are after thunks.     *)
AfterThunks == {"cleanup", "restore"}

OneThrow(s, e) ==
    \A i \in 1 .. Len(s) : s[i].type = "throw" =>
        /\ e # 0
        /\ \A j \in 1 .. Len(s) : s[j].type = "throw" => j = i
        /\ i < Len(s) => s[i + 1].type \in AfterThunks

Sound ==
    /\ ~ panicked
    /\ hframes = InForce(stack)[Depth]
    /\ \A i \in 1 .. Depth : Nested(stack, InForce(stack), i)
    /\ Caught(stack)
    /\ OneThrow(stack, escape)

CondInv ==
    /\ Typed
    /\ ~ Astray => Sound

-----------------------------------------------------------------------------
(* Sequences and the entries of the stack                                  *)

(* A sequence with an element pushed: the element is last, and the others  *)
(* stay.                                                                   *)
LEMMA Pushed ==
  ASSUME NEW S, NEW s \in Seq(S), NEW a \in S
  PROVE  /\ Append(s, a) \in Seq(S)
         /\ Len(Append(s, a)) = Len(s) + 1
         /\ \A i \in 1 .. Len(s) : Append(s, a)[i] = s[i]
         /\ Append(s, a)[Len(s) + 1] = a
OBVIOUS

(* The first n elements of a sequence, as a return or an unwinding leaves  *)
(* them.                                                                   *)
LEMMA Cut ==
  ASSUME NEW S, NEW s \in Seq(S), NEW n \in 0 .. Len(s)
  PROVE  /\ SubSeq(s, 1, n) \in Seq(S)
         /\ Len(SubSeq(s, 1, n)) = n
         /\ \A i \in 1 .. n : SubSeq(s, 1, n)[i] = s[i]
OBVIOUS

(* A sequence with its n-th element replaced: the others stay.             *)
LEMMA Replaced ==
  ASSUME NEW S, NEW s \in Seq(S), NEW n \in 1 .. Len(s), NEW a \in S
  PROVE  /\ [s EXCEPT ![n] = a] \in Seq(S)
         /\ Len([s EXCEPT ![n] = a]) = Len(s)
         /\ \A i \in 1 .. Len(s) : i # n => [s EXCEPT ![n] = a][i] = s[i]
         /\ [s EXCEPT ![n] = a][n] = a
OBVIOUS

(* The type of an entry tells what it is.                                  *)
LEMMA EntryTypes ==
  ASSUME NEW a \in Entry
  PROVE  /\ a.type \in {"catch", "protect", "bind", "handler",
                        "signal", "throw", "cleanup", "restore"}
         /\ a.type = "catch" => a \in CatchEntry
         /\ a.type = "bind" => a \in BindEntry
         /\ a.type = "handler" => a \in HandlerEntry
         /\ a.type = "signal" => a \in SignalEntry
         /\ a.type = "throw" => a \in ThrowEntry
         /\ a.type = "restore" => a \in RestoreEntry
BY DEF Entry, CatchEntry, ProtectEntry, BindEntry, HandlerEntry,
       SignalEntry, ThrowEntry, CleanupEntry, RestoreEntry

-----------------------------------------------------------------------------
(* The frames in force                                                     *)

Solves(s, f, n) ==
    f = [i \in 0 .. n |-> IF i = 0 THEN << >> ELSE ForceAt(s, f, i)]

(* What the frames in force at an entry depend on is below it.             *)
Grounded(s, i) ==
    /\ s[i].type = "throw" => s[i].at \in 0 .. i - 1
    /\ s[i].type = "restore" =>
          i > 1 /\ (s[i - 1].type = "throw" => s[i - 1].at \in 0 .. i - 2)

Alike(s, t, i) == t[i] = s[i] /\ (i > 1 => t[i - 1] = s[i - 1])

AlikeBelow(f, g, i) == \A j \in 0 .. i - 1 : g[j] = f[j]

(* The frames in force at an entry depend on this entry, the one below it  *)
(* and the frames in force below it, and on nothing else.                  *)
LEMMA ForceDepends ==
  ASSUME NEW s, NEW t, NEW i \in Nat \ {0}, Grounded(s, i), Alike(s, t, i),
         NEW f, NEW g, AlikeBelow(f, g, i)
  PROVE  ForceAt(t, g, i) = ForceAt(s, f, i)
<1> USE DEF Alike, AlikeBelow
<1>1. f[i - 1] = g[i - 1]
  OBVIOUS
<1>2. CASE s[i].type = "restore"
  <2>1. i > 1 /\ t[i] = s[i] /\ t[i - 1] = s[i - 1]
    BY <1>2 DEF Grounded
  <2>2. CASE s[i - 1].type = "throw"
    <3>1. s[i - 1].at + 1 \in 0 .. i - 1
      BY <1>2, <2>2 DEF Grounded
    <3>2. f[s[i - 1].at + 1] = g[s[i - 1].at + 1]
      BY <3>1
    <3> QED
      BY <1>2, <2>1, <2>2, <3>2 DEF ForceAt
  <2>3. CASE s[i - 1].type # "throw"
    BY <1>1, <1>2, <2>1, <2>3 DEF ForceAt
  <2> QED BY <2>2, <2>3
<1>3. CASE s[i].type = "throw"
  <2>1. f[s[i].at] = g[s[i].at]
    BY <1>3 DEF Grounded
  <2> QED
    BY <1>3, <2>1 DEF ForceAt
<1>4. CASE s[i].type \notin {"restore", "throw"}
  BY <1>1, <1>4 DEF ForceAt
<1> QED
  BY <1>2, <1>3, <1>4

(* A solution of the equations of the frames in force has no frames below  *)
(* the first entry, and satisfies the equation at each entry.              *)
LEMMA ForceEquations ==
  ASSUME NEW s, NEW n \in Nat, NEW f, Solves(s, f, n)
  PROVE  /\ f[0] = << >>
         /\ \A i \in 1 .. n : f[i] = ForceAt(s, f, i)
<1> DEFINE e == [i \in 0 .. n |-> IF i = 0 THEN << >> ELSE ForceAt(s, f, i)]
<1>1. \A i \in 0 .. n : e[i] = IF i = 0 THEN << >> ELSE ForceAt(s, f, i)
  OBVIOUS
<1>2. f = e
  BY DEF Solves
<1> HIDE DEF e
<1> QED
  BY <1>1, <1>2

SameTo(s, t, k) == \A i \in 1 .. k : t[i] = s[i] /\ Grounded(s, i)

(* Stacks that are the same from below have the same frames in force there.*)
LEMMA SameForce ==
  ASSUME NEW s, NEW t, NEW n \in Nat, NEW m \in Nat, NEW f, NEW g,
         Solves(s, f, n), Solves(t, g, m),
         NEW k \in Nat, k <= n, k <= m, SameTo(s, t, k)
  PROVE  \A i \in 0 .. k : g[i] = f[i]
<1> DEFINE Bad == {i \in 0 .. k : g[i] # f[i]}
<1> SUFFICES ASSUME Bad # {} PROVE FALSE
  OBVIOUS
<1>1. PICK i \in Bad : \A j \in Bad : i <= j
  <2>1. Bad \subseteq Nat
    OBVIOUS
  <2> HIDE DEF Bad
  <2> QED BY <2>1, LeastExists
<1>2. i # 0
  BY ForceEquations
<1>3. AlikeBelow(f, g, i)
  BY <1>1 DEF AlikeBelow
<1>4. /\ i \in Nat \ {0} /\ i \in 1 .. n /\ i \in 1 .. m
      /\ Grounded(s, i) /\ Alike(s, t, i)
  BY <1>2 DEF Alike, SameTo
<1>5. ForceAt(t, g, i) = ForceAt(s, f, i)
  BY <1>3, <1>4, ForceDepends
<1> QED
  BY <1>4, <1>5, ForceEquations

(* The equations of the frames in force have a solution on every stack     *)
(* whose entries depend on what is below them.                             *)
LEMMA ForceExists ==
  ASSUME NEW s, NEW n \in Nat, \A i \in 1 .. n : Grounded(s, i)
  PROVE  \E f : Solves(s, f, n)
<1> DEFINE Bad == {m \in 0 .. n : ~ \E f : Solves(s, f, m)}
<1> SUFFICES ASSUME Bad # {} PROVE FALSE
  OBVIOUS
<1>1. PICK m \in Bad : \A j \in Bad : m <= j
  <2>1. Bad \subseteq Nat
    OBVIOUS
  <2> HIDE DEF Bad
  <2> QED BY <2>1, LeastExists
<1>2. CASE m = 0
  <2> DEFINE f == [i \in 0 .. 0 |-> << >>]
  <2>1. f = [i \in 0 .. 0 |-> IF i = 0 THEN << >> ELSE ForceAt(s, f, i)]
    OBVIOUS
  <2> QED
    BY <1>2, <2>1 DEF Solves
<1>3. CASE m # 0
  <2>1. m \in Nat \ {0} /\ m - 1 \in 0 .. n
    BY <1>3
  <2>2. PICK g : Solves(s, g, m - 1)
    BY <1>1, <2>1
  <2> DEFINE f == [i \in 0 .. m |-> IF i < m THEN g[i] ELSE ForceAt(s, g, m)]
  <2>3. \A i \in 0 .. m - 1 : f[i] = g[i]
    BY <2>1
  <2>4. f[m] = ForceAt(s, g, m) /\ f[0] = << >>
    <3>1. f[m] = ForceAt(s, g, m)
      BY <2>1
    <3>2. g[0] = << >>
      <4>1. m - 1 \in Nat
        BY <2>1
      <4> QED BY ONLY <2>2, <4>1, ForceEquations
    <3>3. f[0] = g[0]
      BY <2>1, <2>3
    <3> HIDE DEF f
    <3> QED BY <3>1, <3>2, <3>3
  <2>5. ASSUME NEW i \in 1 .. m
        PROVE  f[i] = ForceAt(s, f, i)
    <3>1. ForceAt(s, f, i) = ForceAt(s, g, i)
      <4>1. i \in Nat \ {0} /\ Grounded(s, i) /\ Alike(s, s, i) /\ AlikeBelow(g, f, i)
        BY <2>1, <2>3 DEF Alike, AlikeBelow
      <4> HIDE DEF f
      <4> QED
        BY <4>1, ForceDepends
    <3>2. CASE i = m
      BY <2>4, <3>1, <3>2
    <3>3. CASE i # m
      <4>1. g[i] = ForceAt(s, g, i)
        BY <2>1, <2>2, <3>3, ForceEquations
      <4> QED
        BY <2>1, <2>3, <3>1, <3>3, <4>1
    <3> QED BY <3>2, <3>3
  <2>6. \A i \in 0 .. m : f[i] = IF i = 0 THEN << >> ELSE ForceAt(s, f, i)
    BY <2>1, <2>4, <2>5
  <2>7. f = [i \in 0 .. m |-> f[i]]
    OBVIOUS
  <2> HIDE DEF f
  <2>8. f = [i \in 0 .. m |-> IF i = 0 THEN << >> ELSE ForceAt(s, f, i)]
    BY <2>6, <2>7
  <2> QED
    BY <2>8 DEF Solves
<1> QED
  BY <1>2, <1>3

(* A stack has a length, and each of its entries depends on what is below  *)
(* it.                                                                     *)
LEMMA StackedFacts ==
  ASSUME NEW s, Stacked(s)
  PROVE  /\ Len(s) \in Nat
         /\ \A i \in 1 .. Len(s) : s[i] \in Entry /\ Grounded(s, i)
<1>1. Len(s) \in Nat /\ \A i \in 1 .. Len(s) : s[i] \in Entry
  BY DEF Stacked
<1>2. ASSUME NEW i \in 1 .. Len(s), s[i].type = "throw"
      PROVE  s[i].at \in 0 .. i - 1
  <2>1. s[i] \in ThrowEntry
    BY <1>1, <1>2, EntryTypes
  <2> QED
    BY <1>2, <2>1 DEF ThrowEntry, Stacked
<1>3. ASSUME NEW i \in 1 .. Len(s), s[i].type = "restore"
      PROVE  i > 1
  BY <1>3 DEF Stacked
<1> QED
  BY <1>1, <1>2, <1>3 DEF Grounded

(* What InForce chooses on a stack is a solution.                          *)
LEMMA InForceSolves ==
  ASSUME NEW s, Stacked(s)
  PROVE  Solves(s, InForce(s), Len(s))
<1>1. \E f : Solves(s, f, Len(s))
  BY StackedFacts, ForceExists
<1> QED
  BY <1>1 DEF Solves, InForce

(* The frames in force on a stack: none below it, and at each entry what   *)
(* its equation says.                                                      *)
LEMMA Forces ==
  ASSUME NEW s, Stacked(s)
  PROVE  /\ InForce(s)[0] = << >>
         /\ \A i \in 1 .. Len(s) : InForce(s)[i] = ForceAt(s, InForce(s), i)
BY InForceSolves, StackedFacts, ForceEquations

(* The stack t has the first m entries of s.                               *)
Keeps(s, t, m) ==
    /\ m \in Nat /\ m <= Len(s) /\ m <= Len(t)
    /\ \A i \in 1 .. m : t[i] = s[i]

(* Two stacks with the same first m entries have the same frames in force  *)
(* up to there.                                                            *)
LEMMA KeptForce ==
  ASSUME NEW s, NEW t, Stacked(s), Stacked(t), NEW m, Keeps(s, t, m)
  PROVE  \A i \in 0 .. m : InForce(t)[i] = InForce(s)[i]
<1>1. Solves(s, InForce(s), Len(s)) /\ Solves(t, InForce(t), Len(t))
  BY InForceSolves
<1>2. Len(s) \in Nat /\ Len(t) \in Nat /\ m \in Nat /\ m <= Len(s) /\ m <= Len(t)
  BY StackedFacts DEF Keeps
<1>3. SameTo(s, t, m)
  BY <1>2, StackedFacts DEF Keeps, SameTo
<1> QED
  BY <1>1, <1>2, <1>3, SameForce

(* Entries a step leaves stay properly nested: what they owe is to entries *)
(* below them, which the step leaves too.                                  *)
LEMMA KeptNested ==
  ASSUME NEW s, NEW t, Stacked(s), Stacked(t), NEW m, Keeps(s, t, m),
         \A i \in 1 .. m : Nested(s, InForce(s), i)
  PROVE  \A i \in 1 .. m : Nested(t, InForce(t), i)
<1> SUFFICES ASSUME NEW i \in 1 .. m PROVE Nested(t, InForce(t), i)
  OBVIOUS
<1>1. m \in Nat /\ t[i] = s[i] /\ t[1] = s[1]
  BY DEF Keeps
<1>2. InForce(t)[i] = InForce(s)[i] /\ InForce(t)[i - 1] = InForce(s)[i - 1]
      /\ InForce(t)[1] = InForce(s)[1]
  BY <1>1, KeptForce
<1> HIDE DEF Keeps
<1> QED
  BY <1>1, <1>2 DEF Nested, Extents, Calls, InRepl

(* The types survive a step that changes only entries above the m-th, if   *)
(* no throw among them was on its way to the target.                       *)
LEMMA TypedWhile ==
  ASSUME Typed, Stacked(stack'), NEW m, Keeps(stack, stack', m),
         escape # 0 => \A i \in m + 1 .. Depth : ~ (Throwing(i) /\ escape <= stack[i].at),
         hframes' \in HFrames, escape' = escape,
         {pending', panicked', nested', skipped'} \subseteq BOOLEAN,
         breaks' \in 0 .. MaxBreaks
  PROVE  Typed'
<1>1. /\ m \in Nat /\ m <= Depth /\ m <= Len(stack') /\ Depth \in Nat /\ Len(stack') \in Nat
      /\ \A i \in 1 .. m : stack'[i] = stack[i]
  BY StackedFacts DEF Keeps, Typed, Depth
<1>2. ASSUME escape # 0
      PROVE  /\ escape \in 1 .. m /\ stack[escape].type = "catch"
             /\ \E i \in escape + 1 .. m : Throwing(i) /\ escape <= stack[i].at
  <2>1. PICK i \in escape + 1 .. Depth : Throwing(i) /\ escape <= stack[i].at
    BY <1>2 DEF Typed
  <2>2. escape \in 1 .. Depth /\ stack[escape].type = "catch"
    BY <1>2 DEF Typed
  <2>3. i <= m
    BY <1>1, <2>1, <2>2
  <2> QED
    BY <1>1, <2>1, <2>2, <2>3
<1>3. escape' # 0 => /\ stack'[escape'].type = "catch"
                     /\ \E i \in escape' + 1 .. Len(stack') :
                           stack'[i].type = "throw" /\ escape' <= stack'[i].at
  <2> SUFFICES ASSUME escape # 0
               PROVE  /\ stack'[escape].type = "catch"
                      /\ \E i \in escape + 1 .. Len(stack') :
                           stack'[i].type = "throw" /\ escape <= stack'[i].at
    OBVIOUS
  <2>1. PICK i \in escape + 1 .. m : Throwing(i) /\ escape <= stack[i].at
    BY <1>2
  <2>2. i \in 1 .. m /\ i \in escape + 1 .. Len(stack')
    BY <1>1, <1>2, <2>1
  <2> QED
    BY <1>1, <1>2, <2>1, <2>2 DEF Throwing
<1>4. escape' \in 0 .. Len(stack')
  BY <1>1, <1>2 DEF Typed
<1> QED
  BY <1>3, <1>4 DEF Typed, Depth, Throwing

(* The types survive a step that changes only entries above the m-th, if   *)
(* no throw was among them.                                                *)
LEMMA TypedStep ==
  ASSUME Typed, Stacked(stack'), NEW m, Keeps(stack, stack', m),
         \A i \in m + 1 .. Depth : ~ Throwing(i),
         hframes' \in HFrames, escape' = escape,
         {pending', panicked', nested', skipped'} \subseteq BOOLEAN,
         breaks' \in 0 .. MaxBreaks
  PROVE  Typed'
BY TypedWhile

(* The stack t goes on from the first m entries of s.                      *)
Above(t, m) == m + 1 .. Len(t)

(* There is still one throw at most after a step that pushes none, and     *)
(* changes what is above a throw only for an after thunk.                  *)
LEMMA ThrowStep ==
  ASSUME NEW s, NEW t, Stacked(s), Stacked(t), NEW m, Keeps(s, t, m), NEW e, OneThrow(s, e),
         \A i \in Above(t, m) : t[i].type # "throw",
         m > 0 /\ s[m].type = "throw" /\ m < Len(t) => t[m + 1].type \in AfterThunks
  PROVE  OneThrow(t, e)
<1>1. /\ m \in Nat /\ m <= Len(s) /\ m <= Len(t) /\ Len(s) \in Nat /\ Len(t) \in Nat
      /\ \A i \in 1 .. m : t[i] = s[i]
  BY StackedFacts DEF Keeps
<1> SUFFICES ASSUME NEW i \in 1 .. Len(t), t[i].type = "throw"
             PROVE  /\ e # 0
                    /\ \A j \in 1 .. Len(t) : t[j].type = "throw" => j = i
                    /\ i < Len(t) => t[i + 1].type \in AfterThunks
  BY DEF OneThrow
<1>2. \A j \in 1 .. Len(t) : t[j].type = "throw" => j \in 1 .. m /\ j \in 1 .. Len(s)
  BY <1>1 DEF Above
<1>3. e # 0 /\ \A j \in 1 .. Len(s) : s[j].type = "throw" => j = i
  BY <1>1, <1>2 DEF OneThrow
<1>4. i < m => t[i + 1].type \in AfterThunks
  BY <1>1, <1>2 DEF OneThrow
<1> QED
  BY <1>1, <1>2, <1>3, <1>4

(* Soundness survives a step that changes the entries above the m-th, if   *)
(* the new ones are properly nested, the frames are those in force, a call *)
(* of the REPL's handler stays where it was, and one throw is under way at *)
(* most.                                                                   *)
LEMMA SoundStep ==
  ASSUME Typed, Sound, Stacked(stack'), NEW m, Keeps(stack, stack', m),
         ~ panicked', hframes' = InForce(stack')[Len(stack')],
         \A i \in Above(stack', m) : Nested(stack', InForce(stack'), i),
         m < Depth /\ ReplHandler(stack, m + 1) =>
            m < Len(stack') /\ ReplHandler(stack', m + 1),
         \A i \in Above(stack', m) :
            stack'[i].type = "signal" /\ stack'[i].last = "panic" /\ stack'[i].rest = << >>
              => i < Len(stack') /\ ReplHandler(stack', i + 1),
         OneThrow(stack', escape')
  PROVE  Sound'
<1>1. /\ m \in Nat /\ m <= Depth /\ m <= Len(stack') /\ Depth \in Nat /\ Len(stack') \in Nat
      /\ \A i \in 1 .. m : stack'[i] = stack[i]
  BY StackedFacts DEF Keeps, Typed, Depth
<1>2. \A i \in 1 .. Len(stack') : Nested(stack', InForce(stack'), i)
  <2>1. \A i \in 1 .. m : Nested(stack, InForce(stack), i)
    BY <1>1 DEF Sound
  <2>2. \A i \in 1 .. m : Nested(stack', InForce(stack'), i)
    BY <2>1, KeptNested DEF Typed
  <2> QED
    BY <1>1, <2>2 DEF Above
<1>3. Caught(stack')
  <2> SUFFICES ASSUME NEW i \in 1 .. Len(stack'), stack'[i].type = "signal",
                      stack'[i].last = "panic", stack'[i].rest = << >>
               PROVE  i < Len(stack') /\ ReplHandler(stack', i + 1)
    BY DEF Caught
  <2>1. CASE i \in Above(stack', m)
    BY <2>1
  <2>2. CASE i \notin Above(stack', m)
    <3>1. i \in 1 .. m /\ i \in 1 .. Len(stack) /\ stack'[i] = stack[i]
      BY <1>1, <2>2 DEF Above, Depth
    <3>2. i < Depth /\ ReplHandler(stack, i + 1)
      BY <3>1 DEF Sound, Caught, Depth
    <3> QED
      BY <1>1, <3>1, <3>2 DEF ReplHandler
  <2> QED BY <2>1, <2>2
<1> QED
  BY <1>2, <1>3 DEF Sound, Depth

-----------------------------------------------------------------------------
(* Steps of the stack                                                      *)

(* A stack with an entry pushed is a stack that keeps all of its entries.  *)
LEMMA PushStacked ==
  ASSUME NEW s, Stacked(s), NEW a \in Entry, a.type = "throw" => a.at <= Len(s),
         Len(s) = 0 => a.type = "catch"
  PROVE  /\ Stacked(Append(s, a)) /\ Keeps(s, Append(s, a), Len(s))
         /\ Len(Append(s, a)) = Len(s) + 1
         /\ Append(s, a)[Len(s) + 1] = a
<1> DEFINE t == Append(s, a)
<1>1. s \in Seq(Entry) /\ Len(s) \in Nat
  BY DEF Stacked
<1>2. /\ t \in Seq(Entry)
      /\ Len(t) = Len(s) + 1
      /\ \A i \in 1 .. Len(s) : t[i] = s[i]
      /\ t[Len(s) + 1] = a
  BY <1>1, Pushed
<1> SUFFICES Stacked(t) /\ Keeps(s, t, Len(s)) /\ Len(t) = Len(s) + 1 /\ t[Len(s) + 1] = a
  OBVIOUS
<1> HIDE DEF t
<1>3. ASSUME NEW i \in 1 .. Len(t), t[i].type = "throw"
      PROVE  t[i].at < i
  <2>1. CASE i = Len(s) + 1
    <3>1. a \in ThrowEntry
      BY <1>2, <1>3, <2>1, EntryTypes
    <3> QED
      BY <1>1, <1>2, <1>3, <2>1, <3>1 DEF ThrowEntry
  <2>2. CASE i # Len(s) + 1
    BY <1>1, <1>2, <1>3, <2>2 DEF Stacked
  <2> QED BY <2>1, <2>2
<1>4. Len(t) > 0 => t[1].type = "catch"
  BY <1>1, <1>2 DEF Stacked
<1> QED
  BY <1>1, <1>2, <1>3, <1>4 DEF Stacked, Keeps

(* The first n entries of a stack are a stack that keeps them.             *)
LEMMA CutStacked ==
  ASSUME NEW s, Stacked(s), NEW n \in 0 .. Len(s)
  PROVE  /\ Stacked(SubSeq(s, 1, n)) /\ Keeps(s, SubSeq(s, 1, n), n)
         /\ Len(SubSeq(s, 1, n)) = n
<1>1. s \in Seq(Entry) /\ Len(s) \in Nat
  BY DEF Stacked
<1>2. /\ SubSeq(s, 1, n) \in Seq(Entry)
      /\ Len(SubSeq(s, 1, n)) = n
      /\ \A i \in 1 .. n : SubSeq(s, 1, n)[i] = s[i]
  BY <1>1, Cut
<1> QED
  BY <1>1, <1>2 DEF Stacked, Keeps

(* The entry at n, and those above it, give way to a.                      *)
LEMMA ReplaceStacked ==
  ASSUME NEW s, Stacked(s), NEW n \in 2 .. Len(s), NEW a \in Entry, a.type # "throw"
  PROVE  LET t == Append(SubSeq(s, 1, n - 1), a)
         IN  Stacked(t) /\ Keeps(s, t, n - 1) /\ Len(t) = n /\ t[n] = a
<1> DEFINE b == SubSeq(s, 1, n - 1)
<1>1. n - 1 \in 0 .. Len(s) /\ n \in Nat
  BY StackedFacts
<1>2. Stacked(b) /\ Keeps(s, b, n - 1) /\ Len(b) = n - 1
  BY <1>1, CutStacked
<1> HIDE DEF b
<1>3. /\ Stacked(Append(b, a)) /\ Keeps(b, Append(b, a), n - 1) /\ Len(Append(b, a)) = n
      /\ Append(b, a)[n] = a
  BY <1>1, <1>2, PushStacked
<1>4. Keeps(s, Append(b, a), n - 1)
  BY <1>2, <1>3 DEF Keeps
<1> QED
  BY <1>3, <1>4 DEF b

Changed(s, n, a) == [s EXCEPT ![n] = a]

(* A stack with its last entry changed is a stack that keeps the others.   *)
LEMMA ChangeStacked ==
  ASSUME NEW s, Stacked(s), NEW n, n = Len(s), n > 1, NEW a \in Entry,
         a.type = "throw" => a.at < n
  PROVE  LET t == Changed(s, n, a)
         IN  Stacked(t) /\ Keeps(s, t, n - 1) /\ Len(t) = n /\ t[n] = a
<1>1. s \in Seq(Entry) /\ n \in Nat /\ n \in 1 .. Len(s)
  BY DEF Stacked
<1> DEFINE t == Changed(s, n, a)
<1>2. /\ t \in Seq(Entry) /\ Len(t) = Len(s)
      /\ \A i \in 1 .. Len(s) : i # n => t[i] = s[i]
      /\ t[n] = a
  BY <1>1, Replaced DEF Changed
<1> HIDE DEF t
<1>3. Stacked(t)
  BY <1>1, <1>2 DEF Stacked
<1>4. Keeps(s, t, n - 1)
  BY <1>1, <1>2 DEF Keeps
<1> QED
  BY <1>2, <1>3, <1>4 DEF t

(* What two steps keep one after the other, they keep together.            *)
LEMMA KeepsKept ==
  ASSUME NEW s, NEW t, NEW u, NEW m, NEW n, Keeps(s, t, m), Keeps(t, u, n), m <= n
  PROVE  Keeps(s, u, m)
BY DEF Keeps

(* What the types of a state give to the lemmas that follow.               *)
LEMMA StateFacts ==
  ASSUME Typed
  PROVE  /\ Depth \in Nat /\ Depth = Len(stack)
         /\ Stacked(stack) /\ Stacked(stack) /\ Keeps(stack, stack, Depth)
         /\ hframes \in HFrames
         /\ pending \in BOOLEAN /\ panicked \in BOOLEAN
         /\ nested \in BOOLEAN /\ skipped \in BOOLEAN /\ breaks \in 0 .. MaxBreaks
         /\ \A i \in 1 .. Depth : stack[i] \in Entry /\ Grounded(stack, i)
         /\ Depth > 0 => stack[1].type = "catch"
BY StackedFacts DEF Typed, Depth, Keeps, Stacked

(* The entries of the stack that are made.                                 *)
LEMMA EntriesMade ==
  ASSUME hframes \in HFrames
  PROVE  /\ \A t \in Tag \cup {ReplTag, IgnoreTag} :
              Catch(t) \in Entry /\ Catch(t).type = "catch" /\ Catch(t).tag = t
         /\ Protect \in Entry /\ Protect.type = "protect"
         /\ Cleanup \in Entry /\ Cleanup.type = "cleanup"
         /\ \A cs \in SUBSET AnyCondition :
              /\ Bind(cs) \in Entry /\ Bind(cs).type = "bind" /\ Bind(cs).conds = cs
              /\ Bind(cs).saved = hframes /\ Bind(cs).set = FALSE
         /\ \A i \in Nat, g \in HFrames :
              /\ Call(i, g) \in Entry /\ Call(i, g).type = "handler" /\ Call(i, g).of = i
              /\ Call(i, g).outer = g /\ Call(i, g).saved = hframes /\ Call(i, g).set = FALSE
         /\ \A c \in AnyCondition, l \in {"return", "abort", "panic"} :
              /\ Signalling(c, l) \in Entry /\ Signalling(c, l).type = "signal"
              /\ Signalling(c, l).cond = c /\ Signalling(c, l).last = l
              /\ Signalling(c, l).rest = hframes
BY DEF Entry, CatchEntry, ProtectEntry, BindEntry, HandlerEntry, SignalEntry, CleanupEntry,
       Catch, Protect, Cleanup, Bind, Call, Signalling

(* The after thunk of with-handler-frames and the frame of a throw are     *)
(* entries, as the code pushes them.                                       *)
LEMMA MoreMade ==
  /\ \A x \in BindEntry \cup HandlerEntry :
       Restoring(x) \in Entry /\ Restoring(x).type = "restore" /\ Restoring(x).extent = x
  /\ \A i \in Nat :
       Unwinding(i) \in Entry /\ Unwinding(i).type = "throw" /\ Unwinding(i).at = i
BY DEF Entry, RestoreEntry, ThrowEntry, Restoring, Unwinding

(* An entry that neither binds nor restores leaves the frames as they are. *)
Plain(a) ==
    \/ a.type \in {"catch", "protect", "cleanup", "signal"}
    \/ a.type \in {"bind", "handler"} /\ ~ a.set

(* An entry that sets no frames, or has not set them yet, has in force     *)
(* what is in force below it.                                              *)
LEMMA PlainForce ==
  ASSUME NEW s, Stacked(s), NEW i \in 1 .. Len(s), Plain(s[i])
  PROVE  InForce(s)[i] = InForce(s)[i - 1]
<1>1. InForce(s)[i] = ForceAt(s, InForce(s), i)
  BY Forces
<1> QED
  BY <1>1 DEF Plain, ForceAt

(* The frames of the stack, and of what keeps a part of it.                *)
LEMMA Kept ==
  ASSUME Typed, Sound, Stacked(stack'), NEW n, Keeps(stack, stack', n)
  PROVE  /\ InForce(stack')[n] = InForce(stack)[n]
         /\ Good(InForce(stack)[n])
         /\ InForce(stack)[n] # << >> => InRepl(stack) /\ InRepl(stack')
         /\ n > 0 => InForce(stack')[1] = InForce(stack)[1]
<1>1. n \in Nat /\ n <= Depth /\ \A i \in 0 .. n : InForce(stack')[i] = InForce(stack)[i]
  BY StateFacts, KeptForce DEF Keeps, Depth
<1>2. n > 0 => stack'[1] = stack[1]
  BY <1>1 DEF Keeps
<1>3. CASE n = 0
  BY <1>1, <1>3, Forces, StateFacts DEF Good
<1>4. CASE n # 0
  <2>1. n \in 1 .. Depth
    BY <1>1, <1>4, StateFacts
  <2> QED
    BY <1>1, <1>2, <2>1 DEF Sound, Nested, InRepl
<1> QED
  BY <1>3, <1>4

(* Code of a program has the REPL's handlers around it.                    *)
LEMMA Program ==
  ASSUME Typed, Sound, InProgram
  PROVE  /\ Depth > 1 /\ Top.type \in {"cleanup", "protect", "bind", "handler", "catch"}
         /\ Top.type = "catch" => Top.tag \in Tag
         /\ Top.type \in {"bind", "handler"} => Top.set
         /\ Top.type = "handler" => Top.of # ReplBind
         /\ hframes # << >> /\ Good(hframes) /\ InRepl(stack)
<1> DEFINE f == InForce(stack)
<1>1. /\ Depth \in Nat /\ Depth > 0 /\ Top = stack[Depth]
      /\ Top.type \in {"cleanup", "protect", "bind", "handler", "catch"}
      /\ Top.type = "catch" => Top.tag \in Tag
      /\ Top.type \in {"bind", "handler"} => Top.set
      /\ Top.type = "handler" => Top.of # ReplBind
  BY StateFacts DEF InProgram, TopIs, Top
<1>2. Nested(stack, f, Depth) /\ hframes = f[Depth] /\ f[Depth] = ForceAt(stack, f, Depth)
  BY <1>1, Forces, StateFacts DEF Sound
<1> HIDE DEF f
<1>3. hframes # << >>
  <2>1. CASE Top.type \in {"cleanup", "protect", "catch"}
    BY <1>1, <1>2, <2>1 DEF Nested, Calls, ForceAt
  <2>2. CASE Top.type = "handler"
    BY <1>1, <1>2, <2>2 DEF Nested, Extents, ForceAt
  <2>3. CASE Top.type = "bind"
    <3>1. hframes = <<HFrame(Top.conds, Depth)>> \o f[Depth - 1]
      BY <1>1, <1>2, <2>3 DEF ForceAt
    <3>2. Top.saved = f[Depth - 1] /\ Top \in BindEntry
      BY <1>1, <1>2, <2>3, StateFacts, EntryTypes DEF Nested, Extents
    <3>3. f[Depth - 1] \in HFrames
      BY <3>2 DEF BindEntry
    <3> QED
      BY <3>1, <3>3 DEF HFrames
  <2> QED BY <1>1, <2>1, <2>2, <2>3
<1>4. Good(hframes) /\ InRepl(stack)
  BY <1>2, <1>3 DEF Nested
<1>5. Depth # 1
  <2> SUFFICES ASSUME Depth = 1 PROVE FALSE
    OBVIOUS
  <2>1. Top.type = "catch" /\ Top.tag = ReplTag
    BY <1>1, <1>4, StateFacts DEF InRepl, Catch
  <2> QED
    BY <1>1, <2>1, ConditionsAssumption
<1> QED
  BY <1>1, <1>3, <1>4, <1>5

-----------------------------------------------------------------------------
(* The inductive invariant                                                 *)

(* The stack is empty and no frames are in force when the VM begins: the   *)
(* invariant holds.                                                        *)
LEMMA InvInit == Init => CondInv
<1> SUFFICES ASSUME Init PROVE CondInv
  OBVIOUS
<1>1. stack = << >> /\ Len(stack) = 0 /\ hframes = << >>
  BY DEF Init
<1>2. Stacked(stack)
  BY <1>1 DEF Stacked
<1>3. Typed
  <2>1. MaxBreaks \in Nat /\ breaks = 0
    BY ConditionsAssumption DEF Init
  <2>2. hframes \in HFrames
    BY <1>1 DEF HFrames
  <2>3. escape = 0 /\ {pending, panicked, nested, skipped} \subseteq BOOLEAN
    BY DEF Init
  <2> QED
    BY <1>1, <1>2, <2>1, <2>2, <2>3 DEF Typed, Depth
<1>4. InForce(stack)[0] = << >>
  BY <1>2, Forces
<1>5. Sound
  BY <1>1, <1>4 DEF Init, Sound, Depth, Caught, OneThrow
<1> QED
  BY <1>3, <1>5 DEF CondInv

(* A program goes on with a: the REPL's handlers are around it.            *)
Begins(a) ==
    \/ a = Protect
    \/ \E t \in Tag \cup {IgnoreTag} : a = Catch(t)
    \/ \E cs \in SUBSET AnyCondition : a = Bind(cs)
    \/ \E c \in AnyCondition, last \in {"return", "abort"} : a = Signalling(c, last)

(* The calls a program can begin (catch, unwind-protect, handler-bind,     *)
(* signal and abort) are entries that have set no frames yet.              *)
LEMMA BeginsMade ==
  ASSUME hframes \in HFrames, NEW a, Begins(a)
  PROVE  /\ a \in Entry /\ a.type \in {"catch", "protect", "bind", "signal"} /\ Plain(a)
         /\ a.type = "bind" => a.saved = hframes
         /\ a.type = "signal" => a.rest = hframes /\ a.last # "panic"
<1>1. CASE a = Protect
  BY <1>1, EntriesMade DEF Plain
<1>2. ASSUME NEW t \in Tag \cup {IgnoreTag}, a = Catch(t)
      PROVE  a \in Entry /\ a.type = "catch"
  BY <1>2, EntriesMade
<1>3. ASSUME NEW cs \in SUBSET AnyCondition, a = Bind(cs)
      PROVE  a \in Entry /\ a.type = "bind" /\ a.saved = hframes /\ ~ a.set
  BY <1>3, EntriesMade
<1>4. ASSUME NEW c \in AnyCondition, NEW last \in {"return", "abort"}, a = Signalling(c, last)
      PROVE  a \in Entry /\ a.type = "signal" /\ a.rest = hframes /\ a.last # "panic"
  BY <1>4, EntriesMade
<1> QED
  BY <1>1, <1>2, <1>3, <1>4 DEF Begins, Plain

(* To begin a call keeps the invariant: it pushes an entry over the ones   *)
(* there are, and owes what is in force at the top. Where it gives up a    *)
(* throw under way, the state is astray.                                   *)
LEMMA BeginInv ==
  ASSUME CondInv, NEW a, Begins(a), InProgram, stack' = Push(a),
         UNCHANGED <<hframes, panicked, pending, breaks, skipped>>,
         \/ escape' = escape /\ nested' = nested
         \/ escape' = 0 /\ nested' = (nested \/ escape # 0)
  PROVE  CondInv'
<1>1. Typed /\ stack' = Append(stack, a) /\ hframes \in HFrames
  BY StateFacts DEF CondInv, Push
<1>2. /\ a \in Entry /\ a.type \in {"catch", "protect", "bind", "signal"} /\ Plain(a)
      /\ a.type = "bind" => a.saved = hframes
      /\ a.type = "signal" => a.rest = hframes /\ a.last # "panic"
  BY <1>1, BeginsMade
<1>3. Depth \in Nat /\ Depth = Len(stack) /\ Depth > 0 /\ Stacked(stack)
  BY <1>1, StateFacts DEF InProgram, TopIs
<1>4. /\ Stacked(stack') /\ Keeps(stack, stack', Depth)
      /\ Len(stack') = Depth + 1 /\ stack'[Depth + 1] = a
  BY <1>1, <1>2, <1>3, PushStacked
<1>5. Typed'
  <2>1. CASE escape' = escape
    BY <1>1, <1>3, <1>4, <2>1, StateFacts, TypedStep
  <2>2. CASE escape' = 0
    <3>1. escape' \in 0 .. Len(stack') /\ ~ (escape' # 0)
      BY <1>3, <1>4, <2>2
    <3>2. {pending', panicked', nested', skipped'} \subseteq BOOLEAN
      BY <1>1, StateFacts
    <3> QED
      BY <1>1, <1>4, <3>1, <3>2 DEF Typed, Depth
  <2> QED BY <2>1, <2>2
<1>6. ASSUME Sound, escape' = escape
      PROVE  Sound'
  <2> DEFINE f == InForce(stack')
  <2>1. /\ Depth > 1 /\ Top.type # "throw" /\ Top = stack[Depth]
        /\ hframes # << >> /\ Good(hframes) /\ InRepl(stack)
    BY <1>1, <1>6, Program DEF Top
  <2>2. /\ f[Depth] = hframes /\ InRepl(stack')
    BY <1>1, <1>4, <1>6, <2>1, Kept DEF Sound
  <2>3. f[Depth + 1] = hframes
    <3>1. Depth + 1 \in 1 .. Len(stack') /\ (Depth + 1) - 1 = Depth
      BY <1>3, <1>4
    <3> QED
      BY <1>2, <1>4, <2>2, <3>1, PlainForce
  <2> HIDE DEF f
  <2>4. Nested(stack', f, Depth + 1)
    <3>1. Extents(stack', f, Depth + 1)
      BY <1>2, <1>3, <1>4, <2>1, <2>2 DEF Extents, ReplBind
    <3>2. Calls(stack', f, Depth + 1)
      BY <1>2, <1>3, <1>4, <2>1, <2>2 DEF Calls
    <3> QED
      BY <2>1, <2>2, <2>3, <3>1, <3>2 DEF Nested
  <2>5. Above(stack', Depth) = {Depth + 1}
    BY <1>3, <1>4 DEF Above
  <2>6. OneThrow(stack', escape')
    <3>1. OneThrow(stack, escape')
      BY <1>6 DEF Sound
    <3> QED
      BY <1>2, <1>3, <1>4, <2>1, <2>5, <3>1, ThrowStep
  <2> QED
    BY <1>1, <1>2, <1>3, <1>4, <1>6, <2>3, <2>4, <2>5, <2>6, SoundStep DEF f, Sound
<1> QED
  <2>1. ~ Astray' => ~ Astray /\ escape' = escape
    BY DEF Astray
  <2> QED
    BY <1>5, <1>6, <2>1 DEF CondInv

(* handler-bind puts a frame with its conditions before the ones in force. *)
LEMMA FramesMade ==
  ASSUME NEW g \in HFrames, NEW cs \in SUBSET AnyCondition, NEW i \in Nat
  PROVE  <<HFrame(cs, i)>> \o g \in HFrames
<1> DEFINE Frame == [conds : SUBSET AnyCondition, at : Nat]
<1>1. HFrame(cs, i) \in Frame
  BY DEF HFrame
<1>2. HFrames = Seq(Frame)
  BY DEF HFrames, AnyCondition
<1> HIDE DEF Frame
<1> QED
  BY <1>1, <1>2

(* Binding handlers outside the REPL's, or the REPL's own.                 *)
LEMMA GoodBound ==
  ASSUME NEW g \in HFrames, Good(g), NEW cs, NEW i \in Nat,
         \/ i = ReplBind /\ cs = ReplConditions /\ g = << >>
         \/ i > ReplBind /\ g # << >>
  PROVE  Good(<<HFrame(cs, i)>> \o g)
<1> DEFINE h == <<HFrame(cs, i)>> \o g
<1>1. /\ Len(g) \in Nat /\ Len(h) = Len(g) + 1 /\ h[1] = HFrame(cs, i)
      /\ \A k \in 1 .. Len(g) : h[k + 1] = g[k]
      /\ g # << >> => Len(g) > 0
  BY DEF HFrames
<1>2. \A k \in 2 .. Len(h) : h[k] = g[k - 1]
  <2> SUFFICES ASSUME NEW k \in 2 .. Len(h) PROVE h[k] = g[k - 1]
    OBVIOUS
  <2>1. k - 1 \in 1 .. Len(g) /\ (k - 1) + 1 = k
    BY <1>1
  <2> QED BY <1>1, <2>1
<1>3. HFrame(cs, i).at = i
  BY DEF HFrame
<1> SUFFICES Good(h)
  OBVIOUS
<1> HIDE DEF h
<1>4. CASE g = << >>
  BY <1>1, <1>4 DEF Good, ReplBind
<1>5. CASE g # << >>
  <2>1. h[Len(h)] = HFrame(ReplConditions, ReplBind)
    BY <1>1, <1>2, <1>5 DEF Good
  <2>2. ASSUME NEW k \in 1 .. Len(h) - 1
        PROVE  h[k].at # ReplBind
    <3>1. CASE k = 1
      BY <1>1, <1>3, <1>5, <3>1 DEF ReplBind
    <3>2. CASE k # 1
      <4>1. k - 1 \in 1 .. Len(g) - 1 /\ h[k] = g[k - 1]
        BY <1>1, <1>2, <3>2
      <4> QED BY <1>5, <4>1 DEF Good
    <3> QED BY <3>1, <3>2
  <2> QED
    BY <2>1, <2>2 DEF Good
<1> QED
  BY <1>4, <1>5

(* The before thunk of with-handler-frames keeps the invariant: the frames *)
(* it sets are those its entry stands for.                                 *)
LEMMA SetFramesInv ==
  ASSUME CondInv, SetFrames
  PROVE  CondInv'
<1> DEFINE b == [Top EXCEPT !.set = TRUE]
<1>1. /\ Typed /\ Stacked(stack) /\ Depth \in Nat /\ Depth = Len(stack) /\ hframes \in HFrames
      /\ Depth > 1 /\ Top = stack[Depth] /\ Top \in Entry
      /\ Top.type \in {"bind", "handler"} /\ ~ Top.set
  BY StateFacts DEF CondInv, SetFrames, TopIs, Top
<1>2. /\ Top.type = "bind" => /\ Top \in BindEntry /\ b \in BindEntry /\ b.conds = Top.conds
      /\ Top.type = "handler" => /\ Top \in HandlerEntry /\ b \in HandlerEntry
                                 /\ b.of = Top.of /\ b.outer = Top.outer
      /\ b.type = Top.type /\ b.saved = Top.saved /\ b.set = TRUE
  BY <1>1, EntryTypes DEF BindEntry, HandlerEntry
<1>3. b \in Entry
  BY <1>1, <1>2 DEF Entry
<1>4. stack' = Changed(stack, Depth, b)
  BY <1>1 DEF SetFrames, Top, Changed
<1>5. UNCHANGED <<escape, pending, breaks, panicked, nested, skipped>>
  BY DEF SetFrames
<1>6. /\ Top.type = "bind" => hframes' = <<HFrame(Top.conds, Depth)>> \o hframes
      /\ Top.type = "handler" => hframes' = Top.outer
  BY DEF SetFrames, TopIs
<1> HIDE DEF b
<1>7. /\ Stacked(stack') /\ Keeps(stack, stack', Depth - 1)
      /\ Len(stack') = Depth /\ stack'[Depth] = b
  BY <1>1, <1>2, <1>3, <1>4, ChangeStacked
<1>8. hframes' \in HFrames
  <2>1. CASE Top.type = "bind"
    <3>1. Top.conds \in SUBSET AnyCondition
      BY <1>2, <2>1 DEF BindEntry
    <3> QED
      BY <1>1, <1>6, <2>1, <3>1, FramesMade
  <2>2. CASE Top.type = "handler"
    BY <1>2, <1>6, <2>2 DEF HandlerEntry
  <2> QED BY <1>1, <2>1, <2>2
<1>9. Typed'
  <2>1. \A i \in (Depth - 1) + 1 .. Depth : ~ Throwing(i)
    BY <1>1 DEF Throwing
  <2> QED
    BY <1>1, <1>5, <1>7, <1>8, <2>1, StateFacts, TypedStep
<1>10. ASSUME Sound
       PROVE  Sound'
  <2> DEFINE f == InForce(stack)
             g == InForce(stack')
  <2>1. Nested(stack, f, Depth) /\ hframes = f[Depth]
    BY <1>1, <1>10 DEF Sound
  <2>2. f[Depth] = f[Depth - 1]
    BY <1>1, PlainForce DEF Plain
  <2>3. /\ g[Depth - 1] = hframes /\ Good(hframes) /\ g[1] = f[1]
        /\ hframes # << >> => InRepl(stack')
        /\ InRepl(stack) => InRepl(stack')
    <3>1. stack'[1] = stack[1]
      BY <1>1, <1>7 DEF Keeps
    <3> QED
      BY <1>1, <1>7, <1>10, <2>1, <2>2, <3>1, Kept DEF InRepl
  <2>4. g[Depth] = hframes'
    <3>1. g[Depth] = ForceAt(stack', g, Depth)
      BY <1>1, <1>7, Forces
    <3> QED
      BY <1>1, <1>2, <1>6, <1>7, <2>3, <3>1 DEF ForceAt
  <2> HIDE DEF f, g
  <2>5. Extents(stack', g, Depth)
    BY <1>1, <1>2, <1>7, <2>1, <2>2, <2>3 DEF Nested, Extents
  <2>6. Calls(stack', g, Depth)
    BY <1>1, <1>2, <1>7 DEF Calls
  <2>7. Good(hframes') /\ InRepl(stack')
    <3>1. CASE Top.type = "bind"
      <4>1. \/ Depth = ReplBind /\ Top.conds = ReplConditions /\ hframes = << >> /\ InRepl(stack)
            \/ Depth > ReplBind /\ hframes # << >>
        BY <1>1, <2>1, <2>2, <3>1 DEF Nested, Extents, ReplBind
      <4> QED
        BY <1>1, <1>6, <2>3, <3>1, <4>1, GoodBound
    <3>2. CASE Top.type = "handler"
      BY <1>1, <1>6, <2>1, <2>3, <3>2 DEF Nested, Extents
    <3> QED BY <1>1, <3>1, <3>2
  <2>8. Nested(stack', g, Depth)
    BY <2>4, <2>5, <2>6, <2>7 DEF Nested
  <2>9. Above(stack', Depth - 1) = {Depth}
    BY <1>1, <1>7 DEF Above
  <2>10. OneThrow(stack', escape')
    <3>1. OneThrow(stack, escape')
      BY <1>5, <1>10 DEF Sound
    <3>2. stack[Depth - 1].type # "throw"
      BY <1>1, <3>1 DEF OneThrow, AfterThunks
    <3> QED
      BY <1>1, <1>2, <1>7, <2>9, <3>1, <3>2, ThrowStep
  <2>11. ReplHandler(stack, Depth) => ReplHandler(stack', Depth)
    BY <1>1, <1>2, <1>7 DEF ReplHandler
  <2> QED
    BY <1>1, <1>2, <1>5, <1>7, <1>10, <2>4, <2>8, <2>9, <2>10, <2>11, SoundStep DEF g, Sound
<1> QED
  BY <1>5, <1>9, <1>10 DEF CondInv, Astray

(* A call or an extent that ends, and nothing takes its place.             *)
LEMMA PopInv ==
  ASSUME CondInv, Depth > 0, stack' = Below, hframes' \in HFrames,
         Sound => hframes' = InForce(stack)[Depth - 1],
         ~ Throwing(Depth), ~ ReplHandler(stack, Depth),
         UNCHANGED <<escape, pending, breaks, panicked, nested, skipped>>
  PROVE  CondInv'
<1>1. /\ Typed /\ Stacked(stack) /\ Depth \in Nat /\ Depth = Len(stack)
      /\ Depth - 1 \in 0 .. Len(stack)
  BY StateFacts DEF CondInv
<1>2. Stacked(stack') /\ Keeps(stack, stack', Depth - 1) /\ Len(stack') = Depth - 1
  BY <1>1, CutStacked DEF Below
<1>3. Typed'
  BY <1>1, <1>2, StateFacts, TypedStep
<1>4. ASSUME Sound
      PROVE  Sound'
  <2>1. hframes' = InForce(stack')[Depth - 1]
    BY <1>1, <1>2, <1>4, Kept
  <2>2. Above(stack', Depth - 1) = {}
    BY <1>1, <1>2 DEF Above
  <2>3. OneThrow(stack', escape')
    <3>1. OneThrow(stack, escape')
      BY <1>4 DEF Sound
    <3> QED
      BY <1>1, <1>2, <2>2, <3>1, ThrowStep
  <2>4. ~ panicked'
    BY <1>4 DEF Sound
  <2> QED
    BY <1>1, <1>2, <1>4, <2>1, <2>2, <2>3, <2>4, SoundStep
<1> QED
  BY <1>3, <1>4 DEF CondInv, Astray

(* An extent or call gives way to an after thunk, or to a last resort,     *)
(* without changing the frames in force.                                   *)
LEMMA GiveWayInv ==
  ASSUME CondInv, Depth > 1, NEW a \in Entry, stack' = Append(Below, a),
         a.type \in {"cleanup", "restore", "signal"},
         ~ Throwing(Depth), ~ ReplHandler(stack, Depth),
         UNCHANGED <<hframes, escape, pending, breaks, panicked, nested, skipped>>,
         Sound => /\ InForce(stack')[Depth] = InForce(stack)[Depth]
                  /\ Extents(stack', InForce(stack'), Depth)
                  /\ Calls(stack', InForce(stack'), Depth)
                  /\ a.type = "signal" => ~ Throwing(Depth - 1) /\ a.rest # << >>
  PROVE  CondInv'
<1>1. /\ Typed /\ Stacked(stack) /\ Depth \in Nat /\ Depth = Len(stack)
      /\ Depth \in 2 .. Len(stack)
  BY StateFacts DEF CondInv
<1>2. /\ Stacked(stack') /\ Keeps(stack, stack', Depth - 1) /\ Len(stack') = Depth
      /\ stack'[Depth] = a
  BY <1>1, ReplaceStacked DEF Below
<1>3. Typed'
  <2>1. \A i \in (Depth - 1) + 1 .. Depth : ~ Throwing(i)
    BY <1>1
  <2> QED
    BY <1>1, <1>2, <2>1, StateFacts, TypedStep
<1>4. ASSUME Sound
      PROVE  Sound'
  <2>1. hframes' = InForce(stack')[Depth]
    BY <1>4 DEF Sound
  <2>2. Nested(stack', InForce(stack'), Depth)
    <3>1. stack'[1] = stack[1]
      BY <1>1, <1>2 DEF Keeps
    <3>2. Nested(stack, InForce(stack), Depth)
      BY <1>1, <1>4 DEF Sound
    <3> QED
      BY <1>4, <3>1, <3>2 DEF Nested, InRepl
  <2>3. Above(stack', Depth - 1) = {Depth}
    BY <1>1, <1>2 DEF Above
  <2>4. OneThrow(stack', escape')
    <3>1. OneThrow(stack, escape')
      BY <1>4 DEF Sound
    <3>2. a.type \in AfterThunks \/ stack[Depth - 1].type # "throw"
      BY <1>4 DEF AfterThunks, Throwing
    <3>3. (Depth - 1) + 1 = Depth /\ stack'[(Depth - 1) + 1] = a /\ a.type # "throw"
      BY <1>1, <1>2
    <3>4. \A i \in Above(stack', Depth - 1) : stack'[i].type # "throw"
      BY <1>2, <2>3, <3>3
    <3>5. stack[Depth - 1].type = "throw" => stack'[(Depth - 1) + 1].type \in AfterThunks
      BY <3>2, <3>3
    <3> QED
      BY <1>1, <1>2, <3>1, <3>4, <3>5, ThrowStep, ZenonT(60)
  <2>5. ~ panicked'
    BY <1>4 DEF Sound
  <2> QED
    BY <1>1, <1>2, <1>4, <2>1, <2>2, <2>3, <2>4, <2>5, SoundStep
<1> QED
  BY <1>3, <1>4 DEF CondInv, Astray

(* A return from a call keeps the invariant: the frame goes, and its after *)
(* thunk, if it has one, takes its place with the same frames in force.    *)
LEMMA ReturnInv ==
  ASSUME CondInv, Return
  PROVE  CondInv'
<1>1. /\ Typed /\ Stacked(stack) /\ Depth \in Nat /\ Depth = Len(stack) /\ hframes \in HFrames
      /\ Depth > 0 /\ Top = stack[Depth] /\ Top \in Entry
      /\ Top.type \in {"cleanup", "protect", "bind", "handler", "catch"}
      /\ Top.type \in {"bind", "handler"} => Top.set
      /\ Top.type = "handler" => Top.of # ReplBind
      /\ Depth > 0 => stack[1].type = "catch"
  BY StateFacts DEF CondInv, Return, InProgram, TopIs, Top
<1>2. /\ stack' = IF Top.type \in {"catch", "cleanup"} THEN Below
                                                       ELSE Append(Below, AfterThunk(Top))
      /\ UNCHANGED <<hframes, escape, pending, breaks, panicked, nested, skipped>>
  BY DEF Return
<1>3. ~ Throwing(Depth) /\ ~ ReplHandler(stack, Depth)
  BY <1>1 DEF Throwing, ReplHandler
<1>4. CASE Top.type \in {"catch", "cleanup"}
  <2>1. Sound => hframes' = InForce(stack)[Depth - 1]
    BY <1>1, <1>2, <1>4, PlainForce DEF Sound, Plain
  <2> QED
    BY <1>1, <1>2, <1>3, <1>4, <2>1, PopInv
<1>5. CASE Top.type = "protect"
  <2>1. Depth > 1 /\ Depth \in 2 .. Len(stack)
    BY <1>1, <1>5
  <2>2. /\ stack' = Append(Below, Cleanup)
        /\ Cleanup \in Entry /\ Cleanup.type = "cleanup"
    BY <1>1, <1>2, <1>5, EntriesMade DEF AfterThunk
  <2>3. /\ Stacked(stack') /\ Keeps(stack, stack', Depth - 1) /\ Len(stack') = Depth
        /\ stack'[Depth] = Cleanup
    BY <1>1, <2>1, <2>2, ReplaceStacked DEF Below
  <2>4. ASSUME Sound
        PROVE  /\ InForce(stack')[Depth] = InForce(stack)[Depth]
               /\ Extents(stack', InForce(stack'), Depth)
               /\ Calls(stack', InForce(stack'), Depth)
    <3>1. /\ InForce(stack)[Depth] = InForce(stack)[Depth - 1]
          /\ InForce(stack')[Depth] = InForce(stack')[Depth - 1]
      <4>1. Plain(stack[Depth]) /\ Plain(stack'[Depth])
        BY <1>1, <1>5, <2>2, <2>3 DEF Plain
      <4>2. Depth \in 1 .. Len(stack) /\ Depth \in 1 .. Len(stack')
        BY <1>1, <2>3
      <4> QED
        BY <1>1, <2>3, <4>1, <4>2, PlainForce
    <3>2. InForce(stack')[Depth - 1] = InForce(stack)[Depth - 1]
      BY <1>1, <2>3, <2>4, Kept
    <3>3. InForce(stack)[Depth - 1] # << >>
      BY <1>1, <1>5, <2>4 DEF Sound, Nested, Calls
    <3> QED
      BY <2>2, <2>3, <3>1, <3>2, <3>3 DEF Extents, Calls
  <2> QED
    BY <1>2, <1>3, <2>1, <2>2, <2>4, GiveWayInv
<1>6. CASE Top.type \in {"bind", "handler"}
  <2>1. Depth > 1 /\ Depth \in 2 .. Len(stack) /\ Top \in BindEntry \cup HandlerEntry
    BY <1>1, <1>6, EntryTypes
  <2> DEFINE a == Restoring(Top)
  <2>2. /\ stack' = Append(Below, a)
        /\ a \in Entry /\ a.type = "restore" /\ a.extent = Top
    BY <1>1, <1>2, <1>6, <2>1, MoreMade DEF AfterThunk
  <2> HIDE DEF a
  <2>3. /\ Stacked(stack') /\ Keeps(stack, stack', Depth - 1) /\ Len(stack') = Depth
        /\ stack'[Depth] = a
    BY <1>1, <2>1, <2>2, ReplaceStacked DEF Below
  <2>4. ASSUME Sound
        PROVE  /\ InForce(stack')[Depth] = InForce(stack)[Depth]
               /\ Extents(stack', InForce(stack'), Depth)
               /\ Calls(stack', InForce(stack'), Depth)
    <3>1. InForce(stack')[Depth - 1] = InForce(stack)[Depth - 1]
      BY <1>1, <2>3, <2>4, Kept
    <3>2. stack'[Depth - 1] = stack[Depth - 1] /\ stack[Depth - 1].type # "throw"
      <4>1. Depth - 1 \in 1 .. Len(stack) /\ OneThrow(stack, escape)
        BY <1>1, <2>1, <2>4 DEF Sound
      <4>2. stack'[Depth - 1] = stack[Depth - 1]
        BY <1>1, <2>1, <2>3 DEF Keeps
      <4> QED
        BY <1>1, <1>6, <4>1, <4>2 DEF OneThrow, AfterThunks
    <3>3. /\ InForce(stack)[Depth] = ForceAt(stack, InForce(stack), Depth)
          /\ InForce(stack')[Depth] = ForceAt(stack', InForce(stack'), Depth)
      BY <1>1, <2>1, <2>3, Forces
    <3>4. InForce(stack')[Depth] = InForce(stack)[Depth]
      BY <1>1, <1>6, <2>2, <2>3, <3>1, <3>2, <3>3 DEF ForceAt
    <3>5. Top.saved = InForce(stack)[Depth - 1]
      BY <1>1, <1>6, <2>4 DEF Sound, Nested, Extents
    <3> QED
      BY <2>2, <2>3, <3>1, <3>4, <3>5 DEF Extents, Calls
  <2> QED
    BY <1>2, <1>3, <2>1, <2>2, <2>4, GiveWayInv
<1> QED
  BY <1>1, <1>4, <1>5, <1>6

(* The after thunk of with-handler-frames keeps the invariant: it sets the *)
(* frames that were in force when its call began.                          *)
LEMMA RestoreInv ==
  ASSUME CondInv, Restore
  PROVE  CondInv'
<1>1. /\ Typed /\ Depth \in Nat /\ Depth = Len(stack)
      /\ Depth > 0 /\ Top = stack[Depth] /\ Top \in Entry /\ Top.type = "restore"
      /\ stack' = Below /\ hframes' = Top.extent.saved
      /\ UNCHANGED <<escape, pending, breaks, panicked, nested, skipped>>
  BY StateFacts DEF CondInv, Restore, TopIs, Top
<1>2. hframes' \in HFrames
  <2>1. Top \in RestoreEntry
    BY <1>1, EntryTypes
  <2> QED
    BY <1>1, <2>1 DEF RestoreEntry, BindEntry, HandlerEntry
<1>3. Sound => hframes' = InForce(stack)[Depth - 1]
  BY <1>1 DEF Sound, Nested, Extents
<1>4. ~ Throwing(Depth) /\ ~ ReplHandler(stack, Depth)
  BY <1>1 DEF Throwing, ReplHandler
<1> QED
  BY <1>1, <1>2, <1>3, <1>4, PopInv

(* The frames outside the k-th, which handle-condition sets while it calls *)
(* the handler of the k-th, are handler frames.                            *)
LEMMA OuterFrames ==
  ASSUME NEW g \in HFrames, NEW k \in 1 .. Len(g)
  PROVE  SubSeq(g, k + 1, Len(g)) \in HFrames /\ g[k].at \in Nat
<1> DEFINE Frame == [conds : SUBSET AnyCondition, at : Nat]
<1>1. HFrames = Seq(Frame)
  BY DEF HFrames, AnyCondition
<1>2. \A a \in Frame : a.at \in Nat
  OBVIOUS
<1> HIDE DEF Frame
<1>3. g[k] \in Frame /\ SubSeq(g, k + 1, Len(g)) \in Seq(Frame)
  BY <1>1
<1> QED
  BY <1>1, <1>2, <1>3

(* The frames around the k-th, which is the REPL's if there are none.      *)
LEMMA GoodOuter ==
  ASSUME NEW g \in HFrames, Good(g), NEW k \in 1 .. Len(g),
         NEW outer, outer = SubSeq(g, k + 1, Len(g))
  PROVE  /\ outer \in HFrames /\ Good(outer) /\ g # << >>
         /\ g[k].at \in Nat
         /\ outer = << >> <=> g[k].at = ReplBind
<1> DEFINE Frame == [conds : SUBSET AnyCondition, at : Nat]
<1>1. HFrames = Seq(Frame)
  BY DEF HFrames, AnyCondition
<1>2. g[k].at \in Nat
  BY OuterFrames
<1> HIDE DEF Frame
<1>3. /\ Len(g) \in Nat /\ g # << >>
      /\ outer \in Seq(Frame) /\ Len(outer) = Len(g) - k
      /\ \A i \in 1 .. Len(g) - k : outer[i] = g[k + i]
  BY <1>1
<1>4. g[Len(g)] = HFrame(ReplConditions, ReplBind) /\ \A i \in 1 .. Len(g) - 1 : g[i].at # ReplBind
  BY <1>3 DEF Good
<1>5. CASE k = Len(g)
  <2>1. outer = << >>
    BY <1>3, <1>5
  <2>2. g[k].at = ReplBind
    BY <1>4, <1>5 DEF HFrame
  <2> QED
    BY <1>1, <1>2, <1>3, <2>1, <2>2 DEF Good
<1>6. CASE k # Len(g)
  <2>1. k \in 1 .. Len(g) - 1 /\ Len(outer) > 0
    BY <1>3, <1>6
  <2>2. outer[Len(outer)] = HFrame(ReplConditions, ReplBind)
    BY <1>3, <1>4, <2>1
  <2>3. ASSUME NEW i \in 1 .. Len(outer) - 1
        PROVE  outer[i].at # ReplBind
    <3>1. outer[i] = g[k + i] /\ k + i \in 1 .. Len(g) - 1
      BY <1>3, <2>1
    <3> QED
      BY <1>4, <3>1
  <2>4. outer # << >>
    <3>1. Len(outer) # Len(<< >>)
      BY <2>1
    <3> HIDE <1>3
    <3> QED BY <3>1, Zenon
  <2>5. g[k].at # ReplBind
    BY <1>4, <2>1
  <2> QED
    BY <1>1, <1>2, <1>3, <2>2, <2>3, <2>4, <2>5 DEF Good
<1> QED
  BY <1>5, <1>6

(* handle-condition keeps the invariant when it calls a handler: the       *)
(* frames outside its own are in force while it runs.                      *)
LEMMA CallHandlerInv ==
  ASSUME CondInv, CallHandler
  PROVE  CondInv'
<1> DEFINE rest == Top.rest
           k == Least(Handling(Top.rest, Top.cond))
           outer == SubSeq(rest, k + 1, Len(rest))
           b == [Top EXCEPT !.rest = outer]
           c == Call(rest[k].at, outer)
           mid == Changed(stack, Depth, b)
<1>1. /\ Typed /\ Stacked(stack) /\ Depth \in Nat /\ Depth = Len(stack) /\ hframes \in HFrames
      /\ Depth > 1 /\ Top = stack[Depth] /\ Top \in Entry /\ Top.type = "signal"
      /\ Handling(Top.rest, Top.cond) # {}
      /\ UNCHANGED <<hframes, escape, pending, breaks, panicked, nested, skipped>>
  BY StateFacts DEF CondInv, CallHandler, TopIs, Top
<1>2. stack' = Append(mid, c)
  BY DEF CallHandler, Top, Changed
<1>3. Top \in SignalEntry /\ rest \in HFrames
  BY <1>1, EntryTypes DEF SignalEntry
<1>4. k \in 1 .. Len(rest)
  <2>1. Handling(Top.rest, Top.cond) \subseteq 1 .. Len(rest)
    BY <1>3 DEF Handling, HFrames
  <2>2. 1 .. Len(rest) \subseteq Nat
    OBVIOUS
  <2>3. \E i \in Handling(Top.rest, Top.cond) : \A j \in Handling(Top.rest, Top.cond) : i <= j
    BY <1>1, <2>1, <2>2, LeastExists
  <2> QED
    BY <2>1, <2>3 DEF Least
<1> HIDE DEF k
<1>5. outer \in HFrames /\ rest[k].at \in Nat
  BY <1>3, <1>4, OuterFrames
<1>6. ASSUME Sound
      PROVE  /\ Good(rest) /\ Good(outer) /\ rest # << >> /\ InRepl(stack)
             /\ outer = << >> <=> rest[k].at = ReplBind
  <2>1. Good(rest) /\ (rest # << >> => InRepl(stack))
    BY <1>1, <1>6 DEF Sound, Nested, Calls
  <2> HIDE DEF rest
  <2> QED
    BY <1>3, <1>4, <2>1, GoodOuter
<1> HIDE DEF outer
<1>7. /\ b \in Entry /\ b.type = "signal" /\ b.rest = outer
      /\ b.last = Top.last /\ b.cond = Top.cond
  BY <1>3, <1>5 DEF SignalEntry, Entry
<1>8. /\ c \in Entry /\ c.type = "handler" /\ c.of = rest[k].at
      /\ c.outer = outer /\ c.saved = hframes /\ c.set = FALSE
  BY <1>1, <1>5, EntriesMade, ZenonT(60)
<1> HIDE DEF rest, b, c
<1>9. Stacked(mid) /\ Keeps(stack, mid, Depth - 1) /\ Len(mid) = Depth /\ mid[Depth] = b
  BY <1>1, <1>7, ChangeStacked
<1> HIDE DEF mid
<1>10. /\ Stacked(stack') /\ Keeps(mid, stack', Depth) /\ Len(stack') = Depth + 1
       /\ stack'[Depth + 1] = c
  BY <1>1, <1>2, <1>8, <1>9, PushStacked
<1>11. Keeps(stack, stack', Depth - 1) /\ stack'[Depth] = b
  BY <1>1, <1>9, <1>10 DEF Keeps
<1>12. Typed'
  <2>1. \A i \in (Depth - 1) + 1 .. Depth : ~ Throwing(i)
    BY <1>1 DEF Throwing
  <2> QED
    BY <1>1, <1>10, <1>11, <2>1, StateFacts, TypedStep
<1>13. ASSUME Sound
       PROVE  Sound'
  <2> DEFINE f == InForce(stack)
             g == InForce(stack')
  <2>1. Nested(stack, f, Depth) /\ hframes = f[Depth]
    BY <1>1, <1>13 DEF Sound
  <2>2. f[Depth] = f[Depth - 1] /\ g[Depth] = g[Depth - 1] /\ g[Depth + 1] = g[Depth]
    <3>1. Plain(stack[Depth]) /\ Plain(stack'[Depth]) /\ Plain(stack'[Depth + 1])
      BY <1>1, <1>7, <1>8, <1>10, <1>11 DEF Plain
    <3>2. /\ Depth \in 1 .. Len(stack) /\ Depth \in 1 .. Len(stack')
          /\ Depth + 1 \in 1 .. Len(stack') /\ (Depth + 1) - 1 = Depth
      BY <1>1, <1>10
    <3> QED
      BY <1>1, <1>10, <3>1, <3>2, PlainForce
  <2>3. /\ g[Depth - 1] = hframes /\ Good(hframes)
    BY <1>1, <1>10, <1>11, <1>13, <2>1, <2>2, Kept
  <2>4. InRepl(stack')
    <3>1. stack'[1] = stack[1]
      BY <1>1, <1>11 DEF Keeps
    <3> QED
      BY <1>6, <1>13, <3>1 DEF InRepl
  <2> HIDE DEF f, g
  <2>5. Nested(stack', g, Depth)
    BY <1>1, <1>6, <1>7, <1>11, <1>13, <2>1, <2>2, <2>3, <2>4 DEF Nested, Extents, Calls, rest
  <2>6. Nested(stack', g, Depth + 1)
    <3>1. (Depth + 1) - 1 = Depth
      BY <1>1
    <3>2. Extents(stack', g, Depth + 1)
      BY <1>6, <1>8, <1>10, <1>13, <2>2, <2>3, <2>4, <3>1 DEF Extents
    <3>3. Calls(stack', g, Depth + 1)
      BY <1>8, <1>10 DEF Calls
    <3> QED
      BY <2>2, <2>3, <2>4, <3>2, <3>3 DEF Nested
  <2>7. Above(stack', Depth - 1) = {Depth, Depth + 1}
    BY <1>1, <1>10 DEF Above
  <2>8. OneThrow(stack', escape')
    <3>1. OneThrow(stack, escape')
      BY <1>1, <1>13 DEF Sound
    <3>2. stack[Depth - 1].type # "throw"
      <4>1. Depth - 1 \in 1 .. Len(stack) /\ (Depth - 1) + 1 = Depth
        BY <1>1
      <4> QED
        BY <1>1, <3>1, <4>1 DEF OneThrow, AfterThunks
    <3>3. \A i \in Above(stack', Depth - 1) : stack'[i].type # "throw"
      BY <1>7, <1>8, <1>10, <1>11, <2>7
    <3> QED
      BY <1>1, <1>10, <1>11, <3>1, <3>2, <3>3, ThrowStep
  <2>9. ~ ReplHandler(stack, (Depth - 1) + 1)
    BY <1>1 DEF ReplHandler
  <2>10. \A i \in Above(stack', Depth - 1) :
            stack'[i].type = "signal" /\ stack'[i].last = "panic" /\ stack'[i].rest = << >>
              => i < Len(stack') /\ ReplHandler(stack', i + 1)
    <3>1. outer = << >> => ReplHandler(stack', Depth + 1)
      BY <1>6, <1>8, <1>10, <1>13 DEF ReplHandler
    <3> QED
      BY <1>1, <1>7, <1>8, <1>10, <1>11, <2>7, <3>1
  <2>11. ~ panicked' /\ hframes' = g[Len(stack')]
    BY <1>1, <1>10, <1>13, <2>2, <2>3 DEF Sound
  <2>12. \A i \in Above(stack', Depth - 1) : Nested(stack', g, i)
    BY <2>5, <2>6, <2>7
  <2> QED
    BY <1>1, <1>10, <1>11, <1>13, <2>8, <2>9, <2>10, <2>11, <2>12, SoundStep DEF g
<1> QED
  BY <1>1, <1>12, <1>13 DEF CondInv, Astray

(* A signal or an abort that no handler has taken keeps the invariant. An  *)
(* abort has called the REPL's handler by then, or signals unhandled-abort *)
(* with that handler still in force: the panic is not reached.             *)
LEMMA LastResortInv ==
  ASSUME CondInv, LastResort
  PROVE  CondInv'
<1>1. /\ Typed /\ Stacked(stack) /\ Depth \in Nat /\ Depth = Len(stack) /\ hframes \in HFrames
      /\ Depth > 1 /\ Top = stack[Depth] /\ Top \in Entry /\ Top.type = "signal"
      /\ Depth \in 1 .. Len(stack) /\ Depth \in 2 .. Len(stack)
      /\ Handling(Top.rest, Top.cond) = {}
      /\ UNCHANGED <<hframes, escape, pending, breaks, nested, skipped>>
  BY StateFacts DEF CondInv, LastResort, TopIs, Top
<1>2. Top \in SignalEntry /\ Top.last \in {"return", "abort", "panic"}
  BY <1>1, EntryTypes DEF SignalEntry
<1>3. ~ Throwing(Depth) /\ ~ ReplHandler(stack, Depth)
  BY <1>1 DEF Throwing, ReplHandler
<1>4. Sound => hframes = InForce(stack)[Depth] /\ hframes = InForce(stack)[Depth - 1]
  BY <1>1, PlainForce DEF Sound, Plain
<1>5. CASE Top.last = "return"
  <2>1. stack' = Below /\ UNCHANGED panicked
    BY <1>5 DEF LastResort
  <2> QED
    BY <1>1, <1>3, <1>4, <2>1, PopInv
<1>6. CASE Top.last = "abort"
  <2> DEFINE a == Signalling("unhandled-abort", "panic")
  <2>1. stack' = Append(Below, a) /\ UNCHANGED panicked
    BY <1>6 DEF LastResort
  <2>2. /\ a \in Entry /\ a.type = "signal" /\ a.rest = hframes
        /\ a.last = "panic" /\ a.cond = "unhandled-abort"
    BY <1>1, EntriesMade DEF AnyCondition, ReplConditions
  <2> HIDE DEF a
  <2>3. /\ Stacked(stack') /\ Keeps(stack, stack', Depth - 1) /\ Len(stack') = Depth
        /\ stack'[Depth] = a
    BY <1>1, <2>1, <2>2, ReplaceStacked DEF Below
  <2>4. ASSUME Sound
        PROVE  /\ InForce(stack')[Depth] = InForce(stack)[Depth]
               /\ Extents(stack', InForce(stack'), Depth)
               /\ Calls(stack', InForce(stack'), Depth)
               /\ a.type = "signal" => ~ Throwing(Depth - 1) /\ a.rest # << >>
    <3>1. /\ InForce(stack')[Depth - 1] = hframes
          /\ Good(hframes) /\ (hframes # << >> => InRepl(stack'))
      BY <1>1, <1>4, <2>3, <2>4, Kept
    <3>2. InForce(stack')[Depth] = hframes
      <4>1. Plain(stack'[Depth]) /\ Depth \in 1 .. Len(stack')
        BY <1>1, <2>2, <2>3 DEF Plain
      <4> QED
        BY <2>3, <3>1, <4>1, PlainForce
    <3>3. hframes # << >>
      BY <1>1, <1>4, <1>6, <2>4 DEF Sound, Nested, Calls
    <3>4. ~ Throwing(Depth - 1)
      <4>1. Depth - 1 \in 1 .. Len(stack) /\ (Depth - 1) + 1 = Depth
        BY <1>1
      <4> QED
        BY <1>1, <2>4, <4>1 DEF Sound, OneThrow, AfterThunks, Throwing
    <3> QED
      BY <1>4, <2>2, <2>3, <2>4, <3>1, <3>2, <3>3, <3>4 DEF Extents, Calls
  <2> QED
    BY <1>1, <1>3, <2>1, <2>2, <2>4, GiveWayInv
<1>7. CASE Top.last = "panic"
  <2>1. stack' = stack /\ panicked' = TRUE
    BY <1>7 DEF LastResort
  <2>2. Typed'
    <3>1. \A i \in Depth + 1 .. Depth : ~ Throwing(i)
      BY <1>1
    <3> QED
      BY <1>1, <2>1, <3>1, StateFacts, TypedStep
  <2>3. ASSUME Sound PROVE FALSE
    <3>1. Top.rest # << >> /\ Good(Top.rest) /\ Top.cond = "unhandled-abort"
      BY <1>1, <1>7, <2>3 DEF Sound, Nested, Calls, Caught
    <3>2. Top.rest \in HFrames
      BY <1>2 DEF SignalEntry
    <3>3. Len(Top.rest) \in DOMAIN Top.rest
      BY <3>1, <3>2 DEF HFrames
    <3>4. "unhandled-abort" \in Top.rest[Len(Top.rest)].conds
      BY <3>1 DEF Good, HFrame, ReplConditions
    <3> QED
      BY <1>1, <3>1, <3>3, <3>4 DEF Handling
  <2> QED
    BY <1>1, <2>2, <2>3 DEF CondInv, Astray
<1> QED
  BY <1>2, <1>5, <1>6, <1>7

(* The search of find_matching_escape stops at a catch.                    *)
LEMMA MatchFound ==
  ASSUME Typed, NEW t, Matching(t) # {}
  PROVE  Greatest(Matching(t)) \in 1 .. Depth /\ stack[Greatest(Matching(t))].type = "catch"
<1>1. Depth \in Nat /\ escape \in 0 .. Depth
  BY StateFacts DEF Typed
<1>2. Matching(t) \subseteq 1 .. Depth
  BY <1>1 DEF Matching, SearchStart
<1>3. Matching(t) \subseteq 0 .. Depth
  BY <1>1, <1>2
<1>4. \E m \in Matching(t) : \A k \in Matching(t) : k <= m
  BY <1>1, <1>3, GreatestExists
<1>5. Greatest(Matching(t)) \in Matching(t)
  BY <1>4 DEF Greatest
<1> QED
  BY <1>2, <1>5 DEF Matching

(* THROW keeps the invariant: it goes to the catch found, or signals       *)
(* uncaught-throw if there is none.                                        *)
LEMMA ThrowInv ==
  ASSUME CondInv, NEW t \in Tag \cup {IgnoreTag, ReplTag}, Throw(t)
  PROVE  CondInv'
<1>1. /\ Typed /\ Stacked(stack) /\ Depth \in Nat /\ Depth = Len(stack) /\ hframes \in HFrames
      /\ Depth > 0 /\ Top = stack[Depth] /\ Top.type # "throw"
      /\ escape \in 0 .. Depth
      /\ nested' = (nested \/ escape # 0)
      /\ UNCHANGED <<hframes, pending, breaks, panicked, skipped>>
  BY StateFacts DEF CondInv, Throw, InProgram, TopIs, Top, Typed
<1>2. ~ Astray' => ~ Astray /\ escape = 0 /\ Sound
  BY <1>1 DEF Astray, CondInv
<1>3. {pending', panicked', nested', skipped'} \subseteq BOOLEAN /\ breaks' \in 0 .. MaxBreaks
  BY <1>1, StateFacts
<1>4. CASE Matching(t) = {} /\ InProgram
  <2> DEFINE a == Signalling("uncaught-throw", "abort")
  <2>1. escape' = 0 /\ stack' = Push(a)
    BY <1>4 DEF Throw
  <2>2. Begins(a)
    BY DEF Begins, AnyCondition, ReplConditions
  <2> HIDE DEF a
  <2> QED
    BY <1>1, <1>4, <2>1, <2>2, BeginInv
<1>5. CASE Matching(t) = {} /\ ~ InProgram
  <2> DEFINE a == Signalling("uncaught-throw", "abort")
  <2>1. /\ escape' = 0 /\ stack' = Append(stack, a)
        /\ Top.type = "handler" /\ t = ReplTag
    BY <1>5 DEF Throw, Push, TopIs
  <2>2. a \in Entry /\ a.type # "throw"
    BY <1>1, EntriesMade DEF AnyCondition, ReplConditions
  <2> HIDE DEF a
  <2>3. Stacked(stack') /\ Len(stack') = Depth + 1
    BY <1>1, <2>1, <2>2, PushStacked
  <2>4. Typed'
    <3>1. escape' \in 0 .. Len(stack') /\ ~ (escape' # 0)
      BY <1>1, <2>1, <2>3
    <3> QED
      BY <1>1, <1>3, <2>3, <3>1 DEF Typed, Depth
  <2>5. ASSUME Sound, escape = 0 PROVE FALSE
    <3>1. InRepl(stack)
      BY <1>1, <2>1, <2>5 DEF Sound, Nested, Extents
    <3>2. 1 \in Matching(ReplTag)
      BY <1>1, <2>5, <3>1, EntriesMade DEF Matching, SearchStart, InRepl
    <3> QED
      BY <1>5, <2>1, <3>2
  <2> QED
    BY <1>2, <2>4, <2>5 DEF CondInv
<1>6. CASE Matching(t) # {}
  <2> DEFINE e == Greatest(Matching(t))
             a == Unwinding(Depth)
  <2>1. escape' = e /\ stack' = Append(stack, a)
    BY <1>6 DEF Throw, Push
  <2>2. e \in 1 .. Depth /\ stack[e].type = "catch"
    BY <1>1, <1>6, MatchFound
  <2>3. a \in Entry /\ a.type = "throw" /\ a.at = Depth
    BY <1>1, MoreMade
  <2> HIDE DEF a, e
  <2>4. /\ Stacked(stack') /\ Keeps(stack, stack', Depth)
        /\ Len(stack') = Depth + 1 /\ stack'[Depth + 1] = a
    BY <1>1, <2>1, <2>3, PushStacked
  <2>5. Typed'
    <3>1. /\ e \in 0 .. Len(stack') /\ stack'[e].type = "catch"
          /\ Depth + 1 \in e + 1 .. Len(stack') /\ e <= stack'[Depth + 1].at
      BY <1>1, <2>2, <2>3, <2>4 DEF Keeps
    <3> QED
      BY <1>1, <1>3, <2>1, <2>3, <2>4, <3>1 DEF Typed, Depth, Throwing
  <2>6. ASSUME Sound, escape = 0
        PROVE  Sound'
    <3> DEFINE g == InForce(stack')
    <3>1. /\ g[Depth] = hframes /\ Good(hframes)
          /\ hframes # << >> => InRepl(stack')
      BY <1>1, <2>4, <2>6, Kept DEF Sound
    <3>2. g[Depth + 1] = hframes
      <4>1. g[Depth + 1] = ForceAt(stack', g, Depth + 1)
        BY <1>1, <2>4, Forces
      <4> QED
        BY <2>3, <2>4, <3>1, <4>1 DEF ForceAt
    <3> HIDE DEF g
    <3>3. Nested(stack', g, Depth + 1)
      BY <2>3, <2>4, <3>1, <3>2 DEF Nested, Extents, Calls
    <3>4. Above(stack', Depth) = {Depth + 1}
      BY <1>1, <2>4 DEF Above
    <3>5. OneThrow(stack', escape')
      <4>1. \A i \in 1 .. Depth : stack'[i].type # "throw"
        BY <1>1, <2>4, <2>6 DEF Sound, OneThrow, Keeps
      <4>2. \A i \in 1 .. Len(stack') : stack'[i].type = "throw" => i = Depth + 1
        BY <1>1, <2>4, <4>1
      <4>3. escape' # 0
        BY <2>1, <2>2
      <4> QED
        BY <1>1, <2>4, <4>2, <4>3 DEF OneThrow
    <3> QED
      BY <1>1, <2>3, <2>4, <2>6, <3>2, <3>3, <3>4, <3>5, SoundStep DEF g, Sound
  <2> QED
    BY <1>2, <2>5, <2>6 DEF CondInv
<1> QED
  BY <1>4, <1>5, <1>6

(* A user break sets a flag that is looked at later: it keeps the          *)
(* invariant.                                                              *)
LEMMA SignalInterruptInv ==
  ASSUME CondInv, SignalInterrupt
  PROVE  CondInv'
<1>1. /\ stack' = stack /\ pending' = TRUE /\ breaks' = breaks + 1 /\ breaks < MaxBreaks
      /\ UNCHANGED <<hframes, escape, panicked, nested, skipped>>
  BY DEF SignalInterrupt
<1>2. breaks' \in 0 .. MaxBreaks
  <2>1. MaxBreaks \in Nat /\ breaks \in 0 .. MaxBreaks
    BY ConditionsAssumption DEF CondInv, Typed
  <2> QED
    BY <1>1, <2>1
<1>3. Typed'
  BY <1>1, <1>2 DEF CondInv, Typed, Depth, Throwing
<1> QED
  BY <1>1, <1>3 DEF CondInv, Sound, Astray, Depth

(* The trap handler's catch and signal, or the REPL's catch and extent.    *)
LEMMA PushTwoInv ==
  ASSUME CondInv, NEW a \in Entry, NEW b \in Entry, stack' = Append(Append(stack, a), b),
         a.type = "catch", a.tag \notin Tag, Plain(b),
         Depth > 0 => ~ Throwing(Depth),
         UNCHANGED <<hframes, escape, panicked, nested, skipped>>,
         pending' \in BOOLEAN, breaks' \in 0 .. MaxBreaks, ~ panicked,
         \/ b.type = "signal" /\ b.rest = hframes /\ b.last = "return"
         \/ /\ b.type = "bind" /\ b.saved = hframes /\ b.conds = ReplConditions
            /\ a = Catch(ReplTag) /\ Depth = 0
  PROVE  CondInv'
<1> DEFINE mid == Append(stack, a)
<1>1. /\ Typed /\ Stacked(stack) /\ Depth \in Nat /\ Depth = Len(stack) /\ hframes \in HFrames
  BY StateFacts DEF CondInv
<1>2. /\ Stacked(mid) /\ Keeps(stack, mid, Depth)
      /\ Len(mid) = Depth + 1 /\ mid[Depth + 1] = a
  BY <1>1, PushStacked
<1>3. stack' = Append(mid, b) /\ b.type # "throw"
  BY DEF Plain
<1> HIDE DEF mid
<1>4. /\ Stacked(stack') /\ Keeps(mid, stack', Depth + 1)
      /\ Len(stack') = Depth + 2 /\ stack'[Depth + 2] = b
  <2>1. Len(mid) # 0 /\ (Depth + 1) + 1 = Depth + 2
    BY <1>1, <1>2
  <2> QED
    BY <1>2, <1>3, <2>1, PushStacked
<1>5. Keeps(stack, stack', Depth) /\ stack'[Depth + 1] = a
  BY <1>1, <1>2, <1>4 DEF Keeps
<1>6. Typed'
  <2>1. \A i \in Depth + 1 .. Depth : ~ Throwing(i)
    BY <1>1
  <2>2. {pending', panicked', nested', skipped'} \subseteq BOOLEAN
    BY <1>1, StateFacts
  <2> QED
    BY <1>1, <1>4, <1>5, <2>1, <2>2, TypedStep
<1>7. ASSUME Sound
      PROVE  Sound'
  <2> DEFINE g == InForce(stack')
  <2>1. /\ g[Depth] = hframes /\ Good(hframes)
        /\ hframes # << >> => InRepl(stack')
    BY <1>1, <1>4, <1>5, <1>7, Kept DEF Sound
  <2>2. g[Depth + 1] = hframes /\ g[Depth + 2] = hframes
    <3>1. /\ Depth + 1 \in 1 .. Len(stack') /\ (Depth + 1) - 1 = Depth
          /\ Depth + 2 \in 1 .. Len(stack') /\ (Depth + 2) - 1 = Depth + 1
          /\ Plain(stack'[Depth + 1]) /\ Plain(stack'[Depth + 2])
      BY <1>1, <1>4, <1>5 DEF Plain
    <3> QED
      BY <1>4, <2>1, <3>1, PlainForce, ZenonT(60)
  <2>3. Depth = 0 => hframes = << >>
    BY <1>1, <1>7, Forces DEF Sound
  <2> HIDE DEF g
  <2>4. Nested(stack', g, Depth + 1)
    BY <1>5, <2>1, <2>2 DEF Nested, Extents, Calls
  <2>5. Nested(stack', g, Depth + 2)
    <3>1. (Depth + 2) - 1 = Depth + 1
      BY <1>1
    <3>2. Extents(stack', g, Depth + 2)
      BY <1>4, <1>5, <2>1, <2>2, <2>3, <3>1 DEF Extents, InRepl, ReplBind
    <3>3. Calls(stack', g, Depth + 2)
      BY <1>4, <2>1, <2>2, <3>1 DEF Calls
    <3> QED
      BY <2>1, <2>2, <3>2, <3>3 DEF Nested
  <2>6. Above(stack', Depth) = {Depth + 1, Depth + 2}
    BY <1>1, <1>4 DEF Above
  <2>7. OneThrow(stack', escape')
    <3>1. OneThrow(stack, escape')
      BY <1>7 DEF Sound
    <3>2. \A i \in Above(stack', Depth) : stack'[i].type # "throw"
      BY <1>3, <1>4, <1>5, <2>6
    <3>3. ~ (Depth > 0 /\ stack[Depth].type = "throw" /\ Depth < Len(stack'))
      BY DEF Throwing
    <3>4. Stacked(stack) /\ Stacked(stack') /\ Keeps(stack, stack', Depth)
      BY <1>1, <1>4, <1>5
    <3> QED
      BY <3>1, <3>2, <3>3, <3>4, ThrowStep
  <2>8. \A i \in Above(stack', Depth) :
           stack'[i].type = "signal" /\ stack'[i].last = "panic" /\ stack'[i].rest = << >>
             => i < Len(stack') /\ ReplHandler(stack', i + 1)
    BY <1>4, <1>5, <2>6
  <2>9. \A i \in Above(stack', Depth) : Nested(stack', g, i)
    BY <2>4, <2>5, <2>6
  <2>10. ~ panicked' /\ hframes' = g[Len(stack')]
    BY <1>1, <1>4, <2>2
  <2>11. ~ (Depth < Depth)
    BY <1>1
  <2> QED
    BY <1>1, <1>4, <1>5, <1>7, <2>7, <2>8, <2>9, <2>10, <2>11, SoundStep DEF g
<1> QED
  BY <1>6, <1>7 DEF CondInv, Astray

(* Entries that leave the frames as they are can be passed over.           *)
PlainFrom(s, j, n) == \A i \in j + 1 .. n : Plain(s[i])

(* Where only entries without frames of their own are above the j-th, what *)
(* is in force there is in force at the top.                               *)
LEMMA PlainRun ==
  ASSUME NEW s, Stacked(s), NEW j \in Nat, NEW n \in Nat, j <= n, n <= Len(s),
         PlainFrom(s, j, n)
  PROVE  InForce(s)[n] = InForce(s)[j]
<1> DEFINE f == InForce(s)
           Bad == {i \in j .. n : f[i] # f[j]}
<1> SUFFICES ASSUME Bad # {} PROVE FALSE
  OBVIOUS
<1>1. PICK i \in Bad : \A k \in Bad : i <= k
  <2>1. Bad \subseteq Nat
    OBVIOUS
  <2> HIDE DEF Bad
  <2> QED BY <2>1, LeastExists
<1>2. i \in j + 1 .. n /\ f[i - 1] = f[j] /\ i \in 1 .. Len(s)
  <2>1. i # j /\ i \in j .. n
    OBVIOUS
  <2>2. i - 1 \in j .. n /\ i - 1 \notin Bad
    BY <1>1, <2>1
  <2>3. Len(s) \in Nat
    BY StackedFacts
  <2> QED
    BY <2>1, <2>2, <2>3
<1>3. f[i] = f[i - 1]
  BY <1>2, PlainForce DEF PlainFrom
<1> QED
  BY <1>2, <1>3

(* What unwind_stack_for_throw passes over changes no handlers, unless a   *)
(* call that restores them is among it.                                    *)
LEMMA Unwound ==
  ASSUME Typed, TopIs("throw"), StopsAt(Top.at) # {},
         NEW j, j = Greatest(StopsAt(Top.at))
  PROVE  /\ Top.at \in Nat /\ Top.at < Depth /\ j \in 1 .. Top.at
         /\ stack[j].type \in {"protect", "bind", "handler"} \/ j = escape
         /\ escape # 0 /\ escape <= Top.at => escape <= j
         /\ Sound /\ ~ SkipsRestore(j) =>
              /\ InForce(stack)[j] = hframes
              /\ escape \in 1 .. Top.at
              /\ \A i \in 1 .. Depth - 1 : ~ Throwing(i)
<1>1. /\ Depth \in Nat /\ Depth = Len(stack) /\ Stacked(stack)
      /\ Depth > 0 /\ Top = stack[Depth] /\ Top.type = "throw" /\ Grounded(stack, Depth)
      /\ escape \in 0 .. Depth
  BY StateFacts DEF TopIs, Top, Typed
<1>2. Top.at \in 0 .. Depth - 1
  BY <1>1 DEF Grounded
<1>3. /\ j \in StopsAt(Top.at) /\ \A k \in StopsAt(Top.at) : k <= j
  <2>1. StopsAt(Top.at) \subseteq 0 .. Top.at /\ Top.at \in Nat
    BY <1>2 DEF StopsAt
  <2>2. \E m \in StopsAt(Top.at) : \A k \in StopsAt(Top.at) : k <= m
    BY <2>1, GreatestExists
  <2> QED
    BY <2>2 DEF Greatest
<1>4. j \in 1 .. Top.at /\ (stack[j].type \in {"protect", "bind", "handler"} \/ j = escape)
  BY <1>3 DEF StopsAt
<1>5. escape # 0 /\ escape <= Top.at => escape <= j
  BY <1>1, <1>2, <1>3 DEF StopsAt
<1>6. ASSUME Sound, ~ SkipsRestore(j)
      PROVE  /\ InForce(stack)[j] = hframes
             /\ escape \in 1 .. Top.at
             /\ \A i \in 1 .. Depth - 1 : ~ Throwing(i)
  <2>1. /\ escape # 0
        /\ \A i \in 1 .. Depth : Throwing(i) => i = Depth
    BY <1>1, <1>6 DEF Sound, OneThrow, Throwing
  <2>2. escape \in 1 .. Top.at
    <3>1. PICK i \in escape + 1 .. Depth : Throwing(i) /\ escape <= stack[i].at
      BY <2>1 DEF Typed
    <3>2. i = Depth
      BY <1>1, <2>1, <3>1
    <3> QED
      BY <1>1, <1>2, <2>1, <3>1, <3>2
  <2>3. ASSUME NEW i \in j + 1 .. Top.at
        PROVE  Plain(stack[i])
    <3>1. i \in 1 .. Top.at /\ i \in 1 .. Depth /\ i \in j + 1 .. Depth /\ i # Depth /\ i \notin StopsAt(Top.at)
      BY <1>1, <1>2, <1>3, <1>4
    <3>2. stack[i].type \notin {"protect", "bind", "handler"}
      BY <3>1 DEF StopsAt
    <3>3. stack[i].type # "restore" /\ stack[i].type # "throw"
      BY <1>6, <2>1, <3>1 DEF SkipsRestore, Throwing
    <3>4. stack[i] \in Entry
      BY <3>1, StateFacts
    <3> QED
      BY <3>2, <3>3, <3>4, EntryTypes DEF Plain
  <2>4. InForce(stack)[Top.at] = InForce(stack)[j]
    <3>1. PlainFrom(stack, j, Top.at)
      BY <2>3 DEF PlainFrom
    <3>2. j \in Nat /\ Top.at \in Nat /\ j <= Top.at /\ Top.at <= Len(stack)
      BY <1>1, <1>2, <1>4
    <3> QED
      BY <1>1, <3>1, <3>2, PlainRun
  <2>5. InForce(stack)[Depth] = InForce(stack)[Top.at]
    <3>1. InForce(stack)[Depth] = ForceAt(stack, InForce(stack), Depth)
      BY <1>1, Forces
    <3> QED
      BY <1>1, <3>1 DEF ForceAt
  <2> QED
    BY <1>1, <1>6, <2>1, <2>2, <2>4, <2>5 DEF Sound
<1> QED
  BY <1>1, <1>2, <1>4, <1>5, <1>6

(* A throw that arrives keeps the invariant: unless it skipped the         *)
(* restoring of frames, those in force are the ones at its catch.          *)
LEMMA LandInv ==
  ASSUME CondInv, Land
  PROVE  CondInv'
<1>1. /\ Typed /\ Stacked(stack) /\ Depth \in Nat /\ Depth = Len(stack) /\ hframes \in HFrames
      /\ TopIs("throw") /\ StopsAt(Top.at) # {} /\ Greatest(StopsAt(Top.at)) = escape
      /\ stack' = SubSeq(stack, 1, escape - 1) /\ escape' = 0
      /\ skipped' = (skipped \/ SkipsRestore(escape))
      /\ UNCHANGED <<hframes, pending, breaks, panicked, nested>>
  BY StateFacts DEF CondInv, Land
<1>2. /\ escape \in 1 .. Depth /\ escape - 1 \in 0 .. Len(stack)
      /\ stack[escape].type = "catch"
  BY <1>1, Unwound DEF Typed
<1>3. Stacked(stack') /\ Keeps(stack, stack', escape - 1) /\ Len(stack') = escape - 1
  BY <1>1, <1>2, CutStacked
<1>4. Typed'
  <2>1. {pending', panicked', nested', skipped'} \subseteq BOOLEAN
    BY <1>1, StateFacts
  <2>2. breaks' \in 0 .. MaxBreaks
    BY <1>1, StateFacts
  <2> QED
    BY <1>1, <1>2, <1>3, <2>1, <2>2 DEF Typed, Depth
<1>5. ASSUME Sound, ~ SkipsRestore(escape)
      PROVE  Sound'
  <2>1. /\ InForce(stack)[escape] = hframes
        /\ \A i \in 1 .. Depth - 1 : ~ Throwing(i)
        /\ escape < Depth
    BY <1>1, <1>2, <1>5, Unwound
  <2>2. InForce(stack)[escape - 1] = hframes
    BY <1>1, <1>2, <2>1, PlainForce DEF Plain
  <2>3. hframes' = InForce(stack')[escape - 1]
    BY <1>1, <1>3, <1>5, <2>2, Kept
  <2>4. Above(stack', escape - 1) = {}
    BY <1>2, <1>3 DEF Above
  <2>5. OneThrow(stack', escape')
    <3>1. \A i \in 1 .. Len(stack') : stack'[i].type # "throw"
      BY <1>1, <1>2, <1>3, <2>1 DEF Keeps, Throwing
    <3> QED
      BY <3>1 DEF OneThrow
  <2>6. ~ ReplHandler(stack, (escape - 1) + 1)
    BY <1>2 DEF ReplHandler
  <2>7. ~ panicked' /\ hframes' = InForce(stack')[Len(stack')]
    BY <1>1, <1>3, <1>5, <2>3 DEF Sound
  <2> QED
    BY <1>1, <1>3, <1>5, <2>4, <2>5, <2>6, <2>7, SoundStep
<1> QED
  BY <1>1, <1>4, <1>5 DEF CondInv, Astray

(* unwind_stack_for_throw keeps the invariant where it comes to the end of *)
(* the stack without its target: the state is astray from there on, and    *)
(* keeps its types.                                                        *)
LEMMA FallOffInv ==
  ASSUME CondInv, FallOff
  PROVE  CondInv'
<1>1. /\ Typed /\ Stacked(stack) /\ Depth \in Nat /\ Depth = Len(stack)
      /\ Depth > 0 /\ Top = stack[Depth] /\ Top.type = "throw" /\ Grounded(stack, Depth)
      /\ StopsAt(Top.at) = {} /\ Depth - 1 \in 0 .. Len(stack) /\ escape \in 0 .. Depth
      /\ stack' = Below /\ skipped' = TRUE
      /\ UNCHANGED <<hframes, escape, pending, breaks, panicked, nested>>
  BY StateFacts DEF CondInv, FallOff, TopIs, Top, Typed
<1>2. Stacked(stack') /\ Keeps(stack, stack', Depth - 1)
  BY <1>1, CutStacked DEF Below
<1>3. escape # 0 => \A i \in (Depth - 1) + 1 .. Depth : ~ (Throwing(i) /\ escape <= stack[i].at)
  BY <1>1 DEF StopsAt, Grounded
<1>4. Typed'
  BY <1>1, <1>2, <1>3, StateFacts, TypedWhile
<1> QED
  BY <1>1, <1>4 DEF CondInv, Astray

(* A user break taken at the beginning of a call keeps the invariant: it   *)
(* pushes the catch and the signal over what runs, with the frames in      *)
(* force there.                                                            *)
LEMMA ProcessInterruptsInv ==
  ASSUME CondInv, ProcessInterrupts
  PROVE  CondInv'
<1> DEFINE a == Catch(IgnoreTag)
           b == Signalling("user-break", "return")
<1>1. /\ Typed /\ Depth \in Nat /\ Depth = Len(stack) /\ Stacked(stack) /\ hframes \in HFrames
      /\ ~ panicked /\ ~ TopIs("throw") /\ pending' = FALSE
      /\ stack' = stack \o <<a, b>>
      /\ UNCHANGED <<hframes, escape, breaks, panicked, nested, skipped>>
      /\ breaks \in 0 .. MaxBreaks
  BY StateFacts DEF CondInv, ProcessInterrupts
<1>2. /\ a \in Entry /\ a.type = "catch" /\ a.tag = IgnoreTag
      /\ b \in Entry /\ b.type = "signal" /\ b.rest = hframes /\ b.last = "return"
  BY <1>1, EntriesMade DEF AnyCondition, ReplConditions
<1> HIDE DEF a, b
<1>3. stack' = Append(Append(stack, a), b)
  BY <1>1, <1>2 DEF Stacked
<1>4. a.tag \notin Tag
  BY <1>2, ConditionsAssumption
<1>5. Depth > 0 => ~ Throwing(Depth)
  BY <1>1 DEF TopIs, Top, Throwing
<1> QED
  BY <1>1, <1>2, <1>3, <1>4, <1>5, PushTwoInv DEF Plain

(* A new evaluation by the REPL keeps the invariant: it begins on an empty *)
(* stack with its catch and its handler.                                   *)
LEMMA EvalInv ==
  ASSUME CondInv, Eval
  PROVE  CondInv'
<1> DEFINE a == Catch(ReplTag)
           b == Bind(ReplConditions)
<1>1. /\ Depth \in Nat /\ Depth = 0 /\ stack = << >> /\ hframes \in HFrames
      /\ ~ panicked /\ pending \in BOOLEAN
      /\ stack' = <<a, b>> /\ breaks' = 0
      /\ UNCHANGED <<hframes, escape, pending, panicked, nested, skipped>>
  BY StateFacts DEF CondInv, Eval, Depth
<1>2. /\ a \in Entry /\ a.type = "catch" /\ a.tag = ReplTag
      /\ b \in Entry /\ b.type = "bind" /\ b.saved = hframes /\ b.conds = ReplConditions
      /\ b.set = FALSE
  <2>1. ReplConditions \in SUBSET AnyCondition
    BY DEF AnyCondition
  <2>2. /\ b \in Entry /\ b.type = "bind" /\ b.saved = hframes /\ b.conds = ReplConditions
        /\ b.set = FALSE
    <3> HIDE DEF ReplConditions
    <3> QED BY <1>1, <2>1, EntriesMade
  <2>3. ReplTag \in Tag \cup {ReplTag, IgnoreTag}
    OBVIOUS
  <2>4. a \in Entry /\ a.type = "catch" /\ a.tag = ReplTag
    BY <1>1, <2>3, EntriesMade
  <2> QED
    BY <2>2, <2>4
<1>3. a = Catch(ReplTag)
  OBVIOUS
<1> HIDE DEF a, b
<1>4. stack' = Append(Append(stack, a), b)
  BY <1>1
<1>5. a.tag \notin Tag /\ breaks' \in 0 .. MaxBreaks
  BY <1>1, <1>2, ConditionsAssumption
<1> QED
  BY <1>1, <1>2, <1>3, <1>4, <1>5, PushTwoInv DEF Plain

(* What follows the frame a throw stops at: its after thunk.               *)
LEMMA CallAfterInv ==
  ASSUME CondInv, CallAfter
  PROVE  CondInv'
<1> DEFINE j == Greatest(StopsAt(Top.at))
           b == [Top EXCEPT !.at = j - 1]
           c == AfterThunk(stack[j])
           mid == Changed(stack, Depth, b)
<1>1. /\ Typed /\ Stacked(stack) /\ Depth \in Nat /\ Depth = Len(stack) /\ hframes \in HFrames
      /\ TopIs("throw") /\ Depth > 1 /\ Top = stack[Depth] /\ Top \in Entry /\ Top.type = "throw"
      /\ StopsAt(Top.at) # {} /\ j # escape
      /\ skipped' = (skipped \/ SkipsRestore(j))
      /\ UNCHANGED <<hframes, escape, pending, breaks, panicked, nested>>
  BY StateFacts DEF CondInv, CallAfter, TopIs, Top
<1>2. stack' = Append(mid, c)
  BY DEF CallAfter, Top, Changed
<1>3. /\ Top.at \in Nat /\ Top.at < Depth /\ j \in 1 .. Top.at
      /\ stack[j].type \in {"protect", "bind", "handler"}
      /\ escape # 0 /\ escape <= Top.at => escape <= j
      /\ Sound /\ ~ SkipsRestore(j) =>
           /\ InForce(stack)[j] = hframes
           /\ escape \in 1 .. Top.at
           /\ \A i \in 1 .. Depth - 1 : ~ Throwing(i)
  BY <1>1, Unwound
<1> HIDE DEF j
<1>4. j \in Nat /\ j > 0 /\ j < Depth /\ j \in 1 .. Len(stack) /\ stack[j] \in Entry
      /\ j - 1 \in Nat /\ j - 1 < Depth - 1
  BY <1>1, <1>3, StateFacts
<1>5. b \in Entry /\ b.type = "throw" /\ b.at = j - 1
  <2>1. Top \in ThrowEntry
    BY <1>1, EntryTypes
  <2> QED
    BY <1>4, <2>1 DEF ThrowEntry, Entry
<1>6. /\ c \in Entry /\ c.type \in AfterThunks
      /\ stack[j].type = "protect" => c.type = "cleanup"
      /\ stack[j].type # "protect" => c.type = "restore" /\ c.extent = stack[j]
  <2>1. stack[j].type # "protect" => stack[j] \in BindEntry \cup HandlerEntry
    BY <1>3, <1>4, EntryTypes
  <2> QED
    BY <1>1, <2>1, EntriesMade, MoreMade DEF AfterThunk, AfterThunks
<1> HIDE DEF b, c
<1>7. Stacked(mid) /\ Keeps(stack, mid, Depth - 1) /\ Len(mid) = Depth /\ mid[Depth] = b
  BY <1>1, <1>4, <1>5, ChangeStacked
<1> HIDE DEF mid
<1>8. /\ Stacked(stack') /\ Keeps(mid, stack', Depth) /\ Len(stack') = Depth + 1
      /\ stack'[Depth + 1] = c
  BY <1>1, <1>2, <1>6, <1>7, PushStacked DEF AfterThunks
<1>9. Keeps(stack, stack', Depth - 1) /\ stack'[Depth] = b
  BY <1>1, <1>7, <1>8 DEF Keeps
<1>10. Typed'
  <2>1. ASSUME escape # 0
        PROVE  /\ escape \in 1 .. Depth - 1 /\ stack'[escape].type = "catch"
               /\ \E i \in escape + 1 .. Depth :
                     stack'[i].type = "throw" /\ escape <= stack'[i].at
    <3>1. PICK i \in escape + 1 .. Depth : Throwing(i) /\ escape <= stack[i].at
      BY <1>1, <2>1 DEF Typed
    <3>2. /\ escape \in 1 .. Depth - 1 /\ stack[escape].type = "catch"
      BY <1>1, <2>1, <3>1 DEF Typed
    <3>3. stack'[escape] = stack[escape]
      BY <1>9, <3>2 DEF Keeps
    <3>4. CASE i = Depth
      <4>1. escape <= j
        BY <1>1, <1>3, <2>1, <3>1, <3>4
      <4>2. escape <= j - 1
        BY <1>1, <1>4, <3>2, <4>1
      <4> QED
        BY <1>1, <1>5, <1>9, <3>2, <3>3, <3>4, <4>2
    <3>5. CASE i # Depth
      <4>1. i \in 1 .. Depth - 1
        BY <1>1, <3>1, <3>2, <3>5
      <4>2. stack'[i] = stack[i]
        BY <1>9, <4>1 DEF Keeps
      <4> QED
        BY <3>1, <3>2, <3>3, <4>2 DEF Throwing
    <3> QED BY <3>4, <3>5
  <2>2. escape' = escape /\ escape \in 0 .. Len(stack')
    BY <1>1, <1>8, <2>1
  <2>3. escape' # 0 => /\ stack'[escape'].type = "catch"
                       /\ \E i \in escape' + 1 .. Len(stack') :
                             stack'[i].type = "throw" /\ escape' <= stack'[i].at
    <3> SUFFICES ASSUME escape # 0
                 PROVE  /\ stack'[escape].type = "catch"
                        /\ \E i \in escape + 1 .. Len(stack') :
                              stack'[i].type = "throw" /\ escape <= stack'[i].at
      BY <2>2
    <3>1. PICK i \in escape + 1 .. Depth : stack'[i].type = "throw" /\ escape <= stack'[i].at
      BY <2>1
    <3>2. i \in escape + 1 .. Len(stack')
      BY <1>1, <1>8, <2>1, <3>1
    <3> QED
      BY <2>1, <3>1, <3>2
  <2>4. {pending', panicked', nested', skipped'} \subseteq BOOLEAN /\ breaks' \in 0 .. MaxBreaks
    BY <1>1, StateFacts
  <2> QED
    BY <1>1, <1>8, <2>2, <2>3, <2>4 DEF Typed, Depth, Throwing
<1>11. ASSUME Sound, ~ SkipsRestore(j)
       PROVE  Sound'
  <2> DEFINE f == InForce(stack)
             g == InForce(stack')
  <2>1. /\ f[j] = hframes /\ escape # 0
        /\ \A i \in 1 .. Depth - 1 : ~ Throwing(i)
    BY <1>3, <1>11
  <2>2. /\ Nested(stack, f, j) /\ Nested(stack, f, Depth)
        /\ hframes = f[Depth] /\ Good(hframes) /\ (hframes # << >> => InRepl(stack'))
    <3>1. Nested(stack, f, j) /\ Nested(stack, f, Depth) /\ hframes = f[Depth]
      BY <1>1, <1>4, <1>11 DEF Sound
    <3>2. stack'[1] = stack[1]
      BY <1>1, <1>9 DEF Keeps
    <3> QED
      BY <3>1, <3>2 DEF Nested, InRepl
  <2>3. /\ g[j] = f[j] /\ g[j - 1] = f[j - 1]
    BY <1>1, <1>4, <1>8, <1>9, KeptForce
  <2>4. /\ Good(f[j - 1]) /\ (f[j - 1] # << >> => InRepl(stack'))
    <3>1. Keeps(stack, stack', j - 1)
      BY <1>4, <1>9 DEF Keeps
    <3> QED
      BY <1>1, <1>8, <1>11, <3>1, Kept
  <2>5. g[Depth] = f[j - 1]
    <3>1. Depth \in 1 .. Len(stack')
      BY <1>1, <1>8
    <3>2. g[Depth] = ForceAt(stack', g, Depth)
      BY <1>8, <3>1, Forces
    <3> QED
      BY <1>5, <1>9, <2>3, <3>2 DEF ForceAt
  <2>6. g[Depth + 1] = ForceAt(stack', g, Depth + 1) /\ (Depth + 1) - 1 = Depth
    BY <1>1, <1>8, Forces
  <2> HIDE DEF f, g
  <2>7. Nested(stack', g, Depth)
    BY <1>5, <1>9, <2>4, <2>5 DEF Nested, Extents, Calls
  <2>8. /\ g[Depth + 1] = hframes
        /\ Extents(stack', g, Depth + 1) /\ Calls(stack', g, Depth + 1)
    <3>1. CASE stack[j].type = "protect"
      <4>1. f[j] = f[j - 1]
        BY <1>1, <1>4, <3>1, PlainForce DEF Plain, f
      <4>2. f[j - 1] # << >>
        BY <2>2, <3>1 DEF Nested, Calls
      <4> QED
        BY <1>6, <1>8, <2>1, <2>5, <2>6, <3>1, <4>1, <4>2 DEF ForceAt, Extents, Calls
    <3>2. CASE stack[j].type # "protect"
      <4>1. (j - 1) + 1 = j
        BY <1>4
      <4>2. stack[j].saved = f[j - 1]
        BY <1>3, <2>2, <3>2 DEF Nested, Extents
      <4>3. g[Depth + 1] = g[j]
        BY <1>5, <1>6, <1>8, <1>9, <2>6, <3>2, <4>1 DEF ForceAt
      <4> QED
        BY <1>6, <1>8, <2>1, <2>3, <2>5, <2>6, <3>2, <4>2, <4>3 DEF Extents, Calls
    <3> QED BY <3>1, <3>2
  <2>9. Nested(stack', g, Depth + 1)
    BY <2>2, <2>8 DEF Nested
  <2>10. Above(stack', Depth - 1) = {Depth, Depth + 1}
    BY <1>1, <1>8 DEF Above
  <2>11. OneThrow(stack', escape')
    <3>1. ASSUME NEW i \in 1 .. Len(stack'), stack'[i].type = "throw"
          PROVE  i = Depth
      <4>1. i \in 1 .. Depth - 1 \/ i = Depth \/ i = Depth + 1
        BY <1>1, <1>8
      <4>2. i \in 1 .. Depth - 1 => stack'[i] = stack[i]
        BY <1>9 DEF Keeps
      <4>3. i # Depth + 1
        BY <1>6, <1>8, <3>1 DEF AfterThunks
      <4> QED
        BY <2>1, <3>1, <4>1, <4>2, <4>3 DEF Throwing
    <3>2. escape' # 0 /\ stack'[Depth + 1].type \in AfterThunks
      BY <1>1, <1>6, <1>8, <2>1
    <3> QED
      BY <3>1, <3>2 DEF OneThrow
  <2>12. ~ ReplHandler(stack, (Depth - 1) + 1)
    BY <1>1 DEF ReplHandler
  <2>13. \A i \in Above(stack', Depth - 1) : stack'[i].type # "signal"
    BY <1>5, <1>6, <1>8, <1>9, <2>10 DEF AfterThunks
  <2>14. ~ panicked' /\ hframes' = g[Len(stack')]
    BY <1>1, <1>8, <1>11, <2>8 DEF Sound
  <2>15. \A i \in Above(stack', Depth - 1) : Nested(stack', g, i)
    BY <2>7, <2>9, <2>10
  <2> QED
    BY <1>1, <1>8, <1>9, <1>11, <2>11, <2>12, <2>13, <2>14, <2>15, SoundStep DEF g
<1> QED
  BY <1>1, <1>10, <1>11 DEF CondInv, Astray

(* Every step of the program, its handlers and the REPL keeps the          *)
(* invariant.                                                              *)
LEMMA InvNext == CondInv /\ [Next]_vars => CondInv'
<1> SUFFICES ASSUME CondInv, [Next]_vars
             PROVE  CondInv'
  OBVIOUS
<1>1. /\ Bindable \subseteq SUBSET AnyCondition /\ Condition \subseteq AnyCondition
  BY ConditionsAssumption DEF AnyCondition
<1>2. ASSUME NEW t \in Tag, EnterCatch(t)
      PROVE  CondInv'
  <2>1. Begins(Catch(t)) /\ InProgram /\ stack' = Push(Catch(t))
    BY <1>2 DEF EnterCatch, Begins
  <2> QED
    BY <1>2, <2>1, BeginInv DEF EnterCatch
<1>3. CASE EnterProtect
  <2>1. Begins(Protect) /\ InProgram /\ stack' = Push(Protect)
    BY <1>3 DEF EnterProtect, Begins
  <2> QED
    BY <1>3, <2>1, BeginInv DEF EnterProtect
<1>4. ASSUME NEW cs \in Bindable, HandlerBind(cs)
      PROVE  CondInv'
  <2>1. Begins(Bind(cs)) /\ InProgram /\ stack' = Push(Bind(cs))
    BY <1>1, <1>4 DEF HandlerBind, Begins
  <2> QED
    BY <1>4, <2>1, BeginInv DEF HandlerBind
<1>5. ASSUME NEW c \in Condition, NEW last \in {"return", "abort"}, Signal(c, last)
      PROVE  CondInv'
  <2>1. Begins(Signalling(c, last)) /\ InProgram /\ stack' = Push(Signalling(c, last))
    BY <1>1, <1>5 DEF Signal, Begins
  <2> QED
    BY <1>5, <2>1, BeginInv DEF Signal
<1>6. CASE UNCHANGED vars
  BY <1>6 DEF CondInv, Typed, Sound, Astray, Depth, Throwing, vars
<1> QED
  BY <1>2, <1>3, <1>4, <1>5, <1>6, EvalInv, SetFramesInv, ReturnInv, RestoreInv,
     CallHandlerInv, LastResortInv, ThrowInv, CallAfterInv, LandInv, FallOffInv,
     SignalInterruptInv, ProcessInterruptsInv DEF Next

-----------------------------------------------------------------------------
(* Handlers are those of the extents around, the REPL's are the outermost, *)
(* and one throw is under way at most, as long as the program does not go  *)
(* astray.                                                                 *)
THEOREM CondInvariant == Spec => []CondInv
BY InvInit, InvNext, PTL DEF Spec

(* The invariant gives the types of the state.                             *)
LEMMA InvTypes == CondInv => TypeOK
<1> SUFFICES ASSUME CondInv PROVE TypeOK
  OBVIOUS
<1>1. Typed /\ Stacked(stack) /\ Depth \in Nat /\ Depth = Len(stack)
  BY StateFacts DEF CondInv
<1>2. ASSUME NEW i \in 1 .. Depth
      PROVE  \/ stack[i].type \in {"bind", "handler"} /\ stack[i].saved \in HFrames
             \/ stack[i].type = "restore" /\ stack[i].extent.saved \in HFrames
             \/ stack[i].type = "signal" /\ stack[i].rest \in HFrames
             \/ stack[i].type = "throw" /\ stack[i].at \in 0 .. i - 1
             \/ stack[i].type \in {"catch", "protect", "cleanup"}
  <2>1. stack[i] \in Entry /\ Grounded(stack, i)
    BY <1>1, StateFacts
  <2>2. CASE stack[i].type = "restore"
    <3>1. stack[i] \in RestoreEntry
      BY <2>1, <2>2, EntryTypes
    <3> QED
      BY <2>2, <3>1 DEF RestoreEntry, BindEntry, HandlerEntry
  <2>3. CASE stack[i].type \in {"bind", "handler", "signal"}
    BY <2>1, <2>3, EntryTypes DEF BindEntry, HandlerEntry, SignalEntry
  <2>4. CASE stack[i].type = "throw"
    BY <2>1, <2>4 DEF Grounded
  <2> QED
    BY <2>1, <2>2, <2>3, <2>4, EntryTypes
<1> QED
  BY <1>1, <1>2 DEF Typed, TypeOK

(* The stack, the handler frames and the target of a throw keep their      *)
(* types.                                                                  *)
THEOREM ConditionsTypes == Spec => []TypeOK
BY CondInvariant, InvTypes, PTL

(* Whatever is signalled, thrown and interrupted, the handlers are those   *)
(* of the extents the code runs in: with-handler-frames and its after      *)
(* thunks set and restore them together, for programs of any depth.        *)
THEOREM HandlersInForce == Spec => []HandlersFollowExtents
<1>1. CondInv => HandlersFollowExtents
  BY DEF CondInv, Sound, HandlersFollowExtents
<1> QED
  BY <1>1, CondInvariant, PTL

(* The handlers of the REPL catch every condition that would panic, for    *)
(* every program that does not go astray.                                  *)
THEOREM PanicsNeedMishap == Spec => []PanicNeedsMishap
<1>1. CondInv => PanicNeedsMishap
  BY DEF CondInv, Sound, PanicNeedsMishap
<1> QED
  BY <1>1, CondInvariant, PTL
=============================================================================
