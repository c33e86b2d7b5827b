----------------------------- MODULE Conditions -----------------------------
(***************************************************************************)
(* Conditions, handlers and user breaks under a REPL: handler-bind,        *)
(* signal and abort (scheme-core/error-handling.scm), the error handling   *)
(* of the REPL (scheme-core/repl.scm), and the interrupts and escapes of   *)
(* the interpreter they run on (vm/evaluator.c).                           *)
(*                                                                         *)
(* The stack holds the extents and calls under way, outermost first.  The  *)
(* REPL evaluates one form after another; the form, the handlers it binds  *)
(* and its after thunks do anything a program may.  A user break arrives   *)
(* at any time and is taken whenever the interpreter starts to evaluate an *)
(* expression.  How a throw finds its target and unwinds is the subject of *)
(* Escape; here the after thunks include those that restore the handlers.  *)
(***************************************************************************)
EXTENDS Integers, Sequences, FiniteSets

CONSTANTS
    Tag,             \* the tags of the catches of programs
    Condition,       \* the conditions of programs
    Bindable,        \* the sets of conditions a program binds handlers for
    MaxDepth,        \* bound: extents and calls a program may pile up
    MaxThrowDepth,   \* bound: those a program may throw from
    MaxBreaks        \* bound: user breaks for each form

ReplConditions == {"uncaught-throw", "unhandled-abort", "user-break"}

ReplTag == "repl-abort-evaluation"

IgnoreTag == "ignore-user-break"

ASSUME ConditionsAssumption ==
    /\ {ReplTag, IgnoreTag} \cap Tag = {}
    /\ ReplConditions \cap Condition = {}
    /\ Bindable \subseteq SUBSET (ReplConditions \cup Condition)
    /\ {MaxDepth, MaxThrowDepth, MaxBreaks} \subseteq Nat

VARIABLES
    stack,      \* the extents and calls
    hframes,    \* handler_frames of the thread, innermost first
    escape,     \* escape_frame: the index of the target of a throw, or 0
    pending,    \* intr_pending: a user break waits
    breaks,     \* the user breaks since the last form began
    panicked,   \* the VM has panicked
    nested,     \* history: a throw began during another throw's unwinding
    skipped     \* history: a call that restores the handlers was abandoned

vars == <<stack, hframes, escape, pending, breaks, panicked, nested, skipped>>

(* A handler frame: the conditions it has handlers for, and the index of   *)
(* the extent that binds them.                                             *)
HFrame(cs, i) == [conds |-> cs, at |-> i]

(* The extents that have a frame on the interpreter's stack.               *)
Catch(t) == [type |-> "catch", tag |-> t]
Protect == [type |-> "protect"]
Bind(cs) == [type |-> "bind", conds |-> cs, saved |-> hframes, set |-> FALSE]
Call(i, outer) ==
    [type |-> "handler", of |-> i, outer |-> outer, saved |-> hframes, set |-> FALSE]

(* Calls under way: handle-condition, unwind_stack_for_throw, and the      *)
(* after thunks of programs and of with-handler-frames.                    *)
Signalling(c, last) == [type |-> "signal", cond |-> c, rest |-> hframes, last |-> last]
Unwinding(i) == [type |-> "throw", at |-> i]
Cleanup == [type |-> "cleanup"]
Restoring(extent) == [type |-> "restore", extent |-> extent]

Depth == Len(stack)
Top == stack[Depth]
Below == SubSeq(stack, 1, Depth - 1)
Push(a) == Append(stack, a)
TopIs(type) == Depth > 0 /\ ~ panicked /\ Top.type = type

(* The REPL's handlers are those bound by its extent at 2.                 *)
ReplBind == 2

(* Code of a program runs.                                                 *)
InProgram ==
    \/ TopIs("cleanup") \/ TopIs("protect")
    \/ TopIs("bind") /\ Top.set
    \/ TopIs("handler") /\ Top.set /\ Top.of # ReplBind
    \/ TopIs("catch") /\ Top.tag \in Tag

(* Bound: once astray, where the promises below end, a program begins      *)
(* nothing new and does not throw in the after thunks of a throw again.    *)
Astray == nested \/ skipped
RoomForMore == Depth < MaxDepth /\ ~ Astray
RoomToThrow == Depth <= MaxThrowDepth /\ (Astray => escape = 0)

-----------------------------------------------------------------------------
Init ==
    /\ stack = << >>
    /\ hframes = << >>
    /\ escape = 0
    /\ pending = FALSE
    /\ breaks = 0
    /\ panicked = FALSE
    /\ nested = FALSE
    /\ skipped = FALSE

(* The REPL evaluates a form, with its handlers, inside its catch.         *)
Eval ==
    /\ stack = << >> /\ ~ panicked
    /\ ~ Astray
    /\ stack' = <<Catch(ReplTag), Bind(ReplConditions)>>
    /\ breaks' = 0
    /\ UNCHANGED <<hframes, escape, pending, panicked, nested, skipped>>

EnterCatch(t) ==
    /\ InProgram /\ RoomForMore
    /\ stack' = Push(Catch(t))
    /\ UNCHANGED <<hframes, escape, pending, breaks, panicked, nested, skipped>>

EnterProtect ==
    /\ InProgram /\ RoomForMore
    /\ stack' = Push(Protect)
    /\ UNCHANGED <<hframes, escape, pending, breaks, panicked, nested, skipped>>

(* handler-bind: the extent begins, and the frames are still to be set.    *)
HandlerBind(cs) ==
    /\ InProgram /\ RoomForMore
    /\ stack' = Push(Bind(cs))
    /\ UNCHANGED <<hframes, escape, pending, breaks, panicked, nested, skipped>>

(* with-handler-frames sets the frames for its code.                       *)
SetFrames ==
    /\ \/ /\ TopIs("bind") /\ ~ Top.set
          /\ hframes' = <<HFrame(Top.conds, Depth)>> \o hframes
       \/ /\ TopIs("handler") /\ ~ Top.set
          /\ hframes' = Top.outer
    /\ stack' = [stack EXCEPT ![Depth].set = TRUE]
    /\ UNCHANGED <<escape, pending, breaks, panicked, nested, skipped>>

(* The after thunk of an extent, called when the extent is left.           *)
AfterThunk(a) == IF a.type = "protect" THEN Cleanup ELSE Restoring(a)

(* Code returns: the frame goes, and then the after thunk is called.       *)
Return ==
    /\ \/ InProgram
       \/ TopIs("catch") /\ Top.tag \in {ReplTag, IgnoreTag}
    /\ stack' = IF Top.type \in {"catch", "cleanup"}
                  THEN Below
                  ELSE Append(Below, AfterThunk(Top))
    /\ UNCHANGED <<hframes, escape, pending, breaks, panicked, nested, skipped>>

Restore ==
    /\ TopIs("restore")
    /\ hframes' = Top.extent.saved
    /\ stack' = Below
    /\ UNCHANGED <<escape, pending, breaks, panicked, nested, skipped>>

-----------------------------------------------------------------------------
(* Signalling                                                              *)

(* signal (last = "return") and abort (last = "abort").                    *)
Signal(c, last) ==
    /\ InProgram /\ RoomForMore
    /\ stack' = Push(Signalling(c, last))
    /\ UNCHANGED <<hframes, escape, pending, breaks, panicked, nested, skipped>>

Handling(frames, c) == {k \in DOMAIN frames : c \in frames[k].conds}

Least(S) == CHOOSE i \in S : \A j \in S : i <= j
Greatest(S) == CHOOSE i \in S : \A j \in S : j <= i

(* handle-condition calls the next handler, with the handler frames around *)
(* the one it is bound in.                                                 *)
CallHandler ==
    /\ TopIs("signal")
    /\ Handling(Top.rest, Top.cond) # {}
    /\ LET k     == Least(Handling(Top.rest, Top.cond))
           outer == SubSeq(Top.rest, k + 1, Len(Top.rest))
       IN  stack' = Append([stack EXCEPT ![Depth].rest = outer],
                           Call(Top.rest[k].at, outer))
    /\ UNCHANGED <<hframes, escape, pending, breaks, panicked, nested, skipped>>

(* All the handlers have returned.                                         *)
LastResort ==
    /\ TopIs("signal")
    /\ Handling(Top.rest, Top.cond) = {}
    /\ CASE Top.last = "return" -> stack' = Below /\ UNCHANGED panicked
         [] Top.last = "abort"  -> /\ stack' = Append(Below, Signalling("unhandled-abort", "panic"))
                                   /\ UNCHANGED panicked
         [] Top.last = "panic"  -> UNCHANGED stack /\ panicked' = TRUE
    /\ UNCHANGED <<hframes, escape, pending, breaks, nested, skipped>>

-----------------------------------------------------------------------------
(* Throwing                                                                *)

(* find_matching_escape: the search starts outside the target of a throw   *)
(* in progress.                                                            *)
SearchStart == IF escape # 0 THEN escape - 1 ELSE Depth

(* Mutant: the outermost frame is not looked at.                           *)
MatchingInner(t) == {i \in 2 .. SearchStart : stack[i].type = "catch" /\ stack[i].tag = t}

Matching(t) == {i \in 1 .. SearchStart : stack[i].type = "catch" /\ stack[i].tag = t}

(* The handlers of the REPL throw to it; a program throws to any tag.  If  *)
(* no catch has the tag, the trap handler aborts.                          *)
Throw(t) ==
    /\ \/ InProgram /\ t \in Tag \cup {IgnoreTag} /\ RoomToThrow
       \/ TopIs("handler") /\ Top.set /\ Top.of = ReplBind /\ t = ReplTag
    /\ IF Matching(t) = {}
         THEN /\ escape' = 0
              /\ stack' = Push(Signalling("uncaught-throw", "abort"))
         ELSE /\ escape' = Greatest(Matching(t))
              /\ stack' = Push(Unwinding(Depth))
    /\ nested' = (nested \/ escape # 0)
    /\ UNCHANGED <<hframes, pending, breaks, panicked, skipped>>

(* Mutant: after thunks are not called.                                    *)
StopsAtTarget(i) == {j \in 1 .. i : j = escape}

(* The frames up to the i-th that unwind_stack_for_throw stops at.         *)
StopsAt(i) ==
    {j \in 1 .. i : stack[j].type \in {"protect", "bind", "handler"} \/ j = escape}

(* A call that restores the handlers is among those a throw to i leaves.   *)
SkipsRestore(i) == \E r \in i + 1 .. Depth : stack[r].type = "restore"

(* unwind_stack_for_throw calls the after thunk of the next extent.        *)
CallAfter ==
    /\ TopIs("throw")
    /\ StopsAt(Top.at) # {}
    /\ LET j == Greatest(StopsAt(Top.at))
       IN  /\ j # escape
           /\ stack' = Append([stack EXCEPT ![Depth].at = j - 1], AfterThunk(stack[j]))
           /\ skipped' = (skipped \/ SkipsRestore(j))
    /\ UNCHANGED <<hframes, escape, pending, breaks, panicked, nested>>

(* Mutant: escape_frame keeps its value.                                   *)
LandStillEscaping ==
    /\ TopIs("throw")
    /\ StopsAt(Top.at) # {} /\ Greatest(StopsAt(Top.at)) = escape
    /\ stack' = SubSeq(stack, 1, escape - 1)
    /\ skipped' = (skipped \/ SkipsRestore(escape))
    /\ UNCHANGED <<escape, hframes, pending, breaks, panicked, nested>>

(* It reaches the target, whose catch returns.                             *)
Land ==
    /\ TopIs("throw")
    /\ StopsAt(Top.at) # {} /\ Greatest(StopsAt(Top.at)) = escape
    /\ stack' = SubSeq(stack, 1, escape - 1)
    /\ escape' = 0
    /\ skipped' = (skipped \/ SkipsRestore(escape))
    /\ UNCHANGED <<hframes, pending, breaks, panicked, nested>>

(* It runs out of frames, and the throw returns.                           *)
FallOff ==
    /\ TopIs("throw")
    /\ StopsAt(Top.at) = {}
    /\ stack' = Below
    /\ skipped' = TRUE
    /\ UNCHANGED <<hframes, escape, pending, breaks, panicked, nested>>

-----------------------------------------------------------------------------
(* User breaks                                                             *)

(* signal_interrupt, from the handler of SIGINT.                           *)
SignalInterrupt ==
    /\ ~ panicked
    /\ breaks < MaxBreaks
    /\ pending' = TRUE
    /\ breaks' = breaks + 1
    /\ UNCHANGED <<stack, hframes, escape, panicked, nested, skipped>>

(* process_interrupts, before an expression is evaluated: trap-user-break  *)
(* signals user-break in a catch.                                          *)
ProcessInterrupts ==
    /\ pending
    /\ ~ panicked /\ ~ TopIs("throw")
    /\ pending' = FALSE
    /\ stack' = stack \o <<Catch(IgnoreTag), Signalling("user-break", "return")>>
    /\ UNCHANGED <<hframes, escape, breaks, panicked, nested, skipped>>

Next ==
    \/ Eval \/ EnterProtect \/ SetFrames \/ Return \/ Restore
    \/ \E t \in Tag : EnterCatch(t)
    \/ \E cs \in Bindable : HandlerBind(cs)
    \/ \E c \in Condition, last \in {"return", "abort"} : Signal(c, last)
    \/ CallHandler \/ LastResort
    \/ \E t \in Tag \cup {IgnoreTag, ReplTag} : Throw(t)
    \/ CallAfter \/ Land \/ FallOff
    \/ SignalInterrupt \/ ProcessInterrupts

Spec == Init /\ [][Next]_vars

-----------------------------------------------------------------------------
HFrames ==
    LET Frame == [conds : SUBSET (ReplConditions \cup Condition), at : Nat]
    IN  Seq(Frame)

TypeOK ==
    /\ \A i \in 1 .. Depth :
        \/ stack[i].type \in {"bind", "handler"} /\ stack[i].saved \in HFrames
        \/ stack[i].type = "restore" /\ stack[i].extent.saved \in HFrames
        \/ stack[i].type = "signal" /\ stack[i].rest \in HFrames
        \/ stack[i].type = "throw" /\ stack[i].at \in 0 .. i - 1
        \/ stack[i].type \in {"catch", "protect", "cleanup"}
    /\ hframes \in HFrames
    /\ escape \in 0 .. Depth
    /\ escape # 0 => stack[escape].type = "catch"
    /\ {pending, panicked, nested, skipped} \subseteq BOOLEAN
    /\ breaks \in 0 .. MaxBreaks

(* The handler frames in force for the code of the i-th entry of the stack *)
(* s, where f[j] are those for the entries below: from the nesting of the  *)
(* extents alone.                                                          *)
ForceAt(s, f, i) ==
    LET a == s[i]
        Of(extent) == IF ~ extent.set THEN f[i - 1]
                      ELSE IF extent.type = "bind"
                        THEN <<HFrame(extent.conds, i)>> \o f[i - 1]
                        ELSE extent.outer
    IN  CASE a.type \in {"bind", "handler"} -> Of(a)
          [] a.type = "restore" -> IF s[i - 1].type = "throw"
                                     THEN f[s[i - 1].at + 1]
                                     ELSE Of(a.extent)
          [] a.type = "throw" -> f[a.at]
          [] OTHER -> f[i - 1]

InForce(s) ==
    LET f[i \in 0 .. Len(s)] == IF i = 0 THEN << >> ELSE ForceAt(s, f, i)
    IN  f

(* The handlers are those of the extents the code runs in, whatever was    *)
(* signalled, thrown or interrupted before; unless code has thrown in an   *)
(* after thunk of a throw, or the handler of a user break out of a call    *)
(* that restores the handlers.  (with-handler-frames.)                     *)
HandlersFollowExtents ==
    ~ Astray => hframes = InForce(stack)[Depth]

(* With the REPL's handlers around it, no form makes the VM panic; unless  *)
(* code throws in the after thunks of a throw, or the handlers are not     *)
(* those of the extents any more.  (call-with-repl-error-handling.)        *)
PanicNeedsMishap == panicked => Astray

(* No form makes the VM panic at all.                                      *)
ReplSurvives == ~ panicked
=============================================================================
