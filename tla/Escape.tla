------------------------------- MODULE Escape -------------------------------
(***************************************************************************)
(* Dynamic escapes: %%catch, %%throw and %%with-unwind-fn on the frame     *)
(* stack of the interpreter (vm/evaluator.c), which the library exports as *)
(* catch, throw and unwind-protect (scheme-core/control-flow.scm).         *)
(*                                                                         *)
(* The stack holds the frames a throw looks at, outermost first.  A call   *)
(* of an after thunk, and a call of the handler of an uncaught throw, are  *)
(* frames of the model too: they stand for the C frames of apply1, vmtrap  *)
(* and unwind_stack_for_throw under which more Scheme code runs.           *)
(***************************************************************************)
EXTENDS Integers, Sequences

CONSTANTS
    Tag,             \* the tags programs catch and throw
    AnyTag,          \* the tag () of catch-all
    MaxDepth         \* bound: frames a program pushes; throws add at most one more

ASSUME EscapeAssumption ==
    /\ AnyTag \notin Tag
    /\ MaxDepth \in Nat

VARIABLES
    stack,     \* the frames
    escape,    \* escape_frame: the index of the target of a throw, or 0
    at,        \* the frame unwind_stack_for_throw visits next, or Idle
    panicked,  \* the VM has panicked
    nested     \* history: code has thrown while another throw unwound

vars == <<stack, escape, at, panicked, nested>>

Idle == -1

(* started counts the calls of the after thunk made by throws (up to 2).   *)
(* resume is the frame whose visit called the after thunk, 0 when the      *)
(* extent was left normally.                                               *)
CatchFrame(tag) == [type |-> "catch", tag |-> tag]
UnwindFrame(n)  == [type |-> "unwind", started |-> n]
AfterFrame(k)   == [type |-> "after", resume |-> k]
TrapFrame       == [type |-> "trap"]

Frame == {CatchFrame(tag) : tag \in Tag \cup {AnyTag}}
         \cup {UnwindFrame(n) : n \in 0 .. 2}
         \cup [type : {"after"}, resume : Nat]
         \cup {TrapFrame}

Depth == Len(stack)

Top == stack[Depth]

IsCatch(i) == stack[i].type = "catch"

IsUnwind(i) == stack[i].type = "unwind"

Pop == SubSeq(stack, 1, Depth - 1)

Running == at = Idle /\ ~ panicked

-----------------------------------------------------------------------------
Init ==
    /\ stack = <<>>
    /\ escape = 0
    /\ at = Idle
    /\ panicked = FALSE
    /\ nested = FALSE

(* FOP_CATCH up to its body.                                               *)
EnterCatch(tag) ==
    /\ Running
    /\ Depth < MaxDepth
    /\ stack' = Append(stack, CatchFrame(tag))
    /\ UNCHANGED <<escape, at, panicked, nested>>

(* FOP_WITH_UNWIND_FN up to its body.                                      *)
EnterUnwind ==
    /\ Running
    /\ Depth < MaxDepth
    /\ stack' = Append(stack, UnwindFrame(0))
    /\ UNCHANGED <<escape, at, panicked, nested>>

(* The body of a catch returns.                                            *)
LeaveCatch ==
    /\ Running
    /\ Depth > 0 /\ IsCatch(Depth)
    /\ stack' = Pop
    /\ UNCHANGED <<escape, at, panicked, nested>>

(* The body of an unwind-protect returns: its frame goes, then the after   *)
(* thunk is called.                                                        *)
LeaveUnwind ==
    /\ Running
    /\ Depth > 0 /\ IsUnwind(Depth)
    /\ stack' = Append(Pop, AfterFrame(0))
    /\ UNCHANGED <<escape, at, panicked, nested>>

(* Mutant: the loop visits the unwind frame again.                         *)
LeaveAfterAgain ==
    /\ Running
    /\ Depth > 0 /\ Top.type = "after"
    /\ stack' = Pop
    /\ at' = IF Top.resume = 0 THEN Idle ELSE Top.resume
    /\ UNCHANGED <<escape, panicked, nested>>

(* An after thunk returns, to the program or to the unwinding loop.        *)
LeaveAfter ==
    /\ Running
    /\ Depth > 0 /\ Top.type = "after"
    /\ stack' = Pop
    /\ at' = IF Top.resume = 0 THEN Idle ELSE Top.resume - 1
    /\ UNCHANGED <<escape, panicked, nested>>

(* The handler of an uncaught throw returns, which it must not.            *)
LeaveTrap ==
    /\ Running
    /\ Depth > 0 /\ Top.type = "trap"
    /\ panicked' = TRUE
    /\ UNCHANGED <<stack, escape, at, nested>>

-----------------------------------------------------------------------------
(* Throwing                                                                *)

(* find_matching_escape: while a throw is in progress the search starts    *)
(* outside the target of that throw.                                       *)
SearchStart == IF escape # 0 THEN escape - 1 ELSE Depth

Matching(tag) == {i \in 1 .. SearchStart : IsCatch(i) /\ stack[i].tag \in {tag, AnyTag}}

Innermost(S) == CHOOSE i \in S : \A j \in S : j <= i

(* Mutant: goes to the target without unwinding.                           *)
ThrowDirectly(tag) ==
    /\ Running
    /\ Depth <= MaxDepth
    /\ Matching(tag) # {}
    /\ escape' = Innermost(Matching(tag))
    /\ at' = escape'
    /\ nested' = (nested \/ escape # 0)
    /\ UNCHANGED <<stack, panicked>>

(* FOP_THROW, up to the unwinding loop.                                    *)
Throw(tag) ==
    /\ Running
    /\ Depth <= MaxDepth
    /\ IF Matching(tag) = {}
         THEN /\ escape' = 0
              /\ stack' = Append(stack, TrapFrame)
              /\ at' = Idle
         ELSE /\ escape' = Innermost(Matching(tag))
              /\ at' = Depth
              /\ UNCHANGED stack
    /\ nested' = (nested \/ escape # 0)
    /\ UNCHANGED panicked

(* The loop of unwind_stack_for_throw meets an unwind frame: it calls the  *)
(* after thunk, and leaves the frame where it is.                          *)
Bump(n) == IF n = 0 THEN 1 ELSE 2

(* Mutant: the thunk loses the target.                                     *)
CallAfterClobbering ==
    /\ at > 0
    /\ IsUnwind(at)
    /\ stack' = Append([stack EXCEPT ![at] = UnwindFrame(Bump(@.started))], AfterFrame(at))
    /\ at' = Idle
    /\ escape' = 0
    /\ UNCHANGED <<panicked, nested>>

CallAfter ==
    /\ at > 0
    /\ IsUnwind(at)
    /\ stack' = Append([stack EXCEPT ![at] = UnwindFrame(Bump(@.started))], AfterFrame(at))
    /\ at' = Idle
    /\ UNCHANGED <<escape, panicked, nested>>

(* Mutant: escape_frame is not reset.                                      *)
LandStillEscaping ==
    /\ at > 0
    /\ IsCatch(at) /\ at = escape
    /\ stack' = SubSeq(stack, 1, at - 1)
    /\ at' = Idle
    /\ UNCHANGED <<escape, panicked, nested>>

(* It meets the target: longjmp, and FOP_CATCH leaves its frame.           *)
Land ==
    /\ at > 0
    /\ IsCatch(at) /\ at = escape
    /\ stack' = SubSeq(stack, 1, at - 1)
    /\ escape' = 0
    /\ at' = Idle
    /\ UNCHANGED <<panicked, nested>>

(* It meets any other frame.                                               *)
SkipFrame ==
    /\ at > 0
    /\ ~ IsUnwind(at)
    /\ ~ (IsCatch(at) /\ at = escape)
    /\ at' = at - 1
    /\ UNCHANGED <<stack, escape, panicked, nested>>

(* It runs out of frames, and execution goes on after the throw.           *)
FallOff ==
    /\ at = 0
    /\ at' = Idle
    /\ UNCHANGED <<stack, escape, panicked, nested>>

-----------------------------------------------------------------------------
Unwind == CallAfter \/ Land \/ SkipFrame \/ FallOff

Next ==
    \/ \E tag \in Tag \cup {AnyTag} : EnterCatch(tag)
    \/ EnterUnwind
    \/ LeaveCatch \/ LeaveUnwind \/ LeaveAfter \/ LeaveTrap
    \/ \E tag \in Tag : Throw(tag)
    \/ Unwind

(* The interpreter goes on executing the unwinding loop, and what after    *)
(* thunks do comes to an end: an extent entered while a throw unwinds is   *)
(* left at last.  Programs as such need not terminate.                     *)
LeaveAt(d) == escape # 0 /\ Depth = d /\ (LeaveCatch \/ LeaveUnwind \/ LeaveAfter)

Fairness == WF_vars(Unwind) /\ \A d \in 1 .. MaxDepth + 1 : SF_vars(LeaveAt(d))

Spec == Init /\ [][Next]_vars

FairSpec == Spec /\ Fairness

-----------------------------------------------------------------------------
TypeOK ==
    /\ stack \in Seq(Frame)
    /\ escape \in 0 .. Depth
    /\ at \in Idle .. Depth
    /\ panicked \in BOOLEAN
    /\ nested \in BOOLEAN

(* A throw in progress always has its target ahead of it: escape_frame is  *)
(* a catch frame still on the stack, which the unwinding loop has not yet  *)
(* passed.  (longjmp never goes to a frame that has been left.)            *)
TargetLive ==
    escape # 0 => /\ escape <= Depth
                  /\ IsCatch(escape)
                  /\ at # Idle => at >= escape

(* No extent is left without its after thunk: an unwind frame that leaves  *)
(* the stack has had its thunk called by the throw that removes it, or is  *)
(* replaced by a call of it.  (FOP_WITH_UNWIND_FN, unwind_stack_for_throw.)*)
CleanupNeverSkipped ==
    [][\A i \in 1 .. Depth :
          /\ IsUnwind(i)
          /\ i <= Len(stack') => stack'[i].type # "unwind"
          => \/ stack[i].started > 0
             \/ i <= Len(stack') /\ stack'[i] = AfterFrame(0)]_vars

(* An after thunk is called once for an extent, however it is left, unless *)
(* after thunks throw.                                                     *)
CalledOnce == \A i \in 1 .. Depth : IsUnwind(i) => stack[i].started <= 1

AfterOnce == nested \/ CalledOnce

(* A program never runs in an extent whose after thunk has been called,    *)
(* unless after thunks throw: such extents only exist below the call of an *)
(* after thunk that a throw made, or while the loop runs.                  *)
NoReentry ==
    Running /\ ~ nested => \A i \in 1 .. Depth :
        IsUnwind(i) /\ stack[i].started > 0 =>
            \E j \in i + 1 .. Depth : /\ stack[j].type = "after"
                                      /\ stack[j].resume \in 1 .. i

(* What follows a throw is not executed, unless after thunks throw: the    *)
(* loop does not run out of frames.                                        *)
ThrowEscapes == nested \/ at # 0

(* The innermost catch frame for a tag is the one a throw goes to, unless  *)
(* it is thrown while another throw unwinds the stack.                     *)
InnermostCatch ==
    [][\A tag \in Tag : Throw(tag) /\ ~ nested' =>
          \A i \in 1 .. Depth :
             IsCatch(i) /\ stack[i].tag \in {tag, AnyTag} => i <= escape']_vars

(* A throw that found its target reaches it, unless after thunks throw or  *)
(* the VM panics.                                                          *)
ThrowCompletes == escape # 0 ~> (escape = 0 \/ panicked \/ nested)

(* An after thunk is called once for an extent, whatever after thunks do.  *)
AfterOnceAlways == CalledOnce

(* What follows a throw is never executed, whatever after thunks do.       *)
ThrowNeverReturns == at # 0
=============================================================================
