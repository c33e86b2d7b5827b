---------------------------- MODULE EscapeProofs ----------------------------
(***************************************************************************)
(* The safety of module Escape, for any tags and any depth of the stack.   *)
(***************************************************************************)
EXTENDS Escape, WellFoundedInduction, TLAPS

(* The i-th frame is the call of an after thunk by a throw.                *)
Called(i) == stack[i].type = "after" /\ stack[i].resume # 0

(* The i-th frame is an extent whose after thunk a throw has called.       *)
Started(i) == IsUnwind(i) /\ stack[i].started > 0

(* A throw calls the after thunks of frames below the call.                *)
Resumes == \A i \in 1 .. Depth : Called(i) => stack[i].resume < i

(* A throw in progress has its target ahead.  While an after thunk runs,   *)
(* the calls by throws from some place on resume above the target.         *)
Aimed ==
    escape # 0 =>
        /\ escape <= Depth
        /\ IsCatch(escape)
        /\ at # Idle => at >= escape
        /\ at = Idle => \E j \in escape + 1 .. Depth :
              /\ Called(j)
              /\ \A k \in j .. Depth : Called(k) => stack[k].resume > escape

(* What the loop has passed has had its after thunk called.                *)
Passed ==
    /\ at # Idle => \A i \in at + 1 .. Depth : IsUnwind(i) => Started(i)
    /\ \A k \in 1 .. Depth : Called(k) =>
          \A i \in stack[k].resume .. k - 1 : IsUnwind(i) => Started(i)

(* As long as after thunks do not throw, one throw at most is in progress: *)
(* it is in its loop, or in one call of an after thunk.                    *)
OneThrow ==
    ~ nested =>
        /\ \A j, k \in 1 .. Depth : Called(j) /\ Called(k) => j = k
        /\ \A j \in 1 .. Depth : Called(j) => at = Idle /\ escape # 0
        /\ at # Idle => escape # 0

(* Then extents whose after thunk has been called are those it has passed. *)
CalledByIt ==
    ~ nested =>
        \A i \in 1 .. Depth : Started(i) =>
            /\ stack[i].started = 1
            /\ at # Idle => i > at
            /\ at = Idle => \E j \in i + 1 .. Depth : Called(j) /\ stack[j].resume <= i

EscapeInv == TypeOK /\ Resumes /\ Aimed /\ Passed /\ OneThrow /\ CalledByIt

-----------------------------------------------------------------------------
(* Frames and sequences of frames                                          *)

(* What the fields of a frame are, for its type.                           *)
LEMMA FrameShape ==
  ASSUME NEW f \in Frame
  PROVE  /\ f.type = "unwind" => f.started \in 0 .. 2
         /\ f.type = "after"  => f.resume \in Nat
BY DEF Frame, CatchFrame, UnwindFrame, TrapFrame

(* The frames the code pushes are frames.                                  *)
LEMMA FramesMade ==
  /\ \A tag \in Tag \cup {AnyTag} : CatchFrame(tag) \in Frame /\ CatchFrame(tag).type = "catch"
  /\ \A n \in 0 .. 2 : /\ UnwindFrame(n) \in Frame
                       /\ UnwindFrame(n).type = "unwind" /\ UnwindFrame(n).started = n
  /\ \A k \in Nat : /\ AfterFrame(k) \in Frame
                    /\ AfterFrame(k).type = "after" /\ AfterFrame(k).resume = k
  /\ TrapFrame \in Frame /\ TrapFrame.type = "trap"
BY DEF Frame, CatchFrame, UnwindFrame, AfterFrame, TrapFrame

(* A stack with a frame pushed: it is on top, and the others stay.         *)
LEMMA Pushed ==
  ASSUME NEW st \in Seq(Frame), NEW f \in Frame
  PROVE  /\ Append(st, f) \in Seq(Frame)
         /\ Len(Append(st, f)) = Len(st) + 1
         /\ \A i \in 1 .. Len(st) : Append(st, f)[i] = st[i]
         /\ Append(st, f)[Len(st) + 1] = f
OBVIOUS

(* The first n frames of a stack, as the unwinding leaves them.            *)
LEMMA Cut ==
  ASSUME NEW st \in Seq(Frame), NEW n \in 0 .. Len(st)
  PROVE  /\ SubSeq(st, 1, n) \in Seq(Frame)
         /\ Len(SubSeq(st, 1, n)) = n
         /\ \A i \in 1 .. n : SubSeq(st, 1, n)[i] = st[i]
OBVIOUS

(* A search that finds frames finds the innermost of them.                 *)
LEMMA InnermostExists ==
  ASSUME NEW n \in Nat, NEW S, S \subseteq 1 .. n, S # {}
  PROVE  Innermost(S) \in S /\ \A j \in S : j <= Innermost(S)
<1> DEFINE Distance == {n - i : i \in S}
<1>1. Distance # {} /\ Distance \subseteq Nat
  <2>1. \A i \in S : n - i \in Nat
    OBVIOUS
  <2> QED BY <2>1
<1>2. PICK d \in Distance : \A e \in Distance : ~ (<<e, d>> \in OpToRel(<, Nat))
  BY <1>1, NatLessThanWellFounded, WFMin
<1>3. \A e \in Distance : d <= e
  <2>1. \A e \in Distance : ~ (e < d)
    BY <1>1, <1>2 DEF OpToRel
  <2> QED BY <2>1, <1>1
<1>4. PICK i \in S : d = n - i
  BY <1>2
<1>5. \A j \in S : j <= i
  BY <1>3, <1>4
<1> QED
  BY <1>4, <1>5 DEF Innermost

(* What the types of a state say of its stack, a frame at a time.          *)
LEMMA TypesOfState ==
  ASSUME TypeOK
  PROVE  /\ Depth \in Nat /\ escape \in Nat /\ at \in Int
         /\ \A i \in 1 .. Depth : stack[i] \in Frame
         /\ \A i \in 1 .. Depth : IsUnwind(i) => stack[i].started \in 0 .. 2
         /\ \A i \in 1 .. Depth : stack[i].type = "after" => stack[i].resume \in Nat
BY FrameShape DEF TypeOK, Depth, Idle, IsUnwind

-----------------------------------------------------------------------------
(* The inductive invariant                                                 *)

(* The stack is empty and no throw is under way: the invariant holds.      *)
LEMMA InvInit == Init => EscapeInv
<1> SUFFICES ASSUME Init PROVE EscapeInv
  OBVIOUS
<1>1. stack \in Seq(Frame) /\ Depth = 0
  BY DEF Init, Depth
<1>2. TypeOK
  <2>1. escape \in 0 .. Depth /\ at \in Idle .. Depth
    BY <1>1 DEF Init, Idle
  <2>2. panicked \in BOOLEAN /\ nested \in BOOLEAN
    BY DEF Init
  <2> QED BY <2>1, <2>2, <1>1 DEF TypeOK
<1>3. \A i \in 1 .. Depth : FALSE
  BY <1>1
<1>4. escape = 0 /\ at = Idle
  BY DEF Init
<1>5. Resumes /\ Aimed /\ OneThrow /\ CalledByIt
  BY <1>3, <1>4 DEF Resumes, Aimed, OneThrow, CalledByIt
<1>6. Passed
  BY <1>3, <1>4 DEF Passed
<1> QED
  BY <1>2, <1>5, <1>6 DEF EscapeInv

(* While a program runs, the target of the throw it runs under is not the  *)
(* topmost frame.                                                          *)
LEMMA TargetBelow ==
  ASSUME EscapeInv, at = Idle, Depth > 0
  PROVE  escape < Depth
BY TypesOfState DEF EscapeInv, Aimed

(* Steps between throws: the frames from some place on are replaced, none  *)
(* of which is a call of an after thunk by a throw, and none of the new    *)
(* ones is one or an extent that has been left.                            *)
Replaces(n) ==
    /\ n \in 0 .. Depth /\ escape <= n
    /\ stack' \in Seq(Frame) /\ n <= Len(stack')
    /\ \A i \in 1 .. n : stack'[i] = stack[i]
    /\ \A i \in n + 1 .. Depth : ~ Called(i)
    /\ \A i \in n + 1 .. Depth' : ~ Called(i)' /\ ~ Started(i)'

(* A step between throws keeps the invariant: below what it replaces the   *)
(* frames are as before, and no after thunk is being called in what it     *)
(* replaces.                                                               *)
LEMMA Quiet ==
  ASSUME EscapeInv, at = Idle, NEW n, Replaces(n),
         UNCHANGED <<escape, at, nested>>, panicked' \in BOOLEAN
  PROVE  EscapeInv'
<1> USE TypesOfState
<1>0. TypeOK /\ TypeOK' /\ Depth' \in Nat /\ Depth' = Len(stack') /\ n \in Nat
  BY DEF EscapeInv, TypeOK, Replaces, Depth, Idle
<1>1. \A i \in 1 .. n : (Called(i)' <=> Called(i)) /\ (Started(i)' <=> Started(i))
                        /\ (IsUnwind(i)' <=> IsUnwind(i)) /\ (IsCatch(i)' <=> IsCatch(i))
                        /\ stack'[i] = stack[i]
  BY DEF Replaces, Called, Started, IsUnwind, IsCatch
<1>2. \A k \in 1 .. Depth : Called(k) => k <= n
  BY DEF Replaces, EscapeInv
<1>3. \A k \in 1 .. Depth' : Called(k)' \/ Started(k)' => k <= n
  BY <1>0 DEF Replaces
<1>4. n <= Depth /\ n <= Depth' /\ escape <= n
  BY <1>0 DEF Replaces
<1>5. Resumes'
  BY <1>0, <1>1, <1>3, <1>4 DEF EscapeInv, Resumes
<1>6. Aimed'
  <2> SUFFICES ASSUME escape # 0
               PROVE  /\ escape <= Depth' /\ IsCatch(escape)'
                      /\ \E j \in escape + 1 .. Depth' :
                            /\ Called(j)'
                            /\ \A k \in j .. Depth' : Called(k)' => stack'[k].resume > escape
    BY DEF Aimed
  <2>1. PICK j \in escape + 1 .. Depth :
               Called(j) /\ \A k \in j .. Depth : Called(k) => stack[k].resume > escape
    BY DEF EscapeInv, Aimed
  <2>2. j \in 1 .. n /\ escape \in 1 .. n
    BY <2>1, <1>0, <1>2, <1>4
  <2>3. IsCatch(escape)'
    BY <2>2, <1>1 DEF EscapeInv, Aimed, IsCatch
  <2>4. \A k \in j .. Depth' : Called(k)' => stack'[k].resume > escape
    BY <2>1, <2>2, <1>0, <1>1, <1>3, <1>4
  <2>5. j \in escape + 1 .. Depth' /\ Called(j)' /\ escape <= Depth'
    BY <2>1, <2>2, <1>0, <1>1, <1>4
  <2> QED
    BY <2>3, <2>4, <2>5
<1>7. Passed'
  <2> SUFFICES ASSUME NEW k \in 1 .. Depth', Called(k)',
                      NEW i \in stack'[k].resume .. k - 1, IsUnwind(i)'
               PROVE  Started(i)'
    BY DEF Passed
  <2>1. k \in 1 .. n /\ Called(k) /\ stack'[k] = stack[k]
    BY <1>0, <1>1, <1>3
  <2>2. stack[k].resume \in Nat /\ stack[k].resume # 0
    BY <2>1, <1>0, <1>4 DEF Called
  <2>3. i \in 1 .. n /\ i \in stack[k].resume .. k - 1
    BY <2>1, <2>2, <1>0
  <2> QED
    BY <2>1, <2>3, <1>0, <1>1, <1>4 DEF EscapeInv, Passed
<1>8. OneThrow'
  BY <1>0, <1>1, <1>3, <1>4 DEF EscapeInv, OneThrow
<1>9. CalledByIt'
  <2> SUFFICES ASSUME ~ nested, NEW i \in 1 .. Depth', Started(i)'
               PROVE  /\ stack'[i].started = 1
                      /\ \E j \in i + 1 .. Depth' : Called(j)' /\ stack'[j].resume <= i
    BY DEF CalledByIt, Idle
  <2>1. i \in 1 .. n /\ Started(i) /\ stack'[i] = stack[i]
    BY <1>0, <1>1, <1>3
  <2>2. PICK j \in i + 1 .. Depth : Called(j) /\ stack[j].resume <= i
    BY <2>1, <1>0, <1>4 DEF EscapeInv, CalledByIt
  <2>3. j \in 1 .. n
    BY <2>1, <2>2, <1>0, <1>2
  <2>4. stack[i].started = 1
    BY <2>1, <1>4, <1>0 DEF EscapeInv, CalledByIt
  <2> QED
    BY <2>1, <2>2, <2>3, <2>4, <1>0, <1>1, <1>4
<1> QED
  BY <1>0, <1>5, <1>6, <1>7, <1>8, <1>9 DEF EscapeInv

-----------------------------------------------------------------------------
(* Steps of programs                                                       *)

(* Entering a catch or an unwind-protect keeps the invariant: it pushes a  *)
(* frame that no throw has met.                                            *)
LEMMA EnterInv ==
  ASSUME EscapeInv, EnterUnwind \/ \E tag \in Tag \cup {AnyTag} : EnterCatch(tag)
  PROVE  EscapeInv'
<1>1. PICK f \in Frame : /\ stack' = Append(stack, f)
                         /\ f.type # "after" /\ ~ (f.type = "unwind" /\ f.started > 0)
  BY FramesMade DEF EnterUnwind, EnterCatch
<1>2. at = Idle /\ UNCHANGED <<escape, at, nested, panicked>>
  BY DEF EnterUnwind, EnterCatch, Running
<1>3. stack \in Seq(Frame) /\ Depth \in Nat /\ escape <= Depth /\ panicked \in BOOLEAN
  BY DEF EscapeInv, TypeOK, Depth
<1>4. Replaces(Depth)
  <2>1. stack' \in Seq(Frame) /\ Len(stack') = Depth + 1 /\ stack'[Depth + 1] = f
        /\ \A i \in 1 .. Depth : stack'[i] = stack[i]
    BY <1>1, <1>3, Pushed DEF Depth
  <2>2. \A i \in Depth + 1 .. Depth' : i = Depth + 1
    BY <2>1, <1>3 DEF Depth
  <2>3. \A i \in Depth + 1 .. Depth' : ~ Called(i)' /\ ~ Started(i)'
    BY <2>1, <2>2, <1>1 DEF Called, Started, IsUnwind
  <2> QED
    BY <2>1, <2>3, <1>3 DEF Replaces
<1> QED
  BY <1>2, <1>3, <1>4, Quiet

(* The topmost frame goes, which is no call by a throw.                    *)
LEMMA PopInv ==
  ASSUME EscapeInv, at = Idle, Depth > 0, ~ Called(Depth), stack' = Pop,
         UNCHANGED <<escape, at, panicked, nested>>
  PROVE  EscapeInv'
<1>1. stack \in Seq(Frame) /\ Depth \in Nat /\ escape \in Nat /\ panicked \in BOOLEAN
      /\ Depth = Len(stack)
  BY DEF EscapeInv, TypeOK, Depth
<1>2. escape < Depth
  BY TargetBelow
<1>3. stack' \in Seq(Frame) /\ Len(stack') = Depth - 1
      /\ \A i \in 1 .. Depth - 1 : stack'[i] = stack[i]
  BY <1>1, Cut DEF Pop
<1>4. Depth' = Depth - 1
  BY <1>3 DEF Depth
<1>5. \A i \in (Depth - 1) + 1 .. Depth : i = Depth
  BY <1>1
<1>6. \A i \in (Depth - 1) + 1 .. Depth' : FALSE
  BY <1>1, <1>4
<1>7. Replaces(Depth - 1)
  BY <1>1, <1>2, <1>3, <1>5, <1>6 DEF Replaces
<1> QED
  BY <1>1, <1>7, Quiet

(* The return from the body of an unwind-protect keeps the invariant: the  *)
(* frame of its extent is gone before the thunk is called, so that no      *)
(* throw calls the thunk again.                                            *)
LEMMA LeaveUnwindInv ==
  ASSUME EscapeInv, LeaveUnwind
  PROVE  EscapeInv'
<1>1. /\ at = Idle /\ Depth > 0 /\ IsUnwind(Depth) /\ stack' = Append(Pop, AfterFrame(0))
      /\ UNCHANGED <<escape, at, panicked, nested>>
  BY DEF LeaveUnwind, Running
<1>2. stack \in Seq(Frame) /\ Depth \in Nat /\ escape \in Nat /\ panicked \in BOOLEAN
      /\ Depth = Len(stack)
  BY DEF EscapeInv, TypeOK, Depth
<1>3. escape < Depth
  BY <1>1, TargetBelow
<1>4. Pop \in Seq(Frame) /\ Len(Pop) = Depth - 1 /\ \A i \in 1 .. Depth - 1 : Pop[i] = stack[i]
  BY <1>1, <1>2, Cut DEF Pop
<1>5. AfterFrame(0) \in Frame /\ AfterFrame(0).type = "after" /\ AfterFrame(0).resume = 0
  BY FramesMade
<1>6. stack' \in Seq(Frame) /\ Len(stack') = Depth /\ stack'[Depth] = AfterFrame(0)
      /\ \A i \in 1 .. Depth - 1 : stack'[i] = stack[i]
  <2>1. /\ stack' \in Seq(Frame) /\ Len(stack') = Len(Pop) + 1
        /\ stack'[Len(Pop) + 1] = AfterFrame(0)
        /\ \A i \in 1 .. Len(Pop) : stack'[i] = Pop[i]
    BY <1>1, <1>4, <1>5, Pushed
  <2>2. Len(Pop) + 1 = Depth
    BY <1>2, <1>4
  <2> QED
    BY <2>1, <2>2, <1>4
<1>7. Depth' = Depth
  BY <1>6 DEF Depth
<1>8. \A i \in (Depth - 1) + 1 .. Depth : i = Depth
  BY <1>2
<1>9. ~ Called(Depth)
  BY <1>1 DEF Called, IsUnwind
<1>10. \A i \in (Depth - 1) + 1 .. Depth' : ~ Called(i)' /\ ~ Started(i)'
  BY <1>5, <1>6, <1>7, <1>8 DEF Called, Started, IsUnwind
<1>11. Replaces(Depth - 1)
  BY <1>1, <1>2, <1>3, <1>6, <1>8, <1>9, <1>10 DEF Replaces
<1> QED
  BY <1>1, <1>2, <1>11, Quiet

(* The end of a call by a throw: the loop goes on below the extent.        *)
LEMMA LeaveAfterInv ==
  ASSUME EscapeInv, LeaveAfter
  PROVE  EscapeInv'
<1> DEFINE r == stack[Depth].resume
<1>0. /\ at = Idle /\ Depth > 0 /\ stack[Depth].type = "after" /\ stack' = Pop
      /\ at' = (IF r = 0 THEN Idle ELSE r - 1)
      /\ UNCHANGED <<escape, panicked, nested>>
  BY DEF LeaveAfter, Running, Top
<1>1. CASE r = 0
  BY <1>0, <1>1, PopInv DEF Called
<1>2. CASE r # 0
  <2>1. TypeOK /\ Depth \in Nat /\ r \in Nat /\ escape \in Nat /\ Depth = Len(stack)
    BY <1>0, TypesOfState DEF EscapeInv, Depth
  <2>2. Called(Depth) /\ r < Depth
    BY <1>0, <1>2, <2>1 DEF Called, EscapeInv, Resumes
  <2>3. escape < Depth
    BY <1>0, TargetBelow
  <2>4. stack' \in Seq(Frame) /\ Depth' = Depth - 1
        /\ \A i \in 1 .. Depth - 1 : stack'[i] = stack[i]
    <3>1. stack \in Seq(Frame) /\ Depth - 1 \in 0 .. Len(stack)
      BY <1>0, <2>1 DEF TypeOK
    <3>2. stack' = SubSeq(stack, 1, Depth - 1)
      BY <1>0 DEF Pop
    <3>3. Depth' = Len(stack')
      BY DEF Depth
    <3> QED
      BY <3>1, <3>2, <3>3, Cut
  <2>5. \A i \in 1 .. Depth - 1 : (Called(i)' <=> Called(i)) /\ (Started(i)' <=> Started(i))
                        /\ (IsUnwind(i)' <=> IsUnwind(i)) /\ (IsCatch(i)' <=> IsCatch(i))
                        /\ stack'[i] = stack[i]
    BY <2>4 DEF Called, Started, IsUnwind, IsCatch
  <2>6. at' = r - 1 /\ at' \in Nat /\ at' < Depth - 1 /\ at' # Idle
    BY <1>0, <1>2, <2>1, <2>2 DEF Idle
  <2>7. TypeOK'
    BY <1>0, <2>1, <2>3, <2>4, <2>6 DEF TypeOK, Idle
  <2>8. Resumes'
    BY <2>1, <2>4, <2>5 DEF EscapeInv, Resumes
  <2>9. Aimed'
    <3> SUFFICES ASSUME escape # 0
                 PROVE  escape <= Depth' /\ IsCatch(escape)' /\ at' >= escape
      BY <1>0, <2>6 DEF Aimed
    <3>1. PICK j \in escape + 1 .. Depth :
                 \A k \in j .. Depth : Called(k) => stack[k].resume > escape
      BY <1>0 DEF EscapeInv, Aimed
    <3>2. r > escape
      BY <3>1, <2>1, <2>2
    <3>3. IsCatch(escape)'
      BY <1>0, <2>1, <2>3, <2>5 DEF EscapeInv, Aimed, IsCatch
    <3> QED
      BY <3>2, <3>3, <2>1, <2>3, <2>4, <2>6
  <2>10. Passed'
    <3>1. \A i \in r .. Depth - 1 : IsUnwind(i) => Started(i)
      BY <2>1, <2>2, <1>0 DEF EscapeInv, Passed
    <3>2. \A i \in at' + 1 .. Depth' : IsUnwind(i)' => Started(i)'
      <4>1. at' + 1 = r /\ Depth' = Depth - 1 /\ r \in Nat \ {0} /\ Depth \in Nat
        BY <2>1, <2>4, <2>6, <1>2
      <4> QED
        BY <3>1, <4>1, <2>5
    <3>3. ASSUME NEW k \in 1 .. Depth', Called(k)',
                 NEW i \in stack'[k].resume .. k - 1, IsUnwind(i)'
          PROVE  Started(i)'
      <4>1. k \in 1 .. Depth - 1 /\ Called(k) /\ stack'[k] = stack[k]
        BY <3>3, <2>1, <2>4, <2>5
      <4>2. stack[k].resume \in Nat /\ stack[k].resume # 0
        BY <4>1, <2>1, TypesOfState DEF Called
      <4>3. i \in 1 .. Depth - 1 /\ i \in stack[k].resume .. k - 1
        BY <4>1, <4>2, <2>1
      <4> QED
        BY <3>3, <4>1, <4>3, <2>1, <2>5 DEF EscapeInv, Passed
    <3> QED
      BY <3>2, <3>3 DEF Passed
  <2>11. OneThrow'
    BY <1>0, <2>1, <2>2, <2>4, <2>5 DEF EscapeInv, OneThrow
  <2>12. CalledByIt'
    <3> SUFFICES ASSUME ~ nested, NEW i \in 1 .. Depth', Started(i)'
                 PROVE  stack'[i].started = 1 /\ i > at'
      BY <1>0, <2>6 DEF CalledByIt
    <3>1. i \in 1 .. Depth - 1 /\ Started(i) /\ stack'[i] = stack[i]
      BY <2>1, <2>4, <2>5
    <3>2. PICK j \in i + 1 .. Depth : Called(j) /\ stack[j].resume <= i
      BY <3>1, <1>0, <2>1 DEF EscapeInv, CalledByIt
    <3>3. j = Depth
      BY <3>1, <3>2, <2>1, <2>2 DEF EscapeInv, OneThrow
    <3>4. stack[i].started = 1
      BY <3>1, <2>1 DEF EscapeInv, CalledByIt
    <3> QED
      BY <3>1, <3>2, <3>3, <3>4, <2>1, <2>6
  <2> QED
    BY <2>7, <2>8, <2>9, <2>10, <2>11, <2>12 DEF EscapeInv
<1> QED
  BY <1>1, <1>2

(* The return from the handler of an uncaught throw keeps the invariant:   *)
(* the VM panics.                                                          *)
LEMMA LeaveTrapInv ==
  ASSUME EscapeInv, LeaveTrap
  PROVE  EscapeInv'
<1>1. at = Idle /\ panicked' \in BOOLEAN /\ UNCHANGED <<stack, escape, at, nested>>
  BY DEF LeaveTrap, Running
<1>2. stack \in Seq(Frame) /\ Depth \in Nat /\ escape <= Depth /\ Depth = Len(stack)
  BY DEF EscapeInv, TypeOK, Depth
<1>3. Depth' = Depth
  BY <1>1 DEF Depth
<1>4. \A i \in Depth + 1 .. Depth : FALSE
  BY <1>2
<1>5. Replaces(Depth)
  BY <1>1, <1>2, <1>3, <1>4 DEF Replaces
<1> QED
  BY <1>1, <1>5, Quiet

-----------------------------------------------------------------------------
(* Steps of throws                                                         *)

(* The search for a catch looks at frames of the stack.                    *)
LEMMA ThrowTypes ==
  ASSUME TypeOK
  PROVE  \A tag : Matching(tag) \subseteq 1 .. Depth /\ SearchStart \in 0 .. Depth
<1>1. SearchStart \in 0 .. Depth
  BY TypesOfState DEF TypeOK, SearchStart
<1> QED
  BY <1>1, TypesOfState DEF Matching

(* If there are matching frames, the search finds the innermost of them.   *)
LEMMA Found ==
  ASSUME TypeOK, NEW tag, Matching(tag) # {}
  PROVE  /\ Innermost(Matching(tag)) \in Matching(tag)
         /\ \A j \in Matching(tag) : j <= Innermost(Matching(tag))
BY ThrowTypes, TypesOfState, InnermostExists

(* No extent has been left when a throw starts that is not nested.         *)
LEMMA ThrowFirst ==
  ASSUME EscapeInv, ~ nested, escape = 0, at = Idle
  PROVE  \A i \in 1 .. Depth : ~ Called(i) /\ ~ Started(i)
<1>1. \A i \in 1 .. Depth : ~ Called(i)
  BY DEF EscapeInv, OneThrow
<1>2. \A i \in 1 .. Depth : \A j \in i + 1 .. Depth : j \in 1 .. Depth
  BY TypesOfState DEF EscapeInv
<1> QED
  BY <1>1, <1>2 DEF EscapeInv, CalledByIt

(* A throw keeps the invariant: its loop begins at the top of the stack    *)
(* and its target is ahead. Within an after thunk of a throw it is a       *)
(* nested one.                                                             *)
LEMMA ThrowInv ==
  ASSUME EscapeInv, NEW tag \in Tag, Throw(tag)
  PROVE  EscapeInv'
<1>0. /\ at = Idle /\ UNCHANGED panicked /\ nested' = (nested \/ escape # 0)
  BY DEF Throw, Running
<1>1. TypeOK /\ Depth \in Nat /\ Depth = Len(stack) /\ escape \in Nat
      /\ \A i \in 1 .. Depth : stack[i] \in Frame
  BY TypesOfState DEF EscapeInv, Depth
<1>2. ASSUME ~ nested' PROVE \A i \in 1 .. Depth : ~ Called(i) /\ ~ Started(i)
  BY <1>0, <1>2, ThrowFirst
<1>3. nested' \in BOOLEAN /\ panicked' \in BOOLEAN
  BY <1>0, <1>1 DEF TypeOK
<1>4. CASE Matching(tag) = {}
  <2>1. stack' = Append(stack, TrapFrame) /\ escape' = 0 /\ at' = Idle
    BY <1>4 DEF Throw
  <2>2. /\ stack' \in Seq(Frame) /\ Depth' = Depth + 1 /\ stack'[Depth + 1] = TrapFrame
        /\ \A i \in 1 .. Depth : stack'[i] = stack[i]
    BY <2>1, <1>1, Pushed, FramesMade DEF Depth, TypeOK
  <2>3. \A i \in 1 .. Depth : (Called(i)' <=> Called(i)) /\ (Started(i)' <=> Started(i))
                              /\ (IsUnwind(i)' <=> IsUnwind(i)) /\ stack'[i] = stack[i]
    BY <2>2 DEF Called, Started, IsUnwind
  <2>4. \A i : i = Depth + 1 => ~ Called(i)' /\ ~ Started(i)'
    BY <2>2, FramesMade DEF Called, Started, IsUnwind
  <2>5. \A i \in 1 .. Depth' : Called(i)' \/ Started(i)' => i \in 1 .. Depth
    <3>1. \A i \in 1 .. Depth' : i \in 1 .. Depth \/ i = Depth + 1
      BY <2>2, <1>1
    <3> QED BY <3>1, <2>4
  <2>6. TypeOK'
    BY <2>1, <2>2, <1>1, <1>3 DEF TypeOK, Idle
  <2>7. Resumes'
    BY <2>3, <2>5, <1>1 DEF EscapeInv, Resumes
  <2>8. Aimed'
    BY <2>1 DEF Aimed
  <2>9. Passed'
    <3> SUFFICES ASSUME NEW k \in 1 .. Depth', Called(k)',
                        NEW i \in stack'[k].resume .. k - 1, IsUnwind(i)'
                 PROVE  Started(i)'
      BY <2>1 DEF Passed
    <3>1. k \in 1 .. Depth /\ Called(k) /\ stack'[k] = stack[k]
      BY <2>3, <2>5
    <3>2. stack[k].resume \in Nat /\ stack[k].resume # 0
      BY <3>1, <1>1, TypesOfState DEF Called
    <3>3. i \in 1 .. Depth /\ i \in stack[k].resume .. k - 1
      BY <3>1, <3>2, <1>1
    <3> QED
      BY <3>1, <3>3, <2>3 DEF EscapeInv, Passed
  <2>10. OneThrow' /\ CalledByIt'
    <3> SUFFICES ASSUME ~ nested' PROVE OneThrow' /\ CalledByIt'
      BY DEF OneThrow, CalledByIt
    <3>1. \A i \in 1 .. Depth' : ~ Called(i)' /\ ~ Started(i)'
      BY <1>2, <2>3, <2>5
    <3> QED
      BY <3>1, <2>1 DEF OneThrow, CalledByIt
  <2> QED
    BY <2>6, <2>7, <2>8, <2>9, <2>10 DEF EscapeInv
<1>5. CASE Matching(tag) # {}
  <2> DEFINE m == Innermost(Matching(tag))
  <2>1. escape' = m /\ at' = Depth /\ stack' = stack
    BY <1>5 DEF Throw
  <2>2. m \in 1 .. Depth /\ IsCatch(m)
    BY <1>5, <1>1, Found, ThrowTypes DEF Matching
  <2>3. Depth' = Depth /\ at' # Idle /\ \A i \in 1 .. Depth :
          (Called(i)' <=> Called(i)) /\ (Started(i)' <=> Started(i))
          /\ (IsUnwind(i)' <=> IsUnwind(i)) /\ (IsCatch(i)' <=> IsCatch(i))
    BY <2>1, <1>1 DEF Depth, Called, Started, IsUnwind, IsCatch, Idle
  <2>4. TypeOK'
    BY <2>1, <2>2, <2>3, <1>1, <1>3 DEF TypeOK, Idle
  <2>5. Resumes'
    BY <2>1, <2>3 DEF EscapeInv, Resumes
  <2>6. Aimed'
    BY <2>1, <2>2, <2>3, <1>1 DEF Aimed, IsCatch
  <2>7. Passed'
    <3>1. \A i \in at' + 1 .. Depth' : FALSE
      BY <2>1, <2>3, <1>1
    <3>2. ASSUME NEW k \in 1 .. Depth, Called(k),
                 NEW i \in stack[k].resume .. k - 1
          PROVE  i \in 1 .. Depth
      BY <3>2, <1>1, TypesOfState DEF Called
    <3> QED
      BY <3>1, <3>2, <2>1, <2>3 DEF EscapeInv, Passed
  <2>8. OneThrow' /\ CalledByIt'
    <3> SUFFICES ASSUME ~ nested' PROVE OneThrow' /\ CalledByIt'
      BY DEF OneThrow, CalledByIt
    <3>1. \A i \in 1 .. Depth' : ~ Called(i)' /\ ~ Started(i)'
      BY <1>2, <2>3
    <3>2. escape' # 0
      BY <2>1, <2>2, <1>1
    <3> QED
      BY <3>1, <3>2 DEF OneThrow, CalledByIt
  <2> QED
    BY <2>4, <2>5, <2>6, <2>7, <2>8 DEF EscapeInv
<1> QED
  BY <1>4, <1>5

(* The call of an after thunk keeps the invariant: the extent counts as    *)
(* left, and the call resumes below the place where the loop is.           *)
LEMMA CallAfterInv ==
  ASSUME EscapeInv, CallAfter
  PROVE  EscapeInv'
<1> DEFINE n == Bump(stack[at].started)
           marked == [stack EXCEPT ![at] = UnwindFrame(n)]
<1>0. /\ at > 0 /\ at # Idle /\ IsUnwind(at) /\ at' = Idle
      /\ UNCHANGED <<escape, panicked, nested>>
  BY DEF CallAfter, Idle
<1>1. TypeOK /\ Depth \in Nat /\ Depth = Len(stack) /\ escape \in Nat /\ at \in 1 .. Depth
      /\ \A i \in 1 .. Depth : stack[i] \in Frame
  BY <1>0, TypesOfState DEF EscapeInv, Depth, TypeOK, Idle
<1>2. stack[at].started \in 0 .. 2 /\ n \in 1 .. 2
  BY <1>0, <1>1, TypesOfState DEF Bump
<1>3. UnwindFrame(n) \in Frame /\ UnwindFrame(n).type = "unwind" /\ UnwindFrame(n).started = n
      /\ AfterFrame(at) \in Frame /\ AfterFrame(at).type = "after" /\ AfterFrame(at).resume = at
  BY <1>1, <1>2, FramesMade
<1>4. marked \in Seq(Frame) /\ Len(marked) = Depth /\ marked[at] = UnwindFrame(n)
      /\ \A i \in 1 .. Depth : i # at => marked[i] = stack[i]
  BY <1>1, <1>3 DEF TypeOK
<1>5. /\ stack' \in Seq(Frame) /\ Depth' = Depth + 1 /\ stack'[Depth + 1] = AfterFrame(at)
      /\ stack'[at] = UnwindFrame(n)
      /\ \A i \in 1 .. Depth : i # at => stack'[i] = stack[i]
  <2>1. stack' = Append(marked, AfterFrame(at))
    BY DEF CallAfter
  <2>2. stack' \in Seq(Frame) /\ Len(stack') = Depth + 1 /\ stack'[Depth + 1] = AfterFrame(at)
        /\ \A i \in 1 .. Depth : stack'[i] = marked[i]
    BY <2>1, <1>3, <1>4, Pushed
  <2> QED
    BY <2>2, <1>1, <1>4 DEF Depth
<1>6. \A i \in 1 .. Depth : i # at =>
          (Called(i)' <=> Called(i)) /\ (Started(i)' <=> Started(i))
          /\ (IsUnwind(i)' <=> IsUnwind(i)) /\ (IsCatch(i)' <=> IsCatch(i))
          /\ stack'[i] = stack[i]
  BY <1>5 DEF Called, Started, IsUnwind, IsCatch
<1>7. \A i : i = at => ~ Called(i)' /\ ~ Called(i) /\ Started(i)' /\ stack'[i] = UnwindFrame(n)
  BY <1>0, <1>2, <1>3, <1>5 DEF Called, Started, IsUnwind
<1>8. \A i : i = Depth + 1 =>
          Called(i)' /\ ~ Started(i)' /\ ~ IsUnwind(i)' /\ stack'[i].resume = at
  BY <1>1, <1>3, <1>5 DEF Called, Started, IsUnwind
<1>9. \A i \in 1 .. Depth' : i \in 1 .. Depth \/ i = Depth + 1
  BY <1>1, <1>5
<1>10. TypeOK'
  BY <1>0, <1>1, <1>5 DEF TypeOK, Idle
<1>11. Resumes'
  BY <1>1, <1>6, <1>7, <1>8, <1>9 DEF EscapeInv, Resumes
<1>12. Aimed'
  <2> SUFFICES ASSUME escape # 0
               PROVE  /\ escape <= Depth' /\ IsCatch(escape)'
                      /\ \E j \in escape + 1 .. Depth' :
                            /\ Called(j)'
                            /\ \A k \in j .. Depth' : Called(k)' => stack'[k].resume > escape
    BY <1>0 DEF Aimed
  <2>1. escape \in 1 .. Depth /\ IsCatch(escape) /\ at >= escape
    BY <1>0, <1>1 DEF EscapeInv, Aimed
  <2>2. escape # at
    BY <2>1, <1>0 DEF IsCatch, IsUnwind
  <2>3. IsCatch(escape)'
    BY <2>1, <2>2, <1>0, <1>6 DEF IsCatch
  <2>4. PICK j \in Nat : j = Depth + 1
    BY <1>1
  <2>5. j \in escape + 1 .. Depth' /\ escape <= Depth' /\ Called(j)'
    BY <2>1, <2>4, <1>1, <1>5, <1>8
  <2>6. \A k \in j .. Depth' : k = Depth + 1
    BY <2>4, <1>1, <1>5
  <2>7. \A k \in j .. Depth' : stack'[k].resume > escape
    BY <2>1, <2>2, <2>6, <1>1, <1>8
  <2> QED
    BY <2>3, <2>5, <2>7
<1>13. Passed'
  <2> SUFFICES ASSUME NEW k \in 1 .. Depth', Called(k)',
                      NEW i \in stack'[k].resume .. k - 1, IsUnwind(i)'
               PROVE  Started(i)'
    BY <1>0 DEF Passed
  <2>1. CASE i = at
    BY <2>1, <1>7
  <2>2. CASE i # at /\ k = Depth + 1
    <3>1. i \in at + 1 .. Depth
      BY <2>2, <1>1, <1>8
    <3>2. i \in 1 .. Depth
      BY <3>1, <1>1
    <3> QED
      BY <3>1, <3>2, <2>2, <1>0, <1>6 DEF EscapeInv, Passed
  <2>3. CASE i # at /\ k \in 1 .. Depth
    <3>1. Called(k) /\ stack'[k] = stack[k]
      BY <2>3, <1>6, <1>7
    <3>2. stack[k].resume \in Nat /\ stack[k].resume # 0
      BY <3>1, <2>3, <1>1, TypesOfState DEF Called
    <3>3. i \in 1 .. Depth /\ i \in stack[k].resume .. k - 1
      BY <3>1, <3>2, <2>3, <1>1
    <3> QED
      BY <3>1, <3>3, <2>3, <1>6 DEF EscapeInv, Passed
  <2> QED
    BY <2>1, <2>2, <2>3, <1>9
<1>14. OneThrow'
  <2> SUFFICES ASSUME ~ nested
               PROVE  /\ \A j, k \in 1 .. Depth' : Called(j)' /\ Called(k)' => j = k
                      /\ escape # 0
    BY <1>0 DEF OneThrow
  <2>1. escape # 0 /\ \A i \in 1 .. Depth : ~ Called(i)
    BY <1>0 DEF EscapeInv, OneThrow
  <2>2. \A i \in 1 .. Depth : ~ Called(i)'
    BY <2>1, <1>6, <1>7
  <2> QED
    BY <2>1, <2>2, <1>9
<1>15. CalledByIt'
  <2> SUFFICES ASSUME ~ nested, NEW i \in 1 .. Depth', Started(i)'
               PROVE  /\ stack'[i].started = 1
                      /\ \E j \in i + 1 .. Depth' : Called(j)' /\ stack'[j].resume <= i
    BY <1>0 DEF CalledByIt
  <2>1. i \in 1 .. Depth
    BY <1>8, <1>9
  <2>2. CASE i = at
    <3>1. ~ Started(at)
      BY <1>0, <1>1 DEF EscapeInv, CalledByIt
    <3>2. stack[at].started = 0
      BY <3>1, <1>0, <1>2 DEF Started
    <3>3. n = 1
      BY <3>2 DEF Bump
    <3>4. stack'[i].started = 1
      BY <2>2, <3>3, <1>3, <1>7
    <3> QED
      BY <2>1, <2>2, <3>4, <1>1, <1>5, <1>8
  <2>3. CASE i # at
    <3>1. stack[i].started = 1 /\ i > at /\ stack'[i] = stack[i]
      BY <2>1, <2>3, <1>0, <1>6 DEF EscapeInv, CalledByIt
    <3> QED
      BY <2>1, <3>1, <1>1, <1>5, <1>8
  <2> QED
    BY <2>2, <2>3
<1> QED
  BY <1>10, <1>11, <1>12, <1>13, <1>14, <1>15 DEF EscapeInv

(* A throw that meets its target keeps the invariant: every extent it      *)
(* removes has had its thunk called.                                       *)
LEMMA LandInv ==
  ASSUME EscapeInv, Land
  PROVE  EscapeInv'
<1>0. /\ at > 0 /\ at # Idle /\ stack' = SubSeq(stack, 1, at - 1) /\ escape' = 0 /\ at' = Idle
      /\ UNCHANGED <<panicked, nested>>
  BY DEF Land, Idle
<1>1. TypeOK /\ Depth \in Nat /\ Depth = Len(stack) /\ at \in 1 .. Depth
  BY <1>0, TypesOfState DEF EscapeInv, Depth, TypeOK, Idle
<1>2. stack' \in Seq(Frame) /\ Depth' = at - 1 /\ \A i \in 1 .. at - 1 : stack'[i] = stack[i]
  <2>1. stack \in Seq(Frame) /\ at - 1 \in 0 .. Len(stack)
    BY <1>1 DEF TypeOK
  <2> QED
    BY <2>1, <1>0, Cut DEF Depth
<1>3. \A i \in 1 .. Depth' :
          /\ (Called(i)' <=> Called(i)) /\ (Started(i)' <=> Started(i))
          /\ (IsUnwind(i)' <=> IsUnwind(i)) /\ stack'[i] = stack[i]
          /\ i \in 1 .. Depth /\ i < at
  BY <1>1, <1>2 DEF Called, Started, IsUnwind
<1>4. TypeOK'
  BY <1>0, <1>1, <1>2 DEF TypeOK, Idle
<1>5. Resumes'
  BY <1>3 DEF EscapeInv, Resumes
<1>6. Aimed'
  BY <1>0 DEF Aimed
<1>7. Passed'
  <2> SUFFICES ASSUME NEW k \in 1 .. Depth', Called(k)',
                      NEW i \in stack'[k].resume .. k - 1, IsUnwind(i)'
               PROVE  Started(i)'
    BY <1>0 DEF Passed
  <2>1. k \in 1 .. Depth /\ Called(k) /\ stack'[k] = stack[k]
    BY <1>3
  <2>2. stack[k].resume \in Nat /\ stack[k].resume # 0
    BY <2>1, <1>1, TypesOfState DEF Called
  <2>3. i \in 1 .. Depth' /\ i \in stack[k].resume .. k - 1
    BY <2>1, <2>2, <1>1, <1>2
  <2> QED
    BY <2>1, <2>3, <1>3 DEF EscapeInv, Passed
<1>8. OneThrow' /\ CalledByIt'
  <2> SUFFICES ASSUME ~ nested' PROVE OneThrow' /\ CalledByIt'
    BY DEF OneThrow, CalledByIt
  <2>1. \A i \in 1 .. Depth : ~ Called(i)
    BY <1>0 DEF EscapeInv, OneThrow
  <2>2. \A i \in 1 .. Depth : Started(i) => i > at
    BY <1>0 DEF EscapeInv, CalledByIt
  <2>3. \A i \in 1 .. Depth' : ~ Called(i)' /\ ~ Started(i)'
    BY <2>1, <2>2, <1>1, <1>3
  <2> QED
    BY <2>3, <1>0 DEF OneThrow, CalledByIt
<1> QED
  BY <1>4, <1>5, <1>6, <1>7, <1>8 DEF EscapeInv

(* The loop goes past a frame that is neither an extent nor its target,    *)
(* or stops when there is no frame left.                                   *)
LEMMA SkipInv ==
  ASSUME EscapeInv, SkipFrame
  PROVE  EscapeInv'
<1>0. /\ at > 0 /\ at # Idle /\ ~ IsUnwind(at) /\ ~ (IsCatch(at) /\ at = escape)
      /\ at' = at - 1 /\ UNCHANGED <<stack, escape, panicked, nested>>
  BY DEF SkipFrame, Idle
<1>1. TypeOK /\ Depth \in Nat /\ at \in 1 .. Depth /\ escape \in Nat
  BY <1>0, TypesOfState DEF EscapeInv, TypeOK, Idle
<1>2. Depth' = Depth /\ at' # Idle /\ at' \in 0 .. Depth
      /\ \A i : (Called(i)' <=> Called(i)) /\ (Started(i)' <=> Started(i))
                /\ (IsUnwind(i)' <=> IsUnwind(i)) /\ (IsCatch(i)' <=> IsCatch(i))
  BY <1>0, <1>1 DEF Depth, Idle, Called, Started, IsUnwind, IsCatch
<1>3. TypeOK' /\ Resumes'
  BY <1>0, <1>1, <1>2 DEF EscapeInv, TypeOK, Resumes, Idle
<1>4. Aimed'
  BY <1>0, <1>1, <1>2 DEF EscapeInv, Aimed, IsCatch
<1>5. Passed'
  <2>1. \A i \in at' + 1 .. Depth : IsUnwind(i) => Started(i)
    BY <1>0, <1>1 DEF EscapeInv, Passed
  <2> QED
    BY <2>1, <1>0, <1>2 DEF EscapeInv, Passed
<1>6. OneThrow'
  BY <1>0, <1>2 DEF EscapeInv, OneThrow
<1>7. CalledByIt'
  BY <1>0, <1>1, <1>2 DEF EscapeInv, CalledByIt
<1> QED
  BY <1>3, <1>4, <1>5, <1>6, <1>7 DEF EscapeInv

(* A throw that runs out of frames keeps the invariant, and is one that a  *)
(* throw in an after thunk has overtaken: a throw that is not has its      *)
(* target ahead.                                                           *)
LEMMA FallOffInv ==
  ASSUME EscapeInv, FallOff
  PROVE  EscapeInv' /\ nested
<1>0. at = 0 /\ at # Idle /\ at' = Idle /\ UNCHANGED <<stack, escape, panicked, nested>>
  BY DEF FallOff, Idle
<1>1. escape = 0 /\ TypeOK /\ Depth \in Nat
  BY <1>0, TypesOfState DEF EscapeInv, Aimed
<1>2. nested
  BY <1>0, <1>1 DEF EscapeInv, OneThrow
<1>3. Depth' = Depth
      /\ \A i : (Called(i)' <=> Called(i)) /\ (Started(i)' <=> Started(i))
                /\ (IsUnwind(i)' <=> IsUnwind(i))
  BY <1>0 DEF Depth, Called, Started, IsUnwind
<1>4. TypeOK' /\ Resumes'
  BY <1>0, <1>1, <1>3 DEF EscapeInv, TypeOK, Resumes, Idle
<1>5. Aimed' /\ OneThrow' /\ CalledByIt'
  BY <1>0, <1>1, <1>2 DEF Aimed, OneThrow, CalledByIt
<1>6. Passed'
  BY <1>0, <1>3 DEF EscapeInv, Passed
<1> QED
  BY <1>2, <1>4, <1>5, <1>6 DEF EscapeInv

(* The invariant speaks of the state alone.                                *)
LEMMA StutterInv ==
  ASSUME EscapeInv, UNCHANGED vars
  PROVE  EscapeInv'
BY DEF vars, EscapeInv, TypeOK, Resumes, Aimed, Passed, OneThrow, CalledByIt,
       Called, Started, IsUnwind, IsCatch, Depth

(* Every step keeps the invariant.                                         *)
LEMMA InvNext ==
  ASSUME EscapeInv, [Next]_vars
  PROVE  EscapeInv'
<1>1. CASE EnterUnwind \/ \E tag \in Tag \cup {AnyTag} : EnterCatch(tag)
  BY <1>1, EnterInv
<1>2. CASE LeaveCatch
  <2>1. /\ at = Idle /\ Depth > 0 /\ ~ Called(Depth) /\ stack' = Pop
        /\ UNCHANGED <<escape, at, panicked, nested>>
    BY <1>2 DEF LeaveCatch, Running, Called, IsCatch
  <2> QED
    BY <2>1, PopInv
<1>3. CASE LeaveUnwind
  BY <1>3, LeaveUnwindInv
<1>4. CASE LeaveAfter
  BY <1>4, LeaveAfterInv
<1>5. CASE LeaveTrap
  BY <1>5, LeaveTrapInv
<1>6. ASSUME NEW tag \in Tag, Throw(tag) PROVE EscapeInv'
  BY <1>6, ThrowInv
<1>7. CASE CallAfter
  BY <1>7, CallAfterInv
<1>8. CASE Land
  BY <1>8, LandInv
<1>9. CASE SkipFrame
  BY <1>9, SkipInv
<1>10. CASE FallOff
  BY <1>10, FallOffInv
<1>11. CASE UNCHANGED vars
  BY <1>11, StutterInv
<1> QED
  BY <1>1, <1>2, <1>3, <1>4, <1>5, <1>6, <1>7, <1>8, <1>9, <1>10, <1>11 DEF Next, Unwind

(* The invariant of dynamic escapes: unwind_stack_for_throw,               *)
(* find_matching_escape and the opcodes of vm/evaluator.c keep it.         *)
THEOREM EscapeInvariant == Spec => []EscapeInv
<1>1. Init => EscapeInv
  BY InvInit
<1>2. EscapeInv /\ [Next]_vars => EscapeInv'
  BY InvNext
<1> QED
  BY <1>1, <1>2, PTL DEF Spec

-----------------------------------------------------------------------------
(* What follows from it                                                    *)

(* The state keeps its types: escape_frame is a frame of the stack or      *)
(* NULL, whatever throws are nested.                                       *)
THEOREM EscapeTypes == Spec => []TypeOK
<1>1. EscapeInv => TypeOK
  BY DEF EscapeInv
<1> QED
  BY <1>1, EscapeInvariant, PTL

(* The target of a throw is a catch frame of the stack which the loop of   *)
(* unwind_stack_for_throw has not passed, nested throws included.          *)
THEOREM TargetsLive == Spec => []TargetLive
<1>1. EscapeInv => TargetLive
  BY DEF EscapeInv, Aimed, TargetLive
<1> QED
  BY <1>1, EscapeInvariant, PTL

(* Unless after thunks throw, throws call the after thunk of an extent at  *)
(* most once.                                                              *)
THEOREM CalledOnceOnly == Spec => []AfterOnce
<1>1. EscapeInv => AfterOnce
  BY TypesOfState DEF EscapeInv, CalledByIt, AfterOnce, CalledOnce, Started
<1> QED
  BY <1>1, EscapeInvariant, PTL

(* Unless after thunks throw, programs only run in an extent whose after   *)
(* thunk has been called below that call.                                  *)
THEOREM NeverReentered == Spec => []NoReentry
<1>1. ASSUME EscapeInv PROVE NoReentry
  <2> SUFFICES ASSUME at = Idle, ~ nested, NEW i \in 1 .. Depth, Started(i)
               PROVE  \E j \in i + 1 .. Depth : /\ stack[j].type = "after"
                                                /\ stack[j].resume \in 1 .. i
    BY DEF NoReentry, Running, Started
  <2>1. PICK j \in i + 1 .. Depth : Called(j) /\ stack[j].resume <= i
    BY <1>1 DEF EscapeInv, CalledByIt
  <2>2. j \in 1 .. Depth
    BY <2>1, <1>1, TypesOfState DEF EscapeInv
  <2>3. stack[j].resume \in 1 .. i
    BY <2>1, <2>2, <1>1, TypesOfState DEF EscapeInv, Called
  <2> QED
    BY <2>1, <2>3 DEF Called
<1> QED
  BY <1>1, EscapeInvariant, PTL

(* Unless after thunks throw, the loop of unwind_stack_for_throw meets its *)
(* target before it runs out of frames: a throw does not return.           *)
THEOREM ThrowsEscape == Spec => []ThrowEscapes
<1>1. ASSUME EscapeInv PROVE ThrowEscapes
  <2>1. CASE at = 0
    <3>1. escape = 0
      BY <2>1, <1>1, TypesOfState DEF EscapeInv, Aimed, Idle
    <3> QED
      BY <2>1, <3>1, <1>1 DEF EscapeInv, OneThrow, ThrowEscapes, Idle
  <2> QED
    BY <2>1 DEF ThrowEscapes
<1> QED
  BY <1>1, EscapeInvariant, PTL

(* However throws are nested, no extent is left without a call of its      *)
(* after thunk.                                                            *)
THEOREM CleanupHolds == Spec => CleanupNeverSkipped
<1> DEFINE Kept ==
      \A i \in 1 .. Depth :
          /\ IsUnwind(i)
          /\ i <= Len(stack') => stack'[i].type # "unwind"
          => \/ stack[i].started > 0
             \/ i <= Len(stack') /\ stack'[i] = AfterFrame(0)
<1>1. ASSUME EscapeInv, [Next]_vars PROVE [Kept]_vars
  <2> SUFFICES ASSUME NEW i \in 1 .. Depth, IsUnwind(i),
                      i <= Len(stack') => stack'[i].type # "unwind"
               PROVE  \/ stack[i].started > 0
                      \/ i <= Len(stack') /\ stack'[i] = AfterFrame(0)
    OBVIOUS
  <2>0. stack \in Seq(Frame) /\ Depth \in Nat /\ Depth = Len(stack) /\ at \in Idle .. Depth
        /\ i \in Nat
    BY <1>1, TypesOfState DEF EscapeInv, TypeOK, Depth
  <2>1. CASE UNCHANGED stack
    BY <2>1, <2>0 DEF IsUnwind
  <2>2. ASSUME NEW f \in Frame, stack' = Append(stack, f) PROVE FALSE
    <3>1. Len(stack') = Depth + 1 /\ stack'[i] = stack[i]
      BY <2>0, <2>2, Pushed
    <3> QED
      BY <3>1, <2>0 DEF IsUnwind
  <2>3. ASSUME Depth > 0, ~ IsUnwind(Depth), stack' = Pop PROVE FALSE
    <3>1. Len(stack') = Depth - 1 /\ \A k \in 1 .. Depth - 1 : stack'[k] = stack[k]
      BY <2>0, <2>3, Cut DEF Pop
    <3>2. i # Depth
      BY <2>3
    <3> QED
      BY <3>1, <3>2, <2>0 DEF IsUnwind
  <2>4. CASE EnterUnwind \/ \E tag \in Tag \cup {AnyTag} : EnterCatch(tag)
    BY <2>2, <2>4, FramesMade DEF EnterUnwind, EnterCatch
  <2>5. CASE LeaveCatch \/ LeaveAfter
    BY <2>3, <2>5 DEF LeaveCatch, LeaveAfter, IsCatch, IsUnwind, Top
  <2>6. CASE LeaveUnwind
    <3>1. Pop \in Seq(Frame) /\ Len(Pop) = Depth - 1
          /\ \A k \in 1 .. Depth - 1 : Pop[k] = stack[k]
      BY <2>0, <2>6, Cut DEF Pop, LeaveUnwind
    <3>2. stack' = Append(Pop, AfterFrame(0))
      BY <2>6 DEF LeaveUnwind
    <3>3. /\ Len(stack') = Len(Pop) + 1 /\ stack'[Len(Pop) + 1] = AfterFrame(0)
          /\ \A k \in 1 .. Len(Pop) : stack'[k] = Pop[k]
      BY <3>1, <3>2, FramesMade, Pushed
    <3>4. CASE i = Depth
      BY <3>1, <3>3, <3>4, <2>0
    <3>5. CASE i # Depth
      <4>1. stack'[i] = stack[i] /\ i <= Len(stack')
        BY <3>1, <3>3, <3>5, <2>0
      <4> QED
        BY <4>1 DEF IsUnwind
    <3> QED
      BY <3>4, <3>5
  <2>7. CASE \E tag \in Tag : Throw(tag)
    <3>1. PICK tag \in Tag : Throw(tag)
      BY <2>7
    <3>2. stack' = stack \/ stack' = Append(stack, TrapFrame)
      BY <3>1 DEF Throw
    <3> QED
      BY <3>2, <2>1, <2>2, FramesMade
  <2>8. CASE CallAfter
    <3> DEFINE n == Bump(stack[at].started)
               marked == [stack EXCEPT ![at] = UnwindFrame(n)]
    <3>1. at \in 1 .. Depth /\ IsUnwind(at) /\ stack' = Append(marked, AfterFrame(at))
      BY <2>0, <2>8 DEF CallAfter, Idle
    <3>2. n \in 0 .. 2 /\ at \in Nat
      BY <2>0, <3>1, <1>1, TypesOfState DEF Bump, EscapeInv
    <3>3. UnwindFrame(n) \in Frame /\ UnwindFrame(n).type = "unwind" /\ AfterFrame(at) \in Frame
      BY <3>2, FramesMade
    <3>4. marked \in Seq(Frame) /\ Len(marked) = Depth
          /\ \A k \in 1 .. Depth : marked[k].type = stack[k].type
      BY <2>0, <3>1, <3>3 DEF IsUnwind
    <3>5. Len(stack') = Depth + 1 /\ stack'[i] = marked[i]
      BY <2>0, <3>1, <3>3, <3>4, Pushed
    <3> QED
      BY <3>4, <3>5, <2>0 DEF IsUnwind
  <2>9. CASE Land
    <3>1. at \in 1 .. Depth /\ IsCatch(at) /\ stack' = SubSeq(stack, 1, at - 1)
      BY <2>0, <2>9 DEF Land, Idle
    <3>2. at - 1 \in 0 .. Len(stack)
      BY <3>1, <2>0
    <3>3. Len(stack') = at - 1 /\ \A k \in 1 .. at - 1 : stack'[k] = stack[k]
      BY <3>1, <3>2, <2>0, Cut
    <3>4. i # at
      BY <3>1 DEF IsCatch, IsUnwind
    <3>5. i >= at
      BY <3>1, <3>3, <2>0 DEF IsUnwind
    <3>6. i \in at + 1 .. Depth /\ at # Idle
      BY <3>1, <3>4, <3>5, <2>0 DEF Idle
    <3> QED
      BY <3>6, <1>1 DEF EscapeInv, Passed, Started
  <2> QED
    BY <1>1, <2>1, <2>4, <2>5, <2>6, <2>7, <2>8, <2>9
       DEF Next, Unwind, LeaveTrap, SkipFrame, FallOff, vars
<1> QED
  BY <1>1, EscapeInvariant, PTL DEF Spec, CleanupNeverSkipped

(* A throw that is not nested in another goes to the innermost catch frame *)
(* that takes its tag.                                                     *)
THEOREM InnermostHolds == Spec => InnermostCatch
<1> DEFINE Nearest ==
      \A tag \in Tag : Throw(tag) /\ ~ nested' =>
          \A i \in 1 .. Depth :
             IsCatch(i) /\ stack[i].tag \in {tag, AnyTag} => i <= escape'
<1>1. ASSUME EscapeInv PROVE Nearest
  <2> SUFFICES ASSUME NEW tag \in Tag, Throw(tag), ~ nested',
                      NEW i \in 1 .. Depth, IsCatch(i), stack[i].tag \in {tag, AnyTag}
               PROVE  i <= escape'
    OBVIOUS
  <2>1. escape = 0
    BY DEF Throw
  <2>2. i \in Matching(tag)
    BY <2>1 DEF Matching, SearchStart
  <2>3. escape' = Innermost(Matching(tag))
    BY <2>2 DEF Throw
  <2> QED
    BY <2>2, <2>3, <1>1, Found DEF EscapeInv
<1>2. EscapeInv => [Nearest]_vars
  BY <1>1
<1> QED
  BY <1>2, EscapeInvariant, PTL DEF InnermostCatch
=============================================================================
