----------------------------- MODULE HeapProofs -----------------------------
(***************************************************************************)
(* The heap invariants of module Heap, for every segment size, segment     *)
(* limit, sub-freelist size and trap depth.                                *)
(***************************************************************************)
EXTENDS Heap, FiniteSetTheorems, TLAPS

(* Segment numbers are natural, so the bounds on them are total.           *)
LEMMA SegNat == ASSUME NEW c \in Cell PROVE Seg(c) \in Nat
  BY HeapAssumption DEF Cell, Seg

(* The sub-freelists made of a set F of cells partition F.                 *)
LEMMA ChunksPartition ==
  ASSUME NEW F \in SUBSET Cell
  PROVE  /\ \A f \in Chunks(F) : f \subseteq F /\ f # {}
         /\ \A f, g \in Chunks(F) : f # g => f \cap g = {}
         /\ UNION Chunks(F) = F
<1> DEFINE Same(c, d) == Rank(d, F) \div SubFreelistSize
                           = Rank(c, F) \div SubFreelistSize
<1>1. \A c : Chunk(c, F) = {d \in F : Same(c, d)}
  BY DEF Chunk
<1>2. \A c \in F : c \in Chunk(c, F)
  BY <1>1
<1>3. ASSUME NEW a \in F, NEW b \in F, NEW d \in F, Same(a, d), Same(b, d)
      PROVE  Chunk(a, F) = Chunk(b, F)
  BY <1>1, <1>3
<1> QED
  BY <1>1, <1>2, <1>3 DEF Chunks

(* The sub-freelists of distinct new segments partition their cells.       *)
LEMMA SegmentChunksPartition ==
  ASSUME NEW a \in Int, NEW b \in Int
  PROVE  /\ \A f \in SegmentChunks(a, b) :
              /\ f \subseteq {c \in Cell : a <= Seg(c) /\ Seg(c) < b}
              /\ f # {}
         /\ \A f, g \in SegmentChunks(a, b) : f # g => f \cap g = {}
<1>1. \A k : SegmentCells(k) \in SUBSET Cell
  BY DEF SegmentCells
<1>2. \A k \in a .. b - 1 : \A f \in Chunks(SegmentCells(k)) :
         f \subseteq SegmentCells(k) /\ f # {}
  BY <1>1, ChunksPartition
<1>3. ASSUME NEW j \in a .. b - 1, NEW k \in a .. b - 1,
             NEW f \in Chunks(SegmentCells(j)), NEW g \in Chunks(SegmentCells(k)),
             f # g
      PROVE  f \cap g = {}
  <2>1. CASE j = k
    BY <1>1, <1>3, <2>1, ChunksPartition
  <2>2. CASE j # k
    BY <1>2, <2>2 DEF SegmentCells
  <2> QED BY <2>1, <2>2
<1>4. \A k \in a .. b - 1 : SegmentCells(k) \subseteq {c \in Cell : a <= Seg(c) /\ Seg(c) < b}
  BY SegNat DEF SegmentCells
<1> QED
  BY <1>2, <1>3, <1>4 DEF SegmentChunks

(* The count gc_sweep reports is a number.                                 *)
LEMMA SweepCountNat == SweepCount \in Nat
<1>1. IsFiniteSet(Cell)
  BY HeapAssumption, FS_Interval DEF Cell
<1>2. IsFiniteSet({c \in HeapCells : Covered(c)} \ Marked)
  BY <1>1, FS_Subset DEF HeapCells
<1> QED
  BY <1>2, FS_CardinalityType DEF SweepCount

-----------------------------------------------------------------------------
(* Growing the heap                                                        *)

(* Sub-freelists made of segments that did not exist before can join the   *)
(* free lists.                                                             *)
LEMMA NewSegments ==
  ASSUME HeapInv, NEW to \in segs .. MaxSegs + 1
  PROVE  LET G == global \cup SegmentChunks(segs, to)
             C == {c \in Cell : Seg(c) < to}
         IN  /\ G \subseteq SUBSET Cell
             /\ live \subseteq C
             /\ thread \subseteq C \ live
             /\ \A f \in G : f \subseteq C \ live /\ f \cap thread = {} /\ f # {}
             /\ \A f, g \in G : f # g => f \cap g = {}
<1> DEFINE N == SegmentChunks(segs, to)
           C == {c \in Cell : Seg(c) < to}
<1>0. segs \in 1 .. MaxSegs + 1
  BY DEF HeapInv, TypeOK
<1>1. segs \in Int /\ to \in Int /\ segs <= to
  BY <1>0, HeapAssumption
<1>2. /\ \A f \in N : f \subseteq {c \in Cell : segs <= Seg(c) /\ Seg(c) < to} /\ f # {}
      /\ \A f, g \in N : f # g => f \cap g = {}
  BY <1>1, SegmentChunksPartition
<1>3. HeapCells \subseteq C
  BY <1>1, SegNat DEF HeapCells
<1>4. \A f \in N : f \cap HeapCells = {} /\ f \subseteq C /\ f # {}
  BY <1>1, <1>2, SegNat DEF HeapCells
<1>5. live \subseteq HeapCells /\ thread \subseteq HeapCells \ live
  BY DEF HeapInv, LiveInHeap, FreelistsSound, FreeCells
<1>6. /\ \A f \in global : f \subseteq HeapCells \ live /\ f \cap thread = {} /\ f # {}
      /\ \A f, g \in global : f # g => f \cap g = {}
  BY DEF HeapInv, FreelistsSound, FreeCells
<1> HIDE DEF N, C
<1>7. \A f \in N : f \subseteq C \ live /\ f \cap thread = {} /\ f # {}
  BY <1>4, <1>5
<1>8. \A f \in global : f \subseteq C \ live /\ f \cap thread = {} /\ f # {}
  BY <1>3, <1>6
<1>9. \A f \in global, g \in N : f \cap g = {}
  BY <1>4, <1>6
<1>10. \A f, g \in global \cup N : f # g => f \cap g = {}
  BY <1>2, <1>6, <1>9
<1>11. C \subseteq Cell
  BY DEF C
<1> QED
  BY <1>3, <1>5, <1>7, <1>8, <1>10, <1>11 DEF N, C

-----------------------------------------------------------------------------
(* Collecting                                                              *)

(* While the segment table is not exceeded, a collection keeps exactly the *)
(* marked cells, and these are closed under references.                    *)
LEMMA MarkSound ==
  ASSUME HeapInv, segs <= MaxSegs
  PROVE  /\ live \ Swept = Marked
         /\ roots \subseteq Marked
         /\ \A c \in Marked : refs[c] \subseteq Marked
         /\ \A c \in Marked : Covered(c)
<1>0. segs \in 1 .. MaxSegs + 1 /\ live \subseteq Cell /\ refs \in [Cell -> SUBSET Cell]
  BY DEF HeapInv, TypeOK
<1>1. live \subseteq HeapCells /\ stuck = {} /\ roots \subseteq live
      /\ \A c \in live : refs[c] \subseteq live
  BY DEF HeapInv, LiveInHeap, MarksClear, NoDangling
<1>2. \A c \in live : Covered(c)
  BY <1>0, <1>1, SegNat, HeapAssumption DEF HeapCells, Covered
<1>3. RootPointers = roots
  BY <1>1, <1>2 DEF RootPointers
<1>4. MarkClosed(live)
  BY <1>1, <1>3 DEF MarkClosed
<1>5. Marked \subseteq live
  BY <1>0, <1>4 DEF Marked
<1>6. roots \subseteq Marked
  BY <1>0, <1>1, <1>3 DEF Marked, MarkClosed
<1>7. ASSUME NEW c \in Marked, NEW d \in refs[c]
      PROVE  d \in Marked
  <2>1. c \in Cell /\ d \in Cell
    BY <1>0, <1>7 DEF Marked
  <2>2. ASSUME NEW T \in SUBSET Cell, MarkClosed(T)
        PROVE  d \in T
    BY <1>1, <1>7, <2>2 DEF Marked, MarkClosed
  <2> QED BY <2>1, <2>2 DEF Marked
<1>8. Swept = live \ Marked
  BY <1>2 DEF Swept
<1> QED
  BY <1>2, <1>5, <1>6, <1>7, <1>8

(* A collection, with or without the segment it then allocates, keeps the  *)
(* invariant.                                                              *)
LEMMA CollectStep ==
  ASSUME HeapInv, NEW kind \in {"claim", "gc"}, CollectGarbage(kind)
  PROVE  HeapInv'
<1> DEFINE grow == global \cup Chunks(Swept) = {}
<1>0. /\ segs \in 1 .. MaxSegs + 1 /\ live \subseteq Cell /\ refs \in [Cell -> SUBSET Cell]
      /\ roots \subseteq Cell /\ stuck \subseteq Cell /\ traps \in Seq(Trap)
      /\ thread \subseteq Cell /\ global \subseteq SUBSET Cell
  BY DEF HeapInv, TypeOK
<1>1. Swept \subseteq live /\ Marked \subseteq Cell
  BY DEF Swept, Marked
<1>2. /\ live' = live \ Swept
      /\ refs' = [c \in Cell |-> IF c \in Swept THEN {} ELSE refs[c]]
      /\ stuck' = stuck \cup {c \in Marked : ~ Covered(c)}
      /\ roots' = roots /\ thread' = thread /\ pressure' = FALSE
  BY DEF CollectGarbage
<1>3. /\ outcome' \in {"running", "out of storage", "claim assertion failed"}
      /\ traps' \in Seq(Trap)
  <2>1. outcome \in {"running", "out of storage", "claim assertion failed"}
    BY DEF HeapInv, TypeOK
  <2>2. [kind |-> kind, free |-> SweepCount, asked |-> FALSE] \in Trap
    BY SweepCountNat DEF Trap
  <2>3. Append(traps, [kind |-> kind, free |-> SweepCount, asked |-> FALSE]) \in Seq(Trap)
    BY <1>0, <2>2
  <2> QED BY <1>0, <2>1, <2>3 DEF CollectGarbage
(* the cells the sweep frees join the free lists *)
<1> DEFINE G == global \cup Chunks(Swept)
           FreeNow == HeapCells \ (live \ Swept)
<1>4. /\ \A f \in G : f \subseteq FreeNow /\ f \cap thread = {} /\ f # {} /\ f \in SUBSET Cell
      /\ \A f, g \in G : f # g => f \cap g = {}
      /\ thread \subseteq FreeNow
      /\ live \ Swept \subseteq HeapCells
  <2>1. /\ \A f \in Chunks(Swept) : f \subseteq Swept /\ f # {}
        /\ \A f, g \in Chunks(Swept) : f # g => f \cap g = {}
    BY <1>0, <1>1, ChunksPartition
  <2>2. /\ live \subseteq HeapCells /\ thread \subseteq HeapCells \ live
        /\ \A f \in global : f \subseteq HeapCells \ live /\ f \cap thread = {} /\ f # {}
        /\ \A f, g \in global : f # g => f \cap g = {}
    BY DEF HeapInv, LiveInHeap, FreelistsSound, FreeCells
  <2>3. \A f \in global, g \in Chunks(Swept) : f \cap g = {}
    BY <1>1, <2>1, <2>2
  <2>4. \A f, g \in G : f # g => f \cap g = {}
    BY <2>1, <2>2, <2>3
  <2>5. \A f \in G : f \subseteq FreeNow /\ f \cap thread = {} /\ f # {} /\ f \in SUBSET Cell
    BY <1>0, <1>1, <2>1, <2>2
  <2> QED BY <1>1, <2>2, <2>4, <2>5
(* the objects that stay *)
<1>5. segs <= MaxSegs =>
        /\ roots \subseteq live'
        /\ \A c \in live' : refs'[c] \subseteq live'
        /\ stuck' = {}
  <2> SUFFICES ASSUME segs <= MaxSegs
               PROVE  /\ roots \subseteq live'
                      /\ \A c \in live' : refs'[c] \subseteq live'
                      /\ stuck' = {}
    OBVIOUS
  <2>1. /\ live' = Marked /\ roots \subseteq Marked
        /\ \A c \in Marked : refs[c] \subseteq Marked
        /\ \A c \in Marked : Covered(c)
    BY <1>2, MarkSound
  <2>2. \A c \in live' : refs'[c] = refs[c]
    BY <1>0, <1>1, <1>2
  <2>3. stuck = {}
    BY DEF HeapInv, MarksClear
  <2> QED BY <1>2, <2>1, <2>2, <2>3
<1>6. refs' \in [Cell -> SUBSET Cell] /\ live' \subseteq Cell /\ stuck' \subseteq Cell
  BY <1>0, <1>1, <1>2
<1>7. CASE ~ grow \/ ~ CanEnlarge
  <2>1. segs' = segs /\ (global' = G \/ global' = global)
    BY <1>7 DEF CollectGarbage
  <2>2. FreeCells' = FreeNow /\ HeapCells' = HeapCells
    BY <1>2, <2>1 DEF FreeCells, HeapCells
  <2>3. TypeOK'
    BY <1>0, <1>2, <1>3, <1>4, <1>6, <2>1 DEF TypeOK
  <2>4. FreelistsSound' /\ LiveInHeap'
    BY <1>2, <1>4, <2>1, <2>2 DEF FreelistsSound, LiveInHeap
  <2>5. MarksClear' /\ NoDangling'
    BY <1>2, <1>5, <2>1 DEF MarksClear, NoDangling
  <2> QED BY <2>3, <2>4, <2>5 DEF HeapInv
<1>8. CASE grow /\ CanEnlarge
  <2>1. segs' = segs + 1 /\ global' = Chunks(SegmentCells(segs))
    BY <1>8 DEF CollectGarbage
  <2>2. segs' \in 1 .. MaxSegs + 1
    BY <1>0, <1>8, <2>1, HeapAssumption DEF CanEnlarge
  <2>3. /\ \A f \in global' : f \subseteq SegmentCells(segs) /\ f # {}
        /\ \A f, g \in global' : f # g => f \cap g = {}
    <3>1. SegmentCells(segs) \in SUBSET Cell
      BY DEF SegmentCells
    <3> QED BY <2>1, <3>1, ChunksPartition
  <2>4. /\ SegmentCells(segs) \subseteq HeapCells' \ HeapCells
        /\ HeapCells \subseteq HeapCells'
    BY <1>0, <2>1, SegNat DEF SegmentCells, HeapCells
  <2>5. \A f \in global' : f \subseteq FreeCells' /\ f \cap thread' = {} /\ f # {}
    BY <1>1, <1>2, <1>4, <2>3, <2>4 DEF FreeCells
  <2>6. FreelistsSound' /\ LiveInHeap'
    BY <1>2, <1>4, <2>3, <2>4, <2>5 DEF FreelistsSound, LiveInHeap, FreeCells
  <2>7. global' \subseteq SUBSET Cell
    BY <2>3 DEF SegmentCells
  <2>8. TypeOK'
    BY <1>0, <1>2, <1>3, <1>6, <2>2, <2>7 DEF TypeOK
  <2>9. segs' <= MaxSegs => segs <= MaxSegs
    BY <1>0, <2>1, HeapAssumption
  <2>10. MarksClear' /\ NoDangling'
    BY <1>2, <1>5, <2>9 DEF MarksClear, NoDangling
  <2> QED BY <2>6, <2>8, <2>10 DEF HeapInv
<1> QED BY <1>7, <1>8

-----------------------------------------------------------------------------
(* Allocating                                                              *)

(* Taking cell c off a free sub-freelist f that is not (or no longer) on   *)
(* the global free list keeps the invariant.                               *)
ClaimedFrom(f) ==
  /\ segs' \in segs .. MaxSegs + 1
  /\ f \subseteq FreeCells \cup (HeapCells' \ HeapCells)
  /\ global' \subseteq SUBSET Cell
  /\ \A g \in global' : /\ g \subseteq FreeCells \cup (HeapCells' \ HeapCells)
                        /\ g \cap f = {} /\ g # {}
  /\ \A g, h \in global' : g # h => g \cap h = {}
  /\ stuck' = stuck /\ pressure' = pressure /\ outcome' = outcome
  /\ traps' \in Seq(Trap)

(* A claim keeps the invariant, from whichever freelist it takes a cell,   *)
(* old, swept or of a new segment: the cell becomes live and a root,       *)
(* refers to nothing, and is on no freelist any more.                      *)
LEMMA TakeStep ==
  ASSUME HeapInv, NEW f, NEW c \in f, TakeCell(f, c), ClaimedFrom(f)
  PROVE  HeapInv'
<1>0. /\ segs \in 1 .. MaxSegs + 1 /\ live \subseteq Cell /\ refs \in [Cell -> SUBSET Cell]
      /\ roots \subseteq Cell /\ stuck \subseteq Cell /\ pressure \in BOOLEAN
      /\ outcome \in {"running", "out of storage", "claim assertion failed"}
  BY DEF HeapInv, TypeOK
<1>1. /\ thread' = f \ {c} /\ live' = live \cup {c} /\ roots' = roots \cup {c}
      /\ refs' = [refs EXCEPT ![c] = {}]
  BY DEF TakeCell
<1>2. segs' \in 1 .. MaxSegs + 1 /\ segs' >= segs /\ (segs' <= MaxSegs => segs <= MaxSegs)
  <2>1. segs' \in segs .. MaxSegs + 1
    BY DEF ClaimedFrom
  <2>2. segs \in 1 .. MaxSegs + 1
    BY DEF HeapInv, TypeOK
  <2> QED BY <2>1, <2>2, HeapAssumption
<1>3. HeapCells \subseteq HeapCells' /\ HeapCells' \subseteq Cell
  <2>1. \A d \in Cell : Seg(d) < segs => Seg(d) < segs'
    <3>1. segs \in 1 .. MaxSegs + 1
      BY DEF HeapInv, TypeOK
    <3> QED BY <1>2, <3>1, HeapAssumption, SegNat
  <2> QED BY <2>1 DEF HeapCells
<1>4. live \subseteq HeapCells
  BY DEF HeapInv, LiveInHeap
<1>5. f \subseteq HeapCells' \ live /\ \A g \in global' : g \subseteq HeapCells' \ live
  BY <1>3, <1>4 DEF ClaimedFrom, FreeCells
<1>6. c \in Cell
  BY <1>3, <1>5
<1>7. TypeOK'
  BY <1>0, <1>1, <1>2, <1>3, <1>5, <1>6 DEF ClaimedFrom, TypeOK
<1>8. LiveInHeap'
  BY <1>1, <1>3, <1>4, <1>5 DEF LiveInHeap
<1>9. FreelistsSound'
  <2>1. FreeCells' = HeapCells' \ (live \cup {c})
    BY <1>1 DEF FreeCells
  <2>2. thread' \subseteq FreeCells'
    BY <1>1, <1>5, <2>1
  <2>3. \A g \in global' : g \subseteq FreeCells' /\ g \cap thread' = {} /\ g # {}
    BY <1>1, <1>5, <2>1 DEF ClaimedFrom
  <2> QED BY <2>2, <2>3 DEF ClaimedFrom, FreelistsSound
<1>10. MarksClear'
  BY <1>2 DEF HeapInv, MarksClear, ClaimedFrom
<1>11. NoDangling'
  <2> SUFFICES ASSUME segs' <= MaxSegs
               PROVE  roots' \subseteq live' /\ \A d \in live' : refs'[d] \subseteq live'
    BY DEF NoDangling
  <2>1. roots \subseteq live /\ \A d \in live : refs[d] \subseteq live
    BY <1>2 DEF HeapInv, NoDangling
  <2>2. \A d \in live' : refs'[d] = {} \/ (d \in live /\ refs'[d] = refs[d])
    BY <1>0, <1>1, <1>6
  <2> QED BY <1>1, <2>1, <2>2
<1> QED
  BY <1>7, <1>8, <1>9, <1>10, <1>11 DEF HeapInv

(* gc_enlarge_heap, any number of times.                                   *)
LEMMA EnlargeStep ==
  ASSUME HeapInv, NEW to \in segs .. MaxSegs + 1, EnlargeTo(to), traps' \in Seq(Trap)
  PROVE  HeapInv'
<1>0. /\ segs \in 1 .. MaxSegs + 1
      /\ segs' = to /\ global' = global \cup SegmentChunks(segs, to)
      /\ live' = live /\ refs' = refs /\ roots' = roots /\ thread' = thread
      /\ stuck' = stuck /\ pressure' = pressure /\ outcome' = outcome
  BY DEF EnlargeTo, HeapInv, TypeOK
<1>1. to \in 1 .. MaxSegs + 1 /\ (to <= MaxSegs => segs <= MaxSegs)
  BY <1>0, HeapAssumption
<1>2. /\ global' \subseteq SUBSET Cell
      /\ live \subseteq HeapCells'
      /\ thread \subseteq FreeCells'
      /\ \A f \in global' : f \subseteq FreeCells' /\ f \cap thread = {} /\ f # {}
      /\ \A f, g \in global' : f # g => f \cap g = {}
  BY <1>0, NewSegments DEF FreeCells, HeapCells
<1>3. TypeOK'
  BY <1>0, <1>1, <1>2 DEF HeapInv, TypeOK
<1>4. FreelistsSound' /\ LiveInHeap'
  BY <1>0, <1>2 DEF FreelistsSound, LiveInHeap
<1>5. MarksClear' /\ NoDangling'
  BY <1>0, <1>1 DEF HeapInv, MarksClear, NoDangling
<1> QED
  BY <1>3, <1>4, <1>5 DEF HeapInv

(* Every request leaves the segment count between its old value and the    *)
(* one segment beyond the limit.                                           *)
LEMMA RequestRange ==
  ASSUME TypeOK, NEW r \in Int, r <= MaxSegs
  PROVE  SegsAfterRequest(r) \in segs .. MaxSegs + 1
<1>1. segs \in 1 .. MaxSegs + 1
  BY DEF TypeOK
<1> QED
  BY <1>1, HeapAssumption DEF SegsAfterRequest

(* Leaving or finishing handlers keeps a well-typed stack of them.         *)
LEMMA TrapsTyped ==
  ASSUME TypeOK
  PROVE  /\ \A n \in 0 .. Len(traps) : SubSeq(traps, 1, n) \in Seq(Trap)
         /\ traps # <<>> => /\ Top \in Trap
                            /\ SubSeq(traps, 1, Len(traps) - 1) \in Seq(Trap)
                            /\ [traps EXCEPT ![Len(traps)] =
                                  [@ EXCEPT !.asked = TRUE, !.free = 0]] \in Seq(Trap)
<1>0. traps \in Seq(Trap)
  BY DEF TypeOK
<1>1. traps \in Seq(Trap) /\ Len(traps) \in Nat
  BY <1>0
<1>2. \A n \in 0 .. Len(traps) : SubSeq(traps, 1, n) \in Seq(Trap)
  BY <1>1
<1>3. ASSUME traps # <<>>
      PROVE  /\ Top \in Trap
             /\ SubSeq(traps, 1, Len(traps) - 1) \in Seq(Trap)
             /\ [traps EXCEPT ![Len(traps)] =
                  [@ EXCEPT !.asked = TRUE, !.free = 0]] \in Seq(Trap)
  <2>1. Len(traps) \in 1 .. Len(traps) /\ Len(traps) - 1 \in 0 .. Len(traps)
    BY <1>1, <1>3
  <2>2. Top \in Trap
    BY <1>1, <2>1 DEF Top
  <2>3. [traps[Len(traps)] EXCEPT !.asked = TRUE, !.free = 0] \in Trap
    BY <2>2 DEF Top, Trap
  <2> QED BY <1>1, <1>2, <2>1, <2>2, <2>3
<1> QED BY <1>2, <1>3

(* What maybe-enlarge-heap asks for is a number of segments.               *)
LEMMA WantedRange ==
  ASSUME TypeOK, traps # <<>>
  PROVE  Wanted(Top.free) \in Int /\ Wanted(Top.free) <= MaxSegs
<1>1. Top.free \in Nat
  BY TrapsTyped DEF Trap
<1>2. segs \in 1 .. MaxSegs + 1
  BY DEF TypeOK
<1>3. ActiveSegs \in Nat /\ Target \in Int
  BY <1>2, HeapAssumption DEF ActiveSegs, Target
<1>4. CeilDiv(Target - 10 * Top.free, 10 * SegSize) \in Int
  BY <1>1, <1>3, HeapAssumption DEF CeilDiv
<1> QED BY <1>3, <1>4, HeapAssumption DEF Wanted

-----------------------------------------------------------------------------
(* Init and Next                                                           *)

(* A heap of one free segment satisfies the invariant.                     *)
LEMMA InitInv == Init => HeapInv
<1> SUFFICES ASSUME Init PROVE HeapInv
  OBVIOUS
<1>1. /\ segs = 1 /\ live = {} /\ refs = [c \in Cell |-> {}] /\ roots = {}
      /\ thread = {} /\ stuck = {} /\ pressure = FALSE /\ traps = <<>>
      /\ outcome = "running" /\ global = Chunks(SegmentCells(0))
  BY DEF Init
<1>2. SegmentCells(0) \in SUBSET Cell
  BY DEF SegmentCells
<1>3. /\ \A f \in global : f \subseteq SegmentCells(0) /\ f # {}
      /\ \A f, g \in global : f # g => f \cap g = {}
  BY <1>1, <1>2, ChunksPartition
<1>4. SegmentCells(0) \subseteq HeapCells
  BY <1>1 DEF SegmentCells, HeapCells
<1>5. FreelistsSound
  BY <1>1, <1>3, <1>4 DEF FreelistsSound, FreeCells
<1>6. segs \in 1 .. MaxSegs + 1
  BY <1>1, HeapAssumption
<1>7. traps \in Seq(Trap)
  BY <1>1
<1>8. TypeOK
  BY <1>1, <1>2, <1>3, <1>6, <1>7 DEF TypeOK
<1> QED
  BY <1>1, <1>5, <1>8 DEF HeapInv, LiveInHeap, MarksClear, NoDangling

(* The free lists after a new segment has been made, should there have     *)
(* been none: what gc_claim_freelist pops from when a handler returns.     *)
LEMMA ClaimFrom ==
  ASSUME HeapInv, global = {}, CanEnlarge
  PROVE  LET G == Chunks(SegmentCells(segs))
             New == {c \in Cell : Seg(c) < segs + 1} \ HeapCells
         IN  /\ segs + 1 \in segs .. MaxSegs + 1
             /\ \A f \in G : f \subseteq New /\ f # {} /\ f \in SUBSET Cell
             /\ \A f, g \in G : f # g => f \cap g = {}
<1>1. segs \in 1 .. MaxSegs + 1
  BY DEF HeapInv, TypeOK
<1>2. segs + 1 \in segs .. MaxSegs + 1
  BY <1>1, HeapAssumption DEF CanEnlarge
<1>3. SegmentCells(segs) \in SUBSET Cell
  BY DEF SegmentCells
<1>4. SegmentCells(segs) \subseteq {c \in Cell : Seg(c) < segs + 1} \ HeapCells
  BY <1>1, SegNat DEF SegmentCells, HeapCells
<1> QED
  BY <1>2, <1>3, <1>4, ChunksPartition

(* Every claim, collection, step of the mutator and return of a handler    *)
(* keeps the invariant.                                                    *)
LEMMA NextInv == HeapInv /\ [Next]_vars => HeapInv'
<1> SUFFICES ASSUME HeapInv, [Next]_vars
             PROVE  HeapInv'
  OBVIOUS
<1>0. /\ segs \in 1 .. MaxSegs + 1 /\ global \subseteq SUBSET Cell
      /\ thread \subseteq Cell /\ refs \in [Cell -> SUBSET Cell] /\ live \subseteq Cell
      /\ roots \subseteq Cell
  BY DEF HeapInv, TypeOK
<1>a. segs \in segs .. MaxSegs + 1 /\ segs + 1 \in Int
  <2>1. segs \in 1 .. MaxSegs + 1
    BY DEF HeapInv, TypeOK
  <2> QED BY <2>1, HeapAssumption
<1>b. traps \in Seq(Trap)
  BY DEF HeapInv, TypeOK
<1>f. /\ thread \subseteq FreeCells
      /\ \A f \in global : f \subseteq FreeCells /\ f \cap thread = {} /\ f # {}
      /\ \A f, g \in global : f # g => f \cap g = {}
  BY DEF HeapInv, FreelistsSound
<1>1. CASE NewCell
  <2>1. PICK c \in thread : TakeCell(thread, c)
    BY <1>1 DEF NewCell
  <2>2. UNCHANGED <<segs, global, stuck, pressure, traps, outcome>>
    BY <1>1 DEF NewCell
  <2>3. ClaimedFrom(thread)
    BY <1>0, <1>a, <1>b, <1>f, <2>2 DEF ClaimedFrom
  <2> QED BY <2>1, <2>3, TakeStep
<1>2. CASE NewCellClaim
  <2>1. PICK f \in global : \E c \in f : global' = global \ {f} /\ TakeCell(f, c)
    BY <1>2 DEF NewCellClaim
  <2>2. UNCHANGED <<segs, stuck, pressure, traps, outcome>>
    BY <1>2 DEF NewCellClaim
  <2>3. ClaimedFrom(f)
    BY <1>0, <1>a, <1>b, <1>f, <2>1, <2>2 DEF ClaimedFrom
  <2> QED BY <2>1, <2>3, TakeStep
<1>3. CASE NewCellCollect
  BY <1>3, CollectStep DEF NewCellCollect
<1>4. CASE Lgc
  BY <1>4, CollectStep DEF Lgc
<1>5. CASE RequestOneMore
  <2>1. segs + 1 \in segs .. MaxSegs + 1
    BY <1>5, <1>a, HeapAssumption DEF RequestOneMore, CanEnlarge
  <2>2. EnlargeTo(segs + 1) /\ traps' = traps
    BY <1>5 DEF RequestOneMore
  <2> QED BY <1>b, <2>1, <2>2, EnlargeStep
<1>6. ASSUME NEW r \in 1 .. MaxSegs, RequestHeapSize(r)
      PROVE  HeapInv'
  <2>1. SegsAfterRequest(r) \in segs .. MaxSegs + 1
    BY HeapAssumption, RequestRange DEF HeapInv
  <2>2. EnlargeTo(SegsAfterRequest(r)) /\ traps' = traps
    BY <1>6 DEF RequestHeapSize
  <2> QED BY <1>b, <2>1, <2>2, EnlargeStep
<1>7. CASE MaybeEnlargeHeap
  <2>1. traps' \in Seq(Trap)
    BY <1>7, TrapsTyped DEF MaybeEnlargeHeap, HeapInv
  <2>2. CASE 10 * Top.free >= Target
    <3>1. UNCHANGED <<segs, live, refs, roots, global, thread, stuck, pressure, outcome>>
      BY <1>7, <2>2 DEF MaybeEnlargeHeap
    <3> QED BY <2>1, <3>1 DEF HeapInv, TypeOK, LiveInHeap, FreelistsSound, MarksClear,
                              NoDangling, FreeCells, HeapCells
  <2>3. CASE ~ (10 * Top.free >= Target)
    <3>1. EnlargeTo(SegsAfterRequest(Wanted(Top.free)))
      BY <1>7, <2>3 DEF MaybeEnlargeHeap
    <3>2. Wanted(Top.free) \in Int /\ Wanted(Top.free) <= MaxSegs
      BY <1>7, WantedRange DEF MaybeEnlargeHeap, HeapInv
    <3>3. SegsAfterRequest(Wanted(Top.free)) \in segs .. MaxSegs + 1
      BY <3>2, RequestRange DEF HeapInv
    <3> QED BY <2>1, <3>1, <3>3, EnlargeStep
  <2> QED BY <2>2, <2>3
<1>8. CASE ReturnToGc \/ EscapeHandler
  <2>1. UNCHANGED <<segs, live, refs, roots, global, thread, stuck, pressure, outcome>>
    BY <1>8 DEF ReturnToGc, EscapeHandler
  <2>2. traps' \in Seq(Trap)
    <3>1. CASE ReturnToGc
      BY <3>1, TrapsTyped DEF ReturnToGc, Leave, HeapInv
    <3>2. CASE EscapeHandler
      <4>1. PICK n \in 0 .. Len(traps) - 1 : traps' = SubSeq(traps, 1, n)
        BY <3>2 DEF EscapeHandler
      <4>2. Len(traps) \in Nat
        BY <1>b
      <4>3. n \in 0 .. Len(traps)
        BY <4>2
      <4> QED BY <4>1, <4>3, TrapsTyped DEF HeapInv
    <3> QED BY <1>8, <3>1, <3>2
  <2> QED BY <2>1, <2>2 DEF HeapInv, TypeOK, LiveInHeap, FreelistsSound, MarksClear,
                            NoDangling, FreeCells, HeapCells
<1>9. CASE ReturnToClaim
  <2> DEFINE grow == global = {}
             g == IF grow THEN Chunks(SegmentCells(segs)) ELSE global
  <2>1. traps' \in Seq(Trap) /\ UNCHANGED <<stuck, pressure>>
    BY <1>9, TrapsTyped DEF ReturnToClaim, Leave, HeapInv
  <2>2. CASE grow /\ ~ CanEnlarge
    <3>1. /\ outcome' = "claim assertion failed"
          /\ UNCHANGED <<segs, live, refs, roots, global, thread>>
      BY <1>9, <2>2 DEF ReturnToClaim
    <3> QED BY <2>1, <3>1 DEF HeapInv, TypeOK, LiveInHeap, FreelistsSound, MarksClear,
                              NoDangling, FreeCells, HeapCells
  <2>3. CASE ~ (grow /\ ~ CanEnlarge)
    <3>1. /\ segs' = IF grow THEN segs + 1 ELSE segs
          /\ \E f \in g : \E c \in f : global' = g \ {f} /\ TakeCell(f, c)
          /\ outcome' = outcome
      BY <1>9, <2>3 DEF ReturnToClaim
    <3>2. PICK f \in g : \E c \in f : global' = g \ {f} /\ TakeCell(f, c)
      BY <3>1
    <3>3. ClaimedFrom(f)
      <4>1. CASE ~ grow
        BY <1>0, <1>a, <1>f, <2>1, <3>1, <3>2, <4>1 DEF ClaimedFrom
      <4>2. CASE grow
        <5>1. segs' = segs + 1 /\ g = Chunks(SegmentCells(segs))
          BY <3>1, <4>2
        <5>2. HeapCells' = {c \in Cell : Seg(c) < segs + 1}
          BY <5>1 DEF HeapCells
        <5> QED BY <2>1, <2>3, <3>1, <3>2, <4>2, <5>1, <5>2, ClaimFrom DEF ClaimedFrom
      <4> QED BY <4>1, <4>2
    <3> QED BY <3>2, <3>3, TakeStep
  <2> QED BY <2>2, <2>3
<1>10. CASE MallocPressure
  BY <1>10 DEF MallocPressure, HeapInv, TypeOK, LiveInHeap, FreelistsSound, MarksClear,
               NoDangling, FreeCells, HeapCells
<1>11. CASE Store \/ Fetch \/ Forget
  <2>1. UNCHANGED <<segs, live, global, thread, stuck, pressure, traps, outcome>>
    BY <1>11 DEF Store, Fetch, Forget
  <2>2. /\ refs' \in [Cell -> SUBSET Cell] /\ roots' \subseteq Cell
        /\ NoDangling => NoDangling'
    <3>1. CASE Store
      <4>1. PICK a \in roots \cap live, b \in roots \cap live :
              \/ refs' = [refs EXCEPT ![a] = @ \cup {b}]
              \/ \E old \in refs[a] : refs' = [refs EXCEPT ![a] = (@ \ {old}) \cup {b}]
        BY <3>1 DEF Store
      <4>2. roots' = roots
        BY <3>1 DEF Store
      <4>3. refs' \in [Cell -> SUBSET Cell]
        BY <1>0, <4>1
      <4>4. \A c \in Cell : refs'[c] \subseteq refs[c] \cup {b}
        BY <1>0, <4>1
      <4> QED BY <1>0, <2>1, <4>1, <4>2, <4>3, <4>4 DEF NoDangling
    <3>2. CASE Fetch
      BY <1>0, <2>1, <3>2 DEF Fetch, NoDangling
    <3>3. CASE Forget
      BY <1>0, <2>1, <3>3 DEF Forget, NoDangling
    <3> QED BY <1>11, <3>1, <3>2, <3>3
  <2> QED BY <2>1, <2>2 DEF HeapInv, TypeOK, LiveInHeap, FreelistsSound, MarksClear,
                            FreeCells, HeapCells
<1>12. CASE UNCHANGED vars
  BY <1>12 DEF vars, HeapInv, TypeOK, LiveInHeap, FreelistsSound, MarksClear,
               NoDangling, FreeCells, HeapCells
<1> QED
  BY <1>1, <1>2, <1>3, <1>4, <1>5, <1>6, <1>7, <1>8, <1>9, <1>10, <1>11, <1>12
     DEF Next, Mutate, Resize, Handle

-----------------------------------------------------------------------------
(* Lost cells                                                              *)

(* Taking one sub-freelist f from G takes no cell but those of f.          *)
LEMMA UnionTaken ==
  ASSUME NEW G, NEW H, NEW f, \A h \in G : h = f \/ h \in H
  PROVE  UNION G \subseteq (UNION H) \cup f
<1>1. ASSUME NEW c \in UNION G PROVE c \in (UNION H) \cup f
  <2>1. PICK h \in G : c \in h
    OBVIOUS
  <2> QED BY <2>1
<1> QED BY <1>1

(* The number of segments is an integer.                                   *)
LEMMA SegsInt == TypeOK => segs \in 1 .. MaxSegs + 1 /\ segs \in Int
<1>1. TypeOK => segs \in 1 .. MaxSegs + 1
  BY DEF TypeOK
<1> QED BY <1>1, HeapAssumption

(* The sub-freelists of new segments hold all of their cells.              *)
LEMMA SegmentChunksCover ==
  ASSUME NEW a \in Int, NEW b \in Int, NEW c \in Cell, a <= Seg(c), Seg(c) < b
  PROVE  c \in UNION SegmentChunks(a, b)
<1>1. Seg(c) \in a .. b - 1
  BY SegNat
<1>2. SegmentCells(Seg(c)) \in SUBSET Cell /\ c \in SegmentCells(Seg(c))
  BY DEF SegmentCells
<1>3. c \in UNION Chunks(SegmentCells(Seg(c)))
  BY <1>2, ChunksPartition
<1> QED BY <1>1, <1>3 DEF SegmentChunks

(* Growing the heap leaves no free cell off the free lists that was on one *)
(* or that did not exist before.                                           *)
LEMMA EnlargeLosesNone ==
  ASSUME TypeOK, NEW to \in segs .. MaxSegs + 1, EnlargeTo(to)
  PROVE  Lost' \subseteq Lost
<1>1. /\ segs' = to /\ global' = global \cup SegmentChunks(segs, to)
      /\ live' = live /\ thread' = thread
  BY DEF EnlargeTo
<1>2. segs \in Int /\ to \in Int
  BY SegsInt, HeapAssumption
<1> SUFFICES ASSUME NEW c \in Lost' PROVE c \in Lost
  OBVIOUS
<1>3. c \in Cell /\ Seg(c) < to /\ c \notin live /\ c \notin thread
      /\ c \notin UNION global /\ c \notin UNION SegmentChunks(segs, to)
  BY <1>1 DEF Lost, FreeCells, HeapCells
<1>4. ~ (segs <= Seg(c))
  BY <1>2, <1>3, SegmentChunksCover
<1>5. Seg(c) < segs
  BY <1>2, <1>3, <1>4, SegNat
<1> QED BY <1>3, <1>5 DEF Lost, FreeCells, HeapCells

(* A collection puts every cell that it reclaims on a free list, and those *)
(* of the segment it adds.                                                 *)
LEMMA CollectLosesNone ==
  ASSUME TypeOK, NEW kind, CollectGarbage(kind)
  PROVE  Lost' \subseteq Lost
<1> DEFINE grow == global \cup Chunks(Swept) = {}
<1>1. live' = live \ Swept /\ thread' = thread
  BY DEF CollectGarbage
<1>2. UNION Chunks(Swept) = Swept
  <2>1. Swept \in SUBSET Cell
    BY DEF Swept, TypeOK
  <2> QED BY <2>1, ChunksPartition
<1>3. CASE grow /\ ~ CanEnlarge
  <2>1. segs' = segs /\ global' = global
    BY <1>3 DEF CollectGarbage
  <2>2. Swept = {}
    BY <1>2, <1>3
  <2> QED BY <1>1, <2>1, <2>2 DEF Lost, FreeCells, HeapCells
<1>4. CASE grow /\ CanEnlarge
  <2>1. segs' = segs + 1 /\ global' = Chunks(SegmentCells(segs))
    BY <1>4 DEF CollectGarbage
  <2>2. Swept = {} /\ global = {}
    BY <1>2, <1>4
  <2>3. UNION global' = SegmentCells(segs)
    <3>1. SegmentCells(segs) \in SUBSET Cell
      BY DEF SegmentCells
    <3> QED BY <2>1, <3>1, ChunksPartition
  <2>4. HeapCells' \subseteq HeapCells \cup SegmentCells(segs)
    <3>1. segs \in Int
      BY SegsInt
    <3> QED BY <2>1, <3>1, SegNat DEF HeapCells, SegmentCells
  <2> QED BY <1>1, <2>2, <2>3, <2>4 DEF Lost, FreeCells
<1>5. CASE ~ grow
  <2>1. segs' = segs /\ global' = global \cup Chunks(Swept)
    BY <1>5 DEF CollectGarbage
  <2>2. \A c : c \in UNION global' <=> c \in UNION global \/ c \in UNION Chunks(Swept)
    BY <2>1
  <2>3. HeapCells' = HeapCells
    BY <2>1 DEF HeapCells
  <2> QED BY <1>1, <1>2, <2>2, <2>3 DEF Lost, FreeCells
<1> QED BY <1>3, <1>4, <1>5

(* A step loses a free cell only by overwriting thread->freelist on the    *)
(* return of a handler.                                                    *)
LEMMA LostStep ==
  ASSUME TypeOK, [Next]_vars
  PROVE  \A c \in Lost' : c \in Lost \/ (ReturnToClaim /\ c \in thread)
<1>a. segs \in 1 .. MaxSegs + 1 /\ segs \in Int
  BY SegsInt
<1>1. CASE NewCell
  BY <1>1 DEF NewCell, TakeCell, Lost, FreeCells, HeapCells
<1>2. CASE NewCellClaim
  <2>1. PICK f \in global : \E c \in f : global' = global \ {f} /\ TakeCell(f, c)
    BY <1>2 DEF NewCellClaim
  <2>2. segs' = segs /\ thread = {}
    BY <1>2 DEF NewCellClaim
  <2>3. PICK c \in f : global' = global \ {f} /\ TakeCell(f, c)
    BY <2>1
  <2>4. UNION global \subseteq (UNION global') \cup f
    <3>1. \A h \in global : h = f \/ h \in global'
      BY <2>3
    <3> QED BY <3>1, UnionTaken
  <2> QED BY <2>2, <2>3, <2>4 DEF TakeCell, Lost, FreeCells, HeapCells
<1>3. CASE NewCellCollect \/ Lgc
  BY <1>3, CollectLosesNone DEF NewCellCollect, Lgc
<1>4. CASE RequestOneMore
  <2>1. segs + 1 \in segs .. MaxSegs + 1
    BY <1>4, <1>a, HeapAssumption DEF RequestOneMore, CanEnlarge
  <2> QED BY <1>4, <2>1, EnlargeLosesNone DEF RequestOneMore
<1>5. ASSUME NEW r \in 1 .. MaxSegs, RequestHeapSize(r)
      PROVE  Lost' \subseteq Lost
  BY <1>5, <1>a, HeapAssumption, RequestRange, EnlargeLosesNone DEF RequestHeapSize
<1>6. CASE MaybeEnlargeHeap
  <2>1. CASE 10 * Top.free >= Target
    BY <1>6, <2>1 DEF MaybeEnlargeHeap, Lost, FreeCells, HeapCells
  <2>2. CASE ~ (10 * Top.free >= Target)
    BY <1>6, <2>2, WantedRange, RequestRange, EnlargeLosesNone DEF MaybeEnlargeHeap
  <2> QED BY <2>1, <2>2
<1>7. CASE ReturnToGc \/ EscapeHandler
  BY <1>7 DEF ReturnToGc, EscapeHandler, Lost, FreeCells, HeapCells
<1>8. CASE ReturnToClaim
  <2> DEFINE grow == global = {}
             g == IF grow THEN Chunks(SegmentCells(segs)) ELSE global
  <2>1. CASE grow /\ ~ CanEnlarge
    BY <1>8, <2>1 DEF ReturnToClaim, Lost, FreeCells, HeapCells
  <2>2. CASE ~ (grow /\ ~ CanEnlarge)
    <3>1. /\ segs' = IF grow THEN segs + 1 ELSE segs
          /\ \E f \in g : \E c \in f : global' = g \ {f} /\ TakeCell(f, c)
      BY <1>8, <2>2 DEF ReturnToClaim
    <3>2. PICK f \in g : \E c \in f : global' = g \ {f} /\ TakeCell(f, c)
      BY <3>1
    <3>3. UNION g \subseteq (UNION global') \cup f
      <4>1. \A h \in g : h = f \/ h \in global'
        BY <3>2
      <4> QED BY <4>1, UnionTaken
    <3>4. HeapCells' \ HeapCells \subseteq UNION g /\ UNION global \subseteq UNION g
      <4>1. CASE grow
        <5>1. SegmentCells(segs) \in SUBSET Cell
          BY DEF SegmentCells
        <5>2. UNION g = SegmentCells(segs)
          BY <4>1, <5>1, ChunksPartition
        <5> QED BY <1>a, <3>1, <4>1, <5>2, SegNat DEF HeapCells, SegmentCells
      <4>2. CASE ~ grow
        BY <3>1, <4>2 DEF HeapCells
      <4> QED BY <4>1, <4>2
    <3> QED BY <1>8, <3>2, <3>3, <3>4 DEF TakeCell, Lost, FreeCells
  <2> QED BY <2>1, <2>2
<1>9. CASE MallocPressure \/ Store \/ Fetch \/ Forget \/ UNCHANGED vars
  BY <1>9 DEF MallocPressure, Store, Fetch, Forget, vars, Lost, FreeCells, HeapCells
<1> QED
  BY <1>1, <1>2, <1>3, <1>4, <1>5, <1>6, <1>7, <1>8, <1>9 DEF Next, Mutate, Resize, Handle

-----------------------------------------------------------------------------
(* The whole invariant holds throughout: types, objects inside the heap,   *)
(* sound free lists, and no stuck marks nor dangling references while the  *)
(* segment table has not been exceeded.                                    *)
THEOREM HeapInvariant == Spec => []HeapInv
  BY InitInv, NextInv, PTL DEF Spec

(* Every variable keeps its type (gc_current_heap_segments goes to one     *)
(* beyond gc_max_heap_segments, and no further).                           *)
THEOREM HeapTypes == Spec => []TypeOK
  BY HeapInvariant, PTL DEF HeapInv

(* No cell is ever on two sub-freelists, or on one while it holds an       *)
(* object: new_cell cannot hand out a cell twice.                          *)
THEOREM NoDoubleAllocation == Spec => []FreelistsSound
  BY HeapInvariant, PTL DEF HeapInv

(* Until the segment table is exceeded, gc_sweep reclaims nothing that the *)
(* program can reach.                                                      *)
THEOREM ReachableNeverReclaimed == Spec => []NoDangling
  BY HeapInvariant, PTL DEF HeapInv

(* A free cell is lost only by a claim that overwrites the thread's        *)
(* sub-freelist after the handler has left cells in it; sweeps,            *)
(* enlargements and all other claims keep every free cell on a list.       *)
THEOREM CellsLostByClaimsOnly == Spec => OnlyClaimsLoseCells
<1>1. TypeOK /\ [Next]_vars
        => \A c \in Lost' : c \in Lost \/ (ReturnToClaim /\ c \in thread)
  BY LostStep
<1> QED
  BY <1>1, HeapTypes, PTL DEF Spec, OnlyClaimsLoseCells
=============================================================================
