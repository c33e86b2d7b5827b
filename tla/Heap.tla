-------------------------------- MODULE Heap --------------------------------
(***************************************************************************)
(* The garbage collected heap of the SCAN virtual machine: vm/memory.c,    *)
(* new_cell (vm/scan-private.h) and the after-GC trap handler that resizes *)
(* the heap (scheme-core/memory.scm).                                      *)
(*                                                                         *)
(* A cell is a number; its segment is its quotient by SegSize.  A cell of  *)
(* an allocated segment is live (it has a type) or free (TC_FREE_CELL).    *)
(* The linked lists of free cells are sets: which cell of a sub-freelist   *)
(* is handed out, and which sub-freelist is claimed, is left open.         *)
(*                                                                         *)
(* The segment table has MaxSegs entries, and the collector looks at       *)
(* segments 0 .. MaxSegs-1 only; gc_enlarge_heap may create one more.      *)
(***************************************************************************)
EXTENDS Integers, FiniteSets, Sequences

CONSTANTS
    SegSize,          \* gc_heap_segment_size, in cells
    MaxSegs,          \* gc_max_heap_segments
    SubFreelistSize,  \* SUB_FREELIST_SIZE
    MaxFields,        \* bound: references one object holds
    MaxRoots,         \* bound: references the C stack and registers hold
    MaxTraps          \* bound: nesting of after-GC traps

ASSUME HeapAssumption ==
    /\ SegSize \in Nat \ {0}
    /\ MaxSegs \in Nat \ {0}
    /\ SubFreelistSize \in Nat \ {0}
    /\ MaxFields \in Nat
    /\ MaxRoots \in Nat
    /\ MaxTraps \in Nat

Cell == 0 .. (MaxSegs + 1) * SegSize - 1

Seg(c) == c \div SegSize

Trap == [kind : {"claim", "gc"}, free : Nat, asked : BOOLEAN]

VARIABLES
    segs,      \* gc_current_heap_segments
    live,      \* the cells that hold an object
    refs,      \* refs[c]: the references gc_mark follows from c
    roots,     \* what the C stack, the registers and gc_roots point to
    global,    \* gc_global_freelist: a set of sub-freelists
    thread,    \* the thread's sub-freelist
    stuck,     \* cells whose mark bit no sweep will clear
    pressure,  \* gc_malloc_bytes > gc_malloc_bytes_threshold
    traps,     \* the TRAP_AFTER_GC handlers under way, innermost last
    outcome    \* "running", or how the VM terminated

vars == <<segs, live, refs, roots, global, thread, stuck, pressure, traps,
          outcome>>

-----------------------------------------------------------------------------
(* Segments and sub-freelists                                              *)

SegmentCells(k) == {c \in Cell : Seg(c) = k}

HeapCells == {c \in Cell : Seg(c) < segs}

FreeCells == HeapCells \ live

Rank(c, F) == Cardinality({d \in F : d < c})

(* Cells joined into sub-freelists in address order, as both               *)
(* gc_init_heap_segment and gc_sweep do.                                   *)
Chunk(c, F) == {d \in F : Rank(d, F) \div SubFreelistSize
                        = Rank(c, F) \div SubFreelistSize}

(* Mutant: drops the last sub-freelist if it is not complete.              *)
ChunksFilled(F) == {f \in {Chunk(c, F) : c \in F} : Cardinality(f) = SubFreelistSize}

Chunks(F) == {Chunk(c, F) : c \in F}

(* Mutant: allows yet another segment.                                     *)
CanEnlargeLate == ~ (segs > MaxSegs + 1)

(* gc_enlarge_heap refuses only once MaxSegs is exceeded.                  *)
CanEnlarge == ~ (segs > MaxSegs)

SegmentChunks(from, to) == UNION {Chunks(SegmentCells(k)) : k \in from .. to - 1}

-----------------------------------------------------------------------------
(* Mark and sweep                                                          *)

(* gc_possible_heap_pointer_p knows the first MaxSegs segments.            *)
Covered(c) == Seg(c) < MaxSegs

RootPointers == {c \in roots \cap live : Covered(c)}

(* Mutant: does not follow references.                                     *)
MarkClosedShallow(T) == RootPointers \subseteq T

(* What gc_mark visits is closed under references, except that it does not *)
(* look into an object whose mark is already set.                          *)
MarkClosed(T) == /\ RootPointers \subseteq T
                 /\ \A c \in T \ stuck : refs[c] \subseteq T

Marked == {c \in Cell : \A T \in SUBSET Cell : MarkClosed(T) => c \in T}

(* Mutant: relinks the cells that were free already.                       *)
SweptFreeToo == {c \in HeapCells : Covered(c)} \ Marked

Swept == {c \in live : Covered(c)} \ Marked

(* The free cells gc_sweep counts, whether or not it relinks them.         *)
SweepCount == Cardinality({c \in HeapCells : Covered(c)} \ Marked)

-----------------------------------------------------------------------------
Init ==
    /\ segs = 1
    /\ live = {}
    /\ refs = [c \in Cell |-> {}]
    /\ roots = {}
    /\ global = Chunks(SegmentCells(0))
    /\ thread = {}
    /\ stuck = {}
    /\ pressure = FALSE
    /\ traps = <<>>
    /\ outcome = "running"

(* gc_collect_garbage up to its vmtrap: sweep, enlarge if that freed       *)
(* nothing, give up if that failed, else enter the handler.                *)
CollectGarbage(kind) ==
    LET swept == Chunks(Swept)
        grow  == global \cup swept = {}
    IN  /\ Len(traps) < MaxTraps
        /\ live' = live \ Swept
        /\ refs' = [c \in Cell |-> IF c \in Swept THEN {} ELSE refs[c]]
        /\ stuck' = stuck \cup {c \in Marked : ~ Covered(c)}
        /\ pressure' = FALSE
        /\ UNCHANGED <<roots, thread>>
        /\ IF grow /\ ~ CanEnlarge
             THEN /\ outcome' = "out of storage"
                  /\ UNCHANGED <<segs, global, traps>>
             ELSE /\ segs' = IF grow THEN segs + 1 ELSE segs
                  /\ global' = IF grow THEN Chunks(SegmentCells(segs))
                                       ELSE global \cup swept
                  /\ traps' = Append(traps, [kind  |-> kind,
                                             free  |-> SweepCount,
                                             asked |-> FALSE])
                  /\ UNCHANGED outcome

RootSlot == Cardinality(roots) < MaxRoots

(* new_cell takes c off the sub-freelist f that the thread now owns; the   *)
(* new object is reachable from the C stack of the constructor.            *)
TakeCell(f, c) ==
    /\ RootSlot
    /\ thread' = f \ {c}
    /\ live' = live \cup {c}
    /\ roots' = roots \cup {c}
    /\ refs' = [refs EXCEPT ![c] = {}]

-----------------------------------------------------------------------------
(* The mutator                                                             *)

(* new_cell, when the thread has free cells.                               *)
NewCell ==
    \E c \in thread :
        /\ TakeCell(thread, c)
        /\ UNCHANGED <<segs, global, stuck, pressure, traps, outcome>>

(* new_cell claiming a sub-freelist, when no collection is called for.     *)
NewCellClaim ==
    /\ thread = {}
    /\ ~ pressure
    /\ \E f \in global : \E c \in f :
        /\ global' = global \ {f}
        /\ TakeCell(f, c)
    /\ UNCHANGED <<segs, stuck, pressure, traps, outcome>>

(* new_cell claiming a sub-freelist, when a collection comes first.        *)
NewCellCollect ==
    /\ thread = {}
    /\ global = {} \/ pressure
    /\ CollectGarbage("claim")

(* (gc)                                                                    *)
Lgc == traps = <<>> /\ CollectGarbage("gc")

(* gc_malloc of enough memory to cross the collection threshold.           *)
MallocPressure ==
    /\ ~ pressure
    /\ pressure' = TRUE
    /\ UNCHANGED <<segs, live, refs, roots, global, thread, stuck, traps, outcome>>

(* Store a reference to b in a field of a.                                 *)
Store ==
    \E a, b \in roots \cap live :
        /\ \/ Cardinality(refs[a]) < MaxFields /\ refs' = [refs EXCEPT ![a] = @ \cup {b}]
           \/ \E old \in refs[a] : refs' = [refs EXCEPT ![a] = (@ \ {old}) \cup {b}]
        /\ UNCHANGED <<segs, live, roots, global, thread, stuck, pressure, traps, outcome>>

(* Fetch a reference out of a.                                             *)
Fetch ==
    \E a \in roots \cap live : \E b \in refs[a] :
        /\ RootSlot
        /\ roots' = roots \cup {b}
        /\ UNCHANGED <<segs, live, refs, global, thread, stuck, pressure, traps, outcome>>

(* Forget a root.                                                          *)
Forget ==
    \E a \in roots :
        /\ roots' = roots \ {a}
        /\ UNCHANGED <<segs, live, refs, global, thread, stuck, pressure, traps, outcome>>

-----------------------------------------------------------------------------
(* Resizing                                                                *)

(* gc_enlarge_heap until `to' segments exist.                              *)
EnlargeTo(to) ==
    /\ segs' = to
    /\ global' = global \cup SegmentChunks(segs, to)
    /\ UNCHANGED <<live, refs, roots, thread, stuck, pressure, outcome>>

(* The segments that exist after lirequest_heap_size(r).  The difference   *)
(* of two size_t values wraps around when r is the smaller, and the loop   *)
(* then runs until gc_enlarge_heap refuses.                                *)
SegsAfterRequest(r) == IF r < segs THEN MaxSegs + 1 ELSE r

(* (%request-heap-size '())                                                *)
RequestOneMore ==
    /\ traps = <<>>
    /\ CanEnlarge
    /\ EnlargeTo(segs + 1)
    /\ UNCHANGED traps

(* (%request-heap-size r)                                                  *)
RequestHeapSize(r) ==
    /\ traps = <<>>
    /\ EnlargeTo(SegsAfterRequest(r))
    /\ UNCHANGED traps

-----------------------------------------------------------------------------
(* The after-GC trap handler, which is Scheme code: it allocates with the  *)
(* actions above, and may collect again                                    *)

Top == traps[Len(traps)]

(* gc_count_active_heap_segments counts the entries of the table.          *)
ActiveSegs == IF segs < MaxSegs THEN segs ELSE MaxSegs

CeilDiv(a, b) == (a + b - 1) \div b

(* The request of maybe-enlarge-heap; *gc-target-free-cell-factor* is 0.9. *)
Target == 9 * ActiveSegs * SegSize

Wanted(free) ==
    LET n == ActiveSegs + CeilDiv(Target - 10 * free, 10 * SegSize)
    IN  IF n < MaxSegs THEN n ELSE MaxSegs

MaybeEnlargeHeap ==
    /\ traps # <<>>
    /\ ~ Top.asked
    /\ traps' = [traps EXCEPT ![Len(traps)] = [@ EXCEPT !.asked = TRUE, !.free = 0]]
    /\ IF 10 * Top.free >= Target
         THEN UNCHANGED <<segs, live, refs, roots, global, thread, stuck, pressure, outcome>>
         ELSE EnlargeTo(SegsAfterRequest(Wanted(Top.free)))

Leave == traps' = SubSeq(traps, 1, Len(traps) - 1)

(* The handler of a (gc) returns.                                          *)
ReturnToGc ==
    /\ traps # <<>>
    /\ Top.asked
    /\ Top.kind = "gc"
    /\ Leave
    /\ UNCHANGED <<segs, live, refs, roots, global, thread, stuck, pressure, outcome>>

(* The handler returns into gc_claim_freelist, which pops a sub-freelist   *)
(* for new_cell to store in thread->freelist, whatever that now holds.     *)
ReturnToClaim ==
    /\ traps # <<>>
    /\ Top.asked
    /\ Top.kind = "claim"
    /\ Leave
    /\ LET grow == global = {}
           g    == IF grow THEN Chunks(SegmentCells(segs)) ELSE global
       IN IF grow /\ ~ CanEnlarge
            THEN /\ outcome' = "claim assertion failed"
                 /\ UNCHANGED <<segs, live, refs, roots, global, thread>>
            ELSE /\ segs' = IF grow THEN segs + 1 ELSE segs
                 /\ \E f \in g : \E c \in f :
                       /\ global' = g \ {f}
                       /\ TakeCell(f, c)
                 /\ UNCHANGED outcome
    /\ UNCHANGED <<stuck, pressure>>

(* A user break or an error in a handler throws past it.                   *)
EscapeHandler ==
    /\ traps # <<>>
    /\ \E n \in 0 .. Len(traps) - 1 : traps' = SubSeq(traps, 1, n)
    /\ UNCHANGED <<segs, live, refs, roots, global, thread, stuck, pressure, outcome>>

-----------------------------------------------------------------------------
Mutate == NewCell \/ NewCellClaim \/ NewCellCollect \/ Lgc \/ MallocPressure
          \/ Store \/ Fetch \/ Forget

Resize == RequestOneMore \/ \E r \in 1 .. MaxSegs : RequestHeapSize(r)

Handle == MaybeEnlargeHeap \/ ReturnToGc \/ ReturnToClaim \/ EscapeHandler

Next == outcome = "running" /\ (Mutate \/ Resize \/ Handle)

Spec == Init /\ [][Next]_vars

-----------------------------------------------------------------------------
TypeOK ==
    /\ segs \in 1 .. MaxSegs + 1
    /\ live \subseteq Cell
    /\ refs \in [Cell -> SUBSET Cell]
    /\ roots \subseteq Cell
    /\ global \subseteq SUBSET Cell
    /\ thread \subseteq Cell
    /\ stuck \subseteq Cell
    /\ pressure \in BOOLEAN
    /\ traps \in Seq(Trap)
    /\ outcome \in {"running", "out of storage", "claim assertion failed"}

(* No cell can be handed out twice: the cells on the freelists are free    *)
(* cells of the heap, and no cell is on two sub-freelists.  (gc_sweep and  *)
(* gc_claim_freelist, through any nesting of collections.)                 *)
FreelistsSound ==
    /\ thread \subseteq FreeCells
    /\ \A f \in global : f \subseteq FreeCells /\ f \cap thread = {} /\ f # {}
    /\ \A f, g \in global : f # g => f \cap g = {}

(* As long as the segment table has not been exceeded, no object that the  *)
(* program can still reach is ever reclaimed: roots point to objects, and  *)
(* so do the fields of objects.  (gc_mark and gc_sweep.)                   *)
NoDangling ==
    segs <= MaxSegs =>
        /\ roots \subseteq live
        /\ \A c \in live : refs[c] \subseteq live

(* The VM never has more segments than gc_max_heap_segments.               *)
SegmentLimit == segs <= MaxSegs

(* Nothing the program can reach is reclaimed, however many segments there *)
(* are.                                                                    *)
ReachableKept ==
    /\ roots \subseteq live
    /\ \A c \in live : refs[c] \subseteq live

(* Every cell that holds no object is on a free list.                      *)
Lost == FreeCells \ (thread \cup UNION global)

AllFreeCellsListed == Lost = {}

(* Free cells get lost in one way only: a claim that returns from the      *)
(* after-GC handler overwrites thread->freelist with the cells that the    *)
(* handler left in it.  No sweep, enlargement or claim loses any other,    *)
(* through any nesting of collections and throws out of handlers.          *)
(* (gc_sweep, gc_enlarge_heap, new_cell in scan-private.h:200-201.)        *)
OnlyClaimsLoseCells ==
    [][\A c \in Lost' : c \in Lost \/ (ReturnToClaim /\ c \in thread)]_vars

(* gc_claim_freelist never finds the global free list empty after          *)
(* collecting and enlarging.                                               *)
ClaimSucceeds == outcome # "claim assertion failed"

(* A request for r segments makes r segments, or leaves as many as there   *)
(* are when there are more.                                                *)
RequestHonoured ==
    [][\A r \in 1 .. MaxSegs :
          RequestHeapSize(r) => segs' = IF r < segs THEN segs ELSE r]_vars

(* Segments are added behind the program's back only when none has a free  *)
(* cell left.                                                              *)
GrowsOnlyWhenFull ==
    [][MaybeEnlargeHeap /\ segs' > segs => FreeCells = {}]_vars

(* The parts that make the two inductive: objects lie in allocated         *)
(* segments, and a mark bit can only get stuck beyond the segment table.   *)
LiveInHeap == live \subseteq HeapCells

MarksClear == segs <= MaxSegs => stuck = {}

HeapInv == TypeOK /\ LiveInHeap /\ FreelistsSound /\ MarksClear /\ NoDangling
=============================================================================
