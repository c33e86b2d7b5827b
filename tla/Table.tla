------------------------------- MODULE Table --------------------------------
(***************************************************************************)
(* What a hash table promises its users: a finite map, and an answer to    *)
(* every question about it (the operations hash-set!, hash-remove!,        *)
(* hash-clear!, hash-ref, hash-has?, length and hash->a-list that          *)
(* vm/hash-table.c exports).                                               *)
(***************************************************************************)
EXTENDS FiniteSets

CONSTANTS
    Key, Value,
    Absent,       \* the binding of a key that has none; not a value
    Done          \* the answer of an operation that only has an effect

VARIABLES
    map,          \* the bindings
    answer        \* the answer to the latest operation

tableVars == <<map, answer>>

Bound == {k \in Key : map[k] # Absent}

Init ==
    /\ map = [k \in Key |-> Absent]
    /\ answer = <<Done>>

Set(k, v) ==
    /\ map' = [map EXCEPT ![k] = v]
    /\ answer' = <<Done>>

Remove(k) ==
    /\ map' = [map EXCEPT ![k] = Absent]
    /\ answer' = <<Done>>

Clear ==
    /\ map' = [k \in Key |-> Absent]
    /\ answer' = <<Done>>

Ref(k) ==
    /\ answer' = <<"value", map[k]>>
    /\ UNCHANGED map

Length ==
    /\ answer' = <<"length", Cardinality(Bound)>>
    /\ UNCHANGED map

Alist ==
    /\ answer' = <<"alist", {<<k, map[k]>> : k \in Bound}>>
    /\ UNCHANGED map

Next ==
    \/ \E k \in Key, v \in Value : Set(k, v)
    \/ \E k \in Key : Remove(k) \/ Ref(k)
    \/ Clear \/ Length \/ Alist

Spec == Init /\ [][Next]_tableVars
=============================================================================
