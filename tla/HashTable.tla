----------------------------- MODULE HashTable ------------------------------
(***************************************************************************)
(* The hash tables of the VM, vm/hash-table.c: open addressing with linear *)
(* probing, entries marked deleted in place, and enlargement by rehashing  *)
(* the entries one by one into a new table.                                *)
(*                                                                         *)
(* An entry is the pair of a key and a value, as in the code: an unused    *)
(* entry has the key Unbound, and is a deleted one if its value is Null    *)
(* (NULL, which is also an ordinary Scheme value).  Keys are equal when    *)
(* they are the same element of Key.                                       *)
(***************************************************************************)
EXTENDS Integers, FiniteSets

CONSTANTS
    Key, Value,
    Unbound,         \* UNBOUND_MARKER
    Null,            \* NULL, the empty list
    Absent, Done,    \* as in Table
    HashOf,          \* HashOf[k]: sxhash, or sxhash_eq for identity hashes
    InitialSize,     \* HASH_DEFAULT_INITIAL_SIZE
    MaxLoad,         \* HASH_MAX_LOAD_FACTOR, percent
    SmallFactor,     \* HASH_SMALL_ENLARGE_FACTOR
    LargeFactor,     \* HASH_LARGE_ENLARGE_FACTOR
    Threshold,       \* HASH_SMALL_ENLARGE_THRESHOLD
    MaxSize          \* bound: the largest table, in entries

ASSUME HashAssumption ==
    /\ Unbound \notin Key \cup Value
    /\ Unbound # Null
    /\ Absent \notin Value
    /\ HashOf \in [Key -> Nat]
    /\ InitialSize \in Nat \ {0}
    /\ MaxLoad \in 1 .. 99
    /\ SmallFactor \in Nat \ {0, 1}
    /\ LargeFactor \in Nat \ {0, 1}
    /\ Threshold \in Nat
    /\ MaxSize \in Nat

(* The bound is out of reach, as the memory that holds the keys is smaller *)
(* than the range of a size: a table with a key in every entry may grow.   *)
ASSUME RoomForKeys ==
    /\ IsFiniteSet(Key)
    /\ Cardinality(Key) * SmallFactor <= MaxSize
    /\ Cardinality(Key) * LargeFactor <= MaxSize

VARIABLES
    size,      \* mask + 1
    key, val,  \* the entries
    count,     \* the count the table keeps
    newKey, newVal, newSize,  \* the table enlarge_hash is filling
    pos,       \* the entry it copies next, or Idle
    answer,    \* the answer to the latest operation
    hung       \* an operation probes for ever

old == <<size, key, val, count>>
new == <<newSize, newKey, newVal, pos>>

vars == <<old, new, answer, hung>>

Idle == -1

Slots(n) == 0 .. n - 1

Home(k, n) == HashOf[k] % n

(* The entries a probe that starts at h visits before it comes to i.       *)
Before(h, i, n) == IF h <= i THEN h .. i - 1 ELSE (h .. n - 1) \cup (0 .. i - 1)

(* A table is given by its size, keys and values.                          *)
Unused(K, i) == K[i] = Unbound

Deleted(K, V, i) == Unused(K, i) /\ V[i] = Null

Virgin(K, V, i) == Unused(K, i) /\ ~ Deleted(K, V, i)

Virgins == {i \in Slots(size) : Virgin(key, val, i)}

(* The entries at which hash_lookup_entry stops with k: it passes deleted  *)
(* entries and other keys, and gives up at an entry never used.            *)
Hits(k) == {i \in Slots(size) :
              /\ key[i] = k
              /\ \A j \in Before(Home(k, size), i, size) :
                    key[j] # k /\ ~ Virgin(key, val, j)}

(* The lookup comes to an end.                                             *)
LookupEnds(k) == Hits(k) \cup Virgins # {}

(* The first entry that can take k, deleted ones included.                 *)
FirstUnused(K, k, n) ==
    CHOOSE i \in Slots(n) :
       /\ Unused(K, i)
       /\ \A j \in Before(Home(k, n), i, n) : ~ Unused(K, j)

UsedEntries == {i \in Slots(size) : ~ Unused(key, i)}

-----------------------------------------------------------------------------
Init ==
    /\ size = InitialSize
    /\ key = [i \in Slots(size) |-> Unbound]
    /\ val = [i \in Slots(size) |-> Unbound]
    /\ count = 0
    /\ pos = Idle
    /\ newSize = 0
    /\ newKey = << >>
    /\ newVal = << >>
    /\ answer = <<Done>>
    /\ hung = FALSE

Ready == pos = Idle /\ ~ hung

(* An operation whose lookup of k never ends.                              *)
Hang(k) ==
    /\ Ready
    /\ ~ LookupEnds(k)
    /\ hung' = TRUE
    /\ UNCHANGED <<old, new, answer>>

(* enlarge_hash allocates the new table, unless its size overflows.        *)
EnlargedSize(c) == size * (IF c > Threshold THEN SmallFactor ELSE LargeFactor)

(* Mutant: enlarges only a table that is more than full.                   *)
CheckForExpandLate(c) ==
    IF c > size /\ EnlargedSize(c) <= MaxSize
      THEN /\ newSize' = EnlargedSize(c)
           /\ newKey' = [i \in Slots(newSize') |-> Unbound]
           /\ newVal' = [i \in Slots(newSize') |-> Unbound]
           /\ pos' = 0
      ELSE UNCHANGED new

CheckForExpand(c) ==
    IF 100 * c > size * MaxLoad /\ EnlargedSize(c) <= MaxSize
      THEN /\ newSize' = EnlargedSize(c)
           /\ newKey' = [i \in Slots(newSize') |-> Unbound]
           /\ newVal' = [i \in Slots(newSize') |-> Unbound]
           /\ pos' = 0
      ELSE UNCHANGED new

(* (hash-set! h k v)                                                       *)
Set(k, v) ==
    /\ Ready
    /\ LookupEnds(k)
    /\ IF Hits(k) # {}
         THEN /\ val' = [i \in Slots(size) |-> IF i \in Hits(k) THEN v ELSE val[i]]
              /\ UNCHANGED <<key, count>>
         ELSE LET i == FirstUnused(key, k, size)
              IN  /\ key' = [key EXCEPT ![i] = k]
                  /\ val' = [val EXCEPT ![i] = v]
                  /\ count' = count + 1
    /\ CheckForExpand(count')
    /\ answer' = <<Done>>
    /\ UNCHANGED <<size, hung>>

(* One entry of the old table is copied, if it is in use.                  *)
CopyEntry ==
    /\ pos \in Slots(size)
    /\ pos' = pos + 1
    /\ IF Unused(key, pos)
         THEN UNCHANGED <<newKey, newVal>>
         ELSE LET i == FirstUnused(newKey, key[pos], newSize)
              IN  /\ newKey' = [newKey EXCEPT ![i] = key[pos]]
                  /\ newVal' = [newVal EXCEPT ![i] = val[pos]]
    /\ UNCHANGED <<old, newSize, answer, hung>>

(* Mutant: leaves out the last entry.                                      *)
ReplaceEarly ==
    /\ pos = size - 1
    /\ size' = newSize
    /\ key' = newKey
    /\ val' = newVal
    /\ pos' = Idle
    /\ newSize' = 0
    /\ newKey' = << >>
    /\ newVal' = << >>
    /\ UNCHANGED <<count, answer, hung>>

(* The new table takes the place of the old one.                           *)
Replace ==
    /\ pos = size
    /\ size' = newSize
    /\ key' = newKey
    /\ val' = newVal
    /\ pos' = Idle
    /\ newSize' = 0
    /\ newKey' = << >>
    /\ newVal' = << >>
    /\ UNCHANGED <<count, answer, hung>>

(* Mutant: makes the entry look as if it had never been used.              *)
RemoveByInit(k) ==
    /\ Ready
    /\ LookupEnds(k)
    /\ key' = [i \in Slots(size) |-> IF i \in Hits(k) THEN Unbound ELSE key[i]]
    /\ val' = [i \in Slots(size) |-> IF i \in Hits(k) THEN Unbound ELSE val[i]]
    /\ count' = IF Hits(k) # {} THEN count - 1 ELSE count
    /\ answer' = <<Done>>
    /\ UNCHANGED <<size, new, hung>>

(* Mutant: counts a removal even when there was nothing to remove.         *)
RemoveUncounted(k) ==
    /\ Ready
    /\ LookupEnds(k)
    /\ key' = [i \in Slots(size) |-> IF i \in Hits(k) THEN Unbound ELSE key[i]]
    /\ val' = [i \in Slots(size) |-> IF i \in Hits(k) THEN Null ELSE val[i]]
    /\ count' = count - 1
    /\ answer' = <<Done>>
    /\ UNCHANGED <<size, new, hung>>

(* (hash-remove! h k)                                                      *)
Remove(k) ==
    /\ Ready
    /\ LookupEnds(k)
    /\ key' = [i \in Slots(size) |-> IF i \in Hits(k) THEN Unbound ELSE key[i]]
    /\ val' = [i \in Slots(size) |-> IF i \in Hits(k) THEN Null ELSE val[i]]
    /\ count' = IF Hits(k) # {} THEN count - 1 ELSE count
    /\ answer' = <<Done>>
    /\ UNCHANGED <<size, new, hung>>

(* (hash-clear! h)                                                         *)
Clear ==
    /\ Ready
    /\ key' = [i \in Slots(size) |-> Unbound]
    /\ val' = [i \in Slots(size) |-> Unbound]
    /\ count' = 0
    /\ answer' = <<Done>>
    /\ UNCHANGED <<size, new, hung>>

(* (hash-ref h k), (hash-has? h k), (hash-ref* h k)                        *)
Ref(k) ==
    /\ Ready
    /\ LookupEnds(k)
    /\ answer' = <<"value", IF Hits(k) = {} THEN Absent
                             ELSE val[CHOOSE i \in Hits(k) : TRUE]>>
    /\ UNCHANGED <<old, new, hung>>

(* (length h)                                                              *)
Length ==
    /\ Ready
    /\ answer' = <<"length", count>>
    /\ UNCHANGED <<old, new, hung>>

(* (hash->a-list h), through hash_iter_next.                               *)
Alist ==
    /\ Ready
    /\ answer' = <<"alist", {<<key[i], val[i]>> : i \in UsedEntries}>>
    /\ UNCHANGED <<old, new, hung>>

Next ==
    \/ \E k \in Key, v \in Value : Set(k, v)
    \/ \E k \in Key : Remove(k) \/ Ref(k) \/ Hang(k)
    \/ Clear \/ Length \/ Alist
    \/ CopyEntry \/ Replace

Spec == Init /\ [][Next]_vars

-----------------------------------------------------------------------------
TypeOK ==
    /\ size \in Nat \ {0}
    /\ key \in [Slots(size) -> Key \cup {Unbound}]
    /\ val \in [Slots(size) -> Value \cup {Unbound, Null}]
    /\ count \in Nat
    /\ pos \in Idle .. size
    /\ newSize \in Nat
    /\ newKey \in [Slots(newSize) -> Key \cup {Unbound}]
    /\ newVal \in [Slots(newSize) -> Value \cup {Unbound, Null}]
    /\ hung \in BOOLEAN

(* A probe for a key in the table reaches it: no entry on its way is one   *)
(* that has never been used, and the key is in one entry only.  Deletions, *)
(* the reuse of deleted entries and rehashing all keep this.               *)
ProbesReach ==
    \A i \in UsedEntries : i \in Hits(key[i]) /\ Hits(key[i]) = {i}

(* Lookups can only fail to end in a table from which something has been   *)
(* removed since it was cleared or enlarged: for the live entries alone    *)
(* the load factor leaves an entry that was never used.                    *)
HangNeedsDeletion ==
    hung => \E i \in Slots(size) : Deleted(key, val, i)

(* The table that the entries amount to.                                   *)
Binding(k) ==
    IF \E i \in Slots(size) : key[i] = k
      THEN val[CHOOSE i \in Slots(size) : key[i] = k]
      ELSE Absent

(* The table behaves as the finite map its users see; an operation that    *)
(* never ends gives no answer.                                             *)
AsTable == INSTANCE Table WITH map <- [k \in Key |-> Binding(k)]

ImplementsTable == AsTable!Spec

(* Every operation comes to an end.                                        *)
NeverHangs == ~ hung

(* A table with no more entries than Threshold, which is a small one, is   *)
(* enlarged by SmallFactor.                                                *)
SmallTablesGrowSlowly ==
    [][pos = Idle /\ pos' = 0 /\ count' <= Threshold
         => newSize' = SmallFactor * size]_vars
=============================================================================
