-------------------------- MODULE HashTableProofs ---------------------------
(***************************************************************************)
(* The safety of module HashTable, and that it implements module Table,    *)
(* for any keys, values, hashes, sizes and load factor.                    *)
(***************************************************************************)
EXTENDS HashTable, WellFoundedInduction, FiniteSetTheorems, FunctionTheorems, TLAPS

(* A set of natural numbers has a least element: the least counterexample  *)
(* takes the place of an induction.                                        *)
LEMMA LeastExists ==
  ASSUME NEW A, A \subseteq Nat, A # {}
  PROVE  \E m \in A : \A k \in A : m <= k
<1>1. PICK m \in A : \A k \in A : ~ (<<k, m>> \in OpToRel(<, Nat))
  BY NatLessThanWellFounded, WFMin
<1>2. \A k \in A : ~ (k < m)
  BY <1>1 DEF OpToRel
<1> QED
  BY <1>2

Used(K, n) == {i \in Slots(n) : ~ Unused(K, i)}

(* The way of a probe to a key in the table holds neither the key nor an   *)
(* entry never used, which would end it.                                   *)
WaysClear(K, V, n) ==
    \A i \in Used(K, n) : \A j \in Before(Home(K[i], n), i, n) :
        K[j] # K[i] /\ ~ Virgin(K, V, j)

Put(F, p, x) == [F EXCEPT ![p] = x]

KeysOnce(K, n) == \A i, j \in Used(K, n) : K[i] = K[j] => i = j

ValuesKept(K, V, n) == \A i \in Used(K, n) : V[i] \in Value

Counted == count = Cardinality(UsedEntries)

(* The new table has what the old one has up to pos, and nothing else; its *)
(* other entries have never been used.                                     *)
Copied ==
    pos # Idle =>
        /\ ~ hung
        /\ size <= newSize
        /\ \A i \in Used(key, size) : i < pos =>
              \E j \in Slots(newSize) : newKey[j] = key[i] /\ newVal[j] = val[i]
        /\ \A j \in Used(newKey, newSize) :
              \E i \in Slots(size) : i < pos /\ newKey[j] = key[i] /\ newVal[j] = val[i]
        /\ \A j \in Slots(newSize) : Unused(newKey, j) => newVal[j] = Unbound
        /\ WaysClear(newKey, newVal, newSize)
        /\ KeysOnce(newKey, newSize)
        /\ Cardinality(Used(newKey, newSize)) <= pos

(* The live entries leave one unused, in the table that is to be used.     *)
Roomy == count < (IF pos = Idle THEN size ELSE newSize)

(* A probe that does not end has met no entry that was never used.         *)
HungFull == hung => pos = Idle /\ Virgins = {}

HashInv ==
    /\ TypeOK
    /\ WaysClear(key, val, size)
    /\ KeysOnce(key, size)
    /\ ValuesKept(key, val, size)
    /\ Counted
    /\ Copied
    /\ Roomy
    /\ HungFull

-----------------------------------------------------------------------------
(* Tables                                                                  *)

(* href_index answers an index of the table, whatever the hash value and   *)
(* the size: it takes the remainder by the size.                           *)
LEMMA HomeInTable ==
  ASSUME NEW n \in Nat \ {0}, NEW k \in Key
  PROVE  Home(k, n) \in Slots(n)
<1>1. HashOf[k] \in Nat
  BY HashAssumption
<1> QED
  BY <1>1 DEF Home, Slots

(* A probe for an entry to take ends at the first one that is not in use.  *)
LEMMA FirstUnusedFound ==
  ASSUME NEW n \in Nat \ {0}, NEW K, NEW k \in Key,
         \E i \in Slots(n) : Unused(K, i)
  PROVE  /\ FirstUnused(K, k, n) \in Slots(n)
         /\ Unused(K, FirstUnused(K, k, n))
         /\ \A j \in Before(Home(k, n), FirstUnused(K, k, n), n) : ~ Unused(K, j)
<1> DEFINE h == Home(k, n)
           Free == {i \in Slots(n) : Unused(K, i)}
           After == {i \in Free : h <= i}
<1>1. h \in Slots(n)
  BY HomeInTable
<1>2. \E i \in Slots(n) : Unused(K, i) /\ \A j \in Before(h, i, n) : ~ Unused(K, j)
  <2>1. CASE After # {}
    <3>1. PICK i \in After : \A j \in After : i <= j
      <4>1. After \subseteq Nat
        BY DEF Slots
      <4> QED BY <2>1, <4>1, LeastExists
    <3>2. \A j \in Before(h, i, n) : ~ Unused(K, j)
      BY <1>1, <3>1 DEF Before, Slots
    <3> QED BY <3>1, <3>2
  <2>2. CASE After = {}
    <3>1. PICK i \in Free : \A j \in Free : i <= j
      <4>1. Free \subseteq Nat /\ Free # {}
        BY DEF Slots
      <4> QED BY <4>1, LeastExists
    <3>2. \A j \in Before(h, i, n) : ~ Unused(K, j)
      BY <1>1, <2>2, <3>1 DEF Before, Slots
    <3> QED BY <3>1, <3>2
  <2> QED BY <2>1, <2>2
<1> HIDE DEF h
<1> QED
  BY <1>2 DEF FirstUnused, h

(* A key that is not in the table is put where the probe finds room.       *)
LEMMA Inserted ==
  ASSUME NEW n \in Nat \ {0},
         NEW K \in [Slots(n) -> Key \cup {Unbound}],
         NEW V \in [Slots(n) -> Value \cup {Unbound, Null}],
         WaysClear(K, V, n), KeysOnce(K, n),
         NEW k \in Key, NEW v \in Value,
         \A i \in Used(K, n) : K[i] # k,
         NEW p \in Slots(n), Unused(K, p),
         \A j \in Before(Home(k, n), p, n) : ~ Unused(K, j),
         NEW K2, K2 = Put(K, p, k),
         NEW V2, V2 = Put(V, p, v)
  PROVE  /\ K2 \in [Slots(n) -> Key \cup {Unbound}]
         /\ V2 \in [Slots(n) -> Value \cup {Unbound, Null}]
         /\ Used(K2, n) = Used(K, n) \cup {p}
         /\ WaysClear(K2, V2, n)
         /\ KeysOnce(K2, n)
         /\ K2[p] = k /\ V2[p] = v
         /\ \A i \in Used(K, n) : i # p /\ K2[i] = K[i] /\ V2[i] = V[i]
<1>1. Unbound \notin Key
  BY HashAssumption
<1>2. /\ K2 \in [Slots(n) -> Key \cup {Unbound}]
      /\ V2 \in [Slots(n) -> Value \cup {Unbound, Null}]
      /\ K2[p] = k /\ V2[p] = v
      /\ \A i \in Slots(n) : i # p => K2[i] = K[i] /\ V2[i] = V[i]
  BY DEF Put
<1>3. Used(K2, n) = Used(K, n) \cup {p}
  BY <1>1, <1>2 DEF Used, Unused
<1>4. p \notin Used(K, n)
  BY DEF Used
<1>5. KeysOnce(K2, n)
  BY <1>1, <1>2, <1>3, <1>4 DEF KeysOnce, Used
<1>6. WaysClear(K2, V2, n)
  <2> SUFFICES ASSUME NEW i \in Used(K2, n), NEW j \in Before(Home(K2[i], n), i, n)
               PROVE  K2[j] # K2[i] /\ ~ Virgin(K2, V2, j)
    BY DEF WaysClear
  <2>1. K2[i] \in Key /\ i \in Slots(n)
    BY <1>2 DEF Used, Unused
  <2>2. Home(K2[i], n) \in Slots(n)
    BY <2>1, HomeInTable
  <2>3. j \in Slots(n) /\ j # i
    BY <2>1, <2>2 DEF Before, Slots
  <2>4. CASE i = p
    BY <1>1, <1>2, <2>3, <2>4 DEF Used, Unused, Virgin
  <2>5. CASE i # p
    <3>1. K[i] = K2[i] /\ i \in Used(K, n)
      BY <1>2, <1>3, <2>1, <2>5
    <3>2. K[j] # K[i] /\ ~ Virgin(K, V, j)
      BY <3>1 DEF WaysClear
    <3> QED
      BY <1>1, <1>2, <2>3, <3>1, <3>2 DEF Virgin, Deleted, Unused
  <2> QED BY <2>4, <2>5
<1> QED
  BY <1>2, <1>3, <1>4, <1>5, <1>6 DEF Used

(* There are as many entries in use as keys.                               *)
LEMMA EntriesAreKeys ==
  ASSUME NEW n \in Nat, NEW K, KeysOnce(K, n)
  PROVE  /\ IsFiniteSet(Used(K, n))
         /\ IsFiniteSet({K[i] : i \in Used(K, n)})
         /\ Cardinality({K[i] : i \in Used(K, n)}) = Cardinality(Used(K, n))
         /\ Cardinality(Used(K, n)) \in Nat
<1> DEFINE U == Used(K, n)
           T == {K[i] : i \in U}
           f == [i \in U |-> K[i]]
<1>1. IsFiniteSet(U)
  <2>1. IsFiniteSet(Slots(n))
    BY FS_Interval DEF Slots
  <2>2. U \in SUBSET Slots(n)
    BY DEF Used
  <2> QED BY <2>1, <2>2, FS_Subset
<1>2. f \in Bijection(U, T)
  <2>1. f \in [U -> T] /\ \A a, b \in U : f[a] = f[b] => a = b
    BY DEF KeysOnce
  <2>2. \A t \in T : \E s \in U : f[s] = t
    OBVIOUS
  <2> QED BY <2>1, <2>2, Fun_IsBij
<1>3. ExistsBijection(U, T)
  BY <1>2 DEF ExistsBijection
<1> HIDE DEF U, T, f
<1>4. IsFiniteSet(T) /\ Cardinality(T) = Cardinality(U)
  BY <1>1, <1>3, FS_Bijection
<1>5. Cardinality(U) \in Nat
  BY <1>1, FS_CardinalityType
<1> QED
  BY <1>1, <1>4, <1>5 DEF U, T

-----------------------------------------------------------------------------
(* The inductive invariant                                                 *)

(* The table hashcons makes, with no entry used, satisfies the invariant.  *)
LEMMA InvInit == Init => HashInv
<1> SUFFICES ASSUME Init PROVE HashInv
  OBVIOUS
<1> USE DEF Init
<1>1. size \in Nat \ {0} /\ \A i \in Slots(size) : key[i] = Unbound /\ val[i] = Unbound
  BY HashAssumption
<1>2. TypeOK
  <2>1. << >> \in [Slots(0) -> {}]
    BY DEF Slots
  <2>2. key \in [Slots(size) -> {Unbound}] /\ val \in [Slots(size) -> {Unbound}]
    OBVIOUS
  <2>3. pos \in Idle .. size
    BY <1>1 DEF Idle
  <2> QED BY <1>1, <2>1, <2>2, <2>3 DEF TypeOK
<1>3. Used(key, size) = {}
  BY <1>1 DEF Used, Unused
<1>4. WaysClear(key, val, size) /\ KeysOnce(key, size) /\ ValuesKept(key, val, size)
  BY <1>3 DEF WaysClear, KeysOnce, ValuesKept
<1>5. Counted
  BY <1>3, FS_EmptySet DEF Counted, Used, UsedEntries
<1>6. Copied /\ Roomy /\ HungFull
  BY <1>1 DEF Copied, Roomy, HungFull
<1> QED
  BY <1>2, <1>4, <1>5, <1>6 DEF HashInv

(* In a table a key is found where it is, and nowhere else.                *)
LEMMA HitsAreEntries ==
  ASSUME HashInv, NEW k \in Key
  PROVE  /\ Hits(k) = {i \in Used(key, size) : key[i] = k}
         /\ \A i, j \in Hits(k) : i = j
<1>1. Unbound \notin Key
  BY HashAssumption
<1>2. Hits(k) = {i \in Used(key, size) : key[i] = k}
  BY <1>1 DEF HashInv, WaysClear, Used, Unused, Hits
<1> QED
  BY <1>2 DEF HashInv, KeysOnce

(* A step that leaves the old and the new table as they are, and does not  *)
(* come to a probe that goes on for ever, keeps the invariant.             *)
LEMMA SameEntries ==
  ASSUME HashInv, UNCHANGED <<old, new, hung>>
  PROVE  HashInv'
BY DEF HashInv, TypeOK, Counted, UsedEntries, Copied, Roomy, HungFull, Virgins, old, new

(* There are no more entries in use than keys.                             *)
LEMMA NoMoreThanKeys ==
  ASSUME NEW n \in Nat, NEW K \in [Slots(n) -> Key \cup {Unbound}], KeysOnce(K, n)
  PROVE  Cardinality(Used(K, n)) <= Cardinality(Key) /\ Cardinality(Key) \in Nat
<1> DEFINE T == {K[i] : i \in Used(K, n)}
<1>1. T \in SUBSET Key
  BY DEF Used, Unused
<1>2. Cardinality(T) <= Cardinality(Key) /\ Cardinality(Key) \in Nat
  BY <1>1, RoomForKeys, FS_Subset, FS_CardinalityType
<1> QED
  BY <1>2, EntriesAreKeys

(* After an insertion, the table has room, or a larger one is made.        *)
LEMMA Expanded ==
  ASSUME HashInv, Ready, NEW c \in Nat, CheckForExpand(c),
         c <= size, c < size \/ c = count + 1, c <= Cardinality(Key),
         count' = c, size' = size, hung' = hung
  PROVE  /\ pos' \in Idle .. size
         /\ newSize' \in Nat
         /\ newKey' \in [Slots(newSize') -> Key \cup {Unbound}]
         /\ newVal' \in [Slots(newSize') -> Value \cup {Unbound, Null}]
         /\ Copied'
         /\ Roomy'
<1>1. /\ size \in Nat \ {0} /\ pos = Idle /\ ~ hung /\ count \in Nat /\ count < size
      /\ newSize \in Nat
      /\ newKey \in [Slots(newSize) -> Key \cup {Unbound}]
      /\ newVal \in [Slots(newSize) -> Value \cup {Unbound, Null}]
  BY DEF HashInv, TypeOK, Ready, Roomy
<1>2. PICK f \in Nat \ {0, 1} :
         EnlargedSize(c) = size * f /\ Cardinality(Key) * f <= MaxSize
  BY HashAssumption, RoomForKeys DEF EnlargedSize
<1>3. size * f \in Nat /\ size * f >= 2 * size
  BY <1>1, <1>2
<1>4. CASE 100 * c > size * MaxLoad /\ EnlargedSize(c) <= MaxSize
  <2>1. /\ newSize' = size * f
        /\ newKey' = [i \in Slots(newSize') |-> Unbound]
        /\ newVal' = [i \in Slots(newSize') |-> Unbound]
        /\ pos' = 0
    BY <1>2, <1>4 DEF CheckForExpand
  <2>2. Used(newKey', newSize') = {}
    BY <2>1 DEF Used, Unused
  <2>3. Cardinality(Used(newKey', newSize')) = 0
    BY <2>2, FS_EmptySet
  <2>4. Copied'
    <3>1. \A i \in Used(key', size') : ~ (i < pos')
      BY <1>1, <2>1 DEF Used, Slots
    <3>2. WaysClear(newKey', newVal', newSize') /\ KeysOnce(newKey', newSize')
      BY <2>2 DEF WaysClear, KeysOnce
    <3>3. \A j \in Slots(newSize') : newVal'[j] = Unbound
      BY <2>1
    <3>4. size' <= newSize'
      BY <1>1, <1>3, <2>1
    <3> QED
      BY <1>1, <2>1, <2>2, <2>3, <3>1, <3>2, <3>3, <3>4 DEF Copied
  <2>5. Roomy'
    BY <1>1, <1>3, <2>1 DEF Roomy, Idle
  <2> QED
    BY <1>1, <1>3, <2>1, <2>4, <2>5 DEF Idle
<1>5. CASE ~ (100 * c > size * MaxLoad /\ EnlargedSize(c) <= MaxSize)
  <2>1. UNCHANGED <<newSize, newKey, newVal, pos>>
    BY <1>5 DEF CheckForExpand, new
  <2>2. c < size
    <3>1. CASE 100 * c <= size * MaxLoad
      <4>1. size * MaxLoad \in Nat /\ size * MaxLoad <= size * 99
        BY <1>1, HashAssumption
      <4>2. 100 * c <= 99 * size
        BY <1>1, <3>1, <4>1
      <4> QED BY <1>1, <4>2
    <3>2. CASE EnlargedSize(c) > MaxSize
      <4>1. Cardinality(Key) \in Nat
        BY RoomForKeys, FS_CardinalityType
      <4>2. size * f > Cardinality(Key) * f
        BY <1>2, <1>3, <3>2, <4>1, HashAssumption
      <4>3. Cardinality(Key) < size
        BY <1>1, <1>2, <4>1, <4>2
      <4> QED BY <1>1, <4>1, <4>3
    <3> QED
      BY <1>1, <1>2, <1>3, <1>5, <3>1, <3>2, HashAssumption
  <2>3. Copied' /\ Roomy'
    BY <1>1, <2>1, <2>2 DEF Copied, Roomy
  <2> QED
    BY <1>1, <2>1, <2>3 DEF Idle
<1> QED
  BY <1>4, <1>5

(* hash_set keeps the invariant: it overwrites the entry the probe finds,  *)
(* or takes the first unused one on the way of the probe, and counts it;   *)
(* when the table is full beyond its threshold, the copy to a larger one   *)
(* begins.                                                                 *)
LEMMA SetInv ==
  ASSUME HashInv, NEW k \in Key, NEW v \in Value, Set(k, v)
  PROVE  HashInv'
<1>1. /\ size \in Nat \ {0} /\ pos = Idle /\ ~ hung /\ count \in Nat /\ count < size
      /\ key \in [Slots(size) -> Key \cup {Unbound}]
      /\ val \in [Slots(size) -> Value \cup {Unbound, Null}]
      /\ count = Cardinality(Used(key, size))
  BY DEF HashInv, TypeOK, Set, Ready, Roomy, Counted, UsedEntries, Used
<1>2. size' = size /\ hung' = hung /\ CheckForExpand(count') /\ LookupEnds(k) /\ Ready
  BY DEF Set
<1>3. /\ key' \in [Slots(size) -> Key \cup {Unbound}]
      /\ val' \in [Slots(size) -> Value \cup {Unbound, Null}]
      /\ WaysClear(key', val', size) /\ KeysOnce(key', size) /\ ValuesKept(key', val', size)
      /\ count' = Cardinality(Used(key', size))
      /\ count' \in Nat
      /\ count' = count \/ count' = count + 1
  <2>1. CASE Hits(k) # {}
    <3>1. /\ val' = [i \in Slots(size) |-> IF i \in Hits(k) THEN v ELSE val[i]]
          /\ key' = key /\ count' = count
      BY <2>1 DEF Set
    <3>2. val' \in [Slots(size) -> Value \cup {Unbound, Null}]
      BY <1>1, <3>1
    <3>3. \A i \in Hits(k) : i \in Used(key, size)
      BY HitsAreEntries
    <3>4. WaysClear(key', val', size)
      <4> SUFFICES ASSUME NEW i \in Used(key, size), NEW j \in Before(Home(key[i], size), i, size)
                   PROVE  key[j] # key[i] /\ ~ Virgin(key, val', j)
        BY <3>1 DEF WaysClear
      <4>1. key[j] # key[i] /\ ~ Virgin(key, val, j)
        BY DEF HashInv, WaysClear
      <4>2. key[i] \in Key /\ i \in Slots(size)
        BY <1>1 DEF Used, Unused
      <4>3. j \in Slots(size)
        BY <1>1, <4>2, HomeInTable DEF Before, Slots
      <4> QED
        BY <3>1, <3>3, <4>1, <4>3 DEF Virgin, Deleted, Unused, Used
    <3>5. ValuesKept(key', val', size)
      BY <3>1 DEF HashInv, ValuesKept, Used
    <3> QED
      BY <1>1, <3>1, <3>2, <3>4, <3>5 DEF HashInv
  <2>2. CASE Hits(k) = {}
    <3> DEFINE p == FirstUnused(key, k, size)
    <3>1. key' = [key EXCEPT ![p] = k] /\ val' = [val EXCEPT ![p] = v] /\ count' = count + 1
      BY <2>2 DEF Set
    <3>2. \A i \in Used(key, size) : key[i] # k
      BY <2>2, HitsAreEntries
    <3>3. \E i \in Slots(size) : Unused(key, i)
      BY <1>2, <2>2 DEF LookupEnds, Virgins, Virgin
    <3>4. /\ p \in Slots(size) /\ Unused(key, p)
          /\ \A j \in Before(Home(k, size), p, size) : ~ Unused(key, j)
      BY <1>1, <3>3, FirstUnusedFound
    <3> HIDE DEF p
    <3>5. WaysClear(key, val, size) /\ KeysOnce(key, size)
      BY DEF HashInv
    <3>6. /\ key' \in [Slots(size) -> Key \cup {Unbound}]
          /\ val' \in [Slots(size) -> Value \cup {Unbound, Null}]
          /\ Used(key', size) = Used(key, size) \cup {p}
          /\ WaysClear(key', val', size)
          /\ KeysOnce(key', size)
          /\ key'[p] = k /\ val'[p] = v
          /\ \A i \in Used(key, size) : i # p /\ key'[i] = key[i] /\ val'[i] = val[i]
      <4>1. key' = Put(key, p, k) /\ val' = Put(val, p, v)
        BY <3>1 DEF Put
      <4> QED
        BY <1>1, <3>2, <3>4, <3>5, <4>1, Inserted
    <3>7. ValuesKept(key', val', size)
      BY <3>6 DEF HashInv, ValuesKept
    <3>8. count' = Cardinality(Used(key', size))
      BY <1>1, <3>1, <3>5, <3>6, EntriesAreKeys, FS_AddElement, ZenonT(60)
    <3> QED
      BY <1>1, <3>1, <3>6, <3>7, <3>8
  <2> QED BY <2>1, <2>2
<1>4. count' <= Cardinality(Key)
  BY <1>1, <1>3, NoMoreThanKeys
<1>5. /\ pos' \in Idle .. size
      /\ newSize' \in Nat
      /\ newKey' \in [Slots(newSize') -> Key \cup {Unbound}]
      /\ newVal' \in [Slots(newSize') -> Value \cup {Unbound, Null}]
      /\ Copied' /\ Roomy'
  BY <1>1, <1>2, <1>3, <1>4, Expanded
<1>6. TypeOK'
  <2>1. hung' \in BOOLEAN
    BY <1>2 DEF HashInv, TypeOK
  <2> QED
    BY <1>1, <1>2, <1>3, <1>5, <2>1 DEF TypeOK
<1>7. Counted' /\ HungFull'
  BY <1>1, <1>2, <1>3 DEF Counted, UsedEntries, Used, HungFull
<1> QED
  BY <1>2, <1>3, <1>5, <1>6, <1>7 DEF HashInv

(* One round of enlarge_hash keeps the invariant: the entry at pos, if it  *)
(* is used, goes to the first place of its probe in the new table.         *)
LEMMA CopyEntryInv ==
  ASSUME HashInv, CopyEntry
  PROVE  HashInv'
<1>1. /\ size \in Nat \ {0} /\ pos \in Slots(size) /\ pos \in Nat /\ pos # Idle
      /\ newSize \in Nat /\ size <= newSize
      /\ key \in [Slots(size) -> Key \cup {Unbound}]
      /\ newKey \in [Slots(newSize) -> Key \cup {Unbound}]
      /\ newVal \in [Slots(newSize) -> Value \cup {Unbound, Null}]
      /\ WaysClear(newKey, newVal, newSize) /\ KeysOnce(newKey, newSize)
      /\ \A i \in Used(key, size) : i < pos =>
              \E j \in Slots(newSize) : newKey[j] = key[i] /\ newVal[j] = val[i]
      /\ \A j \in Used(newKey, newSize) :
              \E i \in Slots(size) : i < pos /\ newKey[j] = key[i] /\ newVal[j] = val[i]
      /\ \A j \in Slots(newSize) : Unused(newKey, j) => newVal[j] = Unbound
      /\ Cardinality(Used(newKey, newSize)) <= pos
      /\ Cardinality(Used(newKey, newSize)) \in Nat
      /\ ~ hung
  <2>1. /\ size \in Nat \ {0} /\ pos \in Slots(size) /\ newSize \in Nat
        /\ key \in [Slots(size) -> Key \cup {Unbound}]
        /\ newKey \in [Slots(newSize) -> Key \cup {Unbound}]
        /\ newVal \in [Slots(newSize) -> Value \cup {Unbound, Null}]
    BY DEF HashInv, TypeOK, CopyEntry
  <2>2. pos \in Nat /\ pos # Idle
    BY <2>1 DEF Slots, Idle
  <2>3. Copied /\ KeysOnce(newKey, newSize)
    BY <2>2 DEF HashInv, Copied
  <2>4. Cardinality(Used(newKey, newSize)) \in Nat
    BY <2>1, <2>3, EntriesAreKeys
  <2> QED
    BY <2>1, <2>2, <2>3, <2>4 DEF Copied
<1>2. /\ pos' = pos + 1 /\ newSize' = newSize /\ hung' = hung
      /\ size' = size /\ key' = key /\ val' = val /\ count' = count
  BY DEF CopyEntry, old
<1>3. pos' # Idle /\ pos' \in Idle .. size
  BY <1>1, <1>2 DEF Idle, Slots
<1>4. /\ newKey' \in [Slots(newSize) -> Key \cup {Unbound}]
      /\ newVal' \in [Slots(newSize) -> Value \cup {Unbound, Null}]
      /\ Copied'
  <2>1. CASE Unused(key, pos)
    <3>1. newKey' = newKey /\ newVal' = newVal
      BY <2>1 DEF CopyEntry
    <3>2. \A i \in Used(key, size) : i < pos' => i < pos
      BY <1>1, <1>2, <2>1 DEF Used, Slots
    <3>3. \A i \in Slots(size) : i < pos => i < pos'
      BY <1>1, <1>2 DEF Slots
    <3>4. Cardinality(Used(newKey, newSize)) <= pos'
      BY <1>1, <1>2
    <3> QED
      BY <1>1, <1>2, <3>1, <3>2, <3>3, <3>4 DEF Copied
  <2>2. CASE ~ Unused(key, pos)
    <3> DEFINE k == key[pos]
               p == FirstUnused(newKey, k, newSize)
    <3>1. newKey' = [newKey EXCEPT ![p] = k] /\ newVal' = [newVal EXCEPT ![p] = val[pos]]
      BY <2>2 DEF CopyEntry
    <3>2. k \in Key /\ val[pos] \in Value /\ pos \in Used(key, size)
      BY <1>1, <2>2 DEF HashInv, ValuesKept, Used, Unused
    <3>3. \A j \in Used(newKey, newSize) : newKey[j] # k
      <4> SUFFICES ASSUME NEW j \in Used(newKey, newSize), newKey[j] = k
                   PROVE  FALSE
        OBVIOUS
      <4>1. PICK i \in Slots(size) : i < pos /\ newKey[j] = key[i]
        BY <1>1
      <4>2. i \in Used(key, size)
        BY <3>2, <4>1, HashAssumption DEF Used, Unused
      <4>3. i = pos
        BY <3>2, <4>1, <4>2 DEF HashInv, KeysOnce
      <4> QED
        BY <1>1, <4>1, <4>3
    <3>4. \E i \in Slots(newSize) : Unused(newKey, i)
      <4> SUFFICES ASSUME \A i \in Slots(newSize) : ~ Unused(newKey, i)
                   PROVE  FALSE
        OBVIOUS
      <4>1. Used(newKey, newSize) = 0 .. newSize - 1
        BY DEF Used, Slots
      <4>2. Cardinality(0 .. newSize - 1) = newSize
        BY <1>1, FS_Interval
      <4> QED
        BY <1>1, <4>1, <4>2 DEF Slots
    <3>5. /\ p \in Slots(newSize) /\ Unused(newKey, p)
          /\ \A j \in Before(Home(k, newSize), p, newSize) : ~ Unused(newKey, j)
      <4>1. newSize \in Nat \ {0}
        BY <1>1
      <4> QED BY <3>2, <3>4, <4>1, FirstUnusedFound
    <3> HIDE DEF p, k
    <3>6. /\ newKey' \in [Slots(newSize) -> Key \cup {Unbound}]
          /\ newVal' \in [Slots(newSize) -> Value \cup {Unbound, Null}]
          /\ Used(newKey', newSize) = Used(newKey, newSize) \cup {p}
          /\ WaysClear(newKey', newVal', newSize)
          /\ KeysOnce(newKey', newSize)
          /\ newKey'[p] = k /\ newVal'[p] = val[pos]
          /\ \A i \in Used(newKey, newSize) :
                 i # p /\ newKey'[i] = newKey[i] /\ newVal'[i] = newVal[i]
      <4>1. newSize \in Nat \ {0}
        BY <1>1
      <4>2. newKey' = Put(newKey, p, k) /\ newVal' = Put(newVal, p, val[pos])
        BY <3>1 DEF Put
      <4> QED
        BY <1>1, <3>2, <3>3, <3>5, <4>1, <4>2, Inserted
    <3>7. \A i \in Used(key, size) : i < pos' =>
              \E j \in Slots(newSize) : newKey'[j] = key[i] /\ newVal'[j] = val[i]
      <4> SUFFICES ASSUME NEW i \in Used(key, size), i < pos'
                   PROVE  \E j \in Slots(newSize) : newKey'[j] = key[i] /\ newVal'[j] = val[i]
        OBVIOUS
      <4>1. CASE i = pos
        BY <3>5, <3>6, <4>1 DEF k
      <4>2. CASE i # pos
        <5>1. i < pos /\ key[i] # Unbound
          BY <1>1, <1>2, <4>2 DEF Used, Slots, Unused
        <5>2. PICK j \in Slots(newSize) : newKey[j] = key[i] /\ newVal[j] = val[i]
          BY <1>1, <5>1
        <5>3. j \in Used(newKey, newSize)
          BY <5>1, <5>2 DEF Used, Unused
        <5> QED BY <3>6, <5>2, <5>3
      <4> QED BY <4>1, <4>2
    <3>8. \A j \in Used(newKey', newSize) :
              \E i \in Slots(size) : i < pos' /\ newKey'[j] = key[i] /\ newVal'[j] = val[i]
      <4> SUFFICES ASSUME NEW j \in Used(newKey', newSize)
                   PROVE  \E i \in Slots(size) :
                             i < pos' /\ newKey'[j] = key[i] /\ newVal'[j] = val[i]
        OBVIOUS
      <4>1. CASE j = p
        BY <1>1, <1>2, <3>6, <4>1 DEF k
      <4>2. CASE j # p
        <5>1. j \in Used(newKey, newSize)
          BY <3>6, <4>2
        <5>2. PICK i \in Slots(size) : i < pos /\ newKey[j] = key[i] /\ newVal[j] = val[i]
          BY <1>1, <5>1
        <5>3. i < pos'
          BY <1>1, <1>2, <5>2 DEF Slots
        <5> QED BY <3>6, <5>1, <5>2, <5>3
      <4> QED BY <4>1, <4>2
    <3>9. \A j \in Slots(newSize) : Unused(newKey', j) => newVal'[j] = Unbound
      BY <1>1, <3>1, <3>2, <3>5, HashAssumption DEF Unused
    <3>10. Cardinality(Used(newKey', newSize)) <= pos'
      <4>1. IsFiniteSet(Used(newKey, newSize))
        BY <1>1, EntriesAreKeys
      <4>2. p \notin Used(newKey, newSize)
        BY <3>6
      <4>3. Cardinality(Used(newKey, newSize) \cup {p}) = Cardinality(Used(newKey, newSize)) + 1
        BY <4>1, <4>2, FS_AddElement
      <4> QED
        BY <1>1, <1>2, <3>6, <4>3
    <3> QED
      BY <1>1, <1>2, <3>6, <3>7, <3>8, <3>9, <3>10 DEF Copied
  <2> QED BY <2>1, <2>2
<1>5. TypeOK'
  BY <1>1, <1>2, <1>3, <1>4 DEF HashInv, TypeOK
<1>6. Roomy'
  BY <1>1, <1>2, <1>3 DEF HashInv, Roomy
<1> QED
  BY <1>1, <1>2, <1>4, <1>5, <1>6
     DEF HashInv, Counted, UsedEntries, HungFull, Used

(* The end of enlarge_hash keeps the invariant: the new table holds all    *)
(* that the old one did, and takes its place.                              *)
LEMMA ReplaceInv ==
  ASSUME HashInv, Replace
  PROVE  HashInv'
<1>1. /\ size \in Nat \ {0} /\ pos = size /\ pos # Idle /\ newSize \in Nat
      /\ newKey \in [Slots(newSize) -> Key \cup {Unbound}]
      /\ newVal \in [Slots(newSize) -> Value \cup {Unbound, Null}]
      /\ count \in Nat
  BY DEF HashInv, TypeOK, Replace, Idle
<1>2. /\ size' = newSize /\ key' = newKey /\ val' = newVal /\ count' = count
      /\ pos' = Idle /\ newSize' = 0 /\ newKey' = << >> /\ newVal' = << >>
      /\ hung' = hung
  BY DEF Replace
<1>3. Copied /\ ~ hung /\ size <= newSize /\ count < newSize
  BY <1>1 DEF HashInv, Copied, Roomy
<1>4. TypeOK'
  <2>1. << >> \in [Slots(0) -> {}]
    BY DEF Slots
  <2>2. newSize \in Nat \ {0} /\ Idle \in Idle .. newSize
    BY <1>1, <1>3 DEF Idle
  <2>3. hung \in BOOLEAN
    BY DEF HashInv, TypeOK
  <2> QED
    BY <1>1, <1>2, <2>1, <2>2, <2>3 DEF TypeOK
<1>5. WaysClear(newKey, newVal, newSize) /\ KeysOnce(newKey, newSize)
  BY <1>1, <1>3 DEF Copied
<1>6. ValuesKept(newKey, newVal, newSize)
  <2> SUFFICES ASSUME NEW j \in Used(newKey, newSize)
               PROVE  newVal[j] \in Value
    BY DEF ValuesKept
  <2>1. PICK i \in Slots(size) : newKey[j] = key[i] /\ newVal[j] = val[i]
    BY <1>1, <1>3 DEF Copied
  <2>2. i \in Used(key, size)
    BY <2>1 DEF Used, Unused
  <2> QED
    BY <2>1, <2>2 DEF HashInv, ValuesKept
<1>7. Counted'
  <2>1. {newKey[j] : j \in Used(newKey, newSize)} = {key[i] : i \in Used(key, size)}
    <3>1. ASSUME NEW i \in Used(key, size)
          PROVE  \E j \in Used(newKey, newSize) : newKey[j] = key[i]
      <4>1. i < pos
        BY <1>1 DEF Used, Slots
      <4>2. PICK j \in Slots(newSize) : newKey[j] = key[i]
        BY <1>1, <1>3, <4>1 DEF Copied
      <4> QED
        BY <4>2 DEF Used, Unused
    <3>2. ASSUME NEW j \in Used(newKey, newSize)
          PROVE  \E i \in Used(key, size) : newKey[j] = key[i]
      <4>1. PICK i \in Slots(size) : newKey[j] = key[i]
        BY <1>1, <1>3 DEF Copied
      <4> QED
        BY <4>1 DEF Used, Unused
    <3> QED
      BY <3>1, <3>2
  <2>2. KeysOnce(key, size) /\ count = Cardinality(Used(key, size))
    BY DEF HashInv, Counted, UsedEntries, Used
  <2>3. Cardinality(Used(newKey, newSize)) = Cardinality(Used(key, size))
    BY <1>1, <1>5, <2>1, <2>2, EntriesAreKeys
  <2> QED
    BY <1>2, <2>2, <2>3 DEF Counted, UsedEntries, Used
<1>8. Copied' /\ Roomy' /\ HungFull'
  BY <1>2, <1>3 DEF Copied, Roomy, HungFull
<1> QED
  BY <1>2, <1>4, <1>5, <1>6, <1>7, <1>8 DEF HashInv

(* lhash_remove keeps the invariant: the entry it marks as deleted still   *)
(* leads the probes that pass it, and the count falls by one.              *)
LEMMA RemoveInv ==
  ASSUME HashInv, NEW k \in Key, Remove(k)
  PROVE  HashInv'
<1>1. /\ size \in Nat \ {0} /\ pos = Idle /\ ~ hung /\ count \in Nat /\ count < size
      /\ key \in [Slots(size) -> Key \cup {Unbound}]
      /\ val \in [Slots(size) -> Value \cup {Unbound, Null}]
      /\ count = Cardinality(Used(key, size))
      /\ WaysClear(key, val, size) /\ KeysOnce(key, size) /\ ValuesKept(key, val, size)
  BY DEF HashInv, TypeOK, Remove, Ready, Roomy, Counted, UsedEntries, Used
<1>2. /\ size' = size /\ hung' = hung /\ UNCHANGED new
      /\ key' = [i \in Slots(size) |-> IF i \in Hits(k) THEN Unbound ELSE key[i]]
      /\ val' = [i \in Slots(size) |-> IF i \in Hits(k) THEN Null ELSE val[i]]
      /\ count' = IF Hits(k) # {} THEN count - 1 ELSE count
  BY DEF Remove
<1>3. CASE Hits(k) = {}
  <2>1. key' = key /\ val' = val /\ count' = count
    BY <1>1, <1>2, <1>3
  <2> QED
    BY <1>2, <2>1, SameEntries DEF old
<1>4. CASE Hits(k) # {}
  <2>1. PICK p \in Hits(k) : p \in Used(key, size) /\ Hits(k) = {p}
    BY <1>4, HitsAreEntries
  <2>2. /\ key' \in [Slots(size) -> Key \cup {Unbound}]
        /\ val' \in [Slots(size) -> Value \cup {Unbound, Null}]
        /\ key'[p] = Unbound /\ val'[p] = Null
        /\ \A i \in Slots(size) : i # p => key'[i] = key[i] /\ val'[i] = val[i]
        /\ p \in Slots(size)
    BY <1>1, <1>2, <2>1 DEF Used
  <2>3. Used(key', size) = Used(key, size) \ {p}
    BY <2>2 DEF Used, Unused
  <2>4. count' = Cardinality(Used(key', size)) /\ count' \in Nat /\ count' < size
    <3>1. IsFiniteSet(Used(key, size))
      BY <1>1, EntriesAreKeys
    <3>2. Cardinality(Used(key, size) \ {p}) = Cardinality(Used(key, size)) - 1
      BY <2>1, <3>1, FS_RemoveElement
    <3>3. Cardinality(Used(key, size) \ {p}) \in Nat
      BY <3>1, FS_RemoveElement, FS_CardinalityType
    <3>4. count' = count - 1
      BY <1>2, <1>4
    <3> QED
      BY <1>1, <2>3, <3>2, <3>3, <3>4
  <2>5. WaysClear(key', val', size)
    <3> SUFFICES ASSUME NEW i \in Used(key', size), NEW j \in Before(Home(key'[i], size), i, size)
                 PROVE  key'[j] # key'[i] /\ ~ Virgin(key', val', j)
      BY DEF WaysClear
    <3>1. i \in Used(key, size) /\ i # p /\ key'[i] = key[i] /\ i \in Slots(size)
      BY <2>2, <2>3 DEF Used
    <3>2. key[i] \in Key
      BY <1>1, <3>1 DEF Used, Unused
    <3>3. j \in Slots(size)
      BY <1>1, <3>1, <3>2, HomeInTable DEF Before, Slots
    <3>4. key[j] # key[i] /\ ~ Virgin(key, val, j)
      BY <1>1, <3>1 DEF WaysClear
    <3> QED
      BY <2>2, <3>1, <3>2, <3>3, <3>4, HashAssumption DEF Virgin, Deleted, Unused
  <2>6. KeysOnce(key', size) /\ ValuesKept(key', val', size)
    BY <1>1, <2>2, <2>3 DEF KeysOnce, ValuesKept, Used
  <2>7. TypeOK'
    BY <1>2, <2>2, <2>4 DEF HashInv, TypeOK, new
  <2>8. Counted' /\ Copied' /\ Roomy' /\ HungFull'
    BY <1>1, <1>2, <2>4 DEF Counted, UsedEntries, Used, Copied, Roomy, HungFull, new
  <2> QED
    BY <1>2, <2>5, <2>6, <2>7, <2>8 DEF HashInv
<1> QED
  BY <1>3, <1>4

(* lhash_clear keeps the invariant: no entry is used any more.             *)
LEMMA ClearInv ==
  ASSUME HashInv, Clear
  PROVE  HashInv'
<1>1. size \in Nat \ {0} /\ pos = Idle /\ ~ hung
  BY DEF HashInv, TypeOK, Clear, Ready
<1>2. /\ size' = size /\ hung' = hung /\ UNCHANGED new /\ count' = 0
      /\ key' = [i \in Slots(size) |-> Unbound]
      /\ val' = [i \in Slots(size) |-> Unbound]
  BY DEF Clear
<1>3. Used(key', size') = {}
  BY <1>2 DEF Used, Unused
<1>4. WaysClear(key', val', size') /\ KeysOnce(key', size') /\ ValuesKept(key', val', size')
  BY <1>3 DEF WaysClear, KeysOnce, ValuesKept
<1>5. TypeOK'
  BY <1>2 DEF HashInv, TypeOK, new
<1>6. Counted' /\ Copied' /\ Roomy' /\ HungFull'
  BY <1>1, <1>2, <1>3, FS_EmptySet
     DEF Counted, UsedEntries, Used, Copied, Roomy, HungFull, new
<1> QED
  BY <1>4, <1>5, <1>6 DEF HashInv

(* A probe that goes on for ever keeps the invariant: it has met no entry  *)
(* that was never used.                                                    *)
LEMMA HangInv ==
  ASSUME HashInv, NEW k \in Key, Hang(k)
  PROVE  HashInv'
<1>1. pos = Idle /\ Virgins = {} /\ hung' = TRUE /\ UNCHANGED <<old, new>>
  BY DEF Hang, Ready, LookupEnds
<1> QED
  BY <1>1 DEF HashInv, TypeOK, Counted, UsedEntries, Copied, Roomy, HungFull, Virgins, old, new

(* Every procedure of the table, and every round of an enlargement, keeps  *)
(* the invariant.                                                          *)
LEMMA InvNext == HashInv /\ [Next]_vars => HashInv'
<1> SUFFICES ASSUME HashInv, [Next]_vars PROVE HashInv'
  OBVIOUS
<1>1. ASSUME NEW k \in Key, NEW v \in Value, Set(k, v) PROVE HashInv'
  BY <1>1, SetInv
<1>2. ASSUME NEW k \in Key, Remove(k) PROVE HashInv'
  BY <1>2, RemoveInv
<1>3. ASSUME NEW k \in Key, Ref(k) PROVE HashInv'
  BY <1>3, SameEntries DEF Ref
<1>4. ASSUME NEW k \in Key, Hang(k) PROVE HashInv'
  BY <1>4, HangInv
<1>5. CASE Clear
  BY <1>5, ClearInv
<1>6. CASE Length
  BY <1>6, SameEntries DEF Length
<1>7. CASE Alist
  BY <1>7, SameEntries DEF Alist
<1>8. CASE CopyEntry
  BY <1>8, CopyEntryInv
<1>9. CASE Replace
  BY <1>9, ReplaceInv
<1>10. CASE UNCHANGED vars
  BY <1>10, SameEntries DEF vars
<1> QED
  BY <1>1, <1>2, <1>3, <1>4, <1>5, <1>6, <1>7, <1>8, <1>9, <1>10 DEF Next

(* HashInv is an invariant: the entries of the table, and of the one that  *)
(* is being filled, can be found, are counted, and leave one unused.       *)
THEOREM HashInvariant == Spec => []HashInv
  BY InvInit, InvNext, PTL DEF Spec

(* The state keeps its types (the invariant TypeOK): no operation puts an  *)
(* entry outside the table or leaves the count below zero.                 *)
THEOREM HashTypes == Spec => []TypeOK
<1>1. HashInv => TypeOK
  BY DEF HashInv
<1> QED
  BY <1>1, HashInvariant, PTL

(* hash_lookup_entry finds every key at the entry that has it, and at that *)
(* one only (the invariant ProbesReach): neither the marks of hash_remove  *)
(* nor their reuse by hash_set nor enlarge_hash cuts a probe short.        *)
THEOREM ProbesAlwaysReach == Spec => []ProbesReach
<1>1. HashInv => ProbesReach
  <2> SUFFICES ASSUME HashInv, NEW i \in UsedEntries
               PROVE  i \in Hits(key[i]) /\ Hits(key[i]) = {i}
    BY DEF ProbesReach
  <2>1. key[i] \in Key /\ i \in Used(key, size)
    BY DEF HashInv, TypeOK, UsedEntries, Unused, Used
  <2> QED
    BY <2>1, HitsAreEntries
<1> QED
  BY <1>1, HashInvariant, PTL

(* A lookup that does not end is in a table with a deleted entry (the      *)
(* invariant HangNeedsDeletion): the load factor keeps an entry that was   *)
(* never used only as long as nothing is removed.                          *)
THEOREM HangsNeedDeletion == Spec => []HangNeedsDeletion
<1>1. HashInv => HangNeedsDeletion
  <2> SUFFICES ASSUME HashInv, hung
               PROVE  \E i \in Slots(size) : Deleted(key, val, i)
    BY DEF HangNeedsDeletion
  <2>1. size \in Nat /\ pos = Idle /\ count < size /\ Virgins = {}
    BY DEF HashInv, TypeOK, Roomy, HungFull
  <2>2. \E i \in Slots(size) : Unused(key, i)
    <3> SUFFICES ASSUME \A i \in Slots(size) : ~ Unused(key, i)
                 PROVE  FALSE
      OBVIOUS
    <3>1. UsedEntries = 0 .. size - 1
      BY DEF UsedEntries, Slots
    <3>2. Cardinality(0 .. size - 1) = size
      BY <2>1, FS_Interval
    <3> QED
      BY <2>1, <3>1, <3>2 DEF HashInv, Counted
  <2> QED
    BY <2>1, <2>2 DEF Virgins, Virgin
<1> QED
  BY <1>1, HashInvariant, PTL

-----------------------------------------------------------------------------
(* The table as a finite map                                               *)

Bind(K, V, n, k) ==
    IF \E i \in Slots(n) : K[i] = k
      THEN V[CHOOSE i \in Slots(n) : K[i] = k]
      ELSE Absent

(* The binding of a key is the value of its entry.                         *)
LEMMA BindAt ==
  ASSUME NEW n, NEW K, NEW V, KeysOnce(K, n), NEW i \in Used(K, n)
  PROVE  Bind(K, V, n, K[i]) = V[i]
<1> DEFINE c == CHOOSE j \in Slots(n) : K[j] = K[i]
<1>1. i \in Slots(n) /\ K[i] # Unbound
  BY DEF Used, Unused
<1>2. c \in Slots(n) /\ K[c] = K[i]
  BY <1>1
<1>3. c = i
  BY <1>1, <1>2 DEF KeysOnce, Used, Unused
<1>4. Bind(K, V, n, K[i]) = V[c]
  BY <1>1 DEF Bind
<1> QED
  BY <1>3, <1>4

(* A key that has the same value, or none, in two tables is bound alike.   *)
LEMMA SameBindings ==
  ASSUME NEW n, NEW K, NEW V, KeysOnce(K, n),
         NEW n2, NEW K2, NEW V2, KeysOnce(K2, n2),
         NEW k \in Key,
         \A i \in Used(K, n) : K[i] = k =>
             \E j \in Used(K2, n2) : K2[j] = k /\ V2[j] = V[i],
         \A j \in Used(K2, n2) : K2[j] = k => \E i \in Used(K, n) : K[i] = k
  PROVE  Bind(K2, V2, n2, k) = Bind(K, V, n, k)
<1>1. CASE \E i \in Slots(n) : K[i] = k
  <2>1. PICK i \in Used(K, n) : K[i] = k
    BY <1>1, HashAssumption DEF Used, Unused
  <2>2. PICK j \in Used(K2, n2) : K2[j] = k /\ V2[j] = V[i]
    BY <2>1
  <2> QED
    BY <2>1, <2>2, BindAt
<1>2. CASE ~ \E i \in Slots(n) : K[i] = k
  <2>1. ~ \E j \in Slots(n2) : K2[j] = k
    BY <1>2, HashAssumption DEF Used, Unused
  <2> QED
    BY <1>2, <2>1 DEF Bind
<1> QED
  BY <1>1, <1>2

(* The keys in use are those with a binding.                               *)
LEMMA BoundKeys ==
  ASSUME HashInv
  PROVE  /\ {k \in Key : Binding(k) # Absent} = {key[i] : i \in Used(key, size)}
         /\ \A i \in Used(key, size) : key[i] \in Key /\ Binding(key[i]) = val[i]
         /\ \A k \in Key : Hits(k) = {} => Binding(k) = Absent
<1>1. \A i \in Used(key, size) : key[i] \in Key /\ Binding(key[i]) = val[i] /\ val[i] \in Value
  <2> SUFFICES ASSUME NEW i \in Used(key, size)
               PROVE  key[i] \in Key /\ Binding(key[i]) = val[i] /\ val[i] \in Value
    OBVIOUS
  <2>1. key[i] \in Key /\ val[i] \in Value
    BY DEF HashInv, TypeOK, ValuesKept, Used, Unused
  <2>2. Bind(key, val, size, key[i]) = val[i]
    BY BindAt DEF HashInv
  <2> QED
    BY <2>1, <2>2 DEF Bind, Binding
<1>2. ASSUME NEW k \in Key, \A i \in Used(key, size) : key[i] # k
      PROVE  Binding(k) = Absent
  BY <1>2, HashAssumption DEF Binding, Used, Unused
<1>3. \A k \in Key : Hits(k) = {} => Binding(k) = Absent
  BY <1>2, HitsAreEntries
<1> QED
  BY <1>1, <1>2, <1>3, HashAssumption

Map == [k \in Key |-> Binding(k)]

(* What a set does to the table it does to the map: the key has the value, *)
(* and every other key what it had.                                        *)
LEMMA SetRefines ==
  ASSUME HashInv, HashInv', NEW k \in Key, NEW v \in Value, Set(k, v)
  PROVE  Map' = [Map EXCEPT ![k] = v]
<1>1. /\ size \in Nat \ {0} /\ size' = size
      /\ key \in [Slots(size) -> Key \cup {Unbound}]
      /\ val \in [Slots(size) -> Value \cup {Unbound, Null}]
      /\ KeysOnce(key, size) /\ KeysOnce(key', size)
      /\ LookupEnds(k)
  BY DEF HashInv, TypeOK, Set
<1> SUFFICES ASSUME NEW q \in Key
             PROVE  Binding(q)' = IF q = k THEN v ELSE Binding(q)
  BY DEF Map
<1>2. \E p \in Used(key', size) :
          /\ key'[p] = k /\ val'[p] = v
          /\ \A i \in Slots(size) : i # p => key'[i] = key[i] /\ val'[i] = val[i]
          /\ key[p] # k => key[p] = Unbound
  <2>1. CASE Hits(k) # {}
    <3>1. PICK p \in Hits(k) : p \in Used(key, size) /\ key[p] = k /\ Hits(k) = {p}
      BY <2>1, HitsAreEntries
    <3>2. key' = key /\ val' = [i \in Slots(size) |-> IF i \in Hits(k) THEN v ELSE val[i]]
      BY <2>1 DEF Set
    <3> QED
      BY <3>1, <3>2 DEF Used
  <2>2. CASE Hits(k) = {}
    <3> DEFINE p == FirstUnused(key, k, size)
    <3>1. key' = [key EXCEPT ![p] = k] /\ val' = [val EXCEPT ![p] = v]
      BY <2>2 DEF Set
    <3>2. \E i \in Slots(size) : Unused(key, i)
      BY <1>1, <2>2 DEF LookupEnds, Virgins, Virgin
    <3>3. p \in Slots(size) /\ Unused(key, p)
      BY <1>1, <3>2, FirstUnusedFound
    <3> HIDE DEF p
    <3> QED
      BY <1>1, <3>1, <3>3, HashAssumption DEF Used, Unused
  <2> QED BY <2>1, <2>2
<1>3. PICK p \in Used(key', size) :
          /\ key'[p] = k /\ val'[p] = v
          /\ \A i \in Slots(size) : i # p => key'[i] = key[i] /\ val'[i] = val[i]
          /\ key[p] # k => key[p] = Unbound
  BY <1>2
<1>4. CASE q = k
  <2>1. Bind(key', val', size, key'[p]) = val'[p]
    BY <1>1, <1>3, BindAt
  <2> QED
    BY <1>1, <1>3, <1>4, <2>1 DEF Bind, Binding
<1>5. CASE q # k
  <2>1. ASSUME NEW i \in Used(key, size), key[i] = q
        PROVE  i \in Used(key', size) /\ key'[i] = q /\ val'[i] = val[i]
    BY <1>3, <1>5, <2>1 DEF Used, Unused
  <2>2. ASSUME NEW j \in Used(key', size), key'[j] = q
        PROVE  j \in Used(key, size) /\ key[j] = q
    BY <1>3, <1>5, <2>2 DEF Used, Unused
  <2>3. Bind(key', val', size, q) = Bind(key, val, size, q)
    BY <1>1, <2>1, <2>2, SameBindings
  <2> QED
    BY <1>1, <1>5, <2>3 DEF Bind, Binding
<1> QED
  BY <1>4, <1>5

(* What a removal does to the table it does to the map: the key is absent, *)
(* and every other key has what it had.                                    *)
LEMMA RemoveRefines ==
  ASSUME HashInv, HashInv', NEW k \in Key, Remove(k)
  PROVE  Map' = [Map EXCEPT ![k] = Absent]
<1>1. /\ size' = size
      /\ key \in [Slots(size) -> Key \cup {Unbound}]
      /\ val \in [Slots(size) -> Value \cup {Unbound, Null}]
      /\ KeysOnce(key, size) /\ KeysOnce(key', size)
      /\ key' = [i \in Slots(size) |-> IF i \in Hits(k) THEN Unbound ELSE key[i]]
      /\ val' = [i \in Slots(size) |-> IF i \in Hits(k) THEN Null ELSE val[i]]
  BY DEF HashInv, TypeOK, Remove
<1>2. Hits(k) = {i \in Used(key, size) : key[i] = k}
  BY HitsAreEntries
<1> SUFFICES ASSUME NEW q \in Key
             PROVE  Binding(q)' = IF q = k THEN Absent ELSE Binding(q)
  BY DEF Map
<1>3. CASE q = k
  <2>1. \A i \in Slots(size) : key'[i] # k
    BY <1>1, <1>2, HashAssumption DEF Used, Unused
  <2> QED
    BY <1>1, <1>3, <2>1 DEF Binding
<1>4. CASE q # k
  <2>1. ASSUME NEW i \in Used(key, size), key[i] = q
        PROVE  i \in Used(key', size) /\ key'[i] = q /\ val'[i] = val[i]
    BY <1>1, <1>2, <1>4, <2>1 DEF Used, Unused
  <2>2. ASSUME NEW j \in Used(key', size), key'[j] = q
        PROVE  j \in Used(key, size) /\ key[j] = q
    BY <1>1, <1>2, <1>4, <2>2 DEF Used, Unused
  <2>3. KeysOnce(key, size) /\ KeysOnce(key', size)
    BY <1>1
  <2>4. Bind(key', val', size, q) = Bind(key, val, size, q)
    BY <2>1, <2>2, <2>3, SameBindings
  <2> QED
    BY <1>1, <1>4, <2>4 DEF Bind, Binding
<1> QED
  BY <1>3, <1>4

(* After lhash_clear every key of the map is absent.                       *)
LEMMA ClearRefines ==
  ASSUME HashInv, Clear
  PROVE  Map' = [k \in Key |-> Absent]
<1>1. \A i \in Slots(size') : key'[i] = Unbound
  BY DEF Clear
<1>2. \A q \in Key : Binding(q)' = Absent
  BY <1>1, HashAssumption DEF Binding
<1> QED
  BY <1>2 DEF Map

(* Exchanging the tables changes no binding: the new one is complete.      *)
LEMMA ReplaceRefines ==
  ASSUME HashInv, HashInv', Replace
  PROVE  Map' = Map
<1>1. /\ size' = newSize /\ key' = newKey /\ val' = newVal
      /\ size \in Nat \ {0} /\ pos = size /\ pos # Idle
      /\ KeysOnce(key, size) /\ KeysOnce(newKey, newSize) /\ Copied
  BY DEF HashInv, TypeOK, Replace, Idle, Copied
<1> SUFFICES ASSUME NEW q \in Key
             PROVE  Binding(q)' = Binding(q)
  BY DEF Map
<1>2. ASSUME NEW i \in Used(key, size), key[i] = q
      PROVE  \E j \in Used(newKey, newSize) : newKey[j] = q /\ newVal[j] = val[i]
  <2>1. i < pos /\ q # Unbound
    BY <1>1, <1>2 DEF Used, Slots, Unused
  <2>2. PICK j \in Slots(newSize) : newKey[j] = key[i] /\ newVal[j] = val[i]
    BY <1>1, <2>1 DEF Copied
  <2> QED
    BY <1>2, <2>1, <2>2 DEF Used, Unused
<1>3. ASSUME NEW j \in Used(newKey, newSize), newKey[j] = q
      PROVE  \E i \in Used(key, size) : key[i] = q
  <2>1. PICK i \in Slots(size) : newKey[j] = key[i]
    BY <1>1 DEF Copied
  <2> QED
    BY <1>3, <2>1 DEF Used, Unused
<1>4. Bind(newKey, newVal, newSize, q) = Bind(key, val, size, q)
  BY <1>1, <1>2, <1>3, SameBindings
<1> QED
  BY <1>1, <1>4 DEF Bind, Binding

(* The map is that of the old table alone: a step that leaves the old      *)
(* table as it is, as the rounds of an enlargement do, leaves the map.     *)
LEMMA SameMap ==
  ASSUME UNCHANGED old
  PROVE  Map' = Map
BY DEF Map, Binding, old

(* What the questions answer is what the map holds.                        *)
LEMMA Answers ==
  ASSUME HashInv
  PROVE  /\ count = Cardinality({k \in Key : Map[k] # Absent})
         /\ {<<key[i], val[i]>> : i \in UsedEntries} =
              {<<k, Map[k]>> : k \in {k \in Key : Map[k] # Absent}}
         /\ \A k \in Key :
              Map[k] = IF Hits(k) = {} THEN Absent ELSE val[CHOOSE i \in Hits(k) : TRUE]
<1>1. UsedEntries = Used(key, size)
  BY DEF UsedEntries, Used
<1>2. {k \in Key : Map[k] # Absent} = {key[i] : i \in Used(key, size)}
  BY BoundKeys DEF Map
<1>3. count = Cardinality({k \in Key : Map[k] # Absent})
  <2>1. size \in Nat /\ KeysOnce(key, size) /\ count = Cardinality(Used(key, size))
    BY <1>1 DEF HashInv, TypeOK, Counted
  <2> QED
    BY <1>2, <2>1, EntriesAreKeys
<1>4. \A i \in Used(key, size) : key[i] \in Key /\ Map[key[i]] = val[i]
  BY BoundKeys DEF Map
<1>5. {<<key[i], val[i]>> : i \in UsedEntries} =
        {<<k, Map[k]>> : k \in {k \in Key : Map[k] # Absent}}
  BY <1>1, <1>2, <1>4
<1>6. ASSUME NEW k \in Key
      PROVE  Map[k] = IF Hits(k) = {} THEN Absent ELSE val[CHOOSE i \in Hits(k) : TRUE]
  <2>1. CASE Hits(k) = {}
    BY <2>1, BoundKeys DEF Map
  <2>2. CASE Hits(k) # {}
    <3>1. (CHOOSE i \in Hits(k) : TRUE) \in Hits(k)
      BY <2>2
    <3> QED
      BY <2>2, <3>1, <1>4, HitsAreEntries
  <2> QED BY <2>1, <2>2
<1> QED
  BY <1>3, <1>5, <1>6

(* hash-table.c implements the finite map of module Table (the property    *)
(* ImplementsTable): each operation changes and answers what Table says,   *)
(* and the steps that enlarge the table, or never end, change nothing.     *)
THEOREM TableImplemented == Spec => ImplementsTable
<1>1. Init => AsTable!Init
  <2> SUFFICES ASSUME Init PROVE AsTable!Init
    OBVIOUS
  <2>1. \A i \in Slots(size) : key[i] = Unbound
    BY DEF Init
  <2>2. \A k \in Key : Binding(k) = Absent
    BY <2>1, HashAssumption DEF Binding
  <2> QED
    BY <2>2 DEF Init, AsTable!Init
<1>2. HashInv /\ HashInv' /\ [Next]_vars => [AsTable!Next]_AsTable!tableVars
  <2> SUFFICES ASSUME HashInv, HashInv', [Next]_vars
               PROVE  AsTable!Next \/ UNCHANGED <<Map, answer>>
    BY DEF AsTable!tableVars, Map
  <2> USE DEF AsTable!Next
  <2>1. ASSUME NEW k \in Key, NEW v \in Value, Set(k, v) PROVE AsTable!Next
    <3>1. AsTable!Set(k, v)
      BY <2>1, SetRefines DEF Map, Set, AsTable!Set
    <3> QED BY <3>1
  <2>2. ASSUME NEW k \in Key, Remove(k) PROVE AsTable!Next
    <3>1. AsTable!Remove(k)
      BY <2>2, RemoveRefines DEF Map, Remove, AsTable!Remove
    <3> QED BY <3>1
  <2>3. ASSUME NEW k \in Key, Ref(k) PROVE AsTable!Next
    <3>1. Map' = Map
      BY <2>3, SameMap DEF Ref
    <3>2. answer' = <<"value", Map[k]>>
      BY <2>3, Answers DEF Ref
    <3>3. AsTable!Ref(k)
      BY <3>1, <3>2 DEF Map, AsTable!Ref
    <3> QED BY <3>3
  <2>4. CASE Clear
    <3>1. AsTable!Clear
      BY <2>4, ClearRefines DEF Map, Clear, AsTable!Clear
    <3> QED BY <3>1
  <2>5. CASE Length
    <3>1. Map' = Map
      BY <2>5, SameMap DEF Length
    <3>2. answer' = <<"length", Cardinality({k \in Key : Map[k] # Absent})>>
      BY <2>5, Answers DEF Length
    <3>3. AsTable!Length
      <4>1. {k \in Key : Map[k] # Absent} = AsTable!Bound
        BY DEF Map, AsTable!Bound
      <4>2. AsTable!Cardinality(AsTable!Bound) = Cardinality(AsTable!Bound)
        BY DEF Cardinality, AsTable!Cardinality
      <4> QED BY <3>1, <3>2, <4>1, <4>2 DEF Map, AsTable!Length
    <3> QED BY <3>3
  <2>6. CASE Alist
    <3>1. Map' = Map
      BY <2>6, SameMap DEF Alist
    <3>2. answer' = <<"alist", {<<k, Map[k]>> : k \in {k \in Key : Map[k] # Absent}}>>
      BY <2>6, Answers DEF Alist
    <3>3. AsTable!Alist
      BY <3>1, <3>2 DEF Map, AsTable!Alist, AsTable!Bound
    <3> QED BY <3>3
  <2>7. ASSUME NEW k \in Key, Hang(k) PROVE UNCHANGED <<Map, answer>>
    BY <2>7, SameMap DEF Hang
  <2>8. CASE CopyEntry
    BY <2>8, SameMap DEF CopyEntry
  <2>9. CASE Replace
    BY <2>9, ReplaceRefines DEF Replace
  <2>10. CASE UNCHANGED vars
    BY <2>10, SameMap DEF vars
  <2> QED
    BY <2>1, <2>2, <2>3, <2>4, <2>5, <2>6, <2>7, <2>8, <2>9, <2>10 DEF Next
<1> QED
  BY <1>1, <1>2, HashInvariant, PTL DEF Spec, ImplementsTable, AsTable!Spec
=============================================================================
