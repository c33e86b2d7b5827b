--------------------------- MODULE PackagesProofs ---------------------------
(***************************************************************************)
(* The invariants of module Packages, for any packages, symbols and names. *)
(***************************************************************************)
EXTENDS Packages, WellFoundedInduction, TLAPS

(* A sequence of packages with no package in it twice.                     *)
UseList(seq) ==
    seq \in Seq(Pkg) /\ \A i, j \in DOMAIN seq : i # j => seq[i] # seq[j]

(* A package that does not exist is named nowhere.                         *)
Nonexistent == \A p \in Pkg : pname[p] = None =>
    p \notin listed /\ p # current /\ uses[p] = << >>

(* No two listed packages have the same name.                              *)
NamesDiffer == \A p, q \in listed : pname[p] = pname[q] => p = q

(* Symbols yet to be made have no home and are bound nowhere.              *)
Unmade == \A s \in Sym : s \notin made => home[s] = None

PackagesInv ==
    TypeOK /\ Nonexistent /\ NamesDiffer /\ Unmade /\ HomeHolds

-----------------------------------------------------------------------------
(* Use lists                                                               *)

(* Removing a package from a use list leaves a list of the others, each    *)
(* once.                                                                   *)
LEMMA WithoutSeq ==
  ASSUME NEW seq, UseList(seq), NEW r
  PROVE  /\ UseList(Without(seq, r))
         /\ ElementsOf(Without(seq, r)) = ElementsOf(seq) \ {r}
<1>1. CASE r \notin ElementsOf(seq)
  BY <1>1 DEF Without, ElementsOf
<1>2. CASE r \in ElementsOf(seq)
  <2> DEFINE k == CHOOSE i \in DOMAIN seq : seq[i] = r
             n == Len(seq)
             t == [j \in 1 .. n - 1 |-> IF j < k THEN seq[j] ELSE seq[j + 1]]
  <2>1. k \in 1 .. n /\ seq[k] = r /\ DOMAIN seq = 1 .. n /\ n \in Nat
    BY <1>2 DEF ElementsOf, UseList
  <2>2. Without(seq, r) = t
    BY <1>2 DEF Without
  <2> HIDE DEF k
  <2>3. n - 1 \in Nat /\ \A j \in 1 .. n - 1 : t[j] \in Pkg
    BY <2>1 DEF UseList
  <2>4. t \in Seq(Pkg) /\ DOMAIN t = 1 .. n - 1
    BY <2>3
  <2>5. \A i, j \in 1 .. n - 1 : i # j => t[i] # t[j]
    BY <2>1 DEF UseList
  <2>6. ASSUME NEW i \in 1 .. n - 1 PROVE t[i] \in ElementsOf(seq) \ {r}
    BY <2>1 DEF UseList, ElementsOf
  <2>7. ASSUME NEW i \in 1 .. n, seq[i] # r PROVE \E j \in 1 .. n - 1 : t[j] = seq[i]
    <3>1. CASE i < k
      <4>1. i \in 1 .. n - 1 /\ t[i] = seq[i]
        BY <3>1, <2>1
      <4> QED BY <4>1
    <3>2. CASE i > k
      <4>1. i - 1 \in 1 .. n - 1 /\ t[i - 1] = seq[i]
        BY <3>2, <2>1
      <4> QED BY <4>1
    <3> QED
      BY <3>1, <3>2, <2>1, <2>7
  <2>8. ElementsOf(t) = ElementsOf(seq) \ {r}
    <3>1. ElementsOf(t) \subseteq ElementsOf(seq) \ {r}
      BY <2>4, <2>6 DEF ElementsOf
    <3>2. ElementsOf(seq) \ {r} \subseteq ElementsOf(t)
      BY <2>1, <2>4, <2>7 DEF ElementsOf
    <3> QED BY <3>1, <3>2
  <2> QED
    BY <2>2, <2>4, <2>5, <2>8 DEF UseList
<1> QED
  BY <1>1, <1>2

(* A package put at the end of a use list it is not on makes a use list.   *)
LEMMA AppendSeq ==
  ASSUME NEW seq, UseList(seq), NEW r \in Pkg, r \notin ElementsOf(seq)
  PROVE  /\ UseList(Append(seq, r))
         /\ ElementsOf(Append(seq, r)) = ElementsOf(seq) \cup {r}
<1>1. /\ Append(seq, r) \in Seq(Pkg)
      /\ DOMAIN Append(seq, r) = 1 .. Len(seq) + 1
      /\ DOMAIN seq = 1 .. Len(seq) /\ Len(seq) \in Nat
      /\ \A i \in 1 .. Len(seq) : Append(seq, r)[i] = seq[i]
      /\ Append(seq, r)[Len(seq) + 1] = r
  BY DEF UseList
<1>2. \A i \in 1 .. Len(seq) : seq[i] # r
  BY <1>1 DEF ElementsOf
<1>3. \A i, j \in 1 .. Len(seq) + 1 : i # j => Append(seq, r)[i] # Append(seq, r)[j]
  BY <1>1, <1>2 DEF UseList
<1>4. ElementsOf(Append(seq, r)) = ElementsOf(seq) \cup {r}
  BY <1>1 DEF ElementsOf
<1> QED
  BY <1>1, <1>3, <1>4 DEF UseList

-----------------------------------------------------------------------------
(* Facts of a state                                                        *)

(* The types say that a package is on a use list once at most.             *)
LEMMA UsesAreLists ==
  ASSUME TypeOK PROVE \A p \in Pkg : UseList(uses[p])
BY DEF TypeOK, UseList

(* FindPackage finds a package by its name.                                *)
LEMMA FindsByName ==
  ASSUME TypeOK, NamesDiffer
  PROVE  /\ \A p \in listed : FindPackage(pname[p]) = p
         /\ \A n : FindPackage(n) = None => \A p \in listed : pname[p] # n
<1>1. ASSUME NEW p \in listed, NEW n, pname[p] = n
      PROVE  FindPackage(n) \in listed /\ pname[FindPackage(n)] = n
  BY <1>1 DEF FindPackage
<1>2. listed \subseteq Pkg /\ None \notin Pkg
  BY PackagesAssumption DEF TypeOK
<1> QED
  BY <1>1, <1>2 DEF NamesDiffer

(* The packages programs work on exist.                                    *)
LEMMA TargetsExist == \A p \in Targets : p \in Pkg /\ pname[p] # None
BY DEF Targets

-----------------------------------------------------------------------------
(* The inductive invariant                                                 *)

(* One listed package, which uses none and has no symbols, satisfies the   *)
(* invariant.                                                              *)
LEMMA InvInit == Init => PackagesInv
<1> SUFFICES ASSUME Init PROVE PackagesInv
  OBVIOUS
<1> USE PackagesAssumption
<1>1. PICK p \in Pkg, n \in PkgName :
        /\ listed = {p}
        /\ pname = [q \in Pkg |-> IF q = p THEN n ELSE None]
        /\ current = p
  BY DEF Init
<1>2. \A q \in Pkg : uses[q] = << >>
  BY DEF Init
<1>3. TypeOK
  <2>1. uses \in [Pkg -> Seq(Pkg)] /\ \A q \in Pkg : DOMAIN uses[q] = {}
    BY DEF Init
  <2>2. bindings \in [Pkg -> [Name -> Record \cup {None}]]
    BY DEF Init
  <2> QED
    BY <1>1, <2>1, <2>2 DEF Init, TypeOK
<1>4. Nonexistent
  BY <1>1, <1>2 DEF Nonexistent
<1>5. NamesDiffer
  BY <1>1 DEF NamesDiffer
<1>6. Unmade /\ HomeHolds
  BY DEF Init, Unmade, HomeHolds
<1> QED
  BY <1>3, <1>4, <1>5, <1>6 DEF PackagesInv

(* Steps that bind and home no symbol keep the part about symbols.         *)
LEMMA SameSymbols ==
  ASSUME PackagesInv, UNCHANGED <<bindings, made, home>>
  PROVE  Unmade' /\ HomeHolds'
BY DEF PackagesInv, Unmade, HomeHolds, FoundHere, Has, Direct

(* Steps on symbols keep the part about packages.                          *)
LEMMA SamePackages ==
  ASSUME PackagesInv, UNCHANGED <<listed, pname, uses, current>>
  PROVE  Nonexistent' /\ NamesDiffer'
BY DEF PackagesInv, Nonexistent, NamesDiffer

(* make-package! and in-package! of a new name keep the invariant: the     *)
(* package has no symbols yet and is on no use list.                       *)
LEMMA MakeStep ==
  ASSUME PackagesInv, NEW p \in Pkg, NEW n \in PkgName,
         Make(p, n), current' \in {current, p}
  PROVE  PackagesInv'
<1> USE PackagesAssumption DEF PackagesInv
<1>1. TypeOK'
  BY DEF TypeOK, Make
<1>2. Nonexistent'
  BY DEF TypeOK, Make, Nonexistent
<1>3. NamesDiffer'
  <2>1. \A q \in listed : pname[q] # n /\ q \in Pkg /\ q # p
    BY FindsByName DEF Make, TypeOK, Nonexistent
  <2> QED
    BY <2>1 DEF TypeOK, Make, NamesDiffer
<1>4. Unmade' /\ HomeHolds'
  BY SameSymbols DEF Make
<1> QED
  BY <1>1, <1>2, <1>3, <1>4

(* rename-package! keeps the invariant: it refuses a name in use.          *)
LEMMA RenameStep ==
  ASSUME PackagesInv, NEW p \in Pkg, NEW n \in PkgName, RenamePackage(p, n)
  PROVE  PackagesInv'
<1> USE PackagesAssumption DEF PackagesInv
<1>1. TypeOK'
  BY DEF TypeOK, RenamePackage
<1>2. Nonexistent'
  BY TargetsExist DEF TypeOK, RenamePackage, Nonexistent
<1>3. NamesDiffer'
  <2>1. \A q \in listed : pname[q] # n /\ q \in Pkg
    BY FindsByName DEF RenamePackage, TypeOK
  <2> QED
    BY <2>1 DEF TypeOK, RenamePackage, NamesDiffer
<1>4. Unmade' /\ HomeHolds'
  BY SameSymbols DEF RenamePackage
<1> QED
  BY <1>1, <1>2, <1>3, <1>4

(* delete-package! keeps the invariant: the symbols it uninterns lose the  *)
(* home they had there.                                                    *)
LEMMA DeleteStep ==
  ASSUME PackagesInv, NEW p \in Pkg, DeletePackage(p)
  PROVE  PackagesInv'
<1> USE PackagesAssumption DEF PackagesInv
<1>1. \A q \in Pkg : UseList(uses'[q])
  BY UsesAreLists, WithoutSeq DEF TypeOK, DeletePackage
<1>2. TypeOK'
  <2>1. uses' \in [Pkg -> Seq(Pkg)]
    BY <1>1 DEF DeletePackage, UseList
  <2>2. bindings' \in [Pkg -> [Name -> Record \cup {None}]]
    BY DEF DeletePackage, TypeOK
  <2>3. home' \in [Sym -> Pkg \cup {None}]
    BY DEF DeletePackage, TypeOK
  <2> QED
    BY <1>1, <2>1, <2>2, <2>3 DEF DeletePackage, TypeOK, UseList
<1>3. Nonexistent'
  <2>1. \A q \in Pkg : q \notin listed => uses'[q] = uses[q]
    BY DEF DeletePackage
  <2> QED
    BY <2>1 DEF DeletePackage, Nonexistent
<1>4. NamesDiffer'
  BY DEF DeletePackage, NamesDiffer
<1>5. Unmade'
  BY DEF DeletePackage, TypeOK, Unmade
<1>6. HomeHolds'
  <2> SUFFICES ASSUME NEW s \in Sym, home'[s] # None
               PROVE  FoundHere(home[s], s)'
    BY DEF HomeHolds
  <2>1. home'[s] = IF FoundHere(p, s) /\ home[s] = p THEN None ELSE home[s]
    BY DEF DeletePackage
  <2>2. home'[s] = home[s] /\ home[s] \in Pkg /\ FoundHere(home[s], s) /\ home[s] # p
    BY <2>1 DEF TypeOK, HomeHolds
  <2>3. bindings'[home[s]] = bindings[home[s]]
    BY <2>2 DEF DeletePackage, TypeOK
  <2> QED
    BY <2>2, <2>3 DEF FoundHere, Has, Direct
<1> QED
  BY <1>2, <1>3, <1>4, <1>5, <1>6

(* use-package! keeps the invariant: a package asked for again is moved,   *)
(* not added.                                                              *)
LEMMA UseStep ==
  ASSUME PackagesInv, NEW q \in Pkg, NEW p \in Pkg, UsePackage(q, p)
  PROVE  PackagesInv'
<1> USE PackagesAssumption DEF PackagesInv
<1>1. UseList(uses'[p]) /\ ElementsOf(uses'[p]) = ElementsOf(uses[p]) \cup {q}
  <2>1. /\ UseList(Without(uses[p], q))
        /\ ElementsOf(Without(uses[p], q)) = ElementsOf(uses[p]) \ {q}
    BY UsesAreLists, WithoutSeq
  <2>2. uses'[p] = Append(Without(uses[p], q), q)
    BY DEF UsePackage, TypeOK
  <2>3. /\ UseList(Append(Without(uses[p], q), q))
        /\ ElementsOf(Append(Without(uses[p], q), q))
              = ElementsOf(Without(uses[p], q)) \cup {q}
    BY <2>1, AppendSeq
  <2> QED
    BY <2>1, <2>2, <2>3
<1>2. \A r \in Pkg : r # p => uses'[r] = uses[r]
  BY DEF UsePackage, TypeOK
<1>3. TypeOK'
  BY <1>1, <1>2 DEF UsePackage, TypeOK, UseList
<1>4. Nonexistent'
  BY <1>2, TargetsExist DEF UsePackage, Nonexistent
<1>5. NamesDiffer'
  BY DEF UsePackage, NamesDiffer
<1>6. Unmade' /\ HomeHolds'
  BY SameSymbols DEF UsePackage
<1> QED
  BY <1>3, <1>4, <1>5, <1>6

(* A step that binds the name n of p to the symbol s leaves every other    *)
(* symbol in its home, if n was not the home of another.                   *)
LEMMA BindStep ==
  ASSUME PackagesInv, NEW s \in Sym, NEW p \in Pkg, NEW r \in Record, r.sym = s,
         bindings' = [bindings EXCEPT ![p][NameOf[s]] = r],
         ~ Has(p, NameOf[s])
  PROVE  /\ bindings' \in [Pkg -> [Name -> Record \cup {None}]]
         /\ FoundHere(p, s)'
         /\ \A q \in Pkg, t \in Sym : FoundHere(q, t) => FoundHere(q, t)'
<1> USE PackagesAssumption DEF PackagesInv
<1>1. NameOf[s] \in Name /\ r # None
  BY DEF Record
<1>2. bindings' \in [Pkg -> [Name -> Record \cup {None}]]
  BY <1>1 DEF TypeOK
<1>3. bindings'[p][NameOf[s]] = r
  BY <1>1 DEF TypeOK
<1>4. ASSUME NEW q \in Pkg, NEW t \in Sym, FoundHere(q, t)
      PROVE  bindings'[q][NameOf[t]] = bindings[q][NameOf[t]]
  <2>1. ~ (q = p /\ NameOf[t] = NameOf[s])
    BY <1>4 DEF FoundHere
  <2>2. NameOf[t] \in Name
    OBVIOUS
  <2> QED
    BY <1>1, <2>1, <2>2 DEF TypeOK
<1>5. FoundHere(p, s)'
  BY <1>1, <1>3 DEF FoundHere, Has, Direct
<1>6. ASSUME NEW q \in Pkg, NEW t \in Sym, FoundHere(q, t) PROVE FoundHere(q, t)'
  BY <1>4, <1>6 DEF FoundHere, Has, Direct
<1> QED
  BY <1>2, <1>5, <1>6

(* A new symbol is at home in the package it is interned in, where its     *)
(* name was not bound: the invariant is kept.                              *)
LEMMA AddNewStep ==
  ASSUME PackagesInv, NEW s \in Sym, NEW p \in Pkg,
         ~ Has(p, NameOf[s]), AddNew(s, p, FALSE)
  PROVE  PackagesInv'
<1> USE PackagesAssumption DEF PackagesInv
<1> DEFINE r == New(s)
<1>1. r \in Record /\ r.sym = s
  BY DEF New, Record
<1>2. bindings' = [bindings EXCEPT ![p][NameOf[s]] = r]
  BY DEF AddNew, New
<1> HIDE DEF r
<1>3. /\ bindings' \in [Pkg -> [Name -> Record \cup {None}]]
      /\ FoundHere(p, s)'
      /\ \A q \in Pkg, t \in Sym : FoundHere(q, t) => FoundHere(q, t)'
  BY <1>1, <1>2, BindStep
<1>4. TypeOK'
  BY <1>3 DEF AddNew, TypeOK
<1>5. \A t \in Sym : home'[t] = IF t = s THEN p ELSE home[t]
  BY DEF AddNew, TypeOK
<1>6. Unmade'
  BY <1>5 DEF AddNew, Unmade
<1>7. HomeHolds'
  <2> SUFFICES ASSUME NEW t \in Sym, home'[t] # None PROVE FoundHere(home[t], t)'
    BY DEF HomeHolds
  <2>1. CASE t = s
    <3>1. home'[t] = p
      BY <1>5, <2>1
    <3> QED
      BY <1>3, <2>1, <3>1 DEF FoundHere, Has, Direct
  <2>2. CASE t # s
    <3>1. home'[t] = home[t] /\ home[t] \in Pkg /\ FoundHere(home[t], t)
      BY <1>5, <2>2 DEF TypeOK, HomeHolds
    <3> QED
      BY <1>3, <3>1 DEF FoundHere, Has, Direct
  <2> QED BY <2>1, <2>2
<1>8. Nonexistent' /\ NamesDiffer'
  BY SamePackages DEF AddNew
<1> QED
  BY <1>4, <1>6, <1>7, <1>8

(* A step after which every symbol found in its home is found there still. *)
LEMMA KeepHomes ==
  ASSUME PackagesInv, home' = home, made' = made,
         \A q \in Pkg, t \in Sym : FoundHere(q, t) => FoundHere(q, t)'
  PROVE  Unmade' /\ HomeHolds'
<1>1. Unmade'
  BY DEF PackagesInv, Unmade
<1>2. ASSUME NEW t \in Sym, home'[t] # None PROVE FoundHere(home[t], t)'
  <2>1. home'[t] = home[t] /\ home[t] \in Pkg /\ FoundHere(home[t], t)
    BY <1>2 DEF PackagesInv, TypeOK, HomeHolds
  <2> QED
    BY <2>1 DEF FoundHere, Has, Direct
<1> QED
  BY <1>1, <1>2 DEF HomeHolds

(* import! keeps the invariant: it replaces no symbol, so that no symbol   *)
(* loses the binding in its home.                                          *)
LEMMA ImportStep ==
  ASSUME PackagesInv, NEW s \in Sym, NEW p \in Pkg, Import(s, p)
  PROVE  PackagesInv'
<1> USE DEF PackagesInv
<1> DEFINE r == New(s)
<1>1. r \in Record /\ r.sym = s
  BY DEF New, Record
<1>2. bindings' = [bindings EXCEPT ![p][NameOf[s]] = r] /\ ~ Has(p, NameOf[s])
  BY DEF Import
<1> HIDE DEF r
<1>3. /\ bindings' \in [Pkg -> [Name -> Record \cup {None}]]
      /\ \A q \in Pkg, t \in Sym : FoundHere(q, t) => FoundHere(q, t)'
  BY <1>1, <1>2, BindStep
<1>4. TypeOK'
  BY <1>3 DEF Import, TypeOK
<1>5. Unmade' /\ HomeHolds'
  BY <1>3, KeepHomes DEF Import
<1>6. Nonexistent' /\ NamesDiffer'
  BY SamePackages DEF Import
<1> QED
  BY <1>4, <1>5, <1>6

(* export! and unexport! keep the invariant: they change the flag of a     *)
(* binding and not its symbol.                                             *)
LEMMA ExportStep ==
  ASSUME PackagesInv, NEW n \in Name, NEW p \in Pkg, NEW flag \in BOOLEAN,
         SetExportFlag(n, p, flag)
  PROVE  PackagesInv'
<1> USE PackagesAssumption DEF PackagesInv
<1> DEFINE r == [bindings[p][n] EXCEPT !.external = flag]
<1>1. bindings[p][n] \in Record
  BY DEF SetExportFlag, TypeOK, Has, Direct
<1>2. r \in Record /\ r.sym = bindings[p][n].sym /\ r # None
  BY <1>1 DEF Record
<1>3. bindings' = [bindings EXCEPT ![p] = [bindings[p] EXCEPT ![n] = r]]
  BY DEF SetExportFlag
<1> HIDE DEF r
<1>4. /\ bindings' \in [Pkg -> [Name -> Record \cup {None}]]
      /\ bindings'[p][n] = r
      /\ \A q \in Pkg, m \in Name :
            q # p \/ m # n => bindings'[q][m] = bindings[q][m]
  BY <1>2, <1>3 DEF TypeOK
<1>5. ASSUME NEW q \in Pkg, NEW t \in Sym, FoundHere(q, t) PROVE FoundHere(q, t)'
  <2>1. NameOf[t] \in Name
    OBVIOUS
  <2>2. CASE q = p /\ NameOf[t] = n
    BY <1>2, <1>4, <1>5, <2>2 DEF FoundHere, Has, Direct
  <2>3. CASE q # p \/ NameOf[t] # n
    <3>1. bindings'[q][NameOf[t]] = bindings[q][NameOf[t]]
      BY <1>4, <2>1, <2>3
    <3> QED
      BY <1>5, <3>1 DEF FoundHere, Has, Direct
  <2> QED BY <2>2, <2>3
<1>6. TypeOK'
  BY <1>4 DEF SetExportFlag, TypeOK
<1>7. Unmade' /\ HomeHolds'
  BY <1>5, KeepHomes DEF SetExportFlag
<1>8. Nonexistent' /\ NamesDiffer'
  BY SamePackages DEF SetExportFlag
<1> QED
  BY <1>6, <1>7, <1>8

(* import-package! keeps the invariant, also when it stops at a conflict:  *)
(* the names it has dealt with were unbound or bound to the same symbol.   *)
LEMMA ImportPackageStep ==
  ASSUME PackagesInv, NEW q \in Pkg, NEW p \in Pkg, NEW flag \in BOOLEAN,
         ImportPackage(q, p, flag)
  PROVE  PackagesInv'
<1> USE PackagesAssumption DEF PackagesInv
<1> DEFINE r(n) == [sym      |-> Direct(q, n).sym,
                    external |-> flag \/ (Has(p, n) /\ Direct(p, n).external)]
<1>1. PICK done \in SUBSET (Exports(q) \ Conflicts(q, p)) :
        bindings' = [bindings EXCEPT ![p] = [n \in Name |->
                        IF n \in done THEN r(n) ELSE Direct(p, n)]]
  BY DEF ImportPackage
<1>2. ASSUME NEW n \in done
      PROVE  /\ n \in Name /\ r(n) \in Record /\ r(n) # None
             /\ Has(p, n) => Direct(p, n).sym = r(n).sym
  <2>1. n \in Name /\ Has(q, n) /\ n \notin Conflicts(q, p)
    BY <1>2 DEF Exports
  <2>2. Direct(q, n) \in Record
    BY <2>1 DEF TypeOK, Has, Direct
  <2>3. Direct(q, n).sym \in Sym
    BY <2>2 DEF Record
  <2>4. Has(p, n) => Direct(p, n).external \in BOOLEAN
    BY <2>1 DEF TypeOK, Has, Direct, Record
  <2>5. r(n) \in Record
    BY <2>3, <2>4 DEF Record
  <2>6. Has(p, n) => Direct(p, n).sym = Direct(q, n).sym
    BY <1>2, <2>1 DEF Conflicts
  <2> QED
    BY <2>1, <2>5, <2>6 DEF Record
<1> HIDE DEF r
<1>3. bindings' \in [Pkg -> [Name -> Record \cup {None}]]
  BY <1>1, <1>2 DEF TypeOK, Direct
<1>4. ASSUME NEW o \in Pkg, NEW t \in Sym, FoundHere(o, t) PROVE FoundHere(o, t)'
  <2>1. NameOf[t] \in Name
    OBVIOUS
  <2>2. CASE o = p /\ NameOf[t] \in done
    <3>1. bindings'[o][NameOf[t]] = r(NameOf[t])
      BY <1>1, <2>1, <2>2 DEF TypeOK
    <3>2. r(NameOf[t]) # None /\ r(NameOf[t]).sym = t
      BY <1>2, <1>4, <2>2 DEF FoundHere
    <3> QED
      BY <3>1, <3>2 DEF FoundHere, Has, Direct
  <2>3. CASE ~ (o = p /\ NameOf[t] \in done)
    <3>1. bindings'[o][NameOf[t]] = bindings[o][NameOf[t]]
      BY <1>1, <2>1, <2>3 DEF TypeOK, Direct
    <3> QED
      BY <1>4, <3>1 DEF FoundHere, Has, Direct
  <2> QED BY <2>2, <2>3
<1>5. TypeOK'
  BY <1>3 DEF ImportPackage, TypeOK
<1>6. Unmade' /\ HomeHolds'
  BY <1>4, KeepHomes DEF ImportPackage
<1>7. Nonexistent' /\ NamesDiffer'
  BY SamePackages DEF ImportPackage
<1> QED
  BY <1>5, <1>6, <1>7

(* unintern! keeps the invariant: a symbol that is removed from its home   *)
(* has none.                                                               *)
LEMMA UninternStep ==
  ASSUME PackagesInv, NEW s \in Sym, NEW p \in Pkg, Unintern(s, p)
  PROVE  PackagesInv'
<1> USE PackagesAssumption DEF PackagesInv
<1>1. NameOf[s] \in Name
  OBVIOUS
<1>2. bindings' = [bindings EXCEPT ![p][NameOf[s]] = None]
  BY DEF Unintern
<1>3. bindings' \in [Pkg -> [Name -> Record \cup {None}]]
  BY <1>1, <1>2 DEF TypeOK
<1>4. /\ home' \in [Sym -> Pkg \cup {None}]
      /\ \A t \in Sym : home'[t] = IF t = s /\ home[s] = p THEN None ELSE home[t]
  BY DEF Unintern, TypeOK
<1>5. TypeOK'
  BY <1>3, <1>4 DEF Unintern, TypeOK
<1>6. Unmade'
  BY <1>4 DEF Unintern, Unmade
<1>7. HomeHolds'
  <2> SUFFICES ASSUME NEW t \in Sym, home'[t] # None PROVE FoundHere(home[t], t)'
    BY DEF HomeHolds
  <2>1. home'[t] = home[t] /\ home[t] \in Pkg /\ FoundHere(home[t], t)
    BY <1>4 DEF TypeOK, HomeHolds
  <2>2. ~ (home[t] = p /\ NameOf[t] = NameOf[s])
    <3>1. SUFFICES ASSUME home[t] = p, NameOf[t] = NameOf[s] PROVE FALSE
      OBVIOUS
    <3>2. t = s
      BY <2>1, <3>1 DEF Unintern, FoundHere
    <3> QED
      BY <1>4, <3>1, <3>2
  <2>3. bindings'[home[t]][NameOf[t]] = bindings[home[t]][NameOf[t]]
    BY <1>1, <1>2, <2>1, <2>2 DEF TypeOK
  <2> QED
    BY <2>1, <2>3 DEF FoundHere, Has, Direct
<1>8. Nonexistent' /\ NamesDiffer'
  BY SamePackages DEF Unintern
<1> QED
  BY <1>5, <1>6, <1>7, <1>8

(* The invariant speaks of the state alone.                                *)
LEMMA StutterStep ==
  ASSUME PackagesInv, UNCHANGED vars PROVE PackagesInv'
BY DEF vars, PackagesInv, TypeOK, Nonexistent, NamesDiffer, Unmade, HomeHolds,
       FoundHere, Has, Direct

(* Every step preserves the invariant.                                     *)
LEMMA InvStep == PackagesInv /\ [Next]_vars => PackagesInv'
<1> SUFFICES ASSUME PackagesInv, [Next]_vars PROVE PackagesInv'
  OBVIOUS
<1>1. ASSUME NEW p \in Pkg, NEW n \in PkgName,
             MakePackage(p, n) \/ InNewPackage(p, n) \/ RenamePackage(p, n)
      PROVE  PackagesInv'
  BY <1>1, MakeStep, RenameStep DEF MakePackage, InNewPackage
<1>2. ASSUME NEW p \in Pkg, InPackage(p) \/ DeletePackage(p) PROVE PackagesInv'
  <2>1. CASE InPackage(p)
    BY <2>1, TargetsExist DEF InPackage, PackagesInv, TypeOK, Nonexistent, NamesDiffer, Unmade,
                HomeHolds, FoundHere, Has, Direct
  <2>2. CASE DeletePackage(p)
    BY <2>2, DeleteStep
  <2> QED BY <1>2, <2>1, <2>2
<1>3. ASSUME NEW p \in Pkg, NEW q \in Pkg,
             \/ UsePackage(q, p)
             \/ \E flag \in BOOLEAN : ImportPackage(q, p, flag)
      PROVE  PackagesInv'
  BY <1>3, UseStep, ImportPackageStep
<1>4. ASSUME NEW s \in Sym, NEW p \in Pkg, Intern(s, p) \/ Shadow(s, p)
      PROVE  PackagesInv'
  <2>1. Has(p, NameOf[s]) => Accessible(p, NameOf[s])
    <3>1. SUFFICES ASSUME Has(p, NameOf[s]) PROVE 1 \in VisibleAt(p, NameOf[s])
      BY DEF Accessible
    <3>2. uses[p] \in Seq(Pkg)
      BY DEF PackagesInv, TypeOK
    <3>3. 1 \in DOMAIN SearchPath(p) /\ SearchPath(p)[1] = p
      BY <3>2 DEF SearchPath
    <3> QED
      BY <3>1, <3>3 DEF VisibleAt
  <2>2. ~ Has(p, NameOf[s]) /\ AddNew(s, p, FALSE)
    BY <1>4, <2>1 DEF Intern, Shadow
  <2> QED
    BY <2>2, AddNewStep
<1>5. ASSUME NEW s \in Sym, NEW p \in Pkg, Import(s, p) \/ Unintern(s, p)
      PROVE  PackagesInv'
  BY <1>5, ImportStep, UninternStep
<1>6. ASSUME NEW n \in Name, NEW p \in Pkg, NEW flag \in BOOLEAN,
             SetExportFlag(n, p, flag)
      PROVE  PackagesInv'
  BY <1>6, ExportStep
<1>7. CASE UNCHANGED vars
  BY <1>7, StutterStep
<1> QED
  BY <1>1, <1>2, <1>3, <1>4, <1>5, <1>6, <1>7 DEF Next

(* The invariant holds in every reachable state.                           *)
THEOREM PackagesInvariant == Spec => []PackagesInv
<1>1. Init => PackagesInv
  BY InvInit
<1>2. PackagesInv /\ [Next]_vars => PackagesInv'
  BY InvStep
<1> QED
  BY <1>1, <1>2, PTL DEF Spec

(* The state keeps its types; no use list has a package twice.             *)
(* (use-package!, delete-package!)                                         *)
THEOREM PackagesTypes == Spec => []TypeOK
<1>1. PackagesInv => TypeOK
  BY DEF PackagesInv
<1> QED
  BY <1>1, PackagesInvariant, PTL

(* The home of a symbol binds its name to it.                              *)
(* (import!, shadow-symbol!, intern!, unintern!, delete-package!)          *)
THEOREM HomesHold == Spec => []HomeHolds
<1>1. PackagesInv => HomeHolds
  BY DEF PackagesInv
<1> QED
  BY <1>1, PackagesInvariant, PTL

(* A step leaves a package that is not listed afterwards without listed    *)
(* users and without symbols at home in it, but for those that the package *)
(* itself was given to, or that it had when it was unlisted already.       *)
LEMMA SeversStep ==
  ASSUME PackagesInv, [Next]_vars, NEW d \in Pkg \ listed'
  PROVE  /\ \A p \in listed' : d \in ElementsOf(uses'[p]) =>
               (d \notin listed /\ d \in ElementsOf(uses[p])) \/ UsePackage(d, p)
         /\ \A s \in Sym : home'[s] = d =>
               (d \notin listed /\ home[s] = d) \/ s \notin made
<1> USE PackagesAssumption
<1>0. TypeOK /\ HomeHolds /\ d \in Pkg /\ d # None
  BY DEF PackagesInv
<1>1. ASSUME listed \subseteq listed', UNCHANGED <<uses, home>>
      PROVE  /\ \A p \in listed' : d \in ElementsOf(uses'[p]) =>
                  d \notin listed /\ d \in ElementsOf(uses[p])
             /\ \A s \in Sym : home'[s] = d => d \notin listed /\ home[s] = d
  BY <1>1
<1>2. ASSUME NEW p \in Pkg, NEW n \in PkgName,
             MakePackage(p, n) \/ InNewPackage(p, n) \/ RenamePackage(p, n)
      PROVE  listed \subseteq listed' /\ UNCHANGED <<uses, home>>
  BY <1>2 DEF MakePackage, InNewPackage, Make, RenamePackage
<1>3. ASSUME NEW q \in Pkg, DeletePackage(q)
      PROVE  /\ \A p \in listed' : d \in ElementsOf(uses'[p]) =>
                  d \notin listed /\ d \in ElementsOf(uses[p])
             /\ \A s \in Sym : home'[s] = d => d \notin listed /\ home[s] = d
  <2>1. listed' = listed \ {q} /\ listed \subseteq Pkg
    BY <1>0, <1>3 DEF DeletePackage, TypeOK
  <2>2. \A p \in listed : ElementsOf(uses'[p]) = ElementsOf(uses[p]) \ {q}
    BY <1>0, <1>3, UsesAreLists, WithoutSeq DEF TypeOK, DeletePackage
  <2>3. d = q \/ d \notin listed
    BY <2>1
  <2>4. ASSUME NEW s \in Sym, home'[s] = d PROVE d # q /\ home[s] = d
    <3>1. home'[s] = IF FoundHere(q, s) /\ home[s] = q THEN None ELSE home[s]
      BY <1>3 DEF DeletePackage
    <3>2. home[s] = d
      BY <1>0, <2>4, <3>1
    <3>3. FoundHere(d, s)
      BY <1>0, <3>2 DEF HomeHolds
    <3> QED BY <1>0, <2>4, <3>1, <3>2, <3>3
  <2> QED BY <2>1, <2>2, <2>3, <2>4
<1>4. ASSUME NEW q \in Pkg, NEW p \in Pkg, UsePackage(q, p)
      PROVE  /\ \A r \in listed' : d \in ElementsOf(uses'[r]) =>
                  (d \notin listed /\ d \in ElementsOf(uses[r])) \/ UsePackage(d, r)
             /\ \A s \in Sym : home'[s] = d => d \notin listed /\ home[s] = d
  <2>1. /\ listed' = listed /\ home' = home
        /\ uses' = [uses EXCEPT ![p] = Append(Without(uses[p], q), q)]
    BY <1>4 DEF UsePackage
  <2>2. ASSUME NEW r \in listed, d \in ElementsOf(uses'[r]), d \notin ElementsOf(uses[r])
        PROVE  UsePackage(d, r)
    <3>1. r = p /\ r \in Pkg
      BY <1>0, <2>1, <2>2 DEF TypeOK
    <3>2. /\ UseList(Without(uses[p], q))
          /\ ElementsOf(Without(uses[p], q)) = ElementsOf(uses[p]) \ {q}
      BY <1>0, UsesAreLists, WithoutSeq
    <3>3. ElementsOf(Append(Without(uses[p], q), q)) = ElementsOf(uses[p]) \cup {q}
      BY <3>2, AppendSeq
    <3>4. d = q
      BY <1>0, <2>1, <2>2, <3>1, <3>3 DEF TypeOK
    <3> QED BY <1>4, <3>1, <3>4
  <2> QED BY <2>1, <2>2
<1>5. ASSUME NEW s \in Sym, NEW p \in Pkg, NEW x \in BOOLEAN, AddNew(s, p, x)
      PROVE  /\ listed' = listed /\ uses' = uses
             /\ \A t \in Sym : home'[t] = d => home[t] = d \/ t \notin made
  <2>1. \A t \in Sym : t # s => home'[t] = home[t]
    BY <1>0, <1>5 DEF AddNew, TypeOK
  <2> QED BY <1>5, <2>1 DEF AddNew
<1>6. ASSUME NEW s \in Sym, NEW p \in Pkg, Unintern(s, p)
      PROVE  /\ listed' = listed /\ uses' = uses
             /\ \A t \in Sym : home'[t] = d => home[t] = d
  BY <1>0, <1>6 DEF Unintern, TypeOK
<1>7. CASE \/ \E p \in Pkg : InPackage(p)
           \/ \E p, q \in Pkg, flag \in BOOLEAN : ImportPackage(q, p, flag)
           \/ \E s \in Sym, p \in Pkg : Import(s, p)
           \/ \E n \in Name, p \in Pkg, flag \in BOOLEAN : SetExportFlag(n, p, flag)
           \/ UNCHANGED vars
  BY <1>1, <1>7 DEF InPackage, ImportPackage, Import, SetExportFlag, vars
<1>8. CASE \E p \in Pkg, n \in PkgName :
              MakePackage(p, n) \/ InNewPackage(p, n) \/ RenamePackage(p, n)
  BY <1>1, <1>2, <1>8
<1>9. CASE \E s \in Sym, p \in Pkg : Intern(s, p) \/ Shadow(s, p)
  BY <1>5, <1>9 DEF Intern, Shadow
<1> QED
  BY <1>3, <1>4, <1>6, <1>7, <1>8, <1>9 DEF Next

(* Deleting a package severs it from the packages that are listed and from *)
(* the symbols at home in it; only a program that holds the deleted        *)
(* package can tie it to others again.                                     *)
(* (delete-package!, use-package!, intern!, shadow-symbol!)                *)
THEOREM DeletionsSever == Spec => DeletionSevers
<1> DEFINE Severed ==
      \A d \in Pkg \ listed' :
         /\ \A p \in listed' : d \in ElementsOf(uses'[p]) =>
               (d \notin listed /\ d \in ElementsOf(uses[p])) \/ UsePackage(d, p)
         /\ \A s \in Sym : home'[s] = d =>
               (d \notin listed /\ home[s] = d) \/ s \notin made
<1>1. PackagesInv /\ [Next]_vars => [Severed]_vars
  BY SeversStep
<1> QED
  BY <1>1, PackagesInvariant, PTL DEF Spec, DeletionSevers

(* A symbol bound in a package is what its name denotes there.             *)
LEMMA DirectFirst ==
  ASSUME TypeOK, NEW p \in Pkg, NEW n, Has(p, n)
  PROVE  Accessible(p, n) /\ FoundIn(p, n) = p
<1>1. uses[p] \in Seq(Pkg)
  BY DEF TypeOK
<1>2. /\ 1 \in DOMAIN SearchPath(p) /\ SearchPath(p)[1] = p
      /\ \A i \in DOMAIN SearchPath(p) : i \in Int /\ 1 <= i
  BY <1>1 DEF SearchPath
<1>3. 1 \in VisibleAt(p, n) /\ VisibleAt(p, n) \subseteq DOMAIN SearchPath(p)
  BY <1>2 DEF VisibleAt
<1>4. (CHOOSE i \in VisibleAt(p, n) : \A j \in VisibleAt(p, n) : i <= j) = 1
  <2> DEFINE k == CHOOSE i \in VisibleAt(p, n) : \A j \in VisibleAt(p, n) : i <= j
  <2>1. \A j \in VisibleAt(p, n) : 1 <= j
    BY <1>2, <1>3
  <2>2. k \in VisibleAt(p, n) /\ \A j \in VisibleAt(p, n) : k <= j
    BY <1>3, <2>1
  <2>3. k \in Int /\ 1 <= k /\ k <= 1
    BY <1>2, <1>3, <2>2
  <2> QED
    BY <2>3
<1> QED
  BY <1>2, <1>3, <1>4 DEF Accessible, FoundIn

(* A symbol that has a home reads back as it is printed: what is printed   *)
(* names the symbol, alone or with the package it is at home in.           *)
LEMMA InvReadsBack == PackagesInv => ReadsBack
<1> SUFFICES ASSUME PackagesInv, NEW s \in made, home[s] \in listed
             PROVE  Denoted(Printed(s)) = s
  BY DEF ReadsBack
<1> DEFINE n == NameOf[s]
           p == home[s]
<1> USE PackagesAssumption
<1>1. s \in Sym /\ p \in Pkg /\ p # None
  BY DEF PackagesInv, TypeOK
<1>2. FoundHere(p, s)
  BY <1>1 DEF PackagesInv, HomeHolds
<1>3. Accessible(p, n) /\ FoundIn(p, n) = p /\ FindSymbol(p, n) = s
  BY <1>1, <1>2, DirectFirst DEF FoundHere, FindSymbol, PackagesInv
<1>4. FindPackage(pname[p]) = p
  BY FindsByName DEF PackagesInv
<1>5. CASE FindSymbol(current, n) = s
  <2>1. Printed(s) = [form |-> "plain", name |-> n]
    BY <1>1, <1>5 DEF Printed
  <2> QED
    BY <1>5, <2>1 DEF Denoted
<1>6. CASE FindSymbol(current, n) # s /\ Exported(s)
  <2>1. Printed(s) = [form |-> "public", package |-> pname[p], name |-> n]
    BY <1>1, <1>6 DEF Printed
  <2>2. FoundExternal(p, n)
    BY <1>6 DEF Exported
  <2> QED
    BY <1>1, <1>3, <1>4, <2>1, <2>2 DEF Denoted
<1>7. CASE FindSymbol(current, n) # s /\ ~ Exported(s)
  <2>1. Printed(s) = [form |-> "private", package |-> pname[p], name |-> n]
    BY <1>1, <1>7 DEF Printed
  <2> QED
    BY <1>1, <1>3, <1>4, <2>1 DEF Denoted
<1> QED
  BY <1>5, <1>6, <1>7

(* What is printed reads back.  (print-object, accept-symbol)              *)
THEOREM PrintedReadsBack == Spec => []ReadsBack
  BY InvReadsBack, PackagesInvariant, PTL

(* A set of natural numbers has a least element.                           *)
LEMMA LeastExists ==
  ASSUME NEW S \in SUBSET Nat, S # {}
  PROVE  \E i \in S : \A j \in S : i <= j
<1>1. PICK i \in S : \A j \in S : ~ (<<j, i>> \in OpToRel(<, Nat))
  BY NatLessThanWellFounded, WFMin
<1>2. \A j \in S : ~ (j < i)
  BY <1>1 DEF OpToRel
<1> QED
  BY <1>2

(* Interning leaves the places where a name is visible as they were.       *)
LEMMA InternKeepsVisible ==
  ASSUME PackagesInv, NEW s \in Sym, NEW p \in Pkg, Intern(s, p), NEW q \in Pkg
  PROVE  Kept(q)
<1> USE PackagesAssumption
<1>1. PackagesInv' /\ TypeOK /\ ~ Has(p, NameOf[s]) /\ NameOf[s] \in Name
  BY DirectFirst, AddNewStep DEF PackagesInv, Intern
<1>2. /\ uses' = uses
      /\ bindings' = [bindings EXCEPT ![p][NameOf[s]] = [sym |-> s, external |-> FALSE]]
  BY DEF Intern, AddNew
<1>3. \A r \in Pkg, k \in Name :
        r # p \/ k # NameOf[s] => bindings'[r][k] = bindings[r][k]
  BY <1>1, <1>2 DEF TypeOK
<1>4. ~ bindings'[p][NameOf[s]].external
  BY <1>1, <1>2 DEF TypeOK
<1> SUFFICES ASSUME NEW k \in Name, Accessible(q, k)
             PROVE  FindSymbol(q, k)' = FindSymbol(q, k)
  BY DEF Kept
<1>5. SearchPath(q)' = SearchPath(q) /\ \A i \in DOMAIN SearchPath(q) : SearchPath(q)[i] \in Pkg
  <2>1. uses[q] \in Seq(Pkg)
    BY <1>1 DEF TypeOK
  <2> QED
    BY <1>2, <2>1 DEF SearchPath
<1>6. q # p \/ k # NameOf[s]
  BY DEF Intern
<1>7. ASSUME NEW r \in Pkg
      PROVE  (Has(r, k) /\ (r = q \/ k \in Exports(r)))'
               <=> (Has(r, k) /\ (r = q \/ k \in Exports(r)))
  <2>1. CASE r # p \/ k # NameOf[s]
    BY <1>3, <2>1 DEF Has, Direct, Exports
  <2>2. CASE r = p /\ k = NameOf[s]
    BY <1>1, <1>4, <1>6, <2>2 DEF Has, Direct, Exports
  <2> QED BY <2>1, <2>2
<1>8. VisibleAt(q, k)' = VisibleAt(q, k)
  BY <1>5, <1>7 DEF VisibleAt
<1>9. FoundIn(q, k)' = FoundIn(q, k)
  BY <1>5, <1>8 DEF FoundIn
<1>10. FoundIn(q, k) \in Pkg /\ Has(FoundIn(q, k), k)
  <2> DEFINE V == VisibleAt(q, k)
  <2>1. V # {} /\ V \subseteq DOMAIN SearchPath(q)
    BY DEF Accessible, VisibleAt
  <2>2. uses[q] \in Seq(Pkg) /\ V \subseteq Nat
    BY <1>1, <2>1 DEF TypeOK, SearchPath
  <2>3. \E i \in V : \A j \in V : i <= j
    BY <2>1, <2>2, LeastExists
  <2>4. (CHOOSE i \in V : \A j \in V : i <= j) \in V
    BY <2>3
  <2> QED
    BY <1>5, <2>1, <2>4 DEF FoundIn, VisibleAt
<1>11. FoundIn(q, k) # p \/ k # NameOf[s]
  BY <1>1, <1>10
<1>12. bindings'[FoundIn(q, k)][k] = bindings[FoundIn(q, k)][k]
  BY <1>3, <1>10, <1>11
<1> QED
  BY <1>8, <1>9, <1>12 DEF FindSymbol, Accessible, Direct

(* Interning a symbol changes the meaning of no name.  (intern!)           *)
THEOREM InternSafe == Spec => InternKeepsMeaning
<1>1. PackagesInv /\ [Next]_vars
        => [\A s \in Sym \ made, p \in Pkg : Intern(s, p) => \A q \in Pkg : Kept(q)]_vars
  BY InternKeepsVisible
<1> QED
  BY <1>1, PackagesInvariant, PTL DEF Spec, InternKeepsMeaning
=============================================================================
