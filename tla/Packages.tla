------------------------------ MODULE Packages ------------------------------
(***************************************************************************)
(* Packages and symbols: vm/oblist.c and scheme-core/package.scm, and what *)
(* the printer and the reader make of a symbol (scheme-core/printer.scm    *)
(* and reader.scm).                                                        *)
(*                                                                         *)
(* A package is an object with a name, a table from names to records       *)
(* (symbol . exported?), and a list of the packages it uses.  A symbol is  *)
(* an object with a name and a home package, if any.  ->package takes a    *)
(* package itself as well as its name, so that a program which holds one   *)
(* works on it after it has been deleted from *package-list*.  The keyword *)
(* package, which exports whatever is interned in it, and the loading of a *)
(* required package from a file are left out.                              *)
(***************************************************************************)
EXTENDS Integers, Sequences, FiniteSets

CONSTANTS
    Pkg, PkgName,    \* package objects, and names for them
    Sym, Name,       \* symbol objects, and names for them
    NameOf,          \* NameOf[s]: the print name of s
    None,            \* no package, symbol, record or name
    MaxUses,         \* bound: packages on all the use lists
    MaxDeleted       \* bound: packages that exist and are not listed

ASSUME PackagesAssumption ==
    /\ NameOf \in [Sym -> Name]
    /\ None \notin Pkg \cup PkgName \cup Sym \cup [sym : Sym, external : BOOLEAN]
    /\ MaxUses \in Nat
    /\ MaxDeleted \in Nat

VARIABLES
    listed,    \* *package-list*
    pname,     \* the name of a package, None if it does not exist yet
    bindings,  \* bindings[p][n]: the record of n in p, or None
    uses,      \* uses[p]: the use list of p
    made,      \* the symbols that exist
    home,      \* home[s]: the package s is homed in, or None
    current    \* *package*

vars == <<listed, pname, bindings, uses, made, home, current>>

Record == [sym : Sym, external : BOOLEAN]

New(s) == [sym |-> s, external |-> FALSE]

ElementsOf(seq) == {seq[i] : i \in DOMAIN seq}

(* seq without r, which is in it once at most.                             *)
Without(seq, r) ==
    IF r \in ElementsOf(seq)
      THEN LET i == CHOOSE i \in DOMAIN seq : seq[i] = r
           IN  [j \in 1 .. Len(seq) - 1 |-> IF j < i THEN seq[j] ELSE seq[j + 1]]
      ELSE seq

(* What ->package returns: a package of *package-list* by its name, or any *)
(* package that exists, listed or deleted, by itself.                      *)
Targets == {p \in Pkg : pname[p] # None}

RoomForDeletion(p) == Cardinality(Targets \ (listed \ {p})) <= MaxDeleted

RoomForUse ==
    Cardinality({u \in Pkg \X (1 .. MaxUses) : u[2] <= Len(uses[u[1]])}) < MaxUses

-----------------------------------------------------------------------------
(* Finding symbols and packages                                            *)

Direct(p, n) == bindings[p][n]

Has(p, n) == Direct(p, n) # None

Exports(p) == {n \in Name : Has(p, n) /\ Direct(p, n).external}

(* p and the packages it uses, in the order they are searched.             *)
SearchPath(p) == <<p>> \o uses[p]

(* The places on the search path of p at which the name n is visible.      *)
VisibleAt(p, n) ==
    {i \in DOMAIN SearchPath(p) :
        LET q == SearchPath(p)[i]
        IN  Has(q, n) /\ (q = p \/ n \in Exports(q))}

Accessible(p, n) == VisibleAt(p, n) # {}

(* find-symbol-record of a name.                                           *)
FoundIn(p, n) ==
    SearchPath(p)[CHOOSE i \in VisibleAt(p, n) : \A j \in VisibleAt(p, n) : i <= j]

FindSymbol(p, n) ==
    IF Accessible(p, n) THEN Direct(FoundIn(p, n), n).sym ELSE None

(* find-symbol says :external.                                             *)
FoundExternal(p, n) == Accessible(p, n) /\ FoundIn(p, n) = p /\ n \in Exports(p)

(* find-symbol of the symbol s itself says :internal or :external.         *)
FoundHere(p, s) == Has(p, NameOf[s]) /\ Direct(p, NameOf[s]).sym = s

FindPackage(n) ==
    IF \E p \in listed : pname[p] = n
      THEN CHOOSE p \in listed : pname[p] = n
      ELSE None

-----------------------------------------------------------------------------
(* There is one package at first.                                          *)
Init ==
    /\ \E p \in Pkg, n \in PkgName :
        /\ listed = {p}
        /\ pname = [q \in Pkg |-> IF q = p THEN n ELSE None]
        /\ current = p
    /\ bindings = [p \in Pkg |-> [n \in Name |-> None]]
    /\ uses = [p \in Pkg |-> << >>]
    /\ made = {}
    /\ home = [s \in Sym |-> None]

(* make-package!: the name must be new; p is the new package.              *)
Make(p, n) ==
    /\ pname[p] = None
    /\ FindPackage(n) = None
    /\ pname' = [pname EXCEPT ![p] = n]
    /\ listed' = listed \cup {p}
    /\ UNCHANGED <<bindings, uses, made, home>>

MakePackage(p, n) == Make(p, n) /\ UNCHANGED current

(* in-package! creates the package if need be.                             *)
InNewPackage(p, n) == Make(p, n) /\ current' = p

InPackage(p) ==
    /\ p \in Targets
    /\ current' = p
    /\ UNCHANGED <<listed, pname, bindings, uses, made, home>>

RenamePackage(p, n) ==
    /\ p \in Targets
    /\ FindPackage(n) = None
    /\ pname' = [pname EXCEPT ![p] = n]
    /\ UNCHANGED <<listed, bindings, uses, made, home, current>>

(* Mutant: the package stays on the use lists.                             *)
DeletePackageStillUsed(p) ==
    /\ p \in Targets
    /\ RoomForDeletion(p)
    /\ bindings' = [bindings EXCEPT ![p] = [n \in Name |-> None]]
    /\ home' = [s \in Sym |-> IF FoundHere(p, s) /\ home[s] = p THEN None ELSE home[s]]
    /\ listed' = listed \ {p}
    /\ UNCHANGED <<pname, uses, made, current>>

(* delete-package! uninterns the symbols of p, and removes p from the use  *)
(* lists of the listed packages and from the list.                         *)
DeletePackage(p) ==
    /\ p \in Targets
    /\ RoomForDeletion(p)
    /\ bindings' = [bindings EXCEPT ![p] = [n \in Name |-> None]]
    /\ home' = [s \in Sym |-> IF FoundHere(p, s) /\ home[s] = p THEN None ELSE home[s]]
    /\ uses' = [q \in Pkg |-> IF q \in listed THEN Without(uses[q], p) ELSE uses[q]]
    /\ listed' = listed \ {p}
    /\ UNCHANGED <<pname, made, current>>

(* Mutant: adds the package whether it is there or not.                    *)
UsePackageAgain(q, p) ==
    /\ q \in Targets
    /\ p \in Targets
    /\ RoomForUse
    /\ uses' = [uses EXCEPT ![p] = Append(@, q)]
    /\ UNCHANGED <<listed, pname, bindings, made, home, current>>

(* use-package! of one package: what was used already and is not asked for *)
(* again comes first, then what is asked for.                              *)
UsePackage(q, p) ==
    /\ q \in Targets
    /\ p \in Targets
    /\ q \in ElementsOf(uses[p]) \/ RoomForUse
    /\ uses' = [uses EXCEPT ![p] = Append(Without(@, q), q)]
    /\ UNCHANGED <<listed, pname, bindings, made, home, current>>

-----------------------------------------------------------------------------
(* Symbols                                                                 *)

(* A new symbol s is homed and bound in p, with the export flag x.         *)
AddNew(s, p, x) ==
    /\ s \in Sym \ made
    /\ made' = made \cup {s}
    /\ home' = [home EXCEPT ![s] = p]
    /\ bindings' = [bindings EXCEPT ![p][NameOf[s]] = [sym |-> s, external |-> x]]
    /\ UNCHANGED <<listed, pname, uses, current>>

(* Mutant: exports it.                                                     *)
InternExported(s, p) ==
    /\ p \in Targets
    /\ ~ Accessible(p, NameOf[s])
    /\ AddNew(s, p, TRUE)

(* intern! of a name that is not accessible.                               *)
Intern(s, p) ==
    /\ p \in Targets
    /\ ~ Accessible(p, NameOf[s])
    /\ AddNew(s, p, FALSE)

(* shadow-symbol! of a name that is not bound in p itself.                 *)
Shadow(s, p) ==
    /\ p \in Targets
    /\ ~ Has(p, NameOf[s])
    /\ AddNew(s, p, FALSE)

(* export! and unexport! of a name bound in p itself; else they fail.      *)
SetExportFlag(n, p, flag) ==
    /\ p \in Targets
    /\ Has(p, n)
    /\ bindings' = [bindings EXCEPT ![p][n].external = flag]
    /\ UNCHANGED <<listed, pname, uses, made, home, current>>

(* Mutant: without the check for a conflict.                               *)
ImportOver(s, p) ==
    /\ p \in Targets
    /\ s \in made
    /\ bindings' = [bindings EXCEPT ![p][NameOf[s]] = New(s)]
    /\ UNCHANGED <<listed, pname, uses, made, home, current>>

(* import! of one symbol, unless p has one of that name.                   *)
Import(s, p) ==
    /\ p \in Targets
    /\ s \in made
    /\ ~ Has(p, NameOf[s])
    /\ bindings' = [bindings EXCEPT ![p][NameOf[s]] = New(s)]
    /\ UNCHANGED <<listed, pname, uses, made, home, current>>

Conflicts(q, p) == {n \in Exports(q) : Has(p, n) /\ Direct(p, n).sym # Direct(q, n).sym}

(* import-package! of q goes through what q exports in some order, and     *)
(* fails at the first conflict; `done' are the names it has dealt with.    *)
ImportPackage(q, p, reExport) ==
    /\ q \in Targets
    /\ p \in Targets
    /\ \E done \in SUBSET (Exports(q) \ Conflicts(q, p)) :
        /\ Conflicts(q, p) = {} => done = Exports(q)
        /\ bindings' = [bindings EXCEPT ![p] = [n \in Name |->
               IF n \in done
                 THEN [sym      |-> Direct(q, n).sym,
                       external |-> reExport \/ (Has(p, n) /\ Direct(p, n).external)]
                 ELSE Direct(p, n)]]
    /\ UNCHANGED <<listed, pname, uses, made, home, current>>

(* unintern! of a symbol bound in p itself.                                *)
Unintern(s, p) ==
    /\ p \in Targets
    /\ FoundHere(p, s)
    /\ bindings' = [bindings EXCEPT ![p][NameOf[s]] = None]
    /\ home' = IF home[s] = p THEN [home EXCEPT ![s] = None] ELSE home
    /\ UNCHANGED <<listed, pname, uses, made, current>>

Next ==
    \/ \E p \in Pkg, n \in PkgName :
          MakePackage(p, n) \/ InNewPackage(p, n) \/ RenamePackage(p, n)
    \/ \E p \in Pkg : InPackage(p) \/ DeletePackage(p)
    \/ \E p, q \in Pkg : \/ UsePackage(q, p)
                         \/ \E flag \in BOOLEAN : ImportPackage(q, p, flag)
    \/ \E s \in Sym, p \in Pkg : \/ Intern(s, p) \/ Shadow(s, p)
                                 \/ Import(s, p) \/ Unintern(s, p)
    \/ \E n \in Name, p \in Pkg, flag \in BOOLEAN : SetExportFlag(n, p, flag)

Spec == Init /\ [][Next]_vars

-----------------------------------------------------------------------------
(* Printing and reading                                                    *)

(* Mutant: takes every symbol for an exported one.                         *)
ExportedAlways(s) == TRUE

(* exported?                                                               *)
Exported(s) == FoundExternal(home[s], NameOf[s])

(* print-object of a symbol: #:x, x, p:x or p::x.                          *)
Printed(s) ==
    LET n == NameOf[s]
    IN  CASE home[s] = None ->
               [form |-> "uninterned", name |-> n]
          [] home[s] # None /\ FindSymbol(current, n) = s ->
               [form |-> "plain", name |-> n]
          [] OTHER ->
               [form |-> IF Exported(s) THEN "public" ELSE "private",
                package |-> pname[home[s]], name |-> n]

(* accept-symbol: the symbol the text denotes; None if it is an error or   *)
(* interns a new symbol.                                                   *)
Denoted(text) ==
    CASE text.form = "uninterned" -> None
      [] text.form = "plain" -> FindSymbol(current, text.name)
      [] OTHER ->
           LET p == FindPackage(text.package)
           IN  IF p = None THEN None
               ELSE IF text.form = "public" /\ p # current
                         /\ ~ FoundExternal(p, text.name) THEN None
               ELSE FindSymbol(p, text.name)

-----------------------------------------------------------------------------
TypeOK ==
    /\ listed \subseteq Pkg
    /\ pname \in [Pkg -> PkgName \cup {None}]
    /\ bindings \in [Pkg -> [Name -> Record \cup {None}]]
    /\ uses \in [Pkg -> Seq(Pkg)]
    /\ \A p \in Pkg : \A i, j \in DOMAIN uses[p] : i # j => uses[p][i] # uses[p][j]
    /\ made \subseteq Sym
    /\ home \in [Sym -> Pkg \cup {None}]
    /\ current \in Pkg

(* A symbol that has a home is what its home binds to its name: no later   *)
(* import, shadowing or deletion takes its place.                          *)
HomeHolds == \A s \in Sym : home[s] # None => FoundHere(home[s], s)

(* What is printed reads back: a symbol homed in a listed package denotes  *)
(* itself, whichever package is current and whatever has been exported,    *)
(* shadowed, imported or renamed.  (print-object and accept-symbol.)       *)
ReadsBack == \A s \in made : home[s] \in listed => Denoted(Printed(s)) = s

(* delete-package! severs a package d: no listed package goes on using it, *)
(* and no symbol keeps it for a home.  From then on a listed package uses  *)
(* d only if use-package! is given d itself, and a symbol is at home in d  *)
(* only if it is made there, by intern! or shadow-symbol! of d itself.     *)
DeletionSevers ==
    [][\A d \in Pkg \ listed' :
          /\ \A p \in listed' : d \in ElementsOf(uses'[p]) =>
                (d \notin listed /\ d \in ElementsOf(uses[p])) \/ UsePackage(d, p)
          /\ \A s \in Sym : home'[s] = d =>
                (d \notin listed /\ home[s] = d) \/ s \notin made]_vars

Kept(q) == \A n \in Name : Accessible(q, n) => FindSymbol(q, n)' = FindSymbol(q, n)

(* Interning a symbol, as the reader does, changes the meaning of no name  *)
(* that has one, in any package.                                           *)
InternKeepsMeaning ==
    [][\A s \in Sym \ made, p \in Pkg : Intern(s, p) => \A q \in Pkg : Kept(q)]_vars
=============================================================================
