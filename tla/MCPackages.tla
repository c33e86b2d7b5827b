----------------------------- MODULE MCPackages -----------------------------
(* Instances of Packages for TLC.                                          *)
EXTENDS Packages, TLC

CONSTANTS x

(* All the symbols have the same name, so that each is in the way of the   *)
(* others; names do not interact otherwise.                                *)
MCNameOf == [s \in Sym |-> x]

Interchangeable == Permutations(Sym) \cup Permutations(Pkg) \cup Permutations(PkgName)
=============================================================================
