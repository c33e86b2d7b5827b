-------------------------------- MODULE Fasl --------------------------------
(***************************************************************************)
(* Fast loading: a graph of objects is written to a file, and the file is  *)
(* read by the loader, into an image of its own, or by the dumper.         *)
(***************************************************************************)
EXTENDS FaslDumper

Init ==
    /\ image \in Images
    /\ tool \in image.tools
    /\ mem = image.graph
    /\ todo = image.ops
    /\ index = << >> /\ layouts = << >> /\ next = 0 /\ file = << >>
    /\ cut = 0 /\ pos = 0
    /\ frames = << >> /\ ret = << >>
    /\ table = << >> /\ growths = 0
    /\ accum = Nil /\ stack = << >>
    /\ interned = {}
    /\ globals = [g \in {"a", "b", "read"} |-> Nil]
    /\ package = Named("package", "p")
    /\ status = "open"

Next == Writes \/ Loads \/ Dumps

Spec == Init /\ [][Next]_vars

-----------------------------------------------------------------------------
(* The file written is whole, and the operations in it are such as the     *)
(* loader is ready for: its stack suffices, and lfast_read meets no loader *)
(* operation.                                                              *)
Whole == cut = Len(file)

Legal ==
    LET count(op, n) == Cardinality({i \in 1 .. n : image.ops[i][1] = op})
        depth(n) == count("PUSH", n) - count("DROP", n) - count("APPLYN", n)
    IN  /\ \A n \in DOMAIN image.ops : depth(n) \in 0 .. StackDepth - 1
        /\ tool = "read" => \A n \in DOMAIN image.ops : image.ops[n][1] \notin LoaderOps

(* A cycle through an object that the loader makes of its components.      *)
OpaqueCycle ==
    LET below(v) == LET grow[n \in Nat] ==
                          IF n = 0 THEN Values(Parts(v))
                          ELSE LET R == grow[n - 1] IN R \cup UNION {Values(Parts(w)) : w \in R}
                    IN  grow[Len(image.graph)]
    IN  \E v \in Reachable : Kind(v) \in {"closure", "macro", "fast-op"} /\ v \in below(v)

(* The pairs of values met on a walk over two graphs together.             *)
Together(v, w) ==
    LET zip(p) == {<<Parts(p[1])[i], Parts(p[2])[i]>> :
                     i \in DOMAIN Parts(p[1]) \cap DOMAIN Parts(p[2])}
        grow[n \in Nat] ==
          IF n = 0 THEN {<<v, w>>}
          ELSE LET P == grow[n - 1] IN P \cup UNION {zip(p) : p \in P}
    IN  grow[Len(image.graph)]

Alike(p) ==
    IF IsObject(p[1]) /\ IsObject(p[2])
      THEN /\ Kind(p[1]) = Kind(p[2])
           /\ Data(p[1]) = Data(p[2])
           /\ Len(Parts(p[1])) = Len(Parts(p[2]))
      ELSE p[1] = p[2]

(* The pairs match, and what is one object on one side is one object on    *)
(* the other.                                                              *)
Isomorphic(P) ==
    /\ \A p \in P : Alike(p)
    /\ \A p, q \in P : IsObject(p[1]) => ((p[1] = q[1]) <=> (p[2] = q[2]))

(* What is to be found after the load, as pairs of a variable and a value  *)
(* of the graph that was written.                                          *)
Expected ==
    IF tool = "read" THEN {<<"read", image.ops[1][2]>>}
    ELSE {<<Data(image.ops[i + 1][2]),
            IF image.ops[i][1] = "DEFINEQ" THEN image.ops[i + 2][2]
            ELSE Call(image.ops[i + 2][2], << >>).value>> :
              i \in {j \in DOMAIN image.ops : image.ops[j][1] \in {"DEFINEQ", "DEFINEA0"}}}

Survives(D) == Isomorphic(UNION {Together(d[2], globals[d[1]]) : d \in D})

Loaded == status = "done" /\ tool # "dump"

-----------------------------------------------------------------------------
(* Values are of objects that exist, the file is read in its bounds, and   *)
(* indexes are those given out.                                            *)
TypeOK ==
    /\ status \in {"open", "writing", "reading", "done", "error", "abort"}
    /\ pos \in 0 .. cut
    /\ cut \in 0 .. Len(file)
    /\ \A i \in DOMAIN mem :
          \A v \in Values(mem[i].parts) : IsObject(v) => v[2] \in DOMAIN mem
    /\ \A i \in DOMAIN frames : frames[i].op[1] \in Composite
    /\ Len(stack) < StackDepth
    /\ \A v \in DOMAIN index : index[v] < next
    /\ interned \subseteq DOMAIN mem

(* What is loaded is what was written: every object, and every sharing of  *)
(* an object, within one definition and between definitions, circular      *)
(* structure included.                                                     *)
GraphsSurvive == (Loaded /\ Whole /\ Legal /\ ~ OpaqueCycle) => Survives(Expected)

(* The comments in fasl.c (94) and in fast-write.scm promise it for every  *)
(* circular structure: the code does not keep that for closures, macros    *)
(* and fast-ops, which are made only after their components are read.      *)
CyclesSurvive == (Loaded /\ Whole /\ Legal) => Survives(Expected)

(* Whatever the writer writes, the loader and the dumper accept.           *)
FilesAccepted == (status = "error" /\ Whole /\ Legal) => OpaqueCycle

(* The loader aborts for two causes only.  The table of reader definitions *)
(* moves under a definition: not before the file defines more objects than *)
(* the table has at first, for indexes are given out in order.  Or a macro *)
(* comes without its transformer, and the error is reported through what   *)
(* came instead (fasl.c:507): only from a file cut short, or in a cycle.   *)
AbortHasCause ==
    status = "abort" =>
        \/ Cardinality(DOMAIN index) + Cardinality(DOMAIN layouts) > TableSize
        \/ Top.op[1] = "MACRO" /\ (~ Whole \/ OpaqueCycle)

(* A file cut short is refused, or the definitions before the cut are good *)
(* and the last one lacks what no check of the loader looks for: itself,   *)
(* or an operand of a fast-op.                                             *)
DamageIsMissingOperand ==
    (Loaded /\ tool = "load" /\ ~ OpaqueCycle) =>
       LET damaged == {d \in Expected : globals[d[1]] # Nil /\ ~ Survives({d})}
       IN  /\ Cardinality(damaged) <= 1
           /\ \A d \in damaged :
                 \/ globals[d[1]] = Eof
                 \/ \E p \in Together(d[2], globals[d[1]]) :
                       Kind(p[2]) = "fast-op" /\ Eof \in Values(Parts(p[2]))
=============================================================================
