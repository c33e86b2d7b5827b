# Verification of the vcsh Scheme system

vcsh is a Scheme dialect: a virtual machine in C (`vm/`, called SCAN in the
sources) and a library, compiler, reader, printer and REPL in Scheme
(`scheme-core/`). This directory models the parts whose mistakes a test hardly
reaches, checks the models with TLC on small instances, and proves the most
important properties for every instance with TLAPS. `PROJECT.json` lists the
runs, the mutants that show each property can fail, the source lines of each
definition, the findings, the hazards and the theorems. Paths below are
relative to `src/`.

## The system

| component | state it keeps | operations | talks to |
| --- | --- | --- | --- |
| Heap (`vm/memory.c`, `new_cell`, `scheme-core/memory.scm`) | segments of cells, global free list of sub-freelists, the thread's sub-freelist, mark bits, malloc pressure | allocate, mark, sweep, enlarge, request a size | runs the after-GC trap (Scheme code) in the middle of an allocation |
| Frame stack and escapes (`vm/evaluator.c`, `control-flow.scm`) | the frame stack, `escape_frame` | catch, throw, unwind-protect | after thunks and the uncaught-throw trap are Scheme code run under a throw |
| Hash tables (`vm/hash-table.c`, `hash.scm`) | a table of open-addressed entries, a count | set, ref, remove, clear, enlarge, list | keys are hashed by address or by content |
| Packages and symbols (`vm/oblist.c`, `package.scm`) | packages, symbol records, use lists, the home of each symbol, `*package*` | make, rename, delete, use, intern, export, import, shadow, unintern | the reader and the printer name symbols through them |
| Conditions and REPL (`error-handling.scm`, `repl.scm`) | the handler frames of the thread | handler-bind, signal, abort, the REPL's handlers | handlers run inside signal, restored by unwind-protect, left by throws |
| Interrupts (`vm/evaluator.c`) | pending bits, mask | signal, process before an expression | `SIGINT` sets a bit asynchronously; the trap signals `user-break` |
| Compiler (`compiler-meaning.scm`, `compiler-foptimize.scm`, `compiler-fasm.scm`, `eval.scm`) | none; reads the global variables while it compiles | meaning, optimisation, assembly | runs the values of definitions while it compiles |
| Evaluator (`execute_fast_op` in `vm/evaluator.c`) | activations, global variables, environments | one per fast-op, `apply` | allocates, throws, takes interrupts |
| Expander and file compiler (`compiler-expand.scm`, `compiler-file.scm`) | the output file | expand, evaluate at compile time, emit | the fast loader reads what it writes |
| Ports (`vm/io*.c`, `io.scm`) | open modes, buffers, pushback, column and line, line-ending state | open, read, write, peek, flush, close | finalised by the sweep |
| Fast loader and dumper (`vm/fasl.c`, `vm/fasl-dump.c`, `fast-write.scm`, `fasl-stream.scm`) | the writer's indexes of shared objects, the reader's table of definitions, accumulator and stack | write a graph, load or dump a file | interns symbols, defines globals, changes `*package*` |
| Numbers (`vm/number.c`, `vm/number-format.c`, `vm/io-encdec.c`) | `errno`, the random generator | arithmetic, bits, text, bytes | overflow traps |
| Strings, characters, lists, vectors, structures (`vm/string.c` and others) | the objects with their buffers | make, read, change, search, compare | heap |
| Generic functions, classes, hooks, memoisation | dispatch tables, lists of functions | add, dispatch, run | library |
| Deferred execution (`deferred-execution.scm`) | a list of timed events, an idle list | schedule, dispatch | the timer interrupt |
| Inspector, printer, reader, tools; system interface; debugging support; `javac/` | - | - | - |

Everything runs in one thread. What makes the system hard is not parallelism
but reentrancy: Scheme code runs at unexpected places (in the middle of an
allocation, of a throw, before any expression when the user breaks), and may
there do anything, including allocating, throwing and binding handlers. The
hazards in `PROJECT.json` name each such place at its line.

What makes each component correct, in a sentence: the heap never hands out a
cell twice nor reclaims what can be reached; a throw reaches its target and
runs every after thunk once; a hash table is a finite map; a symbol keeps its
home and reads back as it was printed; the handlers in force are those of the
extents the code is in, and the REPL survives what programs do; compiled code
does what the source says, and tail calls take no space; a file loads as the
graph that was written, or is refused; text comes through a port line by line,
and peeking, flushing and closing in any order lose nothing; a number is exact
or an overflow is signalled, and comes back from text and bytes as it was; an
object changes only when it is the one named.

## Modules

| module | models | correspondence |
| --- | --- | --- |
| `Heap` | the heap | cells are numbers, a segment is a quotient; `global` and `thread` are the free lists as sets; `CollectGarbage` is `gc_collect_garbage` up to its trap; the handler runs as the ordinary mutator actions with an entry in `traps`, until `ReturnToClaim` or `ReturnToGc` |
| `HeapProofs` | proofs about `Heap` | |
| `Escape` | the frame stack and throws | `stack` holds catch and unwind frames and the C calls under which after thunks and the trap handler run; `at` is the position of the loop of `unwind_stack_for_throw` |
| `EscapeProofs` | proofs about `Escape` | |
| `HashTable` | hash tables with their entries | `key`/`val` are the entries (`Unbound` key and `Null` value: never used; `Unbound` key and `Unbound` value: deleted), `newKey`/`newVal`/`pos` the enlargement under way, copied one entry a step |
| `Table` | what a hash table promises: a finite map | `HashTable` implements it (`ImplementsTable`) |
| `HashTableProofs` | proofs about `HashTable` and that it implements `Table` | |
| `Packages` | packages, symbols, printing and reading of symbols | `bindings[p][n]` is the symbol record, `uses` the use list in search order, `home` the package slot of a symbol |
| `PackagesProofs` | proofs about `Packages` | |
| `Conditions` | handlers, signals, user breaks, the REPL | `hframes` is `handler_frames`; the stack has the extents and the C and Scheme calls under way, so that a break can fall between any two |
| `ConditionsProofs` | proofs about `Conditions` | |
| `Values` | values, frames, primitives | values are tagged tuples; an environment is a sequence of frame numbers, the frames are state because `set!` changes them |
| `Language` | what forms mean, by recursion on the source with names and scopes | the reference; written from the language manual, not from the compiler |
| `Compiler` | the meaning and optimisation passes | forms to trees of ops, with lexical coordinates and integrated primitives |
| `Evaluator` | `execute_fast_op` | an activation is one C call of it: the op it is at, `env`, `retval`, and operands evaluated; one action per op |
| `Session` | `eval` of forms one after another | composes `Compiler` and `Evaluator`, with `Language` run alongside in `ref` |
| `FaslObjects` | objects, tokens, and the state of writer and reader | a token is an opcode with the data that follows it directly; an object is an index into `mem` |
| `FaslWriter` | `fast-write.scm` | its recursion is the sequence `todo` |
| `FaslLoader` | `vm/fasl.c` | the recursion of `fast_read` is `frames`, one opcode and the components read so far each; one token or one completed object a step |
| `FaslDumper` | `vm/fasl-dump.c` | walks the same grammar with its own checks |
| `Fasl` | a graph written, then loaded, read or dumped, also cut short | composes the three; its properties compare the graphs |
| `PortObjects` | ports of every class and what each procedure does to them | a port is a record of its class, open modes, buffered character, position and debts; operators from a state of ports and files to the next |
| `Ports` | a program that opens, uses, closes and drops ports, and the collector | one action per procedure |
| `PortsProofs` | proofs about `Ports`: types, peeking, when the process ends | |
| `PortTextsProofs` | proofs about `Ports`: lines and positions | |
| `Numbers` | arithmetic, bits, text and bytes of a word of any width | fixnums are integers in the range of the word; flonums are halves; numerals are digits with sign and blanks |
| `Aggregates` | strings with their buffers, characters, lists, vectors, structures | a store of objects; a buffer holds junk (any character) beyond its text |
| `Primitives` | a program that calls the primitives | one action per group of primitives; `Keep` takes an answer for further calls, `Return` drops it |
| `PrimitivesProofs` | proofs about `Numbers` and `Primitives` | |
| `MCHashTable`, `MCPackages`, `MCSession`, `MCFasl`, `MCPorts`, `MCPrimitives` | instances for TLC | hash values, names, symmetry; the sessions, images and programs |

How they compose. `Conditions` contains the throws of `Escape` at the level it
needs (its after thunks restore handlers as well as clean up) and adds signals
and interrupts. `Session` has the evaluation that `Escape` leaves out, with
errors as the end of the evaluation of a form. `Heap` takes the escapes of a
handler as one action, `EscapeHandler`. `Fasl` composes the two sides of a
file, which are written in different languages and have only the grammar of
opcodes in common. `Ports` has the sweep of `Heap` as the action that closes
what the program dropped, in any order. `Primitives` lets the results of one
primitive be the arguments of the next. The others are independent of each
other in the code too: they share the heap, which each takes for granted once
`Heap` is correct.

Abstractions that matter. In `Heap`, which cell of a sub-freelist is handed
out and which sub-freelist is claimed is open, so the results do not depend on
an order. Marking is the least closed set of cells, not the recursion of
`gc_mark`. In `Escape`, frames a throw passes over (`eval`, `subr`,
boundaries) are left out. In `HashTable` the hash of a key is a constant. In
`Packages` a name is a model value, and the round trip through text is modelled
by which package prefix is printed (`Printed`) and how it is resolved
(`Denoted`). In `Conditions` a program is any sequence of the things a program
may do. `Compiler` starts from expanded forms; assembly does not change the
shape of a tree whose ops have no successor, which is all the meaning pass
makes, so the tree stands for the assembled code. Values of definitions contain
no definitions. `lidefine_global`'s optional trap has no handler.

In `Fasl` numbers and characters are tokens with their value, so that the
encodings of `vm/io-encdec.c` are left to `Numbers`; a file can be cut between
tokens. In `Ports` text is made of a letter, CR and LF (`;` and blanks for the
comment reader) and a file is a sequence of them; opening may fail. In
`Numbers` the width of bytes, words, tags and `int` are constants, the two's
complement and C's truncating division are spelled out, and a flonum is a
number of halves, rounded to the significant bits of a double: enough for
signs, mixed arithmetic and the loss of large fixnums, not for small fractions.
In `Aggregates` a buffer has its real length and its junk; reads beyond the
text find the junk.

## Runs

Passing runs:

- `heap_graph` (339,624 states): three one-cell segments, one field per
  object, two roots, one trap. Three segments with a limit of three make the
  surplus fourth, so enlargement, exhaustion, chains of references and
  collection meet. Checks `TypeOK` and `NoDangling`.
- `heap_nested` (518,594): two segments of two cells, sub-freelists of two,
  collections nested two deep. A second cell in a sub-freelist is what the
  nested claim can lose or duplicate. Checks `FreelistsSound`, and that free
  cells get lost at such a claim only (`OnlyClaimsLoseCells`).
- `escape` (82,120): two tags and the catch-all, stacks of five frames; five
  hold a catch, an extent, its after thunk's call, and a catch and a throw in
  that call. Safety, and `ThrowCompletes` under fairness. `NoReentry` and
  `InnermostCatch` are proved only.
- `hash_map` (6,980, up to symmetry): five keys of which two pairs collide,
  one at the last entry so that probes wrap around, in tables of 4 and 16.
  Five keys exceed the load of four entries, so that the table is enlarged
  with tombstones in it. Checks the probe invariant, and that the table
  implements `Table`.
- `packages` (101,719, up to symmetry): three packages and three names for
  them, two symbols of one name, two entries on use lists, one deleted package
  at a time that the program still holds (`MaxDeleted`). Two symbols of a
  name are what conflicts need; three packages are a user, a package it uses
  and a third to import from or to delete. Every operation that takes a package
  is given deleted ones too, since `->package` (`package.scm:88-91`) accepts a
  package itself; so `*package*` and use lists may have deleted packages.
  `DeletionSevers` says what a deletion leaves, and by which steps a deleted
  package can have users and symbols again; `ReadsBack` is about symbols at
  home in listed packages.
- `conditions` (580,954): one tag, one condition, programs that pile up to
  five extents and calls, one user break for each form. `MaxDepth` 5 is the
  REPL's two extents and three of the program: a handler, what it protects,
  and a catch or signal; a break and its handling come on top of that.
  Deadlock is not checked because a panic ends the VM, and because the bound
  on what happens after the promises end (`Astray`) does.
- `session` (223,664): 10,023 sessions. Single forms apply a lambda of every
  kind of lambda list, to none, one and two arguments, with some hundred bodies
  that read, assign and capture its variables, shadow a primitive, or contain a
  second lambda that does so (lexical depth is three with the frame of the
  toplevel thunk). Sessions of three forms are all triples of 16 definitions,
  assignments and calls that use what the others leave: an alias of a
  primitive, a function compiled while the alias had one value and called when
  it has another, a counter whose state survives from form to form. Loops run
  for ever or down a list through each kind of tail position; others nest and
  meet the end of the stack. `ArgBufLen` 2 makes calls with too many arguments;
  `MaxDepth` 6 is more than any terminating session nests. The run does not
  check deadlock, as a session ends.
- `fasl` (870,333): 3,220 images. Pairs of objects of each kind that refer to
  each other, to themselves, to symbols, a package, a structure layout and the
  end of lists, defined under two names; files with a load unit in another, cut
  short after every token; macros cut before their transformer, or in a cycle
  with it; rings and shared tails of three objects; and operations the loader
  has no room for. `TableSize` and `StackDepth` 3 make the table grow and the
  stack overflow. `GraphsSurvive` compares what is loaded with what was
  written, with its sharing and its cycles.
- `ports` (532,073): nine groups of programs over one file or device, each with
  every text of up to three or four characters or writing as many. Three ports
  make a text port share the port under it, or two ports a file. Four
  characters hold a CR, an LF, a pushed back character and one more.
- `primitives` (308,898): thirteen programs. All pairs of fixnums of a word of
  two bytes of four bits with two tag bits (-32 to 31), so that every sum,
  product, quotient and shift meets the ends of the range; doubles have four
  significant bits (`MantissaBits`), fewer than fixnums, as 53 is less than 62:
  the larger fixnums are rounded when they become flonums; flonums,
  characters and `()` among them; every fixnum written in each radix and as
  bytes of each width and read back; numerals of up to three digits with
  signs and blanks in six radixes; all strings of two letters up to five
  long searched for all patterns up to three; strings, vectors, lists and
  structures made and changed in every order within the bound on objects.
  `BufLen` 4 is less than the longest numerals. `OnlyNamedChange` is proved
  only.

Runs that show a disagreement between the code and what it says of itself:

- `heap_overrun`: the objects of the surplus segment (below) are not recognised
  as roots (`vm/memory.c:240`), so that they are not marked and what only they
  refer to is reclaimed. (The mark bits that stick in that segment when its
  objects are marked through others are in the model too, but this run needs
  none.)
- `modulo`: `(modulo 0 5)` is 5 and `(modulo 10 -2)` is -2.

### Fairness

Only `Escape` assumes any. `WF(Unwind)`: the unwinding loop is C code that
goes on by itself. `SF(LeaveAt(d))` for each depth: what an after thunk does
under a throw comes to an end, level by level; an after thunk that loops for
ever would hold the throw up, and nothing in the code prevents that, so this is
an assumption about programs. It must be strong because an after thunk may
leave and enter extents at one depth again and again. Programs as such need
not make progress: nothing is assumed of steps taken while no throw is under
way. `nested` excludes throws inside after thunks of throws, for which
completion does not hold (`ThrowNeverReturns`, below).

## Proofs

Assumptions: only the named ASSUMEs on the constants. All sizes, depths, tags,
packages, names, keys, hashes and widths are arbitrary.

- `HeapAssumption`: sizes and limits are positive.
- `EscapeAssumption`: the catch-all tag is no other tag and the bound is a
  number.
- `PackagesAssumption`: symbols have names and `None` is none of the objects.
- `HashAssumption`: the marks for unused entries and absent keys are no keys or
  values, hashes are numbers, tables have an entry, factors are at least 2, and
  the load is less than all (`vm/scan-base.h:259-282` has 67, 2 and 4).
  `RoomForKeys`: there are finitely many keys and the bound on sizes, which is
  the model's and not the code's, never keeps a table that is full of them from
  being enlarged.
- `ConditionsAssumption`: programs have none of the REPL's own tags and
  conditions, and bounds are numbers.
- `WordsHoldTags`: bytes have bits, words have bytes, and a word has more bits
  than its tag and sign. `MantissaAssumption`: a double has two significant
  bits at least. `ProgramsAssumption`: the arguments of programs are
  values and their stores hold objects, which is what the tags of the VM tell
  apart.
- `LettersAreCharacters`: a string has a smallest buffer, and letters and their
  upper cases are characters. `ObjectsAssumption`: what a program passes and
  starts with is well made, as the VM's own constructors make it. References
  lead to objects of their type, the buffer of a string is the one its length
  asks for, a cons has two parts, sizes are numbers a fixnum can be, and the
  flonums passed are in the range of a word, outside which C does not define
  their conversion. Only `PrimitivesKeepObjects` uses these two.
- `ProgramsAssumption` of `Ports`: files, inputs and texts are sequences of the
  characters of the model, numbers have bytes, and the ports a program starts
  with are files, devices and internal data, and text ports over these, as
  `init_stdio_ports` makes them, with nothing written to those for output; the
  binary strings read are no longer than the buffer of `lread_binary_string`
  (`BufLen`), past which it writes (below). Their
  number, the calls and the bounds of a program are arbitrary.

**Heap** (`HeapProofs`). `HeapInv` adds to `TypeOK`, `FreelistsSound` and
`NoDangling` that live cells lie in allocated segments, which newly made
segments need to be disjoint from all else, and that mark bits are clear as
long as the segment table is not exceeded, without which a collection would
not follow the references of what it marks. Two lemmas carry it: that cutting
a set of cells into sub-freelists partitions it (`ChunksPartition`), and that
the marked cells are closed under references and contain the roots, so that
what is swept was referred to by nothing that remains. It yields
`HeapTypes`, `NoDoubleAllocation` and `ReachableNeverReclaimed`; `NoDangling`
is proved as long as `segs <= MaxSegs`, and `heap_overrun` shows that the
restriction is needed. `CellsLostByClaimsOnly` shows of each step that a free
cell on a list stays on one, except when a claim returns from the handler; it
needs no invariant but the types, because cutting into sub-freelists keeps all
cells.

**Escape** (`EscapeProofs`). `EscapeInv` relates the position of the loop to
what has been called. `Aimed`: the target is ahead of the loop, and while an
after thunk runs, every call by a throw from some place on resumes above the
target. That place is what makes it inductive: calls by earlier, overtaken
throws may resume below the target. `Passed`: every extent the loop has passed,
or that a call of an after thunk resumes below, has had its thunk called.
`OneThrow` and `CalledByIt` say the same from the other side as long as no
throw is nested: there is one call at most, and extents whose thunk has been
called are those it has passed. The invariants of the run and `NoReentry`
follow, and with one step of the specification the two action properties: no
extent ever leaves the stack without its after thunk, nested throws included.

**Packages** (`PackagesProofs`). `PackagesInv` is `TypeOK`, `HomeHolds`, that a
package that does not exist is named nowhere, that listed packages have
different names, and that symbols not yet made are bound nowhere. Nothing is
assumed of use lists, which may have deleted packages. `import!` keeps homes
because it refuses to replace a symbol of the same name; `delete-package!`
because it takes every home it removes with it. `DeletionsSever` is about a
step: a package that is not listed afterwards was deleted by it, or before. In
the first case `delete-package!` took it off the use lists of the packages that
stay listed and unbound the symbols at home in it, which are all bound there
because of `HomeHolds`; in the second a new user or a new symbol needs an
operation given the deleted package. `ReadsBack` follows by cases on what
`print-object` writes: either the symbol is found in the current package, or it
is prefixed with the name of a listed package which by uniqueness of names is
found again. `InternSafe` says that interning captures no name anywhere; it
needs that the place found by a search is the least one at which the name is
visible, both before and after.

**Hash tables** (`HashTableProofs`). `HashInv` says of the table, and of the one
being filled by an enlargement, that the way of a probe from the home of a key
to its entry holds neither the key nor an entry never used (`WaysClear`), and
that no key is in two entries. `Copied` relates the two tables: the new one has
what the old one has up to the position of the copy, and nothing else. `Counted`
and `Roomy` (the count is that of the live entries, and leaves one unused) are
what makes a probe for a key that is absent find a place; `HungFull` records why
a lookup did not end. An insertion puts the key at the first unused entry of its
way (`FirstUnusedFound`, `Inserted`, used for both tables), a deletion leaves a
mark that is not an entry never used: neither opens a gap in another key's way.
`TableImplemented` is the refinement, an operation at a time: the binding of a
key is the value of the one entry that has it (`BindAt`), and whatever leaves
these entries as they are leaves the map as it is (`SameMap`), so that a step
of copying stutters and the change of tables does too.

**Conditions** (`ConditionsProofs`). `CondInv` is `Typed`, and `Sound` as long
as nothing has happened after which the code promises nothing (`Astray`): at
each entry of the stack the handler frames saved, set or waiting there are those
that the extents below give (`ForceAt`); the two extents of the REPL are at the
bottom, and every frame names the extent that binds it; one throw at most is
under way, and its target is a catch below it. What is in force is a recursive
function of the stack; `ForceExists` shows that its equations have a solution
and `SameForce` that it depends on the entries below only, so that pushing and
cutting leave it alone. The hard steps are the call of an after thunk by a
throw, where the frames are restored to those of an extent that is still on the
stack, and a user break between any two steps. `PanicNeedsMishap` follows: the
REPL's frame for unhandled aborts is the outermost in force, and its handler
throws to a catch that is on the stack.

**Numbers and primitives** (`PrimitivesProofs`). `ArithmeticIsExact` needs no
more than that the arguments are values of the program; the work is in lemmas
about `Numbers`. Powers of two are known to the prover only as the
cardinalities of powersets (`PowerNat`, `PowerDoubles`, `PowerAdds`), and what
would be shown by induction is shown by a least counterexample (`LeastExists`).
Truncation and sign extension are division with remainder; the bitwise
operations are sums of bits, compared one partial sum after the other, with the
sign bit apart. It says for every size of word, tag, `int` and double what the
run says for one: a result is the exact one or the overflow trap. A fixnum made
inexact is the nearest double to it (`NearestFacts`, `ExponentFacts`,
`DoubleNear`), hence not in general the same number, and is said to come back
from `inexact->exact` only if a double has bits for it (`ConversionExact`).
`OnlyNamedPrimitivesChange` rests on `StoreInv` (the store holds objects and
arguments name objects of it) and on each primitive doing one of two things to
the store: adding objects at its end, or replacing the object its first
argument names.

`PrimitivesKeepObjects` says that calls of primitives, in any order and on each
other's results, leave every object well made: the buffer of a string is always
the one its length asks for, whichever of setting, appending, inserting and
trimming made it; a cons has two parts; and no reference leads to an object
that is gone or of another type. `TypeOK` alone is not inductive, since `Return`
and `Keep` drop objects that others might still refer to. `TypedInv` adds that
the first objects have the types they had at the start and hold values over
these only, and that each object made since does too, but for the conses of one
new list, which refer to one another; between calls there are no others. Each
primitive has a lemma that it is `Sound` in this sense. They rest on
`StorageFits` and `AppendedText` for the buffers and `ConsesKnown` for the
lists.

**Ports** (`PortsProofs`). `PortsInv` says that each port is `Sound` (its modes
are none or those it was made with, which its class allows; a file that is open
has its stream; one character at most is unread, at a text port only), that a
text port is over one made before it which is not an open text port, that no
port held was freed, and that while the process runs no text port that remains
is over one that was freed (`LiveLinked`). The last is what dropping and
collecting need: the ports found are closed under "the port under it", so that
what is freed is under nothing that remains, in whichever order the sweep meets
it. That ports are over earlier ones is what gives the recursion of flush,
close and mark down the layers a solution (`LayersExist`). Every operator takes
a system of ports, disk and answer to another, and has a lemma with two parts:
it keeps the fixed fields of all ports and their soundness (`Kept`), and it
aborts only in the named cases; loops over texts and bytes go through one lemma
about iteration (`IterationStays`), by the least round that fails. `PortsAbort`
puts the second parts together for every procedure: a failed assertion needs a
port that is closed, or over one closed or of the other direction, or used the
wrong way, or a translating reader flushed after a CR, or a collection that
meets a text port with the port under it. `PortsPeek` shows that reading,
stepping the position back, keeping the character and reading again is reading:
the unread character is the one answered, the saved column restores the one
left by a line feed, and the debt of a line feed was settled by the first read.

**Lines and positions** (`PortTextsProofs`). `WritersKeepLines`,
`ReadersKeepLines` and `PositionFollowsText` follow from `TextsInv`, which says
two things of every port. `Local`: a text port that has the bytes under it for
itself (`Alone`) agrees with them. If it writes (`WriterSays`), the bytes have
the lines of what it was given, with every CR followed by its LF except the last
one while `needs_lf` is set, and the port has their row and column; if it reads
(`ReaderIs`), it has answered or unread what the bytes used so far say, knows
whether these end in a CR, and has the row and column of what it answered.
`Untouched`: bytes no text port is over yet have not been read or written, so
that a text port opened on them begins with no text. A step through one port
changes nothing that a port alone with its bytes is judged by (`Framed`,
`FramedAlone`). What one more character does to lines, rows, columns and pairs
of CR and LF is said by `LinesAdd`, `RowAdd`, `ColumnAdd` and `PairedAdd`; the
rest needs no more, because every operator of the model writes or reads one
character a round. Each has a lemma for the port it works through, and one for
the ports it leaves alone; flush, close and sweep go down the layers by the
solution that `LayersExist` provides.

Model-checked only:

- Liveness (`ThrowCompletes`), which is out of the prover's reach.
- `Session`: what a compiler makes of every form is shown by induction over
  forms, which the prover cannot do; and its modules have RECURSIVE operators.
- `Fasl`: its properties compare graphs that a recursion has written and read.
- `Primitives`: `NumbersReadBack` and `TextsAgree` are about digits and texts,
  by induction over these.

## What the models show of the code besides the runs

Each was met while modelling. Where a property is named that no run checks, it
is defined in its module and TLC refutes it; where a property of a run is named,
it is written so that it holds, and says when. The others are in the actions.

- `gc_enlarge_heap` (`vm/memory.c:206`) refuses only when there are more
  segments than the maximum, so the VM makes one too many, against the comment
  at 165-167 and README.TXT 157-162 (`SegmentLimit`).
- `gc_claim_freelist` asserts at `vm/memory.c:590` that there is a free cell
  after collecting; the handler may have used them all up (`ClaimSucceeds`).
- `lirequest_heap_size` subtracts unsigned numbers (`vm/memory.c:651`), so a
  request for fewer segments than there are makes as many as possible, against
  README.TXT 168-170 (`RequestHonoured`).
- `maybe-enlarge-heap` (`memory.scm:18`) grows the heap whenever less than 90%
  of it is free, against README.TXT 164-165, which says segments are added
  only when all are full (`GrowsOnlyWhenFull`).
- `enlarge_hash` (`vm/hash-table.c:370-373`) multiplies large tables by the
  factor `vm/scan-base.h:274-282` gives for small ones and the other way around
  (`SmallTablesGrowSlowly`).
- When the after-GC handler allocates, the claim that triggered the collection
  overwrites `thread->freelist` (`vm/scan-private.h:200-201`): the cells that
  the handler left there are lost for good, because the sweep passes over cells
  that are free already (`vm/memory.c:474`) (`AllFreeCellsListed`;
  `OnlyClaimsLoseCells` says that nothing else loses cells).
- A throw caught inside an after thunk clears `escape_frame`
  (`vm/evaluator.c:449`); the throw that called the thunk then never meets its
  target and returns to its caller (`ThrowNeverReturns`).
- A call is integrated by the value its variable has when it is compiled
  (`compiler-foptimize.scm:72`), so that after `(define first car)` code that
  calls `first` goes on calling `car` when `first` is assigned to, against
  notes/vcsh-lang.txi 3189-3190 (`AssignmentsSeen`). `CompiledMeansSource`
  holds for sessions that do not do this (`stale`) and whose definitions come
  first in their forms (`early`).
- While a throw is under way the search for a catch starts outside its target
  (`vm/evaluator.c:403-404`): a throw in an after thunk does not see a catch
  inside the same thunk if it is entered during a throw. That is why
  `InnermostCatch` excludes nested throws.
- A throw out of an after thunk finds the frame of the extent still on the
  stack (`vm/evaluator.c:431`) and calls the thunk again, against
  notes/vcsh-lang.txi 6459-6464 (`Escape!AfterOnceAlways`, refuted with the
  constants of `Escape.cfg`). `AfterOnce` holds as long as after thunks do not
  throw.
- `hash_set` enlarges by the number of live entries (`vm/hash-table.c:536`), so
  insertions and removals can leave no entry that was never used; the lookup of
  an absent key then never ends (416), which test-hash.scm:73 expects to answer
  (`NeverHangs`). `HangNeedsDeletion` says that nothing else leads there.
- A second user break while the first unwinds the stack to the REPL throws to
  `repl-abort-evaluation` again; the search starts outside the target of the
  first throw (`vm/evaluator.c:404`), that throw is uncaught, and abort makes
  the VM panic, against `repl.scm:186-187` (`ReplSurvives`).
- The value of a definition is computed while its form is compiled
  (`compiler-meaning.scm:188`): `(begin (define u #f) (define h u))` fails, and
  a definition after an assignment gets the value from before it, against
  notes/vcsh-lang.txi 2907-2909 (`DefinitionsInOrder`).
- `use-package!` of packages already used reorders the use list
  (`package.scm:92-101`), which may change what a name means, although its
  documentation at 88 speaks of adding.
- `use-package!` accepts a deleted package given as an object
  (`package.scm:88-91`), and `delete-package!` takes a package off the use lists
  of listed packages only (218-223): a package may go on using a deleted one,
  which no name denotes, and symbols at home in that do not read back.
- The frame of an extent goes before its after thunk runs
  (`vm/evaluator.c:629-633`). When the handler of a user break throws from
  there, the thunk that restores the handler frames is abandoned and they stay
  in force outside their extent; if they are the REPL's own, the next break at
  the prompt is handled by a handler whose catch is gone, and the VM panics.
  `HandlersFollowExtents` and `PanicNeedsMishap` hold up to that point
  (`skipped`).

Fast loading (`Fasl`):

- `fast_read_closure` (`vm/fasl.c:460`), `fast_read_macro` and
  `fast_read_fast_op` set their value only after their components are read, so a
  closure, macro or fast-op that reaches itself is loaded with `()` there,
  against the comment at 94-106 (`CyclesSurvive`; `OpaqueCycle` is the
  exception in `GraphsSurvive`).
- A pointer into the table of definitions is held while a nested definition may
  move the table; the assertion at `vm/fasl.c:835` then ends the process.
- `fast_read_macro` reports a missing transformer through the transformer in
  place of the reader (`vm/fasl.c:507`), so that the assertion at
  `vm/error.c:129` ends the process: in a file cut there, or when the macro is
  reached from its own transformer. `AbortHasCause` says that the loader aborts
  for these two causes only, and how many shared objects the first takes.
- Most readers of components look for the end of the file; the value of a
  definition and the operands of fast-ops are not looked at. A file cut between
  operations loads without an error; in one cut elsewhere a definition may get
  the end-of-file object, or a fast-op an operand of it
  (`DamageIsMissingOperand`).
- The stack of the loader holds one entry less than its depth
  (`vm/fasl.c:594`), and the guard on the arguments of a loader application
  (640) lets through one more than the buffer at 623 has room for with its
  final `()`.
- The dumper (`vm/fasl-dump.c`) decodes fixnums without their sign.
- `fast-write.scm` looks for shared objects when a file is committed; an object
  changed between being queued and being written is written in its last state
  (its REVISIT).

Ports (`Ports`), where `AbortsNeedMisuse` says when the process ends:

- Operations pass through a text port to the port under it without asking
  whether the program closed that one, and end the process by an assertion;
  likewise reading from a text port for output.
- `flush-port` and `set-port-translate-mode!` of a translating port for input
  that has just read a CR try to write the LF of a port for output.
- The sweep closes dropped ports in the order of their addresses
  (`vm/memory.c:421`): a text port may find the port under it freed before.
  A text port that was dropped, not closed, loses the LF it owed.
- The column counts the end of the file, and a CR read without translation.
- A binary number cut by the end of the file has consumed its bytes.
- `lread_binary_string` limits the length to that of its buffer
  (`vm/io.c:252-255`) but reads with the whole length (257). Longer strings are
  left out of the model.
- The null port takes bytes also after it was closed (`vm/io.c:421`).

Numbers and aggregates (`Primitives`):

- `round` goes away from zero (`vm/number.c:612-618`, as the tests have it)
  where notes/vcsh-lang.txi 4300-4302 says to even.
- `lsubtract` computes the difference of complex numbers and drops it
  (`vm/number.c:391`): the return is missing.
- Comparing a character with a fixnum compares the tagged word of the character.
- A shift to the left traps for negative numbers and for results of more bits
  than an `int`; an arithmetic shift to the right of a negative number by the
  width of a word answers 0, not -1. `(random 0)` divides by nought.
- A fixnum of more than 53 bits is rounded by `exact->inexact` and by
  arithmetic with flonums, and does not come back exactly. The largest fixnum
  is no double, so that `inexact->exact` accepts one more than there is, and
  the trap of the constructor follows.
- `number->string` writes negative numbers as unsigned unless asked for signed
  ones, and `string->number` does not read those back (`NumbersReadBack` has the
  condition). `string->number` accepts blanks and a plus sign, against
  `vm/number-format.c:73-76`.
- `string-search` of an empty text finds it everywhere but at the end; from the
  right the comparison of an empty text starts before its first character.
  `string-trim` takes the end of its set of characters for one of them. The
  character set of `string-first-character` has one entry less than there are
  characters.
- `length` and `list->vector` of a circular list do not end; neither does the
  making of a structure with a circular layout (`vm/structure.c:39`, 46).
- An output string port given its own string to write frees the buffer before it
  copies from it (`vm/string.c:61`, 206): what is appended is then undefined
  (`Appended`).

## Not modelled, and why

- Deferred execution is dead in this port: setting the timer is an error
  (`deferred-execution.scm:23-24`). The idle list waits for a model of hooks.
- `gc_release_heap` runs at shutdown only; the statistics of the collector
  affect nothing.
- Ports: the debug port, buffering in the C library, short writes, the
  procedures of `io.scm` above the primitives. Fast loading: the printed output
  of the dumper, damage other than a cut.
- Complex numbers, `/`, transcendental functions, the text of flonums, and the
  random generator; the libraries in Scheme on lists, strings and structures.
- Hash functions, `hash-copy`, equality of tables, `hash-refs`, and
  `hash-for-each`.
- The expander and its local definitions; special forms for the primitives of
  the VM (`the-environment`, `%%catch` and so on, `scheme::block`, which no
  library form uses with ops that ignore their successor); primitives of more
  than one argument; breaks in evaluation. A loop by tail calls without
  operands begins no activation, so no break is ever taken in it.
- Conflicts that `export!` makes between the packages that use one
  (`package.scm:469`, a REVISIT of its author); the end of the frame stack
  (`vm/evaluator.c:253`), which nothing looks for.
- Keywords, gensyms, package copies, `defpackage` and required packages; the C
  interning of boot packages.
- Runtime errors (`runtime-error`, `ignore-error`, `error-escape`), stack
  traces, and the interrupt mask, which only dead code sets.
- The printer and the reader except for symbols, the inspector, tools, the
  operating system interface and debugging aids: text and wording, or calls of
  the operating system.
- `javac/` is a sample program.

## Plan

1. (done) `Heap`, `Escape`, `HashTable`/`Table`, `Packages`, `Conditions`;
   proofs for `Heap`, `Escape` and `Packages`.
2. (done) `Compiler`, `Evaluator` and `Session`, with `Language` as the
   reference.
3. (done) `Fasl`, `Ports`, `Primitives`. Runs that showed disagreements gave way
   to these; what they showed is in the list above, and the properties are still
   in the modules.
4. (done) Proofs about `Numbers`, `Primitives` (what changes), `HashTable` with
   its refinement, and `Conditions`.
5. (done) Proofs about `Ports`: types, that a peek is not seen, when the
   process ends, and that lines and positions are those of the text; and the
   types of `Primitives`, with the sizes of buffers.
6. Types and indexes of `Fasl` (the table of definitions, the stack).
7. Left unless time allows: `Require` (`provide-package!`, cyclic and failing
   loads), hooks and the idle list, the file compiler composed with `Compiler`.
