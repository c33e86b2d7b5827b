---------------------------- MODULE PortObjects ----------------------------
(***************************************************************************)
(* The I/O layers of the VM as operators on a state s of the port system:  *)
(* the bytes of files and devices, binary ports, and text ports over them  *)
(* (vm/io.c, io-text.c, io-string.c, io-external-file.c and                *)
(* io-internal-file.c).                                                    *)
(*                                                                         *)
(* s.ports is the sequence of ports made so far, s.disk the contents of    *)
(* files and devices, s.reply what the operation under way answers: a      *)
(* character, Eof, Done, Error (a VM error) or Abort (a failed assertion   *)
(* or a panic, which ends the process).                                    *)
(***************************************************************************)
EXTENDS Integers, SequencesExt

CONSTANT Crlf         \* sys_get_eoln_convention() = SYS_EOLN_CRLF

ASSUME CrlfAssumption == Crlf \in BOOLEAN

CR == "cr"
LF == "lf"
Eof == "eof"
Error == "error"
Abort == "abort"
Done == "done"

(* What the classes of ports implement.                                    *)
FileClasses == {"file", "stdin", "stdout"}
ReadsBytes == {"file", "stdin", "null", "c-data"}
WritesBytes == {"file", "stdout", "null"}
Flushes == {"file", "stdout"}

TextPort(p) == "text" \in p.mode
Input(p) == "input" \in p.mode
Output(p) == "output" \in p.mode
IsClosed(p) == ~Input(p) /\ ~Output(p)

(* A port with the text information of a new port.  `open` says that the   *)
(* FILE pointer is set; data and pos are the port's own text or buffer and *)
(* the position in it, or in the file; `freed` that the cell was swept.    *)
(* The last are history variables: the mode and the position the port was  *)
(* made with, the characters taken from, or given to, a text port, whether *)
(* the bytes were used directly, and whether the translation mode was set. *)
PortCons(class, mode, under, data) ==
    [class |-> class, mode |-> mode, under |-> under, open |-> class \in FileClasses,
     data |-> data, pos |-> 0,
     pbuf |-> << >>, translate |-> Crlf, needs_lf |-> FALSE,
     col |-> 0, row |-> 1, pline_mcol |-> 0, freed |-> FALSE,
     made |-> mode, from |-> 0, passed |-> << >>, direct |-> FALSE, toggled |-> FALSE]

Add(s, port) == [s EXCEPT !.ports = Append(@, port), !.reply = Done]
Reply(s, r) == [s EXCEPT !.reply = r]
Under(s, p) == s.ports[p].under
-----------------------------------------------------------------------------
(* Bytes.                                                                  *)
Bytes(s, u) == IF s.ports[u].class = "c-data" THEN s.ports[u].data ELSE s.disk[s.ports[u].data]

Readable(s, u) ==
    /\ Input(s.ports[u])
    /\ s.ports[u].class # "null"
    /\ s.ports[u].pos < Len(Bytes(s, u))

ReadByte(s, u) ==
    LET p == s.ports[u] IN
    IF p.class \notin ReadsBytes \/ (p.class \in FileClasses /\ ~p.open) THEN Reply(s, Abort)
    ELSE IF ~Readable(s, u) THEN Reply(s, Eof)
    ELSE Reply([s EXCEPT !.ports[u].pos = @ + 1], Bytes(s, u)[p.pos + 1])

WriteByte(s, u, b) ==
    LET p == s.ports[u] IN
    IF p.class \notin WritesBytes \/ (p.class \in FileClasses /\ ~p.open) THEN Reply(s, Abort)
    ELSE IF p.class = "null" \/ ~Output(p) THEN s
    ELSE [s EXCEPT !.disk[p.data] = Append(@, b)]

(* A port and the ports under it: a text port refers to the one under it,  *)
(* which may be a text port too, when it was closed before.                *)
Layers(ports, p) ==
    LET down[q \in 1 .. p] ==
          IF ports[q].class = "text" THEN {q} \cup down[ports[q].under] ELSE {q}
    IN  down[p]

(* The flush of a port's class, which a text port passes on to the port    *)
(* under it.                                                               *)
ClassFlush(s, p) ==
    IF \E q \in Layers(s.ports, p) :
         \/ q # p /\ s.ports[q].freed
         \/ s.ports[q].class \in Flushes /\ ~s.ports[q].open
      THEN Reply(s, Abort)
      ELSE s
-----------------------------------------------------------------------------
(* Text output.                                                            *)
Move(port, c) ==
    IF c = LF THEN [port EXCEPT !.col = 0, !.row = @ + 1] ELSE [port EXCEPT !.col = @ + 1]

WriteStringPort(s, p, c) ==
    LET moved == IF c = CR THEN s.ports[p] ELSE Move(s.ports[p], c)
    IN  [s EXCEPT !.ports[p] = [moved EXCEPT !.data = Append(@, c)]]

(* Mutant: the line feed that was owed counts as text of the line.         *)
EmitLFAsText(s, p) ==
    [WriteByte(s, Under(s, p), LF) EXCEPT !.ports[p].needs_lf = FALSE, !.ports[p].col = @ + 1]

EmitLF(s, p) ==
    [WriteByte(s, Under(s, p), LF) EXCEPT !.ports[p].needs_lf = FALSE, !.ports[p].row = @ + 1]

WriteTextPort(s, p, c) ==
    LET u == Under(s, p)
        port == s.ports[p]
    IN  CASE c = LF ->
               [WriteByte(IF port.translate THEN WriteByte(s, u, CR) ELSE s, u, LF)
                  EXCEPT !.ports[p] = Move(@, LF)]
          [] c = CR ->
               [WriteByte(s, u, CR) EXCEPT !.ports[p].col = 0, !.ports[p].needs_lf = port.translate]
          [] OTHER -> [WriteByte(s, u, c) EXCEPT !.ports[p] = Move(@, c)]

WriteOwed(s, p, c) ==
    IF ~s.ports[p].needs_lf THEN WriteTextPort(s, p, c)
    ELSE IF c = LF THEN EmitLF(s, p)
    ELSE WriteTextPort(EmitLF(s, p), p, c)

PutChar(s, p, c) ==
    IF s.reply = Abort THEN s
    ELSE LET t == [s EXCEPT !.ports[p].passed = Append(@, c)]
         IN  IF s.ports[p].class = "text" THEN WriteOwed(t, p, c) ELSE WriteStringPort(t, p, c)

(* The text is written in blocks that end before the next end of line;     *)
(* character by character comes to the same.                               *)
WriteText(s, p, text) ==
    LET written[n \in 0 .. Len(text)] ==
          IF n = 0 THEN s ELSE PutChar(written[n - 1], p, text[n])
    IN  IF TextPort(s.ports[p]) /\ Output(s.ports[p])
          THEN written[Len(text)]
          ELSE Reply(s, Abort)

(* Mutant: a flush leaves an owed line feed for later.                     *)
FlushPortOnly(s, p) == IF s.reply = Abort THEN s ELSE ClassFlush(s, p)

FlushPort(s, p) ==
    LET port == s.ports[p]
        t == IF TextPort(port) /\ port.translate /\ port.needs_lf THEN WriteText(s, p, <<LF>>) ELSE s
    IN  IF t.reply = Abort THEN t ELSE ClassFlush(t, p)

WriteChar(s, p, c) ==
    LET t == WriteText(s, p, <<c>>)
    IN  IF c = LF /\ t.reply # Abort THEN FlushPort(t, p) ELSE t
-----------------------------------------------------------------------------
(* Text input.  Translation makes every CR a LF, and drops a LF after a CR *)
(* (the reply is then Skip).                                               *)
Skip == "skip"

(* Mutant: a character that is no line feed leaves the mark of the CR.     *)
TranslateSticky(s, p) ==
    LET port == s.ports[p] IN
    IF s.reply \in {Eof, Abort} \/ ~port.translate THEN s
    ELSE IF s.reply = CR THEN Reply([s EXCEPT !.ports[p].needs_lf = TRUE], LF)
    ELSE IF port.needs_lf /\ s.reply = LF
           THEN Reply([s EXCEPT !.ports[p].needs_lf = FALSE], Skip)
    ELSE s

Translate(s, p) ==
    LET port == s.ports[p] IN
    IF s.reply \in {Eof, Abort} \/ ~port.translate THEN s
    ELSE IF s.reply = CR THEN Reply([s EXCEPT !.ports[p].needs_lf = TRUE], LF)
    ELSE IF port.needs_lf
           THEN Reply([s EXCEPT !.ports[p].needs_lf = FALSE], IF s.reply = LF THEN Skip ELSE s.reply)
    ELSE s

ReadTextPort(s, p) ==
    LET t == Translate(ReadByte(s, Under(s, p)), p)
    IN  IF t.reply = Skip THEN Translate(ReadByte(t, Under(s, p)), p) ELSE t

ReadStringPort(s, p) ==
    LET port == s.ports[p] IN
    IF port.pos >= Len(port.data) THEN Reply(s, Eof)
    ELSE Reply([s EXCEPT !.ports[p].pos = @ + 1], port.data[port.pos + 1])

(* Mutant: the character peeked at is kept.                                *)
UnreadKeeps(s, p) == Reply(s, s.ports[p].pbuf[1])

(* read_char: the position moves, at the end of the file too.              *)
Unread(s, p) == Reply([s EXCEPT !.ports[p].pbuf = << >>], s.ports[p].pbuf[1])

ReadPosition(port, c) ==
    [Move(port, c) EXCEPT !.pline_mcol = IF c = LF THEN port.col ELSE @]

ReadChar(s, p) ==
    LET port == s.ports[p]
        t == IF port.pbuf # << >> THEN Unread(s, p)
             ELSE IF port.class = "text" THEN ReadTextPort(s, p)
             ELSE ReadStringPort(s, p)
    IN  IF ~TextPort(port) \/ ~Input(port) THEN Reply(s, Abort)
        ELSE IF t.reply = Abort THEN t
        ELSE [t EXCEPT !.ports[p] = ReadPosition(@, t.reply)]

(* Mutant: the step back does not tell the end of a line.                  *)
UnmoveColumn(port, c) == IF c = CR THEN port ELSE [port EXCEPT !.col = @ - 1]

(* peek_char: a text port reads and takes the position back, but not for a *)
(* CR that is not translated, nor at the end of the file.                  *)
Unmove(port, c) ==
    CASE c = LF -> [port EXCEPT !.col = port.pline_mcol, !.row = @ - 1]
      [] c = CR -> port
      [] OTHER -> [port EXCEPT !.col = @ - 1]

PeekTextPort(s, p) ==
    LET t == ReadChar(s, p)
    IN  IF t.reply \in {Eof, Abort} THEN t
        ELSE [t EXCEPT !.ports[p] = [Unmove(@, t.reply) EXCEPT !.pbuf = <<t.reply>>]]

PeekChar(s, p) ==
    LET port == s.ports[p] IN
    IF ~TextPort(port) \/ ~Input(port) THEN Reply(s, Abort)
    ELSE IF port.class = "text" THEN PeekTextPort(s, p)
    ELSE Reply(s, IF port.pos >= Len(port.data) THEN Eof ELSE port.data[port.pos + 1])

(* A read by the program: what it got is part of the port's history.       *)
Take(s, p) ==
    LET t == ReadChar(s, p)
    IN  IF t.reply \in {Eof, Abort} THEN t ELSE [t EXCEPT !.ports[p].passed = Append(@, t.reply)]

(* Characters there are at most to be read from p: the bound of the loops. *)
Left(s, p) ==
    LET port == s.ports[p] IN
    IF port.class = "text" /\ s.ports[port.under].class \in FileClasses \cup {"c-data"}
      THEN Len(Bytes(s, port.under)) + 1 ELSE Len(port.data) + 1

(* flush_lisp_comment, and the loop of lread_line.                         *)
RestOfLine(s, p) ==
    LET read[n \in 0 .. Left(s, p)] ==
          IF n = 0 THEN Take(s, p)
          ELSE LET t == read[n - 1] IN IF t.reply \in {LF, Eof, Abort} THEN t ELSE Take(t, p)
    IN  read[Left(s, p)]

(* The line read is the end of what has passed.                            *)
ReadLine(s, p) ==
    LET t == RestOfLine(s, p)
    IN  IF t.reply = Abort \/ t.ports[p].passed = s.ports[p].passed THEN t ELSE Reply(t, Done)

(* flush_whitespace: the reply is the first character that is none.        *)
Whitespace == {CR, LF, " "}

FlushWhitespace(s, p, comments) ==
    LET step(t) ==
          IF t.reply = ";" /\ comments THEN PeekChar(RestOfLine(t, p), p)
          ELSE IF t.reply \in Whitespace THEN PeekChar(Take(t, p), p)
          ELSE t
        skip[n \in 0 .. Left(s, p)] == IF n = 0 THEN PeekChar(s, p) ELSE step(skip[n - 1])
    IN  skip[Left(s, p)]
-----------------------------------------------------------------------------
(* Closing: a text port closes the port under it.                          *)
ClosePort(s, p) ==
    LET flushed == IF Output(s.ports[p]) THEN FlushPort(s, p) ELSE s
        closes == Layers(s.ports, p)
        shut(q) == [flushed.ports[q] EXCEPT !.mode = {}, !.open = FALSE]
    IN  IF flushed.reply = Abort THEN flushed
        ELSE IF \E q \in closes : s.ports[q].freed THEN Reply(s, Abort)
        ELSE [flushed EXCEPT !.ports = [q \in DOMAIN @ |-> IF q \in closes THEN shut(q) ELSE @[q]],
                             !.reply = Done]

(* port_gc_free: the sweep closes a port it frees, without flushing it.    *)
GcFree(s, p) ==
    LET t == IF s.ports[p].class = "text" THEN ClosePort(s, Under(s, p)) ELSE s
    IN  IF s.reply = Abort THEN s
        ELSE IF s.ports[p].class = "text" /\ s.ports[Under(s, p)].freed THEN Reply(s, Abort)
        ELSE IF t.reply = Abort THEN t
        ELSE [t EXCEPT !.ports[p].freed = TRUE, !.ports[p].open = FALSE, !.ports[p].mode = {}]
=============================================================================
