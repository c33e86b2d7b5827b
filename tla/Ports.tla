------------------------------- MODULE Ports --------------------------------
(***************************************************************************)
(* A program that opens, uses, closes and drops ports.  One action per     *)
(* procedure of the I/O system; an action takes the state of the ports to  *)
(* the one its procedure leaves, whether it answers, signals an error or   *)
(* ends the process.  The collector frees the ports the program dropped,   *)
(* in any order (memory.c sweeps by address).                              *)
(***************************************************************************)
EXTENDS PortObjects, FiniteSetsExt

CONSTANTS
    Programs,     \* the programs: calls, inputs and bounds, the disk and ports at the start
    MaxCol,       \* largest column an end of file is read at
    BufLen        \* length of the buffer binary strings are read into: 256

Characters == {"a", ";", " ", CR, LF}

(* A device or data, or a text port over one: what the ports at the start  *)
(* are.  The program has given nothing to a device yet.                    *)
StartPort(start, disk0, p) ==
    LET port == start[p]
        input == PortCons(port.class, {"input"}, 0, port.data)
        output == PortCons(port.class, {"output"}, 0, port.data)
        text(direction) == PortCons("text", {direction, "text"}, port.under, << >>)
    IN  \/ /\ port.class \in FileClasses /\ port.data \in DOMAIN disk0
           /\ port \in {input, output} /\ (port = output => disk0[port.data] = << >>)
        \/ port.class = "c-data" /\ port.data \in Seq(Characters) /\ port = input
        \/ /\ port.under \in 1 .. p - 1 /\ ~TextPort(start[port.under])
           /\ port \in {text("input"), text("output")}

ASSUME ProgramsAssumption ==
    \A g \in Programs :
      /\ g.disk \in [g.files -> Seq(Characters)]
      /\ g.texts \subseteq Seq(Characters) /\ g.chars \subseteq Characters
      /\ g.sizes \subseteq Nat \ {0} /\ \A n \in g.sizes : n <= BufLen
      /\ Len(g.ports) \in Nat /\ g.ports = [p \in 1 .. Len(g.ports) |-> g.ports[p]]
      /\ \A p \in 1 .. Len(g.ports) : StartPort(g.ports, g.disk, p)

VARIABLES
    program,      \* the program that runs
    ports,        \* the ports made so far
    disk,         \* the bytes of files and devices
    held,         \* the ports the program still refers to
    reply,        \* what the last procedure answered
    call          \* the last procedure and its port

vars == <<program, ports, disk, held, reply, call>>

S == [ports |-> ports, disk |-> disk, reply |-> Done]

Calls(op, p, t) ==
    /\ op \in program.calls
    /\ reply # Abort
    /\ ports' = t.ports /\ disk' = t.disk /\ reply' = t.reply
    /\ call' = <<op, p>>
    /\ UNCHANGED program

On(op, p, t) == p \in held /\ Calls(op, p, t) /\ UNCHANGED held

(* Making a port: the program refers to it when no error was signalled.    *)
Makes(op, t) ==
    /\ Len(ports) < program.most
    /\ Calls(op, Len(ports) + 1, t)
    /\ held' = IF t.reply = Done THEN held \cup {Len(ports) + 1} ELSE held

Fails(test, t) == IF test THEN Reply(S, Error) ELSE t

Init ==
    /\ program \in Programs
    /\ disk = program.disk
    /\ ports = program.ports
    /\ held = DOMAIN program.ports
    /\ reply = Done
    /\ call = <<"start", 0>>
-----------------------------------------------------------------------------
(* Opening.                                                                *)
OpenRawInputFile ==
    \E f \in program.files :
      Makes("open-raw-input-file", Add(S, PortCons("file", {"input"}, 0, f)))

OpenRawOutputFile ==
    \E f \in program.files :
      Makes("open-raw-output-file",
            [Add(S, PortCons("file", {"output"}, 0, f)) EXCEPT !.disk[f] = << >>])

(* The file cannot be opened.                                              *)
OpenFails ==
    \E op \in {"open-raw-input-file", "open-raw-output-file"} : Makes(op, Reply(S, Error))

OpenText(op, direction) ==
    \E u \in held :
      Makes(op, Fails(TextPort(ports[u]), Add(S, PortCons("text", {direction, "text"}, u, << >>))))

OpenTextInputPort == OpenText("open-text-input-port", "input")
OpenTextOutputPort == OpenText("open-text-output-port", "output")

OpenInputString ==
    \E text \in program.texts :
      Makes("open-input-string", Add(S, PortCons("string-input", {"input", "text"}, 0, text)))

OpenOutputString ==
    Makes("open-output-string", Add(S, PortCons("string-output", {"output", "text"}, 0, << >>)))

OpenNullPort == Makes("open-null-port", Add(S, PortCons("null", {"input", "output"}, 0, << >>)))

CloneCDataPort ==
    \E p \in held :
      Makes("clone-c-data-port",
            Fails(ports[p].class # "c-data" \/ ~Input(ports[p]),
                  Add(S, [PortCons("c-data", ports[p].mode, 0, ports[p].data)
                            EXCEPT !.pos = ports[p].pos, !.from = ports[p].pos])))
-----------------------------------------------------------------------------
(* Text input.                                                             *)
Bounded(p) == ports[p].col < MaxCol

Reads(op, p, t) == Bounded(p) /\ On(op, p, Fails(~TextPort(ports[p]), t))

ReadCharacter == \E p \in held : Reads("read-char", p, Take(S, p))

PeekCharacter == \E p \in held : Reads("peek-char", p, PeekChar(S, p))

FlushWhitespaces ==
    \E p \in held, comments \in BOOLEAN :
      Reads("flush-whitespace", p,
            Fails(Output(ports[p]), FlushWhitespace(S, p, comments)))

ReadTextLine == \E p \in held : Reads("read-line", p, Fails(Output(ports[p]), ReadLine(S, p)))
-----------------------------------------------------------------------------
(* Text output.                                                            *)
Room(p, n) ==
    LET port == ports[p]
        u == port.under
    IN  Output(port) =>
          /\ Len(port.passed) + n <= program.room
          /\ u # 0 /\ ports[u].class \in FileClasses =>
               Len(disk[ports[u].data]) + n <= 2 * program.room

Writes(op, p, n, t) ==
    Room(p, n) /\ On(op, p, Fails(~TextPort(ports[p]) \/ Input(ports[p]), t))

WriteCharacter ==
    \E p \in held, c \in program.chars : Writes("write-char", p, 1, WriteChar(S, p, c))

(* The strings are written one after the other; nothing is flushed.        *)
WriteStrings ==
    \E p \in held, text \in program.texts :
      Writes("write-strings", p, Len(text), WriteText(S, p, text))

NewLine == \E p \in held : Writes("newline", p, 1, WriteChar(S, p, LF))

FreshLine ==
    \E p \in held :
      Writes("fresh-line", p, 1,
             IF ports[p].col # 0 /\ ~ports[p].needs_lf THEN WriteChar(S, p, LF) ELSE S)

GetOutputString == \E p \in held : Room(p, 1) /\ On("get-output-string", p, FlushPort(S, p))

Flush == \E p \in held : Room(p, 1) /\ On("flush-port", p, FlushPort(S, p))

(* Mutant: the mode changes before the port is flushed.                    *)
SetTranslateFirst(p, mode) ==
    FlushPort([S EXCEPT !.ports[p].translate = mode, !.ports[p].toggled = TRUE], p)

SetTranslate(p, mode) ==
    LET t == FlushPort(S, p)
    IN  IF t.reply = Abort THEN t
        ELSE [t EXCEPT !.ports[p].translate = mode, !.ports[p].toggled = TRUE]

SetPortTranslateMode ==
    \E p \in held, mode \in BOOLEAN :
      /\ Room(p, 1)
      /\ On("set-port-translate-mode!", p, Fails(~TextPort(ports[p]), SetTranslate(p, mode)))
-----------------------------------------------------------------------------
(* Binary input and output: strings of up to n bytes, numbers of exactly n *)
(* bytes.  A number that is cut short is an end of file, but its bytes are *)
(* used up.  A string longer than BufLen is out of the model: it is read   *)
(* past the end of the buffer.                                             *)
ReadBytes(p, n) ==
    LET start == [S EXCEPT !.ports[p].direct = TRUE]
        read[i \in 0 .. n] ==
          IF i = 0 THEN start
          ELSE LET t == read[i - 1] IN IF t.reply \in {Eof, Abort} THEN t ELSE ReadByte(t, p)
    IN  read[n]

ReadBinaryString ==
    \E p \in held, n \in program.sizes :
      On("read-binary-string", p,
         LET t == ReadBytes(p, n)
             some == t.ports[p].pos # ports[p].pos
         IN  Fails(TextPort(ports[p]), IF t.reply = Eof /\ some THEN Reply(t, Done) ELSE t))

ReadBinaryNumber ==
    \E p \in held, n \in program.sizes :
      On("read-binary-fixnum", p, Fails(TextPort(ports[p]), ReadBytes(p, n)))

(* The null port takes what it is given even when it is closed.            *)
WriteBytes(p, text) ==
    LET written[n \in 0 .. Len(text)] ==
          IF n = 0 THEN [S EXCEPT !.ports[p].direct = TRUE]
          ELSE LET r == written[n - 1] IN IF r.reply = Abort THEN r ELSE WriteByte(r, p, text[n])
        t == written[Len(text)]
    IN  IF t.reply = Done /\ ports[p].class # "null" /\ ~Output(ports[p]) THEN Reply(t, Error)
        ELSE t

WriteBinary ==
    \E p \in held, text \in program.texts :
      /\ ports[p].class \in FileClasses => Len(disk[ports[p].data]) + Len(text) <= program.room
      /\ On("write-binary", p, Fails(TextPort(ports[p]), WriteBytes(p, text)))
-----------------------------------------------------------------------------
Close == \E p \in held : Room(p, 1) /\ On("close-port", p, ClosePort(S, p))

Drop ==
    \E p \in held :
      /\ "drop" \in program.calls
      /\ reply # Abort
      /\ held' = held \ {p}
      /\ call' = <<"drop", p>>
      /\ reply' = Done
      /\ UNCHANGED <<program, ports, disk>>

(* What the collector finds.                                               *)
Reachable == UNION {Layers(ports, p) : p \in held}

Garbage == {p \in DOMAIN ports : ~ports[p].freed} \ Reachable

Sweep(order) ==
    LET swept[n \in 0 .. Cardinality(Garbage)] ==
          IF n = 0 THEN S ELSE GcFree(swept[n - 1], order[n])
    IN  swept[Cardinality(Garbage)]

Collect ==
    /\ Garbage # {}
    /\ \E order \in Bijection(1 .. Cardinality(Garbage), Garbage) :
         Calls("collect", 0, Sweep(order))
    /\ UNCHANGED held

Opens ==
    \/ OpenRawInputFile \/ OpenRawOutputFile \/ OpenFails
    \/ OpenTextInputPort \/ OpenTextOutputPort
    \/ OpenInputString \/ OpenOutputString \/ OpenNullPort \/ CloneCDataPort

Uses ==
    \/ ReadCharacter \/ PeekCharacter \/ FlushWhitespaces \/ ReadTextLine
    \/ WriteCharacter \/ WriteStrings \/ NewLine \/ FreshLine
    \/ GetOutputString \/ Flush \/ SetPortTranslateMode
    \/ ReadBinaryString \/ ReadBinaryNumber \/ WriteBinary

Next == Opens \/ Uses \/ Close \/ Drop \/ Collect

Spec == Init /\ [][Next]_vars
-----------------------------------------------------------------------------
TypeOK ==
    /\ \A p \in DOMAIN ports :
         /\ ports[p].mode \in SUBSET ports[p].made
         /\ ports[p].under \in 0 .. p - 1
         /\ Len(ports[p].pbuf) <= (IF ports[p].class = "text" THEN 1 ELSE 0)
         /\ ports[p].row >= 1 /\ ports[p].col >= 0
    /\ held \subseteq {p \in DOMAIN ports : ~ports[p].freed}
    /\ reply \in Characters \cup {Eof, Error, Abort, Done}

(* What a reader or writer of lines makes of a text: CR, LF and CR LF end  *)
(* a line each.                                                            *)
Lines(text) ==
    LET lines[n \in 0 .. Len(text)] ==
          IF n = 0 THEN << >>
          ELSE IF text[n] = LF /\ n > 1 /\ text[n - 1] = CR THEN lines[n - 1]
          ELSE Append(lines[n - 1], IF text[n] = CR THEN LF ELSE text[n])
    IN  lines[Len(text)]

(* Every line ends in CR LF; only the last CR may still wait for its LF.   *)
Paired(text, waits) ==
    \A i \in DOMAIN text :
      /\ text[i] = CR => IF i < Len(text) THEN text[i + 1] = LF ELSE waits
      /\ text[i] = LF => i > 1 /\ text[i - 1] = CR

(* A text port that has the bytes under it, and their file, for itself.    *)
Alone(ps, p) ==
    LET u == ps[p].under IN
    /\ ps[p].class = "text"
    /\ ps[u].class \in FileClasses \cup {"c-data"}
    /\ ~ps[u].direct
    /\ ps[p].made \subseteq ps[u].made \cup {"text"}
    /\ \A q \in DOMAIN ps \ {p, u} :
         /\ ps[q].under # u
         /\ {ps[q].class, ps[u].class} \subseteq FileClasses => ps[q].data # ps[u].data

UnderBytes(p) == Bytes(S, ports[p].under)

(* The text written to a port comes to its file line by line: in           *)
(* translation mode a reader of lines finds in the file what was written,  *)
(* every line ends in CR LF, and only a CR that was the last character     *)
(* written still waits for its LF; never after the port was closed.        *)
WritersKeepLines ==
    reply # Abort => \A p \in DOMAIN ports :
      LET port == ports[p] IN
      Alone(ports, p) /\ "output" \in port.made /\ ~port.toggled =>
        IF port.translate
          THEN /\ Lines(UnderBytes(p)) = Lines(port.passed)
               /\ Paired(UnderBytes(p), port.needs_lf)
               /\ port.mode = {} /\ ~port.freed => ~port.needs_lf
          ELSE UnderBytes(p) = port.passed

(* What was read from a port, with the character that was peeked at, is    *)
(* what the bytes consumed so far say: no character is lost, doubled or    *)
(* out of order, and in translation mode CR, LF and CR LF read as LF.      *)
ReadersKeepLines ==
    reply # Abort => \A p \in DOMAIN ports :
      Alone(ports, p) /\ "input" \in ports[p].made /\ ~ports[p].toggled =>
        LET u == ports[ports[p].under]
            used == SubSeq(UnderBytes(p), u.from + 1, u.pos)
        IN  ports[p].passed \o ports[p].pbuf = IF Crlf THEN Lines(used) ELSE used

(* The row and the column of a text: the lines ended, and the characters   *)
(* since.                                                                  *)
Row(text) == 1 + Cardinality({i \in DOMAIN text : text[i] = LF})
Column(text, ends, skipped) ==
    LET starts == {0} \cup {i \in DOMAIN text : text[i] \in ends}
    IN  Cardinality({i \in Max(starts) + 1 .. Len(text) : text[i] \notin skipped})

At(port, row, col) == port.row = row /\ port.col = col

(* The position a port reports is that of its text: for output the end of  *)
(* the file, however the translation mode was changed, and for input the   *)
(* end of what was read.  For input a character at the end of the file, or *)
(* a CR read without translation, may count too often.                     *)
PositionFollowsText ==
    reply # Abort => \A p \in DOMAIN ports :
      LET port == ports[p] IN
      /\ Alone(ports, p) /\ "output" \in port.made =>
           At(port, Row(UnderBytes(p)), Column(UnderBytes(p), {CR, LF}, {}))
      /\ port.class = "string-output" => At(port, Row(port.data), Column(port.data, {LF}, {CR}))
      /\ Alone(ports, p) /\ "input" \in port.made /\ CR \notin Range(port.passed \o port.pbuf)
            /\ Readable(S, port.under) =>
           At(port, Row(port.passed), Column(port.passed, {LF}, {}))

(* Peeking changes nothing that is read later: a read gives the same       *)
(* character, and leaves the same state, as it would have without the peek *)
(* (but for the column, at the end of the file and at a CR that is not     *)
(* translated).                                                            *)
PeekInvisible ==
    [][\A p \in held :
         call' = <<"peek-char", p>> /\ reply' \notin {Eof, Error, Abort, CR} =>
           Take(S, p).reply = reply' /\ Take(S, p) = Take(S, p)']_vars

(* Working ports: open, over an open port that has bytes the same way.     *)
Working(p) ==
    LET port == ports[p]
        under == ports[port.under]
    IN  /\ port.mode # {}
        /\ port.class = "text" =>
             /\ under.mode # {}
             /\ Output(port) => under.class \in WritesBytes
             /\ Input(port) => under.class \in ReadsBytes

(* The procedures ask for input or output when they could be given either. *)
RightWay(op, p) ==
    CASE op \in {"read-char", "peek-char"} -> Input(ports[p])
      [] op = "read-binary-string" \/ op = "read-binary-fixnum" -> ports[p].class \in ReadsBytes
      [] op = "write-binary" -> ports[p].class \in WritesBytes
      [] OTHER -> TRUE

(* The process ends by a failed assertion only when a port is used that is *)
(* closed, or over one closed or of the other direction; when a port is    *)
(* used the wrong way by a procedure that does not ask; when a translating *)
(* input port is flushed after it read a CR; or when the collector finds a *)
(* text port together with the port under it.                              *)
AbortsNeedMisuse ==
    [][reply' = Abort =>
         LET op == call'[1]
             p == call'[2]
         IN  IF op = "collect"
               THEN \E q \in Garbage : ports[q].class = "text" /\ ports[q].under \in Garbage
               ELSE \/ ~Working(p) \/ ~RightWay(op, p)
                    \/ /\ op \in {"flush-port", "get-output-string", "set-port-translate-mode!"}
                       /\ Input(ports[p]) /\ ports[p].translate /\ ports[p].needs_lf]_vars
=============================================================================
