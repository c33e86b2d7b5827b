------------------------------ MODULE MCPorts -------------------------------
(***************************************************************************)
(* Small programs for TLC.  Each one calls a group of procedures on ports  *)
(* over one file or device.                                                *)
(***************************************************************************)
EXTENDS Ports

Texts(n) == UNION {[1 .. m -> {"a", CR, LF}] : m \in 0 .. n}

NoPorts == << >>
Stdin == <<PortCons("stdin", {"input"}, 0, "f"), PortCons("text", {"input", "text"}, 1, << >>)>>
Stdout == <<PortCons("stdout", {"output"}, 0, "f"), PortCons("text", {"output", "text"}, 1, << >>)>>
CData(data) == <<PortCons("c-data", {"input"}, 0, data)>>

Program(calls, most, room, startPorts, bytes, texts) ==
    [calls |-> calls, most |-> most, room |-> room, ports |-> startPorts, disk |-> [f \in {"f"} |-> bytes], files |-> {"f"},
     chars |-> {"a", CR, LF}, texts |-> texts, sizes |-> {1, 2}]

Reading == {"read-char", "peek-char", "read-line", "flush-whitespace"}
Writing == {"write-char", "write-strings", "newline", "fresh-line"}
Managing == {"flush-port", "set-port-translate-mode!", "close-port", "drop", "collect"}
Binary == {"read-binary-string", "read-binary-fixnum", "write-binary"}
Some == {<<CR>>, <<LF, "a">>, <<"a", CR, "a">>}

Readers ==
    {Program(Reading \cup {"open-raw-input-file", "open-text-input-port"}, 2, 0, NoPorts, text, {}) :
       text \in Texts(4)}

ManagedReaders ==
    {Program((Reading \ {"flush-whitespace"}) \cup Managing, 2, 0, Stdin, text, {}) :
       text \in [1 .. 3 -> {"a", CR, LF}]}

Skippers ==
    {Program(Reading, 2, 0, Stdin, text, {}) : text \in [1 .. 4 -> {"a", ";", " ", LF}]}

Writers ==
    {Program(Writing \cup Managing \cup {"open-raw-output-file", "open-text-output-port"},
             2, 4, NoPorts, << >>, Some)}

Printers ==
    {Program({"write-char", "fresh-line", "close-port", "collect", "drop", "open-text-output-port"},
             3, 2, Stdout, << >>, {})}

StringReaders ==
    {Program(Reading \cup {"open-input-string", "close-port", "set-port-translate-mode!"},
             1, 4, NoPorts, << >>, Texts(3))}

StringWriters ==
    {Program(Writing \cup {"open-output-string", "get-output-string", "close-port",
                           "set-port-translate-mode!"}, 1, 4, NoPorts, << >>, Some)}

BinaryUsers ==
    {Program(Binary \cup {"open-raw-input-file", "open-raw-output-file", "close-port", "flush-port",
                          "open-null-port", "clone-c-data-port"},
             3, 4, CData(<<"a", CR>>), <<"a", LF>>, {<<"a", LF>>})}

Sharers ==
    {Program({"open-text-input-port", "open-text-output-port", "clone-c-data-port", "open-null-port",
              "read-char", "peek-char", "write-char", "close-port", "drop", "collect"},
             3, 1, start, IF start = Stdin THEN <<"a", LF>> ELSE << >>, {}) :
       start \in {CData(<<CR, LF>>), Stdin, Stdout}}

MCPrograms == UNION {Readers, ManagedReaders, Skippers, Writers, Printers, StringReaders, StringWriters,
                     BinaryUsers, Sharers}
=============================================================================
