---------------------------- MODULE PortsProofs ----------------------------
(***************************************************************************)
(* What module Ports says of every program: the types of its state, that a *)
(* failed assertion needs the misuse of a port, and that a peek changes    *)
(* nothing that is read later.  The operators of the model take a system,  *)
(* of ports, disk and answer, to another; for each of them a lemma says    *)
(* that it keeps the ports sound and when it can abort.                    *)
(***************************************************************************)
EXTENDS Ports, WellFoundedInduction, FiniteSetTheorems, TLAPS

(* A set of natural numbers has a least element: the least counterexample  *)
(* takes the place of an induction.                                        *)
LEMMA LeastExists ==
  ASSUME NEW A, A \subseteq Nat, A # {}
  PROVE  \E m \in A : \A k \in A : m <= k
<1>1. PICK m \in A : \A k \in A : ~ (<<k, m>> \in OpToRel(<, Nat))
  BY NatLessThanWellFounded, WFMin
<1>2. \A k \in A : ~ (k < m)
  BY <1>1 DEF OpToRel
<1> QED
  BY <1>2

(* The kinds of port and what a call can answer.                           *)
Modes == {"input", "output", "text"}
Classes == FileClasses \cup {"null", "c-data", "string-input", "string-output", "text"}
Replies == Characters \cup {Eof, Error, Abort, Done}

(* The fields of a port, F being the files.                                *)
PortRecords(F) ==
    [class : Classes, mode : SUBSET Modes, under : Nat, open : BOOLEAN,
     data : F \cup Seq(Characters), pos : Nat,
     pbuf : Seq(Characters), translate : BOOLEAN, needs_lf : BOOLEAN,
     col : Nat, row : Nat \ {0}, pline_mcol : Nat, freed : BOOLEAN,
     made : SUBSET Modes, from : Nat, passed : Seq(Characters), direct : BOOLEAN, toggled : BOOLEAN]

(* The ways the ports of each class are made.                              *)
MadeRight(class, made) ==
    \/ class \in FileClasses /\ made \in {{"input"}, {"output"}}
    \/ class = "c-data" /\ made = {"input"}
    \/ class = "null" /\ made = {"input", "output"}
    \/ class = "string-input" /\ made = {"input", "text"}
    \/ class = "string-output" /\ made = {"output", "text"}
    \/ class = "text" /\ made \in {{"input", "text"}, {"output", "text"}}

(* A port by itself, F being the files.                                    *)
Sound(F, port) ==
    /\ port \in PortRecords(F)
    /\ MadeRight(port.class, port.made)
    /\ port.mode \in {{}, port.made}
    /\ IF port.class \in FileClasses THEN port.data \in F ELSE port.data \in Seq(Characters)
    /\ Len(port.pbuf) <= 1
    /\ port.class # "text" => port.pbuf = << >> /\ port.under = 0
    /\ port.class \in FileClasses => (port.open <=> port.mode # {})
    /\ port.freed => port.mode = {}

(* What reading, writing and flushing leave as it is.                      *)
Fixed(a, b) ==
    /\ b.class = a.class /\ b.mode = a.mode /\ b.under = a.under /\ b.open = a.open
    /\ b.freed = a.freed /\ b.made = a.made
    /\ a.class \in FileClasses => b.data = a.data

(* A text port is over a port made before, which is no text port unless it *)
(* is closed.                                                              *)
Layered(ps, p) ==
    ps[p].class = "text" =>
      ps[p].under \in 1 .. p - 1 /\ ~TextPort(ps[ps[p].under])

(* The ports, the disk and the answer so far: what the operators change.   *)
Systems(F) ==
    [ports : Seq(PortRecords(F)), disk : [F -> Seq(Characters)], reply : Replies \cup {Skip}]

(* A system whose ports are sound and rightly layered.                     *)
Good(F, s) ==
    /\ s \in Systems(F)
    /\ \A p \in DOMAIN s.ports : Sound(F, s.ports[p]) /\ Layered(s.ports, p)

(* The same ports, with the same fixed fields.                             *)
Same(s, t) ==
    /\ Len(t.ports) = Len(s.ports)
    /\ \A p \in DOMAIN s.ports : Fixed(s.ports[p], t.ports[p])

(* What reading, writing and flushing lead to.                             *)
Kept(F, s, t) == Good(F, t) /\ Same(s, t)

(* A system with one port changed.                                         *)
PutPort(s, p, port) == [s EXCEPT !.ports[p] = port]
-----------------------------------------------------------------------------
(* The parts of a system.                                                  *)
LEMMA SystemParts ==
  ASSUME NEW F, NEW s \in Systems(F)
  PROVE  /\ s.ports \in Seq(PortRecords(F)) /\ s.disk \in [F -> Seq(Characters)]
         /\ s.reply \in Replies \cup {Skip}
         /\ DOMAIN s.ports = 1 .. Len(s.ports) /\ Len(s.ports) \in Nat
         /\ \A p \in DOMAIN s.ports : s.ports[p] \in PortRecords(F)
BY DEF Systems

(* To leave the fixed fields as they are twice is to leave them.           *)
LEMMA SameIsOrder ==
  ASSUME NEW F, NEW s, NEW t, NEW u, Good(F, s), Good(F, t), Good(F, u), Same(s, t), Same(t, u)
  PROVE  Same(s, u)
<1>1. DOMAIN t.ports = DOMAIN s.ports
  BY SystemParts DEF Good, Same
<1> QED
  BY <1>1 DEF Same, Fixed

(* To do nothing keeps a system.                                           *)
LEMMA SameSelf ==
  ASSUME NEW F, NEW s, Good(F, s)
  PROVE  Kept(F, s, s)
BY DEF Kept, Same, Fixed

(* To answer changes nothing but the answer.                               *)
LEMMA ReplyKept ==
  ASSUME NEW F, NEW s, Good(F, s), NEW r \in Replies \cup {Skip}
  PROVE  Kept(F, s, Reply(s, r)) /\ Reply(s, r).reply = r /\ Reply(s, r).ports = s.ports
         /\ Reply(s, r).disk = s.disk
<1>1. /\ Reply(s, r).ports = s.ports /\ Reply(s, r).disk = s.disk /\ Reply(s, r).reply = r
      /\ Reply(s, r) \in Systems(F)
  BY DEF Reply, Good, Systems
<1> QED
  BY <1>1 DEF Kept, Good, Same, Fixed, Layered

(* A system with one port changed is a system.                             *)
LEMMA PutTyped ==
  ASSUME NEW F, NEW s \in Systems(F), NEW p \in DOMAIN s.ports, NEW port \in PortRecords(F)
  PROVE  PutPort(s, p, port) \in Systems(F)
<1>1. s.ports \in Seq(PortRecords(F)) /\ s.disk \in [F -> Seq(Characters)]
         /\ s.reply \in Replies \cup {Skip}
  BY SystemParts
<1>2. [s.ports EXCEPT ![p] = port] \in Seq(PortRecords(F))
  BY <1>1
<1>3. PutPort(s, p, port) = [s EXCEPT !.ports = [s.ports EXCEPT ![p] = port]]
  BY DEF PutPort, Systems
<1> QED
  BY <1>2, <1>3 DEF Systems

(* What the change of one port changes.                                    *)
LEMMA PutParts ==
  ASSUME NEW F, NEW s \in Systems(F), NEW p \in DOMAIN s.ports, NEW port
  PROVE  /\ PutPort(s, p, port).disk = s.disk /\ PutPort(s, p, port).reply = s.reply
         /\ Len(PutPort(s, p, port).ports) = Len(s.ports)
         /\ DOMAIN PutPort(s, p, port).ports = DOMAIN s.ports
         /\ PutPort(s, p, port).ports[p] = port
         /\ \A q \in DOMAIN s.ports \ {p} : PutPort(s, p, port).ports[q] = s.ports[q]
<1>1. s.ports \in Seq(PortRecords(F))
  BY SystemParts
<1>2. /\ PutPort(s, p, port).ports = [s.ports EXCEPT ![p] = port]
      /\ PutPort(s, p, port).disk = s.disk /\ PutPort(s, p, port).reply = s.reply
  BY DEF PutPort, Systems
<1> QED
  BY <1>1, <1>2

(* A changed port whose fixed fields are the same.                         *)
LEMMA PutKept ==
  ASSUME NEW F, NEW s, Good(F, s), NEW p \in DOMAIN s.ports, NEW port,
         Sound(F, port), Fixed(s.ports[p], port)
  PROVE  Kept(F, s, PutPort(s, p, port))
<1> DEFINE t == PutPort(s, p, port)
<1>1. /\ s \in Systems(F) /\ port \in PortRecords(F)
      /\ \A q \in DOMAIN s.ports : Sound(F, s.ports[q]) /\ Layered(s.ports, q)
  BY DEF Good, Sound
<1>2. /\ t \in Systems(F) /\ Len(t.ports) = Len(s.ports) /\ DOMAIN t.ports = DOMAIN s.ports
      /\ t.ports[p] = port /\ \A q \in DOMAIN s.ports \ {p} : t.ports[q] = s.ports[q]
  BY <1>1, PutTyped, PutParts
<1>0. DOMAIN s.ports = 1 .. Len(s.ports) /\ Len(s.ports) \in Nat
  BY <1>1, SystemParts
<1> HIDE DEF t
<1>3. \A q \in DOMAIN s.ports : Fixed(s.ports[q], t.ports[q]) /\ Sound(F, t.ports[q])
  BY <1>1, <1>2 DEF Fixed
<1>4. ASSUME NEW q \in DOMAIN s.ports
      PROVE  Layered(t.ports, q)
  <2>1. q \in Nat /\ \A k \in 1 .. q - 1 : k \in DOMAIN s.ports
    BY <1>0, <1>4
  <2> QED
    BY <1>1, <1>3, <1>4, <2>1 DEF Layered, Fixed, TextPort
<1> QED
  BY <1>2, <1>3, <1>4 DEF Kept, Good, Same, t
-----------------------------------------------------------------------------
(* Changes of a port.                                                      *)

(* A port for input reads at another position.                             *)
LEMMA PosSound ==
  ASSUME NEW F, NEW port, Sound(F, port), NEW n \in Nat
  PROVE  Sound(F, [port EXCEPT !.pos = n]) /\ Fixed(port, [port EXCEPT !.pos = n])
BY DEF Sound, Fixed, PortRecords

(* A port owes a LF, or no longer.                                         *)
LEMMA OwedSound ==
  ASSUME NEW F, NEW port, Sound(F, port), NEW b \in BOOLEAN
  PROVE  Sound(F, [port EXCEPT !.needs_lf = b]) /\ Fixed(port, [port EXCEPT !.needs_lf = b])
BY DEF Sound, Fixed, PortRecords

(* The LF a port owed was written.                                         *)
LEMMA EmittedSound ==
  ASSUME NEW F, NEW port, Sound(F, port)
  PROVE  /\ Sound(F, [port EXCEPT !.needs_lf = FALSE, !.row = @ + 1])
         /\ Fixed(port, [port EXCEPT !.needs_lf = FALSE, !.row = @ + 1])
<1>1. port.row + 1 \in Nat \ {0}
  BY DEF Sound, PortRecords
<1> QED
  BY <1>1 DEF Sound, Fixed, PortRecords

(* A CR takes a port to the first column.                                  *)
LEMMA ReturnedSound ==
  ASSUME NEW F, NEW port, Sound(F, port), NEW b \in BOOLEAN
  PROVE  /\ Sound(F, [port EXCEPT !.col = 0, !.needs_lf = b])
         /\ Fixed(port, [port EXCEPT !.col = 0, !.needs_lf = b])
BY ZenonT(60) DEF Sound, Fixed, PortRecords

(* Writing a character moves the position.                                 *)
LEMMA MoveSound ==
  ASSUME NEW F, NEW port, Sound(F, port), NEW c
  PROVE  Sound(F, Move(port, c)) /\ Fixed(port, Move(port, c))
<1>1. port.col + 1 \in Nat /\ port.row + 1 \in Nat \ {0} /\ 0 \in Nat
  BY DEF Sound, PortRecords
<1>2. CASE c = LF
  <2>1. Move(port, c) = [port EXCEPT !.col = 0, !.row = port.row + 1]
    BY <1>2 DEF Move
  <2> QED
    BY <1>1, <2>1, ZenonT(60) DEF Sound, Fixed, PortRecords
<1>3. CASE c # LF
  <2>1. Move(port, c) = [port EXCEPT !.col = port.col + 1]
    BY <1>3 DEF Move
  <2> QED
    BY <1>1, <2>1, ZenonT(60) DEF Sound, Fixed, PortRecords
<1> QED
  BY <1>2, <1>3

(* The history of the characters passed gets longer.                       *)
LEMMA PassedSound ==
  ASSUME NEW F, NEW port, Sound(F, port), NEW c \in Characters
  PROVE  /\ Sound(F, [port EXCEPT !.passed = Append(@, c)])
         /\ Fixed(port, [port EXCEPT !.passed = Append(@, c)])
<1>1. Append(port.passed, c) \in Seq(Characters)
  BY DEF Sound, PortRecords
<1> QED
  BY <1>1 DEF Sound, Fixed, PortRecords

(* A string port gets one more character.                                  *)
LEMMA DataSound ==
  ASSUME NEW F, NEW port, Sound(F, port), NEW c \in Characters, port.class \notin FileClasses
  PROVE  /\ Sound(F, [port EXCEPT !.data = Append(@, c)])
         /\ Fixed(port, [port EXCEPT !.data = Append(@, c)])
<1>1. Append(port.data, c) \in Seq(Characters)
  BY DEF Sound
<1> QED
  BY <1>1 DEF Sound, Fixed, PortRecords

(* The character unread is taken back.                                     *)
LEMMA EmptiedSound ==
  ASSUME NEW F, NEW port, Sound(F, port)
  PROVE  Sound(F, [port EXCEPT !.pbuf = << >>]) /\ Fixed(port, [port EXCEPT !.pbuf = << >>])
<1>1. << >> \in Seq(Characters) /\ Len(<< >>) <= 1
  OBVIOUS
<1> QED
  BY <1>1 DEF Sound, Fixed, PortRecords

(* A character is unread.                                                  *)
LEMMA FilledSound ==
  ASSUME NEW F, NEW port, Sound(F, port), NEW c \in Characters, port.class = "text"
  PROVE  Sound(F, [port EXCEPT !.pbuf = <<c>>]) /\ Fixed(port, [port EXCEPT !.pbuf = <<c>>])
<1>1. <<c>> \in Seq(Characters) /\ Len(<<c>>) <= 1
  OBVIOUS
<1> QED
  BY <1>1 DEF Sound, Fixed, PortRecords

(* Reading a character moves the position.                                 *)
LEMMA PositionSound ==
  ASSUME NEW F, NEW port, Sound(F, port), NEW c
  PROVE  Sound(F, ReadPosition(port, c)) /\ Fixed(port, ReadPosition(port, c))
<1>1. Sound(F, Move(port, c)) /\ Fixed(port, Move(port, c))
  BY MoveSound
<1>2. port.col \in Nat
  BY DEF Sound, PortRecords
<1> HIDE DEF Move
<1>3. (IF c = LF THEN port.col ELSE Move(port, c).pline_mcol) \in Nat
  BY <1>1, <1>2 DEF Sound, PortRecords
<1> QED
  BY <1>1, <1>3, ZenonT(60) DEF ReadPosition, Sound, Fixed, PortRecords

(* Unreading a character moves the position back.                          *)
LEMMA UnmoveSound ==
  ASSUME NEW F, NEW port, Sound(F, port), NEW c \in Characters
  PROVE  /\ Sound(F, Unmove(ReadPosition(port, c), c))
         /\ Fixed(port, Unmove(ReadPosition(port, c), c))
<1> DEFINE r == ReadPosition(port, c)
<1>1. Sound(F, r) /\ Fixed(port, r)
  BY PositionSound
<1>2. CASE c = LF
  <2>1. r.pline_mcol \in Nat /\ r.row - 1 \in Nat \ {0}
    BY <1>2 DEF ReadPosition, Move, Sound, PortRecords
  <2> HIDE DEF r
  <2>2. Unmove(r, c) = [r EXCEPT !.col = r.pline_mcol, !.row = r.row - 1]
    BY <1>2 DEF Unmove, CR, LF
  <2>3. Sound(F, Unmove(r, c)) /\ Fixed(r, Unmove(r, c))
    BY <1>1, <2>1, <2>2, ZenonT(60) DEF Sound, PortRecords, Fixed
  <2> QED
    BY <1>1, <2>3 DEF Fixed, r
<1>3. CASE c = CR
  BY <1>1, <1>3 DEF Unmove, CR, LF
<1>4. CASE c \notin {CR, LF}
  <2>1. r.col - 1 \in Nat
    BY <1>4 DEF ReadPosition, Move, Sound, PortRecords
  <2> HIDE DEF r
  <2>2. Unmove(r, c) = [r EXCEPT !.col = r.col - 1]
    BY <1>4 DEF Unmove, Sound, PortRecords
  <2>3. Sound(F, Unmove(r, c)) /\ Fixed(r, Unmove(r, c))
    BY <1>1, <2>1, <2>2, ZenonT(60) DEF Sound, PortRecords, Fixed
  <2> QED
    BY <1>1, <2>3 DEF Fixed, r
<1> QED
  BY <1>2, <1>3, <1>4

(* A port is used for bytes directly.                                      *)
LEMMA DirectSound ==
  ASSUME NEW F, NEW port, Sound(F, port)
  PROVE  Sound(F, [port EXCEPT !.direct = TRUE]) /\ Fixed(port, [port EXCEPT !.direct = TRUE])
BY DEF Sound, Fixed, PortRecords

(* The translation mode is set.                                            *)
LEMMA ToggledSound ==
  ASSUME NEW F, NEW port, Sound(F, port), NEW b \in BOOLEAN
  PROVE  /\ Sound(F, [port EXCEPT !.translate = b, !.toggled = TRUE])
         /\ Fixed(port, [port EXCEPT !.translate = b, !.toggled = TRUE])
BY ZenonT(60) DEF Sound, Fixed, PortRecords
-----------------------------------------------------------------------------
(* Bytes.                                                                  *)

(* Ports whose class reads or writes bytes; files have to be open.         *)
CanRead(port) == port.class \in ReadsBytes /\ (port.class \in FileClasses => port.open)
CanWrite(port) == port.class \in WritesBytes /\ (port.class \in FileClasses => port.open)

(* A port and what is known of it.                                         *)
LEMMA GoodParts ==
  ASSUME NEW F, NEW s, Good(F, s)
  PROVE  /\ s \in Systems(F) /\ s.ports \in Seq(PortRecords(F))
         /\ s.disk \in [F -> Seq(Characters)] /\ s.reply \in Replies \cup {Skip}
         /\ DOMAIN s.ports = 1 .. Len(s.ports) /\ Len(s.ports) \in Nat
         /\ \A p \in DOMAIN s.ports : Sound(F, s.ports[p]) /\ Layered(s.ports, p)
<1>1. s \in Systems(F) /\ \A p \in DOMAIN s.ports : Sound(F, s.ports[p]) /\ Layered(s.ports, p)
  BY DEF Good
<1> QED
  BY <1>1, SystemParts

(* A system kept twice is kept.                                            *)
LEMMA KeptTwice ==
  ASSUME NEW F, NEW s, NEW t, NEW u, Good(F, s), Kept(F, s, t), Kept(F, t, u)
  PROVE  Kept(F, s, u)
BY SameIsOrder DEF Kept

(* What is known of the ports of a system that was kept.                   *)
LEMMA KeptParts ==
  ASSUME NEW F, NEW s, NEW t, Good(F, s), Kept(F, s, t)
  PROVE  /\ Good(F, t) /\ DOMAIN t.ports = DOMAIN s.ports
         /\ \A p \in DOMAIN s.ports : Fixed(s.ports[p], t.ports[p])
<1>1. Good(F, t) /\ Len(t.ports) = Len(s.ports) /\ \A p \in DOMAIN s.ports : Fixed(s.ports[p], t.ports[p])
  BY DEF Kept, Same
<1>2. DOMAIN t.ports = 1 .. Len(t.ports) /\ DOMAIN s.ports = 1 .. Len(s.ports)
  BY <1>1, GoodParts
<1> QED
  BY <1>1, <1>2

(* A port for input has characters to read.                                *)
LEMMA BytesAre ==
  ASSUME NEW F, NEW s, Good(F, s), NEW u \in DOMAIN s.ports,
         s.ports[u].class \in FileClasses \cup {"c-data"}
  PROVE  Bytes(s, u) \in Seq(Characters)
<1>1. Sound(F, s.ports[u]) /\ s.disk \in [F -> Seq(Characters)]
  BY GoodParts
<1> QED
  BY <1>1 DEF Bytes, Sound, FileClasses

(* Reading a byte keeps the system, touches no other port, and fails only  *)
(* at a port whose class does not read, or that is a closed file.          *)
LEMMA ReadByteKept ==
  ASSUME NEW F, NEW s, Good(F, s), NEW u \in DOMAIN s.ports
  PROVE  /\ Kept(F, s, ReadByte(s, u))
         /\ ReadByte(s, u).reply \in Characters \cup {Eof, Abort}
         /\ CanRead(s.ports[u]) => ReadByte(s, u).reply # Abort
         /\ \A q \in DOMAIN s.ports \ {u} : ReadByte(s, u).ports[q] = s.ports[q]
<1> DEFINE p == s.ports[u]
<1>0. Sound(F, p) /\ s \in Systems(F)
  BY GoodParts
<1>1. Sound(F, p) /\ s \in Systems(F) /\ p.pos \in Nat
  BY <1>0 DEF Sound, PortRecords
<1>2. CASE ~CanRead(p)
  <2>1. ReadByte(s, u) = Reply(s, Abort)
    BY <1>2 DEF ReadByte, CanRead
  <2> QED
    BY <1>2, <2>1, ReplyKept DEF Replies
<1>3. CASE CanRead(p) /\ ~Readable(s, u)
  <2>1. ReadByte(s, u) = Reply(s, Eof)
    BY <1>3 DEF ReadByte, CanRead
  <2> QED
    BY <1>3, <2>1, ReplyKept DEF Replies, Eof, Abort
<1>4. CASE CanRead(p) /\ Readable(s, u)
  <2> DEFINE port == [p EXCEPT !.pos = p.pos + 1]
             t == PutPort(s, u, port)
             c == Bytes(s, u)[p.pos + 1]
  <2>1. ReadByte(s, u) = Reply(t, c)
    <3>1. [s EXCEPT !.ports[u].pos = @ + 1] = t
      BY DEF PutPort
    <3> HIDE DEF t, c
    <3>2. ReadByte(s, u) = Reply([s EXCEPT !.ports[u].pos = @ + 1], Bytes(s, u)[p.pos + 1])
      BY <1>4 DEF ReadByte, CanRead
    <3> QED
      BY <3>1, <3>2 DEF c
  <2>2. Sound(F, port) /\ Fixed(p, port)
    BY <1>1, PosSound
  <2> HIDE DEF port
  <2>3. Kept(F, s, t)
    BY <2>2, PutKept
  <2>4. \A q \in DOMAIN s.ports \ {u} : t.ports[q] = s.ports[q]
    BY <1>1, PutParts
  <2>5. c \in Characters
    <3>1. p.class \in FileClasses \cup {"c-data"}
      BY <1>4 DEF CanRead, Readable, ReadsBytes, FileClasses
    <3>2. Bytes(s, u) \in Seq(Characters)
      BY <3>1, BytesAre
    <3>3. p.pos + 1 \in 1 .. Len(Bytes(s, u))
      BY <1>1, <1>4, <3>2 DEF Readable
    <3> QED
      BY <3>2, <3>3
  <2> HIDE DEF t, c
  <2>6. Good(F, t)
    BY <2>3 DEF Kept
  <2>7. Kept(F, t, Reply(t, c)) /\ Reply(t, c).reply = c /\ Reply(t, c).ports = t.ports
    BY <2>5, <2>6, ReplyKept DEF Replies
  <2>8. Kept(F, s, Reply(t, c))
    BY <2>3, <2>7, KeptTwice
  <2>9. c # Abort
    BY <2>5 DEF Characters, Abort, CR, LF
  <2> QED
    BY <2>1, <2>4, <2>5, <2>7, <2>8, <2>9
<1> QED
  BY <1>2, <1>3, <1>4

(* Writing a file keeps the system.                                        *)
LEMMA DiskKept ==
  ASSUME NEW F, NEW s, Good(F, s), NEW f \in F, NEW bytes \in Seq(Characters)
  PROVE  /\ Kept(F, s, [s EXCEPT !.disk[f] = bytes])
         /\ [s EXCEPT !.disk[f] = bytes].reply = s.reply
         /\ [s EXCEPT !.disk[f] = bytes].ports = s.ports
<1> DEFINE d == [s.disk EXCEPT ![f] = bytes]
           t == [s EXCEPT !.disk = d]
<1>1. s \in Systems(F) /\ d \in [F -> Seq(Characters)]
  BY GoodParts
<1>2. [s EXCEPT !.disk[f] = bytes] = t
  OBVIOUS
<1> HIDE DEF d
<1>3. t \in Systems(F) /\ t.reply = s.reply /\ t.ports = s.ports
  BY <1>1 DEF Systems
<1> HIDE DEF t
<1>4. Kept(F, s, t)
  BY <1>3 DEF Kept, Good, Same, Fixed, Layered
<1> QED
  BY <1>2, <1>3, <1>4

(* Writing a byte keeps the system, touches no port, and fails only at a   *)
(* port whose class does not write, or that is a closed file.              *)
LEMMA WriteByteKept ==
  ASSUME NEW F, NEW s, Good(F, s), NEW u \in DOMAIN s.ports, NEW b \in Characters
  PROVE  /\ Kept(F, s, WriteByte(s, u, b))
         /\ WriteByte(s, u, b).reply \in {s.reply, Abort}
         /\ CanWrite(s.ports[u]) => WriteByte(s, u, b).reply = s.reply
         /\ WriteByte(s, u, b).ports = s.ports
<1> DEFINE p == s.ports[u]
<1>1. Sound(F, p) /\ s \in Systems(F) /\ s.disk \in [F -> Seq(Characters)]
  BY GoodParts
<1>2. CASE ~CanWrite(p)
  <2>1. WriteByte(s, u, b) = Reply(s, Abort)
    BY <1>2 DEF WriteByte, CanWrite
  <2> QED
    BY <1>2, <2>1, ReplyKept DEF Replies
<1>3. CASE CanWrite(p) /\ (p.class = "null" \/ ~Output(p))
  <2>1. WriteByte(s, u, b) = s
    BY <1>3 DEF WriteByte, CanWrite
  <2> QED
    BY <2>1, SameSelf
<1>4. CASE CanWrite(p) /\ p.class # "null" /\ Output(p)
  <2>1. p.data \in F
    BY <1>1, <1>4 DEF Sound, CanWrite, WritesBytes, FileClasses
  <2>2. Append(s.disk[p.data], b) \in Seq(Characters)
    BY <1>1, <2>1
  <2>3. WriteByte(s, u, b) = [s EXCEPT !.disk[p.data] = Append(s.disk[p.data], b)]
    BY <1>4 DEF WriteByte, CanWrite
  <2> DEFINE d == Append(s.disk[p.data], b)
  <2>4. p.data \in F /\ d \in Seq(Characters)
    BY <2>1, <2>2
  <2>5. WriteByte(s, u, b) = [s EXCEPT !.disk[p.data] = d]
    BY <2>3
  <2> HIDE DEF d, p
  <2> QED
    BY <2>4, <2>5, DiskKept
<1> QED
  BY <1>2, <1>3, <1>4
-----------------------------------------------------------------------------
(* Text output.                                                            *)

(* The port under a text port is another, made before.                     *)
LEMMA UnderIs ==
  ASSUME NEW F, NEW s, Good(F, s), NEW p \in DOMAIN s.ports, s.ports[p].class = "text"
  PROVE  /\ Under(s, p) \in DOMAIN s.ports /\ Under(s, p) \in 1 .. p - 1 /\ Under(s, p) # p
         /\ ~TextPort(s.ports[Under(s, p)])
<1>1. Layered(s.ports, p) /\ DOMAIN s.ports = 1 .. Len(s.ports) /\ Len(s.ports) \in Nat
  BY GoodParts
<1> QED
  BY <1>1 DEF Layered, Under

(* A port is changed after bytes were written.                             *)
LEMMA WroteKept ==
  ASSUME NEW F, NEW s, Good(F, s), NEW t, Kept(F, s, t), t.ports = s.ports,
         NEW p \in DOMAIN s.ports, NEW port, Sound(F, port), Fixed(s.ports[p], port)
  PROVE  /\ Kept(F, s, PutPort(t, p, port))
         /\ PutPort(t, p, port).reply = t.reply
         /\ PutPort(t, p, port).ports[p] = port
<1>1. Good(F, t) /\ t \in Systems(F)
  BY GoodParts DEF Kept
<1>2. Kept(F, t, PutPort(t, p, port))
  BY <1>1, PutKept
<1>3. Kept(F, s, PutPort(t, p, port))
  BY <1>2, KeptTwice
<1> QED
  BY <1>1, <1>3, PutParts

(* What a port is written through can take it.                             *)
WritableUnder(s, p) == s.ports[p].class = "text" => CanWrite(s.ports[Under(s, p)])
ReadableUnder(s, p) == s.ports[p].class = "text" => CanRead(s.ports[Under(s, p)])

(* What is kept is written and read through the same ports.                *)
LEMMA SameWays ==
  ASSUME NEW F, NEW s, NEW t, Good(F, s), Kept(F, s, t), NEW p \in DOMAIN s.ports
  PROVE  /\ t.ports[p].class = s.ports[p].class /\ Under(t, p) = Under(s, p)
         /\ TextPort(t.ports[p]) = TextPort(s.ports[p])
         /\ Input(t.ports[p]) = Input(s.ports[p]) /\ Output(t.ports[p]) = Output(s.ports[p])
         /\ WritableUnder(t, p) = WritableUnder(s, p) /\ ReadableUnder(t, p) = ReadableUnder(s, p)
<1>1. \A q \in DOMAIN s.ports : Fixed(s.ports[q], t.ports[q])
  BY KeptParts
<1>2. Fixed(s.ports[p], t.ports[p])
  BY <1>1
<1>3. /\ t.ports[p].class = s.ports[p].class /\ Under(t, p) = Under(s, p)
      /\ TextPort(t.ports[p]) = TextPort(s.ports[p])
      /\ Input(t.ports[p]) = Input(s.ports[p]) /\ Output(t.ports[p]) = Output(s.ports[p])
  BY <1>2 DEF Fixed, Under, TextPort, Input, Output
<1>4. CASE s.ports[p].class = "text"
  <2>1. Under(s, p) \in DOMAIN s.ports
    BY <1>4, UnderIs
  <2>2. Fixed(s.ports[Under(s, p)], t.ports[Under(s, p)])
    BY <1>1, <2>1
  <2>3. /\ CanRead(t.ports[Under(s, p)]) = CanRead(s.ports[Under(s, p)])
        /\ CanWrite(t.ports[Under(s, p)]) = CanWrite(s.ports[Under(s, p)])
    BY <2>2 DEF Fixed, CanRead, CanWrite
  <2> QED
    BY <1>3, <2>3 DEF WritableUnder, ReadableUnder
<1>5. CASE s.ports[p].class # "text"
  BY <1>3, <1>5 DEF WritableUnder, ReadableUnder
<1> QED
  BY <1>3, <1>4, <1>5

(* Writing an owed LF keeps the system, and fails only if the port under   *)
(* it cannot be written.                                                   *)
LEMMA EmitLFKept ==
  ASSUME NEW F, NEW s, Good(F, s), NEW p \in DOMAIN s.ports, s.ports[p].class = "text"
  PROVE  /\ Kept(F, s, EmitLF(s, p))
         /\ EmitLF(s, p).reply \in {s.reply, Abort}
         /\ WritableUnder(s, p) => EmitLF(s, p).reply = s.reply
<1> DEFINE u == Under(s, p)
           t == WriteByte(s, u, LF)
           port == [s.ports[p] EXCEPT !.needs_lf = FALSE, !.row = @ + 1]
<1>1. u \in DOMAIN s.ports /\ LF \in Characters
  BY UnderIs DEF Characters
<1>2. /\ Kept(F, s, t) /\ t.ports = s.ports
      /\ t.reply \in {s.reply, Abort} /\ (CanWrite(s.ports[u]) => t.reply = s.reply)
  <2> HIDE DEF u
  <2> QED BY <1>1, WriteByteKept
<1>3. Sound(F, port) /\ Fixed(s.ports[p], port)
  BY GoodParts, EmittedSound
<1>4. EmitLF(s, p) = PutPort(t, p, port)
  <2>1. EmitLF(s, p) = [t EXCEPT !.ports[p] = [t.ports[p] EXCEPT !.needs_lf = FALSE, !.row = @ + 1]]
    <3> HIDE DEF t
    <3> QED BY DEF EmitLF, t
  <2> QED
    BY <1>2, <2>1 DEF PutPort
<1> HIDE DEF u, t, port
<1>5. Kept(F, s, PutPort(t, p, port)) /\ PutPort(t, p, port).reply = t.reply
  BY <1>2, <1>3, WroteKept
<1> QED
  BY <1>2, <1>4, <1>5 DEF WritableUnder, u

(* So does writing a character to a text port, whatever is owed.           *)
LEMMA WriteTextPortKept ==
  ASSUME NEW F, NEW s, Good(F, s), NEW p \in DOMAIN s.ports, s.ports[p].class = "text",
         NEW c \in Characters
  PROVE  /\ Kept(F, s, WriteTextPort(s, p, c))
         /\ WriteTextPort(s, p, c).reply \in {s.reply, Abort}
         /\ WritableUnder(s, p) => WriteTextPort(s, p, c).reply = s.reply
<1> DEFINE u == Under(s, p)
           port == s.ports[p]
           w(b) == WriteByte(s, u, b)
           v == IF port.translate THEN WriteByte(s, u, CR) ELSE s
           x == WriteByte(v, u, LF)
<1>1. u \in DOMAIN s.ports /\ LF \in Characters /\ CR \in Characters /\ Sound(F, port)
  BY UnderIs, GoodParts DEF Characters
<1>2. \A b \in Characters : /\ Kept(F, s, w(b)) /\ w(b).ports = s.ports
                            /\ w(b).reply \in {s.reply, Abort}
                            /\ (CanWrite(s.ports[u]) => w(b).reply = s.reply)
  <2> HIDE DEF u
  <2> QED BY <1>1, WriteByteKept
<1> HIDE DEF u, port
<1>3. /\ Kept(F, s, v) /\ v.ports = s.ports
      /\ v.reply \in {s.reply, Abort} /\ (CanWrite(s.ports[u]) => v.reply = s.reply)
  BY <1>1, <1>2, SameSelf
<1> HIDE DEF w, v
<1>4. /\ Kept(F, s, x) /\ x.ports = s.ports
      /\ x.reply \in {s.reply, Abort} /\ (CanWrite(s.ports[u]) => x.reply = s.reply)
  <2>1. Good(F, v)
    BY <1>3 DEF Kept
  <2>2. /\ Kept(F, v, x) /\ x.ports = v.ports
        /\ x.reply \in {v.reply, Abort} /\ (CanWrite(v.ports[u]) => x.reply = v.reply)
    BY <1>1, <1>3, <2>1, WriteByteKept
  <2>3. Kept(F, s, x)
    BY <1>3, <2>2, KeptTwice
  <2> QED
    BY <1>3, <2>2, <2>3
<1> HIDE DEF x
<1>5. CASE c = LF
  <2>1. WriteTextPort(s, p, c) = PutPort(x, p, Move(x.ports[p], LF))
    <3>1. WriteTextPort(s, p, c) = [x EXCEPT !.ports[p] = Move(@, LF)]
      BY <1>5 DEF WriteTextPort, CR, LF, x, v, u, port
    <3> QED
      BY <3>1 DEF PutPort
  <2>2. Sound(F, Move(port, LF)) /\ Fixed(port, Move(port, LF)) /\ x.ports[p] = port
    BY <1>1, <1>4, MoveSound DEF port
  <2> DEFINE m == Move(port, LF)
  <2> HIDE DEF m
  <2>3. WriteTextPort(s, p, c) = PutPort(x, p, m) /\ Sound(F, m) /\ Fixed(s.ports[p], m)
    BY <2>1, <2>2 DEF m, port
  <2>4. Kept(F, s, PutPort(x, p, m)) /\ PutPort(x, p, m).reply = x.reply
    BY <1>4, <2>3, WroteKept
  <2> QED
    BY <1>4, <2>3, <2>4 DEF WritableUnder, u
<1>6. CASE c = CR
  <2> DEFINE m == [port EXCEPT !.col = 0, !.needs_lf = port.translate]
             z == WriteByte(s, u, CR)
  <2>1. /\ Kept(F, s, z) /\ z.ports = s.ports
        /\ z.reply \in {s.reply, Abort} /\ (CanWrite(s.ports[u]) => z.reply = s.reply)
    BY <1>1, <1>2 DEF w
  <2>2. port.translate \in BOOLEAN
    BY <1>1 DEF Sound, PortRecords
  <2>3. Sound(F, m) /\ Fixed(s.ports[p], m)
    BY <1>1, <2>2, ReturnedSound DEF port
  <2>4. WriteTextPort(s, p, c) = PutPort(z, p, m)
    <3>1. WriteTextPort(s, p, c) = [z EXCEPT !.ports[p].col = 0, !.ports[p].needs_lf = port.translate]
      BY <1>6 DEF WriteTextPort, CR, LF, u, port
    <3>2. z.ports[p] = port /\ z \in Systems(F) /\ p \in DOMAIN z.ports
      BY <2>1 DEF port, Kept, Good
    <3> HIDE DEF z
    <3>3. z.ports \in Seq(PortRecords(F))
      BY <3>2, SystemParts
    <3>4. [z EXCEPT !.ports[p].col = 0, !.ports[p].needs_lf = port.translate] =
            PutPort(z, p, [z.ports[p] EXCEPT !.col = 0, !.needs_lf = port.translate])
      BY <3>2, <3>3 DEF PutPort, Systems
    <3> QED
      BY <3>1, <3>2, <3>4
  <2> HIDE DEF m, z
  <2>5. Kept(F, s, PutPort(z, p, m)) /\ PutPort(z, p, m).reply = z.reply
    BY <2>1, <2>3, WroteKept
  <2> QED
    BY <2>1, <2>4, <2>5 DEF WritableUnder, u
<1>7. CASE c \notin {LF, CR}
  <2> DEFINE m == Move(port, c)
             z == WriteByte(s, u, c)
  <2>1. /\ Kept(F, s, z) /\ z.ports = s.ports
        /\ z.reply \in {s.reply, Abort} /\ (CanWrite(s.ports[u]) => z.reply = s.reply)
    BY <1>1, <1>2 DEF w
  <2>3. Sound(F, m) /\ Fixed(s.ports[p], m)
    BY <1>1, MoveSound DEF port
  <2>4. WriteTextPort(s, p, c) = PutPort(z, p, m)
    BY <1>7, <2>1 DEF WriteTextPort, PutPort, u, port
  <2> HIDE DEF m, z
  <2>5. Kept(F, s, PutPort(z, p, m)) /\ PutPort(z, p, m).reply = z.reply
    BY <2>1, <2>3, WroteKept
  <2> QED
    BY <2>1, <2>4, <2>5 DEF WritableUnder, u
<1> QED
  BY <1>5, <1>6, <1>7
-----------------------------------------------------------------------------
(* Loops.                                                                  *)

(* A loop of N rounds, the n-th of which does G.                           *)
Iterates(f, N, base, G) == f[0] = base /\ \A n \in 1 .. N : f[n] = G[<<f[n - 1], n>>]

(* Such a loop can be run, if its rounds stay in D.                        *)
LEMMA IterationExists ==
  ASSUME NEW D, NEW N \in Nat, NEW base \in D, NEW G \in [D \X (1 .. N) -> D]
  PROVE  \E f \in [0 .. N -> D] : Iterates(f, N, base, G)
<1> DEFINE Is(f, m) == Iterates(f, m, base, G)
           Bad == {m \in 0 .. N : ~ \E f \in [0 .. m -> D] : Is(f, m)}
<1> USE DEF Iterates
<1>1. Bad = {}
  <2> SUFFICES ASSUME Bad # {} PROVE FALSE
    OBVIOUS
  <2>1. PICK m \in Bad : \A k \in Bad : m <= k
    <3>1. Bad \subseteq Nat
      OBVIOUS
    <3> HIDE DEF Bad
    <3> QED BY <3>1, LeastExists
  <2>2. m # 0
    <3> DEFINE f == [n \in 0 .. 0 |-> base]
    <3>1. f \in [0 .. 0 -> D] /\ Is(f, 0)
      OBVIOUS
    <3> QED BY <2>1, <3>1, ZenonT(60)
  <2>3. m \in 1 .. N /\ m - 1 \in 0 .. N /\ ~ (m <= m - 1)
    BY <2>1, <2>2
  <2>4. PICK g \in [0 .. m - 1 -> D] : Is(g, m - 1)
    BY <2>1, <2>3
  <2> DEFINE last == G[<<g[m - 1], m>>]
             f == [n \in 0 .. m |-> IF n < m THEN g[n] ELSE last]
  <2>5. last \in D
    BY <2>3
  <2> HIDE DEF last
  <2>6. f \in [0 .. m -> D] /\ f[m] = last /\ \A n \in 0 .. m - 1 : f[n] = g[n]
    BY <2>3, <2>5
  <2> HIDE DEF f
  <2>7. f[0] = base
    BY <2>3, <2>4, <2>6
  <2>8. ASSUME NEW n \in 1 .. m
        PROVE  f[n] = G[<<f[n - 1], n>>]
    <3>1. n - 1 \in 0 .. m - 1 /\ f[n - 1] = g[n - 1]
      BY <2>3, <2>6
    <3>2. CASE n = m
      BY <2>6, <3>1, <3>2 DEF last
    <3>3. CASE n # m
      <4>1. n \in 1 .. m - 1 /\ n \in 0 .. m - 1
        BY <2>3, <3>3
      <4> QED BY <2>4, <2>6, <3>1, <4>1
    <3> QED BY <3>2, <3>3
  <2> QED BY <2>1, <2>6, <2>7, <2>8
<1> HIDE DEF Iterates
<1>2. N \in 0 .. N
  OBVIOUS
<1> QED BY <1>1, <1>2

(* A loop whose rounds stay in D stays in D.                               *)
LEMMA IterationStays ==
  ASSUME NEW D, NEW N \in Nat, NEW f, f[0] \in D,
         \A n \in 1 .. N : f[n - 1] \in D => f[n] \in D
  PROVE  \A n \in 0 .. N : f[n] \in D
<1> DEFINE Bad == {n \in 0 .. N : f[n] \notin D}
<1> SUFFICES ASSUME Bad # {} PROVE FALSE
  OBVIOUS
<1>1. PICK m \in Bad : \A k \in Bad : m <= k
  <2>1. Bad \subseteq Nat
    OBVIOUS
  <2> HIDE DEF Bad
  <2> QED BY <2>1, LeastExists
<1>2. m \in 1 .. N /\ m - 1 \in 0 .. N /\ ~ (m <= m - 1)
  BY <1>1
<1>3. m - 1 \notin Bad
  BY <1>1, <1>2
<1> QED BY <1>1, <1>2, <1>3

-----------------------------------------------------------------------------
(* Characters are written to text ports and string ports only.             *)
LEMMA TextWriters ==
  ASSUME NEW F, NEW s, Good(F, s), NEW p \in DOMAIN s.ports,
         TextPort(s.ports[p]), Output(s.ports[p])
  PROVE  s.ports[p].class \in {"text", "string-output"}
<1>1. Sound(F, s.ports[p])
  BY GoodParts
<1>2. /\ MadeRight(s.ports[p].class, s.ports[p].made) /\ s.ports[p].mode = s.ports[p].made
      /\ "text" \in s.ports[p].made /\ "output" \in s.ports[p].made
  BY <1>1 DEF Sound, TextPort, Output
<1> QED
  BY <1>2 DEF MadeRight

(* Characters are read from text ports and string ports only.              *)
LEMMA TextReaders ==
  ASSUME NEW F, NEW s, Good(F, s), NEW p \in DOMAIN s.ports,
         TextPort(s.ports[p]), Input(s.ports[p])
  PROVE  s.ports[p].class \in {"text", "string-input"} /\ ~Output(s.ports[p])
<1>1. Sound(F, s.ports[p])
  BY GoodParts
<1>2. /\ MadeRight(s.ports[p].class, s.ports[p].made) /\ s.ports[p].mode = s.ports[p].made
      /\ "text" \in s.ports[p].made /\ "input" \in s.ports[p].made
  BY <1>1 DEF Sound, TextPort, Input
<1> QED
  BY <1>2 DEF MadeRight, Output

(* Writing the LF that a character may owe keeps the system.               *)
LEMMA WriteOwedKept ==
  ASSUME NEW F, NEW s, Good(F, s), NEW p \in DOMAIN s.ports, s.ports[p].class = "text",
         NEW c \in Characters
  PROVE  /\ Kept(F, s, WriteOwed(s, p, c))
         /\ WriteOwed(s, p, c).reply \in {s.reply, Abort}
         /\ WritableUnder(s, p) => WriteOwed(s, p, c).reply = s.reply
<1> DEFINE e == EmitLF(s, p)
<1>1. Kept(F, s, e) /\ e.reply \in {s.reply, Abort} /\ (WritableUnder(s, p) => e.reply = s.reply)
  BY EmitLFKept
<1> HIDE DEF e
<1>2. Good(F, e) /\ p \in DOMAIN e.ports /\ e.ports[p].class = "text" /\ WritableUnder(e, p) = WritableUnder(s, p)
  BY <1>1, KeptParts, SameWays
<1>3. /\ Kept(F, e, WriteTextPort(e, p, c))
      /\ WriteTextPort(e, p, c).reply \in {e.reply, Abort}
      /\ WritableUnder(e, p) => WriteTextPort(e, p, c).reply = e.reply
  BY <1>2, WriteTextPortKept
<1>4. Kept(F, s, WriteTextPort(e, p, c))
  BY <1>1, <1>3, KeptTwice
<1>5. WriteOwed(s, p, c) \in {WriteTextPort(s, p, c), e, WriteTextPort(e, p, c)}
  BY DEF WriteOwed, e
<1> QED
  BY <1>1, <1>2, <1>3, <1>4, <1>5, WriteTextPortKept

(* Writing a character keeps the system, and fails only if the port under  *)
(* it cannot be written.                                                   *)
LEMMA PutCharKept ==
  ASSUME NEW F, NEW s, Good(F, s), NEW p \in DOMAIN s.ports,
         s.ports[p].class \in {"text", "string-output"}, NEW c \in Characters
  PROVE  /\ Kept(F, s, PutChar(s, p, c))
         /\ PutChar(s, p, c).reply \in {s.reply, Abort}
         /\ WritableUnder(s, p) => PutChar(s, p, c).reply = s.reply
<1> DEFINE port == s.ports[p]
           more == [port EXCEPT !.passed = Append(@, c)]
           t == PutPort(s, p, more)
<1>1. Sound(F, port) /\ s \in Systems(F)
  BY GoodParts
<1>2. Sound(F, more) /\ Fixed(port, more)
  BY <1>1, PassedSound
<1>3. [s EXCEPT !.ports[p].passed = Append(@, c)] = t
  BY DEF PutPort
<1> HIDE DEF more, t
<1>4. Kept(F, s, t) /\ t.reply = s.reply /\ t.ports[p] = more
  BY <1>1, <1>2, PutKept, PutParts DEF t
<1>5. Good(F, t) /\ p \in DOMAIN t.ports /\ t.ports[p].class = port.class /\ WritableUnder(t, p) = WritableUnder(s, p)
  BY <1>4, KeptParts, SameWays
<1>6. CASE s.reply = Abort
  <2>1. PutChar(s, p, c) = s
    BY <1>6 DEF PutChar
  <2> QED BY <2>1, SameSelf
<1>7. CASE s.reply # Abort /\ port.class = "text"
  <2>1. PutChar(s, p, c) = WriteOwed(t, p, c)
    BY <1>3, <1>7 DEF PutChar
  <2>2. /\ Kept(F, t, WriteOwed(t, p, c))
        /\ WriteOwed(t, p, c).reply \in {t.reply, Abort}
        /\ WritableUnder(t, p) => WriteOwed(t, p, c).reply = t.reply
    BY <1>5, <1>7, WriteOwedKept
  <2>3. Kept(F, s, WriteOwed(t, p, c))
    BY <1>4, <2>2, KeptTwice
  <2> QED
    BY <1>4, <1>5, <2>1, <2>2, <2>3
<1>8. CASE s.reply # Abort /\ port.class # "text"
  <2> DEFINE moved == IF c = CR THEN t.ports[p] ELSE Move(t.ports[p], c)
             last == [moved EXCEPT !.data = Append(@, c)]
  <2>1. PutChar(s, p, c) = PutPort(t, p, last)
    <3>1. PutChar(s, p, c) = WriteStringPort(t, p, c)
      BY <1>3, <1>8 DEF PutChar
    <3>2. WriteStringPort(t, p, c) = PutPort(t, p, last)
      BY DEF WriteStringPort, PutPort
    <3> QED BY <3>1, <3>2
  <2>2. Sound(F, moved) /\ Fixed(more, moved)
    <3>1. Fixed(more, more)
      BY DEF Fixed
    <3> QED BY <1>2, <1>4, <3>1, MoveSound
  <2> HIDE DEF moved
  <2>3. moved.class \notin FileClasses
    BY <1>2, <1>8, <2>2 DEF Fixed, FileClasses
  <2>4. Sound(F, last) /\ Fixed(moved, last)
    BY <2>2, <2>3, DataSound
  <2> HIDE DEF last
  <2>5. Fixed(t.ports[p], last)
    BY <1>4, <2>2, <2>4 DEF Fixed
  <2>6. Kept(F, t, PutPort(t, p, last)) /\ PutPort(t, p, last).reply = t.reply
    <3>1. t \in Systems(F)
      BY <1>5, GoodParts
    <3> QED
      BY <1>5, <2>4, <2>5, <3>1, PutKept, PutParts
  <2> QED
    BY <1>4, <2>1, <2>6, KeptTwice
<1> QED
  BY <1>6, <1>7, <1>8

(* The states between the characters of a text.                            *)
Written(f, s, p, text) ==
    f = [n \in 0 .. Len(text) |-> IF n = 0 THEN s ELSE PutChar(f[n - 1], p, text[n])]

(* The states between the characters of a text that is written.            *)
TextRounds(F, s, p, text, f) ==
    /\ f[0] = s /\ \A n \in 1 .. Len(text) : f[n] = PutChar(f[n - 1], p, text[n])
    /\ WriteText(s, p, text) = f[Len(text)]
    /\ Len(text) \in 0 .. Len(text)
    /\ \A n \in 0 .. Len(text) :
         /\ f[n] \in Systems(F) /\ Kept(F, s, f[n]) /\ f[n].reply \in {s.reply, Abort}
         /\ WritableUnder(s, p) => f[n].reply = s.reply

(* A text is written character by character.                               *)
LEMMA WriteTextRounds ==
  ASSUME NEW F, NEW s, Good(F, s), NEW p \in DOMAIN s.ports, NEW text \in Seq(Characters),
         TextPort(s.ports[p]), Output(s.ports[p])
  PROVE  \E f : TextRounds(F, s, p, text, f)
<1> DEFINE D == {t \in Systems(F) : /\ Kept(F, s, t) /\ t.reply \in {s.reply, Abort}
                                    /\ WritableUnder(s, p) => t.reply = s.reply}
           N == Len(text)
           G == [x \in D \X (1 .. N) |-> PutChar(x[1], p, text[x[2]])]
           f == CHOOSE f : Written(f, s, p, text)
<1>1. s.ports[p].class \in {"text", "string-output"}
  BY TextWriters
<1>2. N \in Nat /\ \A n \in 1 .. N : text[n] \in Characters
  OBVIOUS
<1>3. ASSUME NEW t \in D, NEW n \in 1 .. N
      PROVE  PutChar(t, p, text[n]) \in D
  <2> DEFINE c == text[n]
  <2>0. c \in Characters
    BY <1>2
  <2> HIDE DEF c
  <2>1. /\ Good(F, t) /\ p \in DOMAIN t.ports /\ t.ports[p].class = s.ports[p].class
        /\ WritableUnder(t, p) = WritableUnder(s, p)
    BY KeptParts, SameWays
  <2>2. /\ Kept(F, t, PutChar(t, p, c)) /\ PutChar(t, p, c).reply \in {t.reply, Abort}
        /\ WritableUnder(t, p) => PutChar(t, p, c).reply = t.reply
    BY <1>1, <2>0, <2>1, PutCharKept
  <2>3. Kept(F, s, PutChar(t, p, c)) /\ PutChar(t, p, c) \in Systems(F)
    BY <2>2, KeptTwice, GoodParts DEF Kept
  <2>4. PutChar(t, p, c) \in D
    BY <2>1, <2>2, <2>3
  <2> QED
    BY <2>4 DEF c
<1>4. s \in D
  BY SameSelf, GoodParts
<1> HIDE DEF D, N
<1>5. G \in [D \X (1 .. N) -> D]
  BY <1>3
<1>6. PICK g \in [0 .. N -> D] : Iterates(g, N, s, G)
  <2> HIDE DEF G
  <2> QED BY <1>2, <1>4, <1>5, IterationExists
<1>7. \A n \in 1 .. N : g[n] = PutChar(g[n - 1], p, text[n])
  <2> SUFFICES ASSUME NEW n \in 1 .. N PROVE g[n] = PutChar(g[n - 1], p, text[n])
    OBVIOUS
  <2>1. g[n - 1] \in D
    BY <1>2
  <2>2. g[n] = G[<<g[n - 1], n>>]
    <3> HIDE DEF G
    <3> QED BY <1>6 DEF Iterates
  <2> QED BY <2>1, <2>2
<1> HIDE DEF G
<1>8. Written(g, s, p, text)
  <2>1. g = [n \in 0 .. N |-> IF n = 0 THEN s ELSE PutChar(g[n - 1], p, text[n])]
    BY <1>6, <1>7 DEF Iterates
  <2> QED BY <2>1 DEF Written, N
<1>9. Written(f, s, p, text)
  BY <1>8
<1>10. WriteText(s, p, text) = f[N]
  BY DEF WriteText, Written, N
<1> HIDE DEF f
<1>11. f[0] = s /\ \A n \in 1 .. N : f[n] = PutChar(f[n - 1], p, text[n])
  <2>1. \A n \in 0 .. N : f[n] = IF n = 0 THEN s ELSE PutChar(f[n - 1], p, text[n])
    BY <1>9 DEF Written, N
  <2> QED BY <1>2, <2>1
<1>12. \A n \in 0 .. N : f[n] \in D
  BY <1>2, <1>3, <1>4, <1>11, IterationStays
<1>13. N \in 0 .. N
  BY <1>2
<1> QED
  BY <1>10, <1>11, <1>12, <1>13 DEF D, N, TextRounds

(* So writing a text keeps the system, however long it is.                 *)
LEMMA WriteTextKept ==
  ASSUME NEW F, NEW s, Good(F, s), NEW p \in DOMAIN s.ports, NEW text \in Seq(Characters)
  PROVE  /\ Kept(F, s, WriteText(s, p, text))
         /\ WriteText(s, p, text).reply \in {s.reply, Abort}
         /\ WritableUnder(s, p) /\ TextPort(s.ports[p]) /\ Output(s.ports[p]) =>
              WriteText(s, p, text).reply = s.reply
<1>1. CASE ~(TextPort(s.ports[p]) /\ Output(s.ports[p]))
  <2>1. WriteText(s, p, text) = Reply(s, Abort)
    BY <1>1 DEF WriteText
  <2> QED
    BY <1>1, <2>1, ReplyKept DEF Replies
<1>2. CASE TextPort(s.ports[p]) /\ Output(s.ports[p])
  <2>1. PICK f : TextRounds(F, s, p, text, f)
    BY <1>2, WriteTextRounds
  <2> QED BY <2>1 DEF TextRounds
<1> QED
  BY <1>1, <1>2
-----------------------------------------------------------------------------
(* Layers.                                                                 *)

(* Text ports are over ports made before.                                  *)
Ordered(ps, n) == \A q \in 1 .. n : ps[q].class = "text" => ps[q].under \in 1 .. q - 1

(* The equations that define the layers.                                   *)
LayersSolve(d, ps, n) ==
    d = [q \in 1 .. n |-> IF ps[q].class = "text" THEN {q} \cup d[ps[q].under] ELSE {q}]

Descends(d, ps, q) == d[q] = IF ps[q].class = "text" THEN {q} \cup d[ps[q].under] ELSE {q}

(* A function that solves them solves each.                                *)
LEMMA LayersEquations ==
  ASSUME NEW ps, NEW n \in Nat, NEW d, LayersSolve(d, ps, n)
  PROVE  \A q \in 1 .. n : Descends(d, ps, q)
<1> DEFINE e == [q \in 1 .. n |-> IF ps[q].class = "text" THEN {q} \cup d[ps[q].under] ELSE {q}]
<1>1. \A q \in 1 .. n : e[q] = IF ps[q].class = "text" THEN {q} \cup d[ps[q].under] ELSE {q}
  OBVIOUS
<1>2. d = e
  BY DEF LayersSolve
<1> HIDE DEF e
<1> QED BY <1>1, <1>2 DEF Descends

(* There is one that does, because ports are over ports made before.       *)
LEMMA LayersExist ==
  ASSUME NEW ps, NEW n \in Nat, Ordered(ps, n)
  PROVE  \E d : LayersSolve(d, ps, n)
<1> DEFINE Bad == {m \in 0 .. n : ~ \E d : LayersSolve(d, ps, m)}
<1>1. Bad = {}
  <2> SUFFICES ASSUME Bad # {} PROVE FALSE
    OBVIOUS
  <2>1. PICK m \in Bad : \A k \in Bad : m <= k
    <3>1. Bad \subseteq Nat
      OBVIOUS
    <3> HIDE DEF Bad
    <3> QED BY <3>1, LeastExists
  <2>2. m # 0
    <3> DEFINE d == [q \in 1 .. 0 |-> {q}]
    <3>1. d = [q \in 1 .. 0 |-> IF ps[q].class = "text" THEN {q} \cup d[ps[q].under] ELSE {q}]
      OBVIOUS
    <3> QED BY <2>1, <3>1 DEF LayersSolve
  <2>3. m \in 1 .. n /\ m - 1 \in 0 .. n /\ m - 1 \in Nat /\ ~ (m <= m - 1)
    BY <2>1, <2>2
  <2>4. PICK g : LayersSolve(g, ps, m - 1)
    BY <2>1, <2>3
  <2>5. \A q \in 1 .. m - 1 : Descends(g, ps, q)
    BY <2>3, <2>4, LayersEquations
  <2> DEFINE last == IF ps[m].class = "text" THEN {m} \cup g[ps[m].under] ELSE {m}
             d == [q \in 1 .. m |-> IF q < m THEN g[q] ELSE last]
  <2> HIDE DEF last
  <2>6. d[m] = last /\ \A q \in 1 .. m - 1 : d[q] = g[q]
    BY <2>3
  <2>7. d = [q \in 1 .. m |-> d[q]]
    OBVIOUS
  <2> HIDE DEF d
  <2>8. ASSUME NEW q \in 1 .. m
        PROVE  d[q] = IF ps[q].class = "text" THEN {q} \cup d[ps[q].under] ELSE {q}
    <3>1. ps[q].class = "text" => ps[q].under \in 1 .. m - 1 /\ d[ps[q].under] = g[ps[q].under]
      <4>1. q \in 1 .. n /\ \A u \in 1 .. q - 1 : u \in 1 .. m - 1
        BY <2>3
      <4> QED BY <2>6, <4>1 DEF Ordered
    <3>2. CASE q = m
      BY <2>6, <3>1, <3>2 DEF last
    <3>3. CASE q # m
      <4>1. q \in 1 .. m - 1
        BY <2>3, <3>3
      <4> QED BY <2>5, <2>6, <3>1, <4>1 DEF Descends
    <3> QED BY <3>2, <3>3
  <2>9. [q \in 1 .. m |-> d[q]] =
          [q \in 1 .. m |-> IF ps[q].class = "text" THEN {q} \cup d[ps[q].under] ELSE {q}]
    BY <2>8
  <2>10. LayersSolve(d, ps, m)
    BY <2>7, <2>9 DEF LayersSolve
  <2> QED BY <2>1, <2>10
<1>2. n \in 0 .. n
  OBVIOUS
<1> QED BY <1>1, <1>2

(* The layers of a port go down to a port that is no text port, at once    *)
(* when the port under it is none.                                         *)
LEMMA LayersAre ==
  ASSUME NEW ps, NEW p \in Nat \ {0}, Ordered(ps, p)
  PROVE  /\ Layers(ps, p) \subseteq 1 .. p /\ p \in Layers(ps, p)
         /\ \A q \in Layers(ps, p) : ps[q].class = "text" => ps[q].under \in Layers(ps, p)
         /\ ps[p].class # "text" => Layers(ps, p) = {p}
         /\ ps[p].class = "text" /\ ps[ps[p].under].class # "text" =>
              Layers(ps, p) = {p, ps[p].under}
<1> DEFINE d == CHOOSE d : LayersSolve(d, ps, p)
<1>1. LayersSolve(d, ps, p)
  BY LayersExist
<1>2. Layers(ps, p) = d[p]
  BY DEF Layers, LayersSolve
<1> HIDE DEF d
<1>3. \A q \in 1 .. p : Descends(d, ps, q)
  BY <1>1, LayersEquations
<1> DEFINE Closed(q) ==
             /\ d[q] \subseteq 1 .. p
             /\ \A r \in d[q] : ps[r].class = "text" => ps[r].under \in d[q]
           Bad == {q \in 1 .. p : ~Closed(q)}
<1>4. Bad = {}
  <2> SUFFICES ASSUME Bad # {} PROVE FALSE
    OBVIOUS
  <2>1. PICK m \in Bad : \A k \in Bad : m <= k
    <3>1. Bad \subseteq Nat
      OBVIOUS
    <3> HIDE DEF Bad
    <3> QED BY <3>1, LeastExists
  <2>2. m \in 1 .. p /\ d[m] = IF ps[m].class = "text" THEN {m} \cup d[ps[m].under] ELSE {m}
    BY <1>3, <2>1 DEF Descends
  <2>3. CASE ps[m].class # "text"
    BY <2>1, <2>2, <2>3
  <2>4. CASE ps[m].class = "text"
    <3> DEFINE u == ps[m].under
    <3>1. u \in 1 .. p /\ ~ (m <= u)
      BY <2>2, <2>4 DEF Ordered
    <3>2. Closed(u)
      BY <2>1, <3>1
    <3>3. u \in d[u]
      BY <1>3, <3>1 DEF Descends
    <3>4. d[m] = {m} \cup d[u]
      BY <2>2, <2>4
    <3> HIDE DEF u
    <3>5. Closed(m)
      BY <2>2, <3>2, <3>3, <3>4 DEF u
    <3> QED BY <2>1, <3>5
  <2> QED BY <2>3, <2>4
<1>5. p \in 1 .. p
  OBVIOUS
<1>6. Closed(p)
  BY <1>4, <1>5
<1>7. ps[p].class = "text" => ps[p].under \in 1 .. p
  BY <1>5 DEF Ordered
<1>8. p \in d[p] /\ (ps[p].class # "text" => d[p] = {p})
  BY <1>3, <1>5 DEF Descends
<1>9. ps[p].class = "text" /\ ps[ps[p].under].class # "text" => d[p] = {p, ps[p].under}
  BY <1>3, <1>5, <1>7 DEF Descends
<1> QED
  BY <1>2, <1>6, <1>8, <1>9

(* What cannot be reached is not in the layers.                            *)
LEMMA LayersAvoid ==
  ASSUME NEW ps, NEW p \in Nat \ {0}, Ordered(ps, p), NEW A, p \notin A,
         \A q \in 1 .. p : q \notin A /\ ps[q].class = "text" => ps[q].under \notin A
  PROVE  \A r \in Layers(ps, p) : r \notin A
<1> DEFINE d == CHOOSE d : LayersSolve(d, ps, p)
<1>1. LayersSolve(d, ps, p)
  BY LayersExist
<1>2. Layers(ps, p) = d[p]
  BY DEF Layers, LayersSolve
<1> HIDE DEF d
<1>3. \A q \in 1 .. p : Descends(d, ps, q)
  BY <1>1, LayersEquations
<1> DEFINE Bad == {q \in (1 .. p) \ A : \E r \in d[q] : r \in A}
<1>4. Bad = {}
  <2> SUFFICES ASSUME Bad # {} PROVE FALSE
    OBVIOUS
  <2>1. PICK m \in Bad : \A k \in Bad : m <= k
    <3>1. Bad \subseteq Nat
      OBVIOUS
    <3> HIDE DEF Bad
    <3> QED BY <3>1, LeastExists
  <2>2. m \in 1 .. p /\ m \notin A /\ d[m] = IF ps[m].class = "text" THEN {m} \cup d[ps[m].under] ELSE {m}
    BY <1>3, <2>1 DEF Descends
  <2>3. ps[m].class = "text"
    BY <2>1, <2>2
  <2>4. ps[m].under \in 1 .. p /\ ~ (m <= ps[m].under) /\ ps[m].under \notin A
    BY <2>2, <2>3 DEF Ordered
  <2>5. \A r \in d[ps[m].under] : r \notin A
    BY <2>1, <2>4
  <2> QED BY <2>1, <2>2, <2>3, <2>5
<1>5. p \in 1 .. p
  OBVIOUS
<1> QED BY <1>2, <1>4, <1>5

(* The ports of a system are over ports made before.                       *)
LEMMA GoodOrder ==
  ASSUME NEW F, NEW s, Good(F, s), NEW p \in DOMAIN s.ports
  PROVE  p \in Nat \ {0} /\ Ordered(s.ports, p) /\ \A q \in 1 .. p : q \in DOMAIN s.ports
<1>1. DOMAIN s.ports = 1 .. Len(s.ports) /\ Len(s.ports) \in Nat
      /\ \A q \in DOMAIN s.ports : Layered(s.ports, q)
  BY GoodParts
<1>2. \A q \in 1 .. p : q \in DOMAIN s.ports
  BY <1>1
<1> QED BY <1>1, <1>2 DEF Ordered, Layered

-----------------------------------------------------------------------------
(* Flushing.                                                               *)

(* An open port, over one that is open and can be written or read as it    *)
(* is, none of them freed: that of Working, and what the system has of it. *)
Works(s, p) ==
    /\ s.ports[p].mode # {}
    /\ s.ports[p].class = "text" =>
         /\ s.ports[Under(s, p)].mode # {}
         /\ ~s.ports[Under(s, p)].freed
         /\ Output(s.ports[p]) => s.ports[Under(s, p)].class \in WritesBytes
         /\ Input(s.ports[p]) => s.ports[Under(s, p)].class \in ReadsBytes

(* A port that works is over one that can be written or read.              *)
LEMMA OpenUnder ==
  ASSUME NEW F, NEW s, Good(F, s), NEW p \in DOMAIN s.ports, Works(s, p)
  PROVE  /\ s.ports[p].class = "text" => s.ports[Under(s, p)].class # "text"
         /\ Output(s.ports[p]) => WritableUnder(s, p)
         /\ Input(s.ports[p]) => ReadableUnder(s, p)
         /\ s.ports[p].class \in FileClasses => s.ports[p].open
         /\ s.ports[p].class = "text" /\ s.ports[Under(s, p)].class \in FileClasses =>
              s.ports[Under(s, p)].open
<1>1. Sound(F, s.ports[p])
  BY GoodParts
<1>2. s.ports[p].class \in FileClasses => s.ports[p].open
  BY <1>1 DEF Sound, Works
<1>3. CASE s.ports[p].class # "text"
  BY <1>2, <1>3 DEF WritableUnder, ReadableUnder
<1>4. CASE s.ports[p].class = "text"
  <2> DEFINE u == s.ports[Under(s, p)]
  <2>1. Under(s, p) \in DOMAIN s.ports /\ ~TextPort(u)
    BY <1>4, UnderIs
  <2>2. Sound(F, u)
    BY <2>1, GoodParts
  <2>3. u.mode # {} /\ u.mode = u.made /\ (u.class \in FileClasses => u.open)
    BY <1>4, <2>2 DEF Works, Sound
  <2>4. u.class # "text"
    <3>1. "text" \notin u.made /\ MadeRight(u.class, u.made)
      BY <2>1, <2>2, <2>3 DEF Sound, TextPort
    <3> HIDE DEF u
    <3> QED BY <3>1 DEF MadeRight, FileClasses
  <2> QED
    BY <1>2, <1>4, <2>3, <2>4 DEF WritableUnder, ReadableUnder, CanRead, CanWrite, Works
<1> QED BY <1>3, <1>4

(* The flush of the class keeps the system, and does not fail at a port    *)
(* that works.                                                             *)
LEMMA ClassFlushKept ==
  ASSUME NEW F, NEW s, Good(F, s), NEW p \in DOMAIN s.ports
  PROVE  /\ Kept(F, s, ClassFlush(s, p))
         /\ ClassFlush(s, p).reply \in {s.reply, Abort}
         /\ Works(s, p) => ClassFlush(s, p).reply = s.reply
<1>1. ClassFlush(s, p) \in {s, Reply(s, Abort)}
  BY DEF ClassFlush
<1>2. Kept(F, s, ClassFlush(s, p)) /\ ClassFlush(s, p).reply \in {s.reply, Abort}
  BY <1>1, SameSelf, ReplyKept DEF Replies
<1>3. ASSUME Works(s, p)
      PROVE  ClassFlush(s, p) = s
  <2>1. p \in Nat \ {0} /\ Ordered(s.ports, p)
    BY GoodOrder
  <2>2. /\ s.ports[p].class # "text" => Layers(s.ports, p) = {p}
        /\ s.ports[p].class = "text" => Layers(s.ports, p) = {p, Under(s, p)}
    BY <1>3, <2>1, LayersAre, OpenUnder DEF Under
  <2>3. ASSUME NEW q \in Layers(s.ports, p)
        PROVE  /\ q # p => ~s.ports[q].freed
               /\ s.ports[q].class \in Flushes => s.ports[q].open
    <3>1. CASE s.ports[p].class # "text"
      BY <1>3, <2>2, <2>3, <3>1, OpenUnder DEF Flushes, FileClasses
    <3>2. CASE s.ports[p].class = "text"
      BY <1>3, <2>2, <2>3, <3>2, OpenUnder DEF Flushes, FileClasses, Works
    <3> QED BY <3>1, <3>2
  <2> QED
    BY <2>3 DEF ClassFlush
<1> QED BY <1>2, <1>3
(* A port of a system that was kept works if it did.                       *)
LEMMA WorksSame ==
  ASSUME NEW F, NEW s, NEW t, Good(F, s), Kept(F, s, t), NEW p \in DOMAIN s.ports
  PROVE  Works(t, p) = Works(s, p)
<1>1. \A q \in DOMAIN s.ports : Fixed(s.ports[q], t.ports[q])
  BY KeptParts
<1>2. CASE s.ports[p].class # "text"
  BY <1>1, <1>2 DEF Works, Fixed
<1>3. CASE s.ports[p].class = "text"
  <2>1. Under(s, p) \in DOMAIN s.ports
    BY <1>3, UnderIs
  <2>2. Fixed(s.ports[Under(s, p)], t.ports[Under(s, p)]) /\ Under(t, p) = Under(s, p)
    BY <1>1, <2>1, SameWays
  <2>3. Fixed(s.ports[p], t.ports[p])
    BY <1>1
  <2> QED
    BY <2>2, <2>3 DEF Works, Fixed, Input, Output
<1> QED BY <1>2, <1>3

(* What flushing a translating port for input after a CR does not allow.   *)
OwesWrongly(port) == TextPort(port) /\ Input(port) /\ port.translate /\ port.needs_lf

(* Flushing a port keeps the system, and fails only if the port does not   *)
(* work or owes wrongly.                                                   *)
LEMMA FlushPortKept ==
  ASSUME NEW F, NEW s, Good(F, s), NEW p \in DOMAIN s.ports
  PROVE  /\ Kept(F, s, FlushPort(s, p))
         /\ FlushPort(s, p).reply \in {s.reply, Abort}
         /\ Works(s, p) /\ ~OwesWrongly(s.ports[p]) => FlushPort(s, p).reply = s.reply
<1> DEFINE port == s.ports[p]
           owes == TextPort(port) /\ port.translate /\ port.needs_lf
           w == WriteText(s, p, <<LF>>)
           t == IF owes THEN w ELSE s
<1>0. Sound(F, port)
  BY GoodParts
<1>1. <<LF>> \in Seq(Characters)
  BY DEF Characters
<1>2. /\ Kept(F, s, w) /\ w.reply \in {s.reply, Abort}
      /\ WritableUnder(s, p) /\ TextPort(port) /\ Output(port) => w.reply = s.reply
  BY <1>1, WriteTextKept
<1> HIDE DEF w
<1>3. ASSUME Works(s, p), ~OwesWrongly(port), owes
      PROVE  w.reply = s.reply
  <2>1. Output(port)
    <3>1. port.mode = port.made /\ MadeRight(port.class, port.made) /\ ~Input(port)
      BY <1>0, <1>3 DEF Sound, Works, OwesWrongly
    <3> HIDE DEF port
    <3> QED BY <3>1 DEF MadeRight, Input, Output
  <2> QED
    BY <1>2, <1>3, <2>1, OpenUnder
<1>4. /\ Kept(F, s, t) /\ t.reply \in {s.reply, Abort}
      /\ Works(s, p) /\ ~OwesWrongly(port) => t.reply = s.reply
  BY <1>2, <1>3, SameSelf
<1>5. FlushPort(s, p) = IF t.reply = Abort THEN t ELSE ClassFlush(t, p)
  BY DEF FlushPort, w
<1> HIDE DEF t, owes
<1>6. Good(F, t) /\ p \in DOMAIN t.ports /\ Works(t, p) = Works(s, p)
  BY <1>4, KeptParts, WorksSame
<1>7. /\ Kept(F, t, ClassFlush(t, p)) /\ ClassFlush(t, p).reply \in {t.reply, Abort}
      /\ Works(t, p) => ClassFlush(t, p).reply = t.reply
  BY <1>6, ClassFlushKept
<1>8. Kept(F, s, ClassFlush(t, p))
  BY <1>4, <1>7, KeptTwice
<1>9. Kept(F, s, FlushPort(s, p)) /\ FlushPort(s, p).reply \in {s.reply, Abort}
  BY <1>4, <1>5, <1>7, <1>8
<1>10. ASSUME Works(s, p), ~OwesWrongly(port)
       PROVE  FlushPort(s, p).reply = s.reply
  BY <1>4, <1>5, <1>6, <1>7, <1>10
<1> QED BY <1>9, <1>10

(* Writing a character, with the flush that may follow, keeps the system,  *)
(* and does not fail at a port for output that works.                      *)
LEMMA WriteCharKept ==
  ASSUME NEW F, NEW s, Good(F, s), NEW p \in DOMAIN s.ports, NEW c \in Characters
  PROVE  /\ Kept(F, s, WriteChar(s, p, c))
         /\ WriteChar(s, p, c).reply \in {s.reply, Abort}
         /\ Works(s, p) /\ TextPort(s.ports[p]) /\ ~Input(s.ports[p]) =>
              WriteChar(s, p, c).reply = s.reply
<1> DEFINE t == WriteText(s, p, <<c>>)
<1>1. <<c>> \in Seq(Characters)
  OBVIOUS
<1>2. /\ Kept(F, s, t) /\ t.reply \in {s.reply, Abort}
      /\ WritableUnder(s, p) /\ TextPort(s.ports[p]) /\ Output(s.ports[p]) => t.reply = s.reply
  BY <1>1, WriteTextKept
<1>3. WriteChar(s, p, c) = IF c = LF /\ t.reply # Abort THEN FlushPort(t, p) ELSE t
  BY DEF WriteChar
<1> HIDE DEF t
<1>4. /\ Good(F, t) /\ p \in DOMAIN t.ports /\ Works(t, p) = Works(s, p)
      /\ Input(t.ports[p]) = Input(s.ports[p])
  BY <1>2, KeptParts, WorksSame, SameWays
<1>5. /\ Kept(F, t, FlushPort(t, p)) /\ FlushPort(t, p).reply \in {t.reply, Abort}
      /\ Works(t, p) /\ ~OwesWrongly(t.ports[p]) => FlushPort(t, p).reply = t.reply
  BY <1>4, FlushPortKept
<1>6. Kept(F, s, FlushPort(t, p))
  BY <1>2, <1>5, KeptTwice
<1>7. Kept(F, s, WriteChar(s, p, c)) /\ WriteChar(s, p, c).reply \in {s.reply, Abort}
  BY <1>2, <1>3, <1>5, <1>6
<1>8. ASSUME Works(s, p), TextPort(s.ports[p]), ~Input(s.ports[p])
      PROVE  WriteChar(s, p, c).reply = s.reply
  <2>1. Output(s.ports[p])
    <3>1. Sound(F, s.ports[p])
      BY GoodParts
    <3>2. s.ports[p].mode = s.ports[p].made /\ MadeRight(s.ports[p].class, s.ports[p].made)
      BY <1>8, <3>1 DEF Sound, Works
    <3> QED BY <1>8, <3>2 DEF MadeRight, Input, Output
  <2>2. WritableUnder(s, p)
    BY <1>8, <2>1, OpenUnder
  <2>3. t.reply = s.reply
    BY <1>2, <1>8, <2>1, <2>2
  <2>4. FlushPort(t, p).reply = t.reply
    BY <1>4, <1>5, <1>8 DEF OwesWrongly
  <2> QED
    BY <1>3, <2>3, <2>4
<1> QED BY <1>7, <1>8

-----------------------------------------------------------------------------
(* Text input.                                                             *)

(* Translating a character keeps the system; only the LF after a CR is     *)
(* skipped, and never twice.                                               *)
LEMMA TranslateKept ==
  ASSUME NEW F, NEW s, Good(F, s), NEW p \in DOMAIN s.ports
  PROVE  /\ Kept(F, s, Translate(s, p))
         /\ Translate(s, p).reply \in {s.reply, LF, Skip}
         /\ s.reply = CR \/ ~s.ports[p].needs_lf => Translate(s, p).reply # Skip \/ s.reply = Skip
         /\ Translate(s, p).reply = Skip /\ s.reply # Skip => ~Translate(s, p).ports[p].needs_lf
         /\ s.reply \in {Eof, Abort} => Translate(s, p).reply = s.reply
         /\ Translate(s, p).ports[p].pbuf = s.ports[p].pbuf
<1> DEFINE port == s.ports[p]
           owing(b) == PutPort(s, p, [port EXCEPT !.needs_lf = b])
<1>0. Sound(F, port) /\ s \in Systems(F) /\ s.reply \in Replies \cup {Skip}
  BY GoodParts
<1>1. \A b \in BOOLEAN : /\ Kept(F, s, owing(b)) /\ Good(F, owing(b)) /\ owing(b).reply = s.reply
                         /\ owing(b).ports[p] = [port EXCEPT !.needs_lf = b]
  <2> SUFFICES ASSUME NEW b \in BOOLEAN
               PROVE  /\ Kept(F, s, owing(b)) /\ Good(F, owing(b)) /\ owing(b).reply = s.reply
                      /\ owing(b).ports[p] = [port EXCEPT !.needs_lf = b]
    OBVIOUS
  <2> DEFINE o == [port EXCEPT !.needs_lf = b]
  <2>1. Sound(F, o) /\ Fixed(port, o)
    BY <1>0, OwedSound
  <2> HIDE DEF o
  <2>2. Kept(F, s, PutPort(s, p, o)) /\ PutPort(s, p, o).reply = s.reply /\ PutPort(s, p, o).ports[p] = o
    BY <1>0, <2>1, PutKept, PutParts
  <2> QED BY <2>2 DEF o, Kept
<1>3. \A b \in BOOLEAN : [s EXCEPT !.ports[p].needs_lf = b] = owing(b)
  BY DEF PutPort
<1> DEFINE Owed(b, r) ==
             /\ Kept(F, s, Reply(owing(b), r)) /\ Reply(owing(b), r).reply = r
             /\ Reply(owing(b), r).ports[p].needs_lf = b
             /\ Reply(owing(b), r).ports[p].pbuf = port.pbuf
<1>4. \A b \in BOOLEAN, r \in Replies \cup {Skip} : Owed(b, r)
  <2> SUFFICES ASSUME NEW b \in BOOLEAN, NEW r \in Replies \cup {Skip} PROVE Owed(b, r)
    OBVIOUS
  <2> DEFINE o == owing(b)
  <2>1. /\ [port EXCEPT !.needs_lf = b].needs_lf = b
        /\ [port EXCEPT !.needs_lf = b].pbuf = port.pbuf
    BY <1>0 DEF Sound, PortRecords
  <2>2. Kept(F, s, o) /\ Good(F, o) /\ o.ports[p].needs_lf = b /\ o.ports[p].pbuf = port.pbuf
    BY <1>1, <2>1
  <2> HIDE DEF o
  <2>3. Kept(F, o, Reply(o, r)) /\ Reply(o, r).reply = r /\ Reply(o, r).ports = o.ports
    BY <2>2, ReplyKept
  <2>4. Kept(F, s, Reply(o, r))
    BY <2>2, <2>3, KeptTwice
  <2> QED BY <2>2, <2>3, <2>4 DEF o
<1>5. LF \in Replies /\ TRUE \in BOOLEAN /\ FALSE \in BOOLEAN /\ Skip # LF /\ LF # Eof /\ LF # Abort
  BY DEF Replies, Characters, LF, Skip, Eof, Abort
<1>6. CASE s.reply \in {Eof, Abort} \/ ~port.translate
  <2>1. Translate(s, p) = s
    BY <1>6 DEF Translate
  <2>2. s.reply = Skip \/ s.reply # Skip
    OBVIOUS
  <2> QED BY <1>5, <2>1, SameSelf DEF Skip, CR, LF
<1>7. CASE ~(s.reply \in {Eof, Abort} \/ ~port.translate) /\ s.reply = CR
  <2>1. Translate(s, p) = Reply(owing(TRUE), LF)
    BY <1>3, <1>5, <1>7 DEF Translate
  <2>2. Owed(TRUE, LF)
    BY <1>4, <1>5
  <2> HIDE DEF owing
  <2> QED BY <1>5, <1>7, <2>1, <2>2
<1>8. CASE ~(s.reply \in {Eof, Abort} \/ ~port.translate) /\ s.reply # CR /\ port.needs_lf
  <2>1. Translate(s, p) = Reply(owing(FALSE), IF s.reply = LF THEN Skip ELSE s.reply)
    BY <1>3, <1>5, <1>8 DEF Translate
  <2> DEFINE r == IF s.reply = LF THEN Skip ELSE s.reply
  <2>2. r \in Replies \cup {Skip} /\ r \in {s.reply, Skip}
    BY <1>0
  <2> HIDE DEF owing, r
  <2>3. Translate(s, p) = Reply(owing(FALSE), r)
    BY <2>1 DEF r
  <2>4. Owed(FALSE, r)
    <3> HIDE DEF Owed
    <3> QED BY <1>4, <1>5, <2>2
  <2> QED BY <1>5, <1>8, <2>2, <2>3, <2>4
<1>9. CASE ~(s.reply \in {Eof, Abort} \/ ~port.translate) /\ s.reply # CR /\ ~port.needs_lf
  <2>1. Translate(s, p) = s
    BY <1>9 DEF Translate
  <2> QED BY <1>5, <1>9, <2>1, SameSelf
<1> QED BY <1>6, <1>7, <1>8, <1>9
(* Reading a text port keeps the system, answers a character or the end of *)
(* the file, and fails only if the port under it cannot be read.           *)
LEMMA ReadTextPortKept ==
  ASSUME NEW F, NEW s, Good(F, s), NEW p \in DOMAIN s.ports, s.ports[p].class = "text"
  PROVE  /\ Kept(F, s, ReadTextPort(s, p))
         /\ ReadTextPort(s, p).reply \in Characters \cup {Eof, Abort}
         /\ ReadableUnder(s, p) => ReadTextPort(s, p).reply # Abort
         /\ ReadTextPort(s, p).ports[p].pbuf = s.ports[p].pbuf
<1> DEFINE u == Under(s, p)
           a == ReadByte(s, u)
           t == Translate(a, p)
           b == ReadByte(t, u)
           z == Translate(b, p)
<1>0. /\ u \in DOMAIN s.ports /\ u # p
      /\ Skip \notin Characters \cup {Eof, Abort} /\ LF \in Characters /\ Eof # Abort
      /\ LF # Abort /\ Abort \notin Characters
  BY UnderIs DEF Characters, Skip, Eof, Abort, LF, CR
<1> HIDE DEF u
<1>1. /\ Kept(F, s, a) /\ a.reply \in Characters \cup {Eof, Abort}
      /\ CanRead(s.ports[u]) => a.reply # Abort
      /\ a.ports[p] = s.ports[p]
  BY <1>0, ReadByteKept
<1> HIDE DEF a
<1>2. Good(F, a) /\ p \in DOMAIN a.ports /\ a.reply # Skip
  BY <1>0, <1>1, KeptParts
<1>3. /\ Kept(F, a, t) /\ t.reply \in {a.reply, LF, Skip}
      /\ t.reply = Skip => ~t.ports[p].needs_lf
      /\ a.reply \in {Eof, Abort} => t.reply = a.reply
      /\ t.ports[p].pbuf = a.ports[p].pbuf
  BY <1>2, TranslateKept
<1> HIDE DEF t
<1>4. Kept(F, s, t)
  BY <1>1, <1>3, KeptTwice
<1>5. CASE t.reply # Skip
  <2>1. ReadTextPort(s, p) = t
    BY <1>5 DEF ReadTextPort, t, a, u
  <2>2. a.reply = Abort \/ t.reply # Abort
    BY <1>0, <1>1, <1>3, <1>5
  <2> QED
    BY <1>0, <1>1, <1>3, <1>4, <1>5, <2>1, <2>2 DEF ReadableUnder, u
<1>6. CASE t.reply = Skip
  <2>1. ReadTextPort(s, p) = z
    <3>1. ReadTextPort(s, p) = Translate(ReadByte(t, Under(s, p)), p)
      BY <1>6 DEF ReadTextPort, t, a, u
    <3> QED BY <3>1 DEF u
  <2>2. /\ Good(F, t) /\ p \in DOMAIN t.ports /\ u \in DOMAIN t.ports
        /\ CanRead(t.ports[u]) = CanRead(s.ports[u])
    <3>1. Fixed(s.ports[u], t.ports[u])
      BY <1>0, <1>4, KeptParts
    <3>2. CanRead(t.ports[u]) = CanRead(s.ports[u])
      BY <3>1 DEF Fixed, CanRead
    <3> QED BY <1>0, <1>4, <3>2, KeptParts
  <2>3. /\ Kept(F, t, b) /\ b.reply \in Characters \cup {Eof, Abort}
        /\ CanRead(t.ports[u]) => b.reply # Abort
        /\ b.ports[p] = t.ports[p]
    BY <1>0, <2>2, ReadByteKept
  <2> HIDE DEF b
  <2>4. Good(F, b) /\ p \in DOMAIN b.ports /\ b.reply # Skip /\ ~b.ports[p].needs_lf
    BY <1>0, <1>3, <1>6, <2>2, <2>3, KeptParts
  <2>5. /\ Kept(F, b, z) /\ z.reply \in {b.reply, LF, Skip}
        /\ z.reply # Skip
        /\ b.reply \in {Eof, Abort} => z.reply = b.reply
        /\ z.ports[p].pbuf = b.ports[p].pbuf
    BY <2>4, TranslateKept
  <2> HIDE DEF z
  <2>6. Kept(F, s, z)
    BY <1>4, <2>3, <2>5, KeptTwice, KeptParts
  <2>7. b.reply = Abort \/ z.reply # Abort
    BY <1>0, <2>3, <2>5
  <2> QED
    BY <1>0, <1>1, <1>3, <2>1, <2>2, <2>3, <2>5, <2>6, <2>7 DEF ReadableUnder, u
<1> QED BY <1>5, <1>6

(* The character read, before the position moves.                          *)
Raw(s, p) ==
    IF s.ports[p].pbuf # << >> THEN Unread(s, p)
    ELSE IF s.ports[p].class = "text" THEN ReadTextPort(s, p)
    ELSE ReadStringPort(s, p)

(* The character read was unread or comes from below; none is unread       *)
(* afterwards.                                                             *)
LEMMA RawKept ==
  ASSUME NEW F, NEW s, Good(F, s), NEW p \in DOMAIN s.ports,
         TextPort(s.ports[p]), Input(s.ports[p])
  PROVE  /\ Kept(F, s, Raw(s, p))
         /\ Raw(s, p).reply \in Characters \cup {Eof, Abort}
         /\ ReadableUnder(s, p) => Raw(s, p).reply # Abort
         /\ Raw(s, p).ports[p].pbuf = << >>
<1> DEFINE port == s.ports[p]
<1>0. /\ Sound(F, port) /\ s \in Systems(F)
      /\ port.class \in {"text", "string-input"} /\ Abort \notin Characters /\ Eof # Abort
  BY GoodParts, TextReaders DEF Abort, Characters, CR, LF, Eof
<1>1. CASE port.pbuf # << >>
  <2> DEFINE o == [port EXCEPT !.pbuf = << >>]
             t == PutPort(s, p, o)
             c == port.pbuf[1]
  <2>1. Raw(s, p) = Reply(t, c)
    BY <1>1 DEF Raw, Unread, PutPort
  <2>2. c \in Characters
    BY <1>0, <1>1 DEF Sound, PortRecords
  <2>3. Sound(F, o) /\ Fixed(port, o) /\ o.pbuf = << >>
    BY <1>0, EmptiedSound, ZenonT(60) DEF Sound, PortRecords
  <2> HIDE DEF o, c
  <2>4. Kept(F, s, t) /\ t.ports[p] = o
    BY <1>0, <2>3, PutKept, PutParts
  <2> HIDE DEF t
  <2>5. Kept(F, t, Reply(t, c)) /\ Reply(t, c).reply = c /\ Reply(t, c).ports = t.ports
    BY <2>2, <2>4, KeptParts, ReplyKept DEF Replies
  <2>6. Kept(F, s, Reply(t, c))
    BY <2>4, <2>5, KeptTwice
  <2> QED
    BY <1>0, <2>1, <2>2, <2>3, <2>4, <2>5, <2>6
<1>2. CASE port.pbuf = << >> /\ port.class = "text"
  BY <1>2, ReadTextPortKept DEF Raw
<1>3. CASE port.pbuf = << >> /\ port.class # "text" /\ port.pos >= Len(port.data)
  <2>1. Raw(s, p) = Reply(s, Eof)
    BY <1>3 DEF Raw, ReadStringPort
  <2>2. Eof \in Replies
    BY DEF Replies
  <2>3. Kept(F, s, Reply(s, Eof)) /\ Reply(s, Eof).reply = Eof /\ Reply(s, Eof).ports = s.ports
    BY <2>2, ReplyKept
  <2> QED BY <1>0, <1>3, <2>1, <2>3
<1>4. CASE port.pbuf = << >> /\ port.class # "text" /\ ~(port.pos >= Len(port.data))
  <2> DEFINE o == [port EXCEPT !.pos = port.pos + 1]
             t == PutPort(s, p, o)
             c == port.data[port.pos + 1]
  <2>1. Raw(s, p) = Reply(t, c)
    <3>1. Raw(s, p) = Reply([s EXCEPT !.ports[p].pos = @ + 1], port.data[port.pos + 1])
      BY <1>4 DEF Raw, ReadStringPort
    <3>2. [s EXCEPT !.ports[p].pos = @ + 1] = t
      BY DEF PutPort
    <3> HIDE DEF t, c
    <3> QED BY <3>1, <3>2 DEF c
  <2>2. c \in Characters
    <3>1. port.data \in Seq(Characters) /\ port.pos \in Nat
      BY <1>0, <1>4 DEF Sound, PortRecords, FileClasses
    <3>2. port.pos + 1 \in 1 .. Len(port.data)
      BY <1>4, <3>1
    <3> HIDE DEF port
    <3> QED BY <3>1, <3>2
  <2>3. Sound(F, o) /\ Fixed(port, o) /\ o.pbuf = << >>
    <3>1. port.pos + 1 \in Nat /\ o.pbuf = port.pbuf
      BY <1>0 DEF Sound, PortRecords
    <3> QED BY <1>0, <1>4, <3>1, PosSound
  <2> HIDE DEF o, c
  <2>4. Kept(F, s, t) /\ t.ports[p] = o
    BY <1>0, <2>3, PutKept, PutParts
  <2> HIDE DEF t
  <2>5. Kept(F, t, Reply(t, c)) /\ Reply(t, c).reply = c /\ Reply(t, c).ports = t.ports
    BY <2>2, <2>4, KeptParts, ReplyKept DEF Replies
  <2>6. Kept(F, s, Reply(t, c))
    BY <2>4, <2>5, KeptTwice
  <2> QED
    BY <1>0, <2>1, <2>2, <2>3, <2>4, <2>5, <2>6
<1> QED BY <1>1, <1>2, <1>3, <1>4

(* ReadChar is that read, with the position moved.                         *)
LEMMA ReadCharIs ==
  ASSUME NEW s, NEW p
  PROVE  /\ ~(TextPort(s.ports[p]) /\ Input(s.ports[p])) => ReadChar(s, p) = Reply(s, Abort)
         /\ TextPort(s.ports[p]) /\ Input(s.ports[p]) /\ Raw(s, p).reply = Abort =>
              ReadChar(s, p) = Raw(s, p)
         /\ TextPort(s.ports[p]) /\ Input(s.ports[p]) /\ Raw(s, p).reply # Abort =>
              ReadChar(s, p) =
                PutPort(Raw(s, p), p, ReadPosition(Raw(s, p).ports[p], Raw(s, p).reply))
<1> DEFINE t == Raw(s, p)
<1>1. ReadChar(s, p) =
        IF ~TextPort(s.ports[p]) \/ ~Input(s.ports[p]) THEN Reply(s, Abort)
        ELSE IF t.reply = Abort THEN t
        ELSE [t EXCEPT !.ports[p] = ReadPosition(@, t.reply)]
  BY DEF ReadChar, Raw
<1> HIDE DEF t
<1>2. [t EXCEPT !.ports[p] = ReadPosition(@, t.reply)] =
        PutPort(t, p, ReadPosition(t.ports[p], t.reply))
  BY DEF PutPort
<1> QED BY <1>1, <1>2 DEF t

(* Reading a character keeps the system, and does not fail at a port for   *)
(* input that works.                                                       *)
LEMMA ReadCharKept ==
  ASSUME NEW F, NEW s, Good(F, s), NEW p \in DOMAIN s.ports
  PROVE  /\ Kept(F, s, ReadChar(s, p))
         /\ ReadChar(s, p).reply \in Characters \cup {Eof, Abort}
         /\ Works(s, p) /\ TextPort(s.ports[p]) /\ Input(s.ports[p]) => ReadChar(s, p).reply # Abort
         /\ ReadChar(s, p).reply # Abort =>
              /\ TextPort(s.ports[p]) /\ Input(s.ports[p])
              /\ ReadChar(s, p).reply = Raw(s, p).reply
              /\ Raw(s, p).ports[p].pbuf = << >>
              /\ Sound(F, Raw(s, p).ports[p])
              /\ ReadChar(s, p).ports[p] = ReadPosition(Raw(s, p).ports[p], Raw(s, p).reply)
              /\ ReadChar(s, p) =
                   PutPort(Raw(s, p), p, ReadPosition(Raw(s, p).ports[p], Raw(s, p).reply))
<1> DEFINE t == Raw(s, p)
           port == s.ports[p]
<1>0. Abort \in Replies
  BY DEF Replies
<1>1. CASE ~(TextPort(port) /\ Input(port))
  <2>1. ReadChar(s, p) = Reply(s, Abort)
    BY <1>1, ReadCharIs
  <2>2. Kept(F, s, Reply(s, Abort)) /\ Reply(s, Abort).reply = Abort
    BY <1>0, ReplyKept
  <2> QED BY <1>1, <2>1, <2>2
<1>2. CASE TextPort(port) /\ Input(port)
  <2>1. /\ Kept(F, s, t) /\ t.reply \in Characters \cup {Eof, Abort}
        /\ ReadableUnder(s, p) => t.reply # Abort
        /\ t.ports[p].pbuf = << >>
    BY <1>2, RawKept
  <2>2. CASE t.reply = Abort
    <3>1. ReadChar(s, p) = t
      BY <1>2, <2>2, ReadCharIs
    <3> HIDE DEF t
    <3> QED BY <1>2, <2>1, <2>2, <3>1, OpenUnder
  <2>3. CASE t.reply # Abort
    <3> DEFINE o == ReadPosition(t.ports[p], t.reply)
    <3>1. ReadChar(s, p) = PutPort(t, p, o)
      BY <1>2, <2>3, ReadCharIs
    <3>2. Good(F, t) /\ p \in DOMAIN t.ports /\ Sound(F, t.ports[p]) /\ t \in Systems(F)
      BY <2>1, KeptParts, GoodParts
    <3>3. Sound(F, o) /\ Fixed(t.ports[p], o)
      BY <3>2, PositionSound
    <3> HIDE DEF o, t
    <3>4. Kept(F, t, PutPort(t, p, o)) /\ PutPort(t, p, o).reply = t.reply /\ PutPort(t, p, o).ports[p] = o
      BY <3>2, <3>3, PutKept, PutParts DEF Sound
    <3>5. Kept(F, s, PutPort(t, p, o))
      BY <2>1, <3>4, KeptTwice
    <3> QED BY <1>2, <2>1, <2>3, <3>1, <3>2, <3>4, <3>5 DEF o, t
  <2> QED BY <2>2, <2>3
<1> QED BY <1>1, <1>2

(* What p can be read as.                                                  *)
CanTake(s, p) == Works(s, p) /\ TextPort(s.ports[p]) /\ Input(s.ports[p])

(* A read that went from s to t.                                           *)
ReadsWell(F, s, p, t) ==
    /\ Kept(F, s, t)
    /\ t.reply \in Characters \cup {Eof, Abort}
    /\ CanTake(s, p) => t.reply # Abort

(* A read after what was kept is a read.                                   *)
LEMMA ReadsTwice ==
  ASSUME NEW F, NEW s, NEW t, NEW u, Good(F, s), NEW p \in DOMAIN s.ports,
         Kept(F, s, t), ReadsWell(F, t, p, u)
  PROVE  ReadsWell(F, s, p, u)
<1>1. /\ Works(t, p) = Works(s, p) /\ TextPort(t.ports[p]) = TextPort(s.ports[p])
      /\ Input(t.ports[p]) = Input(s.ports[p])
  BY WorksSame, SameWays
<1>2. Kept(F, s, u)
  BY KeptTwice DEF ReadsWell
<1> QED
  BY <1>1, <1>2 DEF ReadsWell, CanTake

(* Taking a character, which notes what was passed, is a read.             *)
LEMMA TakeKept ==
  ASSUME NEW F, NEW s, Good(F, s), NEW p \in DOMAIN s.ports
  PROVE  ReadsWell(F, s, p, Take(s, p))
<1> DEFINE t == ReadChar(s, p)
           c == t.reply
           o == [t.ports[p] EXCEPT !.passed = Append(@, c)]
<1>1. /\ Kept(F, s, t) /\ c \in Characters \cup {Eof, Abort}
      /\ CanTake(s, p) => c # Abort
  BY ReadCharKept DEF CanTake
<1>2. Take(s, p) = IF c \in {Eof, Abort} THEN t ELSE [t EXCEPT !.ports[p].passed = Append(@, c)]
  BY DEF Take
<1> HIDE DEF t
<1>3. CASE c \in {Eof, Abort}
  BY <1>1, <1>2, <1>3 DEF ReadsWell
<1>4. CASE c \notin {Eof, Abort}
  <2>1. Take(s, p) = PutPort(t, p, o)
    BY <1>2, <1>4 DEF PutPort
  <2>2. Good(F, t) /\ p \in DOMAIN t.ports /\ Sound(F, t.ports[p]) /\ t \in Systems(F)
    BY <1>1, KeptParts, GoodParts
  <2>3. Sound(F, o) /\ Fixed(t.ports[p], o)
    BY <1>1, <1>4, <2>2, PassedSound
  <2> HIDE DEF o
  <2>4. Kept(F, t, PutPort(t, p, o)) /\ PutPort(t, p, o).reply = c
    BY <2>2, <2>3, PutKept, PutParts DEF Sound
  <2>5. Kept(F, s, PutPort(t, p, o))
    BY <1>1, <2>4, KeptTwice
  <2> QED BY <1>1, <2>1, <2>4, <2>5 DEF ReadsWell
<1> QED BY <1>3, <1>4

(* Peeking is a read: what it unreads was read from the same port.         *)
LEMMA PeekKept ==
  ASSUME NEW F, NEW s, Good(F, s), NEW p \in DOMAIN s.ports
  PROVE  ReadsWell(F, s, p, PeekChar(s, p))
<1> DEFINE t == ReadChar(s, p)
           c == t.reply
           port == s.ports[p]
<1>0. Sound(F, port) /\ Abort \in Replies /\ Eof \in Replies /\ Eof # Abort /\ Abort \notin Characters
  BY GoodParts DEF Replies, Abort, Eof, Characters, CR, LF
<1>1. CASE ~TextPort(port) \/ ~Input(port)
  <2>1. PeekChar(s, p) = Reply(s, Abort)
    BY <1>1 DEF PeekChar
  <2>2. Kept(F, s, Reply(s, Abort)) /\ Reply(s, Abort).reply = Abort
    BY <1>0, ReplyKept
  <2> QED BY <1>1, <2>1, <2>2 DEF ReadsWell, CanTake
<1>2. CASE TextPort(port) /\ Input(port) /\ port.class # "text"
  <2> DEFINE r == IF port.pos >= Len(port.data) THEN Eof ELSE port.data[port.pos + 1]
  <2>1. PeekChar(s, p) = Reply(s, r)
    BY <1>2 DEF PeekChar
  <2>2. port.class \notin FileClasses
    BY <1>2, TextReaders DEF FileClasses
  <2>3. port.pos \in Nat /\ port.data \in Seq(Characters)
    BY <1>0, <2>2 DEF Sound, PortRecords
  <2>4. r \in Characters \cup {Eof} /\ r \in Replies /\ r # Abort
    <3>1. CASE port.pos >= Len(port.data)
      BY <1>0, <3>1
    <3>2. CASE ~(port.pos >= Len(port.data))
      <4>1. port.pos + 1 \in 1 .. Len(port.data)
        BY <2>3, <3>2
      <4>2. port.data[port.pos + 1] \in Characters
        <5> HIDE DEF port
        <5> QED BY <2>3, <4>1
      <4> QED BY <1>0, <3>2, <4>2 DEF Replies
    <3> QED BY <3>1, <3>2
  <2> HIDE DEF r
  <2>5. Kept(F, s, Reply(s, r)) /\ Reply(s, r).reply = r
    BY <2>4, ReplyKept
  <2> QED BY <2>1, <2>4, <2>5 DEF ReadsWell
<1>3. CASE TextPort(port) /\ Input(port) /\ port.class = "text"
  <2>1. PeekChar(s, p) = IF c \in {Eof, Abort} THEN t
          ELSE [t EXCEPT !.ports[p] = [Unmove(@, c) EXCEPT !.pbuf = <<c>>]]
    BY <1>3 DEF PeekChar, PeekTextPort
  <2>2. /\ Kept(F, s, t) /\ c \in Characters \cup {Eof, Abort}
        /\ CanTake(s, p) => c # Abort
    BY ReadCharKept DEF CanTake
  <2>3. CASE c \in {Eof, Abort}
    BY <2>1, <2>2, <2>3 DEF ReadsWell
  <2>4. CASE c \notin {Eof, Abort}
    <3> DEFINE q == Raw(s, p).ports[p]
               o == Unmove(ReadPosition(q, c), c)
               x == [o EXCEPT !.pbuf = <<c>>]
    <3>1. /\ Sound(F, q) /\ t.ports[p] = ReadPosition(q, c) /\ c \in Characters
      BY <2>2, <2>4, ReadCharKept
    <3>2. Good(F, t) /\ p \in DOMAIN t.ports /\ t \in Systems(F) /\ t.ports[p].class = "text"
      BY <1>3, <2>2, KeptParts, GoodParts, SameWays
    <3> HIDE DEF q, t
    <3>3. Sound(F, o) /\ Fixed(q, o)
      BY <3>1, UnmoveSound
    <3>4. Fixed(q, t.ports[p])
      BY <3>1, PositionSound
    <3>5. o.class = "text"
      BY <3>2, <3>3, <3>4 DEF Fixed
    <3>6. PeekChar(s, p) = PutPort(t, p, x)
      BY <2>1, <2>4, <3>1 DEF PutPort
    <3> HIDE DEF o
    <3>7. Sound(F, x) /\ Fixed(o, x)
      BY <3>1, <3>3, <3>5, FilledSound
    <3> HIDE DEF x
    <3>8. Fixed(t.ports[p], x)
      BY <3>3, <3>4, <3>7 DEF Fixed
    <3>9. Kept(F, t, PutPort(t, p, x)) /\ PutPort(t, p, x).reply = c
      BY <3>2, <3>7, <3>8, PutKept, PutParts DEF Sound
    <3>10. Kept(F, s, PutPort(t, p, x))
      BY <2>2, <3>9, KeptTwice
    <3> QED BY <2>2, <3>6, <3>9, <3>10 DEF ReadsWell
  <2> QED BY <2>3, <2>4
<1> QED BY <1>1, <1>2, <1>3

(* The bound on the rounds of a loop that reads is a number.               *)
LEMMA LeftIs ==
  ASSUME NEW F, NEW s, Good(F, s), NEW p \in DOMAIN s.ports, TextPort(s.ports[p])
  PROVE  Left(s, p) \in Nat
<1> DEFINE port == s.ports[p]
<1>1. Sound(F, port)
  BY GoodParts
<1>2. port.class \notin FileClasses
  <2>1. "text" \in port.made /\ MadeRight(port.class, port.made)
    BY <1>1 DEF Sound, TextPort
  <2> HIDE DEF port
  <2> QED BY <2>1 DEF MadeRight, FileClasses
<1>3. Len(port.data) + 1 \in Nat
  BY <1>1, <1>2 DEF Sound
<1>4. CASE port.class = "text" /\ s.ports[port.under].class \in FileClasses \cup {"c-data"}
  <2>1. port.under \in DOMAIN s.ports
    BY <1>4, UnderIs DEF Under
  <2>2. Bytes(s, port.under) \in Seq(Characters)
    BY <1>4, <2>1, BytesAre
  <2>3. Len(Bytes(s, port.under)) + 1 \in Nat
    BY <2>2
  <2> QED BY <1>4, <2>3 DEF Left
<1>5. CASE ~(port.class = "text" /\ s.ports[port.under].class \in FileClasses \cup {"c-data"})
  BY <1>3, <1>5 DEF Left
<1> QED BY <1>4, <1>5

(* The states between the characters of a line.                            *)
ReadOn(f, s, p, N) ==
    f = [n \in 0 .. N |->
           IF n = 0 THEN Take(s, p)
           ELSE IF f[n - 1].reply \in {LF, Eof, Abort} THEN f[n - 1] ELSE Take(f[n - 1], p)]

(* The states between the characters of a line that is read.               *)
LineRounds(F, s, p, f) ==
    /\ f[0] = Take(s, p)
    /\ \A n \in 1 .. Left(s, p) : f[n] \in {f[n - 1], Take(f[n - 1], p)}
    /\ RestOfLine(s, p) = f[Left(s, p)]
    /\ Left(s, p) \in Nat /\ Left(s, p) \in 0 .. Left(s, p)
    /\ \A n \in 0 .. Left(s, p) : f[n] \in Systems(F) /\ ReadsWell(F, s, p, f[n])

(* The rest of a line is read character by character.                      *)
LEMMA RestOfLineRounds ==
  ASSUME NEW F, NEW s, Good(F, s), NEW p \in DOMAIN s.ports, TextPort(s.ports[p])
  PROVE  \E f : LineRounds(F, s, p, f)
<1> DEFINE D == {t \in Systems(F) : ReadsWell(F, s, p, t)}
           N == Left(s, p)
           more(t) == IF t.reply \in {LF, Eof, Abort} THEN t ELSE Take(t, p)
           G == [x \in D \X (1 .. N) |-> more(x[1])]
           f == CHOOSE f : ReadOn(f, s, p, N)
<1>1. N \in Nat
  BY LeftIs
<1>2. ASSUME NEW t \in D
      PROVE  more(t) \in D
  <2>1. Good(F, t) /\ Kept(F, s, t) /\ p \in DOMAIN t.ports
    BY KeptParts DEF ReadsWell
  <2>2. ReadsWell(F, t, p, Take(t, p))
    BY <2>1, TakeKept
  <2>3. ReadsWell(F, s, p, Take(t, p))
    BY <2>1, <2>2, ReadsTwice
  <2>4. Take(t, p) \in Systems(F)
    BY <2>3, GoodParts DEF ReadsWell, Kept
  <2> QED BY <2>3, <2>4
<1>3. Take(s, p) \in D
  <2>1. ReadsWell(F, s, p, Take(s, p))
    BY TakeKept
  <2>2. Take(s, p) \in Systems(F)
    BY <2>1, GoodParts DEF ReadsWell, Kept
  <2> QED BY <2>1, <2>2
<1> HIDE DEF D, N, more
<1>4. G \in [D \X (1 .. N) -> D]
  BY <1>2
<1>5. PICK g \in [0 .. N -> D] : Iterates(g, N, Take(s, p), G)
  <2> HIDE DEF G
  <2> QED BY <1>1, <1>3, <1>4, IterationExists
<1>6. \A n \in 1 .. N : g[n] = more(g[n - 1])
  <2> SUFFICES ASSUME NEW n \in 1 .. N PROVE g[n] = more(g[n - 1])
    OBVIOUS
  <2>1. g[n - 1] \in D
    BY <1>1
  <2>2. g[n] = G[<<g[n - 1], n>>]
    <3> HIDE DEF G
    <3> QED BY <1>5 DEF Iterates
  <2> QED BY <2>1, <2>2
<1> HIDE DEF G
<1>7. ReadOn(g, s, p, N)
  <2>1. g = [n \in 0 .. N |-> IF n = 0 THEN Take(s, p) ELSE more(g[n - 1])]
    BY <1>5, <1>6 DEF Iterates
  <2> QED BY <2>1 DEF ReadOn, more
<1>8. ReadOn(f, s, p, N)
  BY <1>7
<1>9. RestOfLine(s, p) = f[N]
  BY DEF RestOfLine, ReadOn, N
<1> HIDE DEF f
<1>10. f[0] = Take(s, p) /\ \A n \in 1 .. N : f[n] = more(f[n - 1])
  <2>1. \A n \in 0 .. N : f[n] = IF n = 0 THEN Take(s, p) ELSE more(f[n - 1])
    BY <1>8 DEF ReadOn, more
  <2> QED BY <1>1, <2>1
<1>11. \A n \in 0 .. N : f[n] \in D
  BY <1>1, <1>2, <1>3, <1>10, IterationStays
<1>12. N \in 0 .. N /\ \A n \in 1 .. N : f[n] \in {f[n - 1], Take(f[n - 1], p)}
  BY <1>1, <1>10 DEF more
<1> QED BY <1>1, <1>9, <1>10, <1>11, <1>12 DEF D, N, LineRounds

(* Reading the rest of a line is a read.                                   *)
LEMMA RestOfLineKept ==
  ASSUME NEW F, NEW s, Good(F, s), NEW p \in DOMAIN s.ports, TextPort(s.ports[p])
  PROVE  ReadsWell(F, s, p, RestOfLine(s, p))
<1>1. PICK f : LineRounds(F, s, p, f)
  BY RestOfLineRounds
<1> QED BY <1>1 DEF LineRounds

(* Reading a line keeps the system, and does not fail at a port for input  *)
(* that works.                                                             *)
LEMMA ReadLineKept ==
  ASSUME NEW F, NEW s, Good(F, s), NEW p \in DOMAIN s.ports, TextPort(s.ports[p])
  PROVE  /\ Kept(F, s, ReadLine(s, p))
         /\ ReadLine(s, p).reply \in Replies
         /\ CanTake(s, p) => ReadLine(s, p).reply # Abort
<1> DEFINE t == RestOfLine(s, p)
<1>1. ReadsWell(F, s, p, t)
  BY RestOfLineKept
<1>2. ReadLine(s, p) \in {t, Reply(t, Done)}
  BY DEF ReadLine
<1> HIDE DEF t
<1>3. Done \in Replies /\ Done # Abort /\ Characters \cup {Eof, Abort} \subseteq Replies
  BY DEF Replies, Done, Abort
<1>4. Good(F, t) /\ Kept(F, s, t)
  BY <1>1, KeptParts DEF ReadsWell
<1>5. Kept(F, t, Reply(t, Done)) /\ Reply(t, Done).reply = Done
  BY <1>3, <1>4, ReplyKept
<1>6. Kept(F, s, Reply(t, Done))
  BY <1>4, <1>5, KeptTwice
<1> QED BY <1>1, <1>2, <1>3, <1>4, <1>5, <1>6 DEF ReadsWell

(* One round of flush_whitespace.                                          *)
SkipOne(t, p, comments) ==
    IF t.reply = ";" /\ comments THEN PeekChar(RestOfLine(t, p), p)
    ELSE IF t.reply \in Whitespace THEN PeekChar(Take(t, p), p)
    ELSE t

(* The states between the rounds of flush_whitespace.                      *)
SkipOn(f, s, p, comments, N) ==
    f = [n \in 0 .. N |->
           IF n = 0 THEN PeekChar(s, p) ELSE SkipOne(f[n - 1], p, comments)]

(* One round of flush_whitespace is a read.                                *)
LEMMA SkipOneKept ==
  ASSUME NEW F, NEW s, Good(F, s), NEW p \in DOMAIN s.ports, TextPort(s.ports[p]),
         NEW comments, NEW t, ReadsWell(F, s, p, t)
  PROVE  ReadsWell(F, s, p, SkipOne(t, p, comments))
<1>1. /\ Good(F, t) /\ Kept(F, s, t) /\ p \in DOMAIN t.ports /\ TextPort(t.ports[p])
  BY KeptParts, SameWays DEF ReadsWell
<1>2. ASSUME NEW u, ReadsWell(F, t, p, u)
      PROVE  ReadsWell(F, s, p, PeekChar(u, p))
  <2>1. ReadsWell(F, s, p, u)
    BY <1>1, <1>2, ReadsTwice
  <2>2. Good(F, u) /\ Kept(F, s, u) /\ p \in DOMAIN u.ports
    BY <2>1, KeptParts DEF ReadsWell
  <2>3. ReadsWell(F, u, p, PeekChar(u, p))
    BY <2>2, PeekKept
  <2> QED BY <2>2, <2>3, ReadsTwice
<1>3. ReadsWell(F, t, p, RestOfLine(t, p)) /\ ReadsWell(F, t, p, Take(t, p))
  BY <1>1, RestOfLineKept, TakeKept
<1>4. SkipOne(t, p, comments) \in {t, PeekChar(RestOfLine(t, p), p), PeekChar(Take(t, p), p)}
  BY DEF SkipOne
<1> QED BY <1>2, <1>3, <1>4

(* The states between the rounds of flush_whitespace, and the last of them. *)
SkipRounds(F, s, p, comments, f) ==
    /\ f[0] = PeekChar(s, p)
    /\ \A n \in 1 .. Left(s, p) : f[n] = SkipOne(f[n - 1], p, comments)
    /\ FlushWhitespace(s, p, comments) = f[Left(s, p)]
    /\ Left(s, p) \in Nat /\ Left(s, p) \in 0 .. Left(s, p)
    /\ \A n \in 0 .. Left(s, p) : f[n] \in Systems(F) /\ ReadsWell(F, s, p, f[n])

(* Whitespace is flushed round by round.                                   *)
LEMMA FlushWhitespaceRounds ==
  ASSUME NEW F, NEW s, Good(F, s), NEW p \in DOMAIN s.ports, TextPort(s.ports[p]), NEW comments
  PROVE  \E f : SkipRounds(F, s, p, comments, f)
<1> DEFINE D == {t \in Systems(F) : ReadsWell(F, s, p, t)}
           N == Left(s, p)
           G == [x \in D \X (1 .. N) |-> SkipOne(x[1], p, comments)]
           f == CHOOSE f : SkipOn(f, s, p, comments, N)
<1>1. N \in Nat
  BY LeftIs
<1>2. ASSUME NEW t \in D
      PROVE  SkipOne(t, p, comments) \in D
  <2>1. ReadsWell(F, s, p, SkipOne(t, p, comments))
    BY SkipOneKept
  <2>2. SkipOne(t, p, comments) \in Systems(F)
    BY <2>1, GoodParts DEF ReadsWell, Kept
  <2> QED BY <2>1, <2>2
<1>3. PeekChar(s, p) \in D
  <2>1. ReadsWell(F, s, p, PeekChar(s, p))
    BY PeekKept
  <2>2. PeekChar(s, p) \in Systems(F)
    BY <2>1, GoodParts DEF ReadsWell, Kept
  <2> QED BY <2>1, <2>2
<1> HIDE DEF D, N
<1>4. G \in [D \X (1 .. N) -> D]
  BY <1>2
<1>5. PICK g \in [0 .. N -> D] : Iterates(g, N, PeekChar(s, p), G)
  <2> HIDE DEF G
  <2> QED BY <1>1, <1>3, <1>4, IterationExists
<1>6. \A n \in 1 .. N : g[n] = SkipOne(g[n - 1], p, comments)
  <2> SUFFICES ASSUME NEW n \in 1 .. N PROVE g[n] = SkipOne(g[n - 1], p, comments)
    OBVIOUS
  <2>1. g[n - 1] \in D
    BY <1>1
  <2>2. g[n] = G[<<g[n - 1], n>>]
    <3> HIDE DEF G
    <3> QED BY <1>5 DEF Iterates
  <2> QED BY <2>1, <2>2
<1> HIDE DEF G
<1>7. SkipOn(g, s, p, comments, N)
  <2>1. g = [n \in 0 .. N |-> IF n = 0 THEN PeekChar(s, p) ELSE SkipOne(g[n - 1], p, comments)]
    BY <1>5, <1>6 DEF Iterates
  <2> QED BY <2>1 DEF SkipOn
<1>8. SkipOn(f, s, p, comments, N)
  BY <1>7
<1>9. FlushWhitespace(s, p, comments) = f[N]
  BY DEF FlushWhitespace, SkipOn, SkipOne, N
<1> HIDE DEF f
<1>10. f[0] = PeekChar(s, p) /\ \A n \in 1 .. N : f[n] = SkipOne(f[n - 1], p, comments)
  <2>1. \A n \in 0 .. N : f[n] = IF n = 0 THEN PeekChar(s, p) ELSE SkipOne(f[n - 1], p, comments)
    BY <1>8 DEF SkipOn
  <2> QED BY <1>1, <2>1
<1>11. \A n \in 0 .. N : f[n] \in D
  BY <1>1, <1>2, <1>3, <1>10, IterationStays
<1>12. N \in 0 .. N
  BY <1>1
<1> QED BY <1>1, <1>9, <1>10, <1>11, <1>12 DEF D, N, SkipRounds

(* All of flush_whitespace is a read.                                      *)
LEMMA FlushWhitespaceKept ==
  ASSUME NEW F, NEW s, Good(F, s), NEW p \in DOMAIN s.ports, TextPort(s.ports[p]), NEW comments
  PROVE  ReadsWell(F, s, p, FlushWhitespace(s, p, comments))
<1>1. PICK f : SkipRounds(F, s, p, comments, f)
  BY FlushWhitespaceRounds
<1> QED BY <1>1 DEF SkipRounds
-----------------------------------------------------------------------------
(* Binary input and output, and the translation mode.                      *)

(* One byte more, after those that were read.                              *)
ByteMore(t, p) == IF t.reply \in {Eof, Abort} THEN t ELSE ReadByte(t, p)

(* The states between the bytes read.                                      *)
Bytewise(f, start, p, N) ==
    f = [n \in 0 .. N |-> IF n = 0 THEN start ELSE ByteMore(f[n - 1], p)]

(* A use of p that answers, and fails only if p cannot be read.            *)
UsesWell(s, p, t) ==
    /\ t.reply \in Replies
    /\ CanRead(s.ports[p]) => t.reply # Abort

(* One byte more is such a use.                                            *)
LEMMA ByteMoreKept ==
  ASSUME NEW F, NEW s, Good(F, s), NEW p \in DOMAIN s.ports, NEW t, Kept(F, s, t), UsesWell(s, p, t)
  PROVE  Kept(F, s, ByteMore(t, p)) /\ UsesWell(s, p, ByteMore(t, p))
<1>1. Good(F, t) /\ p \in DOMAIN t.ports /\ Fixed(s.ports[p], t.ports[p])
  BY KeptParts
<1>2. CanRead(t.ports[p]) = CanRead(s.ports[p])
  BY <1>1 DEF Fixed, CanRead
<1>3. /\ Kept(F, t, ReadByte(t, p)) /\ ReadByte(t, p).reply \in Characters \cup {Eof, Abort}
      /\ CanRead(t.ports[p]) => ReadByte(t, p).reply # Abort
  BY <1>1, ReadByteKept
<1>4. Kept(F, s, ReadByte(t, p))
  BY <1>3, KeptTwice
<1>5. UsesWell(s, p, ReadByte(t, p))
  BY <1>2, <1>3 DEF UsesWell, Replies
<1>6. ByteMore(t, p) \in {t, ReadByte(t, p)}
  BY DEF ByteMore
<1> QED BY <1>4, <1>5, <1>6

(* The states between the bytes that are read.                             *)
InRounds(F, p, N, f) ==
    /\ f[0] = PutPort(S, p, [S.ports[p] EXCEPT !.direct = TRUE])
    /\ \A n \in 1 .. N : f[n] \in {f[n - 1], ReadByte(f[n - 1], p)}
    /\ ReadBytes(p, N) = f[N] /\ N \in 0 .. N
    /\ \A n \in 0 .. N : f[n] \in Systems(F) /\ Kept(F, S, f[n]) /\ UsesWell(S, p, f[n])

(* Bytes are read one by one.                                              *)
LEMMA ReadBytesRounds ==
  ASSUME NEW F, Good(F, S), NEW p \in DOMAIN S.ports, NEW N \in Nat
  PROVE  \E f : InRounds(F, p, N, f)
<1> DEFINE start == [S EXCEPT !.ports[p].direct = TRUE]
           D == {t \in Systems(F) : Kept(F, S, t) /\ UsesWell(S, p, t)}
           G == [x \in D \X (1 .. N) |-> ByteMore(x[1], p)]
           f == CHOOSE f : Bytewise(f, start, p, N)
<1>1. ASSUME NEW t \in D
      PROVE  ByteMore(t, p) \in D
  <2>1. Kept(F, S, ByteMore(t, p)) /\ UsesWell(S, p, ByteMore(t, p))
    BY ByteMoreKept
  <2>2. ByteMore(t, p) \in Systems(F)
    BY <2>1, GoodParts DEF Kept
  <2> QED BY <2>1, <2>2
<1>2. start \in D
  <2> DEFINE o == [S.ports[p] EXCEPT !.direct = TRUE]
  <2>1. start = PutPort(S, p, o)
    BY DEF PutPort
  <2>2. Sound(F, S.ports[p]) /\ S \in Systems(F) /\ S.reply = Done
    BY GoodParts DEF S
  <2> HIDE DEF S
  <2>3. Sound(F, o) /\ Fixed(S.ports[p], o)
    BY <2>2, DirectSound
  <2> HIDE DEF o, start
  <2>4. Kept(F, S, start) /\ start.reply = Done
    BY <2>1, <2>2, <2>3, PutKept, PutParts
  <2>5. UsesWell(S, p, start)
    BY <2>4 DEF UsesWell, Replies, Done, Abort
  <2>6. start \in Systems(F)
    BY <2>4, GoodParts DEF Kept
  <2> QED BY <2>4, <2>5, <2>6
<1>3. start = PutPort(S, p, [S.ports[p] EXCEPT !.direct = TRUE])
  BY DEF PutPort
<1>9. ReadBytes(p, N) = f[N]
  BY DEF ReadBytes, Bytewise, ByteMore
<1> HIDE DEF D, start
<1>4. G \in [D \X (1 .. N) -> D]
  BY <1>1
<1>5. PICK g \in [0 .. N -> D] : Iterates(g, N, start, G)
  <2> HIDE DEF G
  <2> QED BY <1>2, <1>4, IterationExists
<1>6. \A n \in 1 .. N : g[n] = ByteMore(g[n - 1], p)
  <2> SUFFICES ASSUME NEW n \in 1 .. N PROVE g[n] = ByteMore(g[n - 1], p)
    OBVIOUS
  <2>1. g[n - 1] \in D
    OBVIOUS
  <2>2. g[n] = G[<<g[n - 1], n>>]
    <3> HIDE DEF G
    <3> QED BY <1>5 DEF Iterates
  <2> QED BY <2>1, <2>2
<1> HIDE DEF G
<1>7. Bytewise(g, start, p, N)
  <2>1. g = [n \in 0 .. N |-> IF n = 0 THEN start ELSE ByteMore(g[n - 1], p)]
    BY <1>5, <1>6 DEF Iterates
  <2> QED BY <2>1 DEF Bytewise
<1>8. Bytewise(f, start, p, N)
  BY <1>7
<1> HIDE DEF f
<1>10. f[0] = start /\ \A n \in 1 .. N : f[n] = ByteMore(f[n - 1], p)
  <2>1. \A n \in 0 .. N : f[n] = IF n = 0 THEN start ELSE ByteMore(f[n - 1], p)
    BY <1>8 DEF Bytewise
  <2> QED BY <2>1
<1>11. \A n \in 0 .. N : f[n] \in D
  BY <1>1, <1>2, <1>10, IterationStays
<1>12. N \in 0 .. N /\ \A n \in 1 .. N : f[n] \in {f[n - 1], ReadByte(f[n - 1], p)}
  BY <1>10 DEF ByteMore
<1> QED BY <1>3, <1>9, <1>10, <1>11, <1>12 DEF D, InRounds

(* Reading bytes keeps the system, and fails only if the port cannot be    *)
(* read.                                                                   *)
LEMMA ReadBytesKept ==
  ASSUME NEW F, Good(F, S), NEW p \in DOMAIN S.ports, NEW N \in Nat
  PROVE  Kept(F, S, ReadBytes(p, N)) /\ UsesWell(S, p, ReadBytes(p, N))
<1>1. PICK f : InRounds(F, p, N, f)
  BY ReadBytesRounds
<1> QED BY <1>1 DEF InRounds

(* One byte more, after those that were written.                           *)
WriteMore(t, p, b) == IF t.reply = Abort THEN t ELSE WriteByte(t, p, b)

(* The states between the bytes written.                                   *)
Writtenwise(f, start, p, text) ==
    f = [n \in 0 .. Len(text) |-> IF n = 0 THEN start ELSE WriteMore(f[n - 1], p, text[n])]

(* A use of p that fails only if p cannot be written.                      *)
WritesWell(s, p, t) ==
    /\ t.reply \in {Done, Abort}
    /\ CanWrite(s.ports[p]) => t.reply = Done

(* One byte more is such a use.                                            *)
LEMMA WriteMoreKept ==
  ASSUME NEW F, NEW s, Good(F, s), NEW p \in DOMAIN s.ports, NEW t, Kept(F, s, t),
         WritesWell(s, p, t), NEW b \in Characters
  PROVE  Kept(F, s, WriteMore(t, p, b)) /\ WritesWell(s, p, WriteMore(t, p, b))
<1>1. Good(F, t) /\ p \in DOMAIN t.ports /\ Fixed(s.ports[p], t.ports[p])
  BY KeptParts
<1>2. CanWrite(t.ports[p]) = CanWrite(s.ports[p])
  BY <1>1 DEF Fixed, CanWrite
<1>3. /\ Kept(F, t, WriteByte(t, p, b)) /\ WriteByte(t, p, b).reply \in {t.reply, Abort}
      /\ CanWrite(t.ports[p]) => WriteByte(t, p, b).reply = t.reply
  BY <1>1, WriteByteKept
<1>4. Kept(F, s, WriteByte(t, p, b))
  BY <1>3, KeptTwice
<1>5. WritesWell(s, p, WriteByte(t, p, b))
  BY <1>2, <1>3 DEF WritesWell
<1>6. WriteMore(t, p, b) \in {t, WriteByte(t, p, b)}
  BY DEF WriteMore
<1> QED BY <1>4, <1>5, <1>6

(* The states between the bytes that are written.                          *)
OutRounds(F, p, text, f) ==
    /\ f[0] = PutPort(S, p, [S.ports[p] EXCEPT !.direct = TRUE])
    /\ \A n \in 1 .. Len(text) : f[n] = WriteMore(f[n - 1], p, text[n])
    /\ WriteBytes(p, text) =
         IF f[Len(text)].reply = Done /\ ports[p].class # "null" /\ ~Output(ports[p])
           THEN Reply(f[Len(text)], Error)
         ELSE f[Len(text)]
    /\ Len(text) \in Nat /\ Len(text) \in 0 .. Len(text)
    /\ \A n \in 0 .. Len(text) :
         f[n] \in Systems(F) /\ Kept(F, S, f[n]) /\ WritesWell(S, p, f[n])

(* Bytes are written one by one.                                           *)
LEMMA WriteBytesRounds ==
  ASSUME NEW F, Good(F, S), NEW p \in DOMAIN S.ports, NEW text \in Seq(Characters)
  PROVE  \E f : OutRounds(F, p, text, f)
<1> DEFINE N == Len(text)
           start == [S EXCEPT !.ports[p].direct = TRUE]
           D == {t \in Systems(F) : Kept(F, S, t) /\ WritesWell(S, p, t)}
           G == [x \in D \X (1 .. N) |-> WriteMore(x[1], p, text[x[2]])]
           f == CHOOSE f : Writtenwise(f, start, p, text)
<1>0. N \in Nat /\ \A n \in 1 .. N : text[n] \in Characters
  OBVIOUS
<1>1. ASSUME NEW t \in D, NEW n \in 1 .. N
      PROVE  WriteMore(t, p, text[n]) \in D
  <2> DEFINE b == text[n]
  <2>0. b \in Characters
    BY <1>0
  <2> HIDE DEF b
  <2>1. Kept(F, S, WriteMore(t, p, b)) /\ WritesWell(S, p, WriteMore(t, p, b))
    BY <2>0, WriteMoreKept
  <2>2. WriteMore(t, p, b) \in Systems(F)
    BY <2>1, GoodParts DEF Kept
  <2> QED BY <2>1, <2>2 DEF b
<1>2. start \in D
  <2> DEFINE o == [S.ports[p] EXCEPT !.direct = TRUE]
  <2>1. start = PutPort(S, p, o)
    BY DEF PutPort
  <2>2. Sound(F, S.ports[p]) /\ S \in Systems(F) /\ S.reply = Done
    BY GoodParts DEF S
  <2> HIDE DEF S
  <2>3. Sound(F, o) /\ Fixed(S.ports[p], o)
    BY <2>2, DirectSound
  <2> HIDE DEF o, start
  <2>4. Kept(F, S, start) /\ start.reply = Done
    BY <2>1, <2>2, <2>3, PutKept, PutParts
  <2>5. WritesWell(S, p, start)
    BY <2>4 DEF WritesWell
  <2>6. start \in Systems(F)
    BY <2>4, GoodParts DEF Kept
  <2> QED BY <2>4, <2>5, <2>6
<1>3. start = PutPort(S, p, [S.ports[p] EXCEPT !.direct = TRUE])
  BY DEF PutPort
<1>9. WriteBytes(p, text) =
        IF f[N].reply = Done /\ ports[p].class # "null" /\ ~Output(ports[p]) THEN Reply(f[N], Error)
        ELSE f[N]
  BY DEF WriteBytes, Writtenwise, WriteMore
<1> HIDE DEF D, start, N
<1>4. G \in [D \X (1 .. N) -> D]
  BY <1>1
<1>5. PICK g \in [0 .. N -> D] : Iterates(g, N, start, G)
  <2> HIDE DEF G
  <2> QED BY <1>0, <1>2, <1>4, IterationExists
<1>6. \A n \in 1 .. N : g[n] = WriteMore(g[n - 1], p, text[n])
  <2> SUFFICES ASSUME NEW n \in 1 .. N PROVE g[n] = WriteMore(g[n - 1], p, text[n])
    OBVIOUS
  <2>1. g[n - 1] \in D
    BY <1>0
  <2>2. g[n] = G[<<g[n - 1], n>>]
    <3> HIDE DEF G
    <3> QED BY <1>5 DEF Iterates
  <2> QED BY <2>1, <2>2
<1> HIDE DEF G
<1>7. Writtenwise(g, start, p, text)
  <2>1. g = [n \in 0 .. N |-> IF n = 0 THEN start ELSE WriteMore(g[n - 1], p, text[n])]
    BY <1>5, <1>6 DEF Iterates
  <2> QED BY <2>1 DEF Writtenwise, N
<1>8. Writtenwise(f, start, p, text)
  BY <1>7
<1> HIDE DEF f
<1>10. f[0] = start /\ \A n \in 1 .. N : f[n] = WriteMore(f[n - 1], p, text[n])
  <2>1. \A n \in 0 .. N : f[n] = IF n = 0 THEN start ELSE WriteMore(f[n - 1], p, text[n])
    BY <1>8 DEF Writtenwise, N
  <2> QED BY <1>0, <2>1
<1>11. \A n \in 0 .. N : f[n] \in D
  BY <1>0, <1>1, <1>2, <1>10, IterationStays
<1>12. N \in 0 .. N
  BY <1>0
<1> QED BY <1>0, <1>3, <1>9, <1>10, <1>11, <1>12 DEF D, N, OutRounds

(* Writing bytes keeps the system, and fails only if the port cannot be    *)
(* written.                                                                *)
LEMMA WriteBytesKept ==
  ASSUME NEW F, Good(F, S), NEW p \in DOMAIN S.ports, NEW text \in Seq(Characters)
  PROVE  /\ Kept(F, S, WriteBytes(p, text))
         /\ WriteBytes(p, text).reply \in Replies
         /\ CanWrite(S.ports[p]) => WriteBytes(p, text).reply # Abort
<1>1. PICK t : /\ WriteBytes(p, text) \in {t, Reply(t, Error)}
               /\ Kept(F, S, t) /\ WritesWell(S, p, t)
  <2>1. PICK f : OutRounds(F, p, text, f)
    BY WriteBytesRounds
  <2> QED BY <2>1 DEF OutRounds
<1>2. Error \in Replies /\ Error # Abort /\ Done # Abort /\ Done \in Replies /\ Abort \in Replies
  BY DEF Replies, Error, Abort, Done
<1>3. Good(F, t)
  BY <1>1 DEF Kept
<1>4. Kept(F, t, Reply(t, Error)) /\ Reply(t, Error).reply = Error
  BY <1>2, <1>3, ReplyKept
<1>5. Kept(F, S, Reply(t, Error))
  BY <1>1, <1>4, KeptTwice
<1> QED BY <1>1, <1>2, <1>4, <1>5 DEF WritesWell

(* Setting the translation mode keeps the system, and fails only where the *)
(* flush before it does.                                                   *)
LEMMA SetTranslateKept ==
  ASSUME NEW F, Good(F, S), NEW p \in DOMAIN S.ports, NEW mode \in BOOLEAN
  PROVE  /\ Kept(F, S, SetTranslate(p, mode))
         /\ SetTranslate(p, mode).reply \in {Done, Abort}
         /\ Works(S, p) /\ ~OwesWrongly(S.ports[p]) => SetTranslate(p, mode).reply # Abort
<1> DEFINE t == FlushPort(S, p)
           o == [t.ports[p] EXCEPT !.translate = mode, !.toggled = TRUE]
<1>0. S.reply = Done /\ Done # Abort
  BY DEF S, Done, Abort
<1>1. /\ Kept(F, S, t) /\ t.reply \in {Done, Abort}
      /\ Works(S, p) /\ ~OwesWrongly(S.ports[p]) => t.reply = Done
  BY <1>0, FlushPortKept
<1>2. SetTranslate(p, mode) =
        IF t.reply = Abort THEN t ELSE [t EXCEPT !.ports[p].translate = mode, !.ports[p].toggled = TRUE]
  BY DEF SetTranslate
<1> HIDE DEF t
<1>3. Good(F, t) /\ p \in DOMAIN t.ports /\ Sound(F, t.ports[p]) /\ t \in Systems(F)
      /\ t.ports \in Seq(PortRecords(F))
  BY <1>1, KeptParts, GoodParts
<1>4. Sound(F, o) /\ Fixed(t.ports[p], o)
  BY <1>3, ToggledSound
<1>5. [t EXCEPT !.ports[p].translate = mode, !.ports[p].toggled = TRUE] = PutPort(t, p, o)
  BY <1>3 DEF PutPort, Systems
<1> HIDE DEF o
<1>6. Kept(F, t, PutPort(t, p, o)) /\ PutPort(t, p, o).reply = t.reply
  BY <1>3, <1>4, PutKept, PutParts DEF Sound
<1>7. Kept(F, S, PutPort(t, p, o))
  BY <1>1, <1>6, KeptTwice
<1> QED BY <1>0, <1>1, <1>2, <1>5, <1>6, <1>7
-----------------------------------------------------------------------------
(* Closing.                                                                *)

(* What closing and freeing leave of a port.                               *)
Like(a, b) ==
    b.class = a.class /\ b.under = a.under /\ b.made = a.made /\ b.mode \in {a.mode, {}}

(* Ports were closed, and none was freed.                                  *)
Closed(F, s, t) ==
    /\ Good(F, t)
    /\ Len(t.ports) = Len(s.ports)
    /\ \A q \in DOMAIN s.ports : Like(s.ports[q], t.ports[q]) /\ t.ports[q].freed = s.ports[q].freed

(* To keep a system is to close none of its ports.                         *)
LEMMA KeptClosed ==
  ASSUME NEW F, NEW s, NEW t, Good(F, s), Kept(F, s, t)
  PROVE  Closed(F, s, t)
<1>1. \A q \in DOMAIN s.ports : Fixed(s.ports[q], t.ports[q])
  BY KeptParts
<1>2. Good(F, t) /\ Len(t.ports) = Len(s.ports)
  BY DEF Kept, Same
<1> QED BY <1>1, <1>2 DEF Closed, Like, Fixed

(* A closed port is sound.                                                 *)
LEMMA ShutSound ==
  ASSUME NEW F, NEW port, Sound(F, port)
  PROVE  /\ Sound(F, [port EXCEPT !.mode = {}, !.open = FALSE])
         /\ Like(port, [port EXCEPT !.mode = {}, !.open = FALSE])
         /\ [port EXCEPT !.mode = {}, !.open = FALSE].freed = port.freed
BY DEF Sound, Like, PortRecords

(* Ports that are like those of s, put in their place.                     *)
Likewise(F, s, f) ==
    /\ f = [q \in DOMAIN s.ports |-> f[q]]
    /\ \A q \in DOMAIN s.ports : Sound(F, f[q]) /\ Like(s.ports[q], f[q])

(* A system with other ports and another answer.                           *)
PutPorts(s, f, r) == [s EXCEPT !.ports = f, !.reply = r]

(* Ports that are like those of a good system make one.                    *)
LEMMA LikeGood ==
  ASSUME NEW F, NEW s, Good(F, s), NEW r \in Replies, NEW f, Likewise(F, s, f)
  PROVE  /\ Good(F, PutPorts(s, f, r))
         /\ PutPorts(s, f, r).ports = f
         /\ PutPorts(s, f, r).reply = r
         /\ Len(f) = Len(s.ports)
<1> DEFINE t == PutPorts(s, f, r)
           n == Len(s.ports)
<1>1. /\ s \in Systems(F) /\ DOMAIN s.ports = 1 .. n /\ n \in Nat
      /\ \A q \in DOMAIN s.ports : Layered(s.ports, q)
  BY GoodParts
<1> HIDE DEF n
<1>2. f \in [1 .. n -> PortRecords(F)]
  BY <1>1 DEF Sound, Likewise
<1>3. f \in Seq(PortRecords(F)) /\ Len(f) = n /\ DOMAIN f = 1 .. n
  BY <1>1, <1>2
<1>4. t \in Systems(F) /\ t.ports = f /\ t.reply = r
  BY <1>1, <1>3 DEF Systems, PutPorts
<1>5. ASSUME NEW q \in 1 .. n
      PROVE  Layered(f, q)
  <2>1. \A k \in 1 .. q - 1 : k \in 1 .. n
    BY <1>1
  <2>2. Like(s.ports[q], f[q]) /\ Layered(s.ports, q)
    BY <1>1 DEF Likewise
  <2>3. f[q].class = "text" => /\ f[q].under \in 1 .. q - 1
                               /\ Like(s.ports[f[q].under], f[f[q].under])
                               /\ ~TextPort(s.ports[f[q].under])
    BY <1>1, <2>1, <2>2 DEF Like, Layered, Likewise
  <2> QED BY <2>3 DEF Like, Layered, TextPort
<1> HIDE DEF t
<1>6. Good(F, t)
  BY <1>1, <1>3, <1>4, <1>5 DEF Good, Likewise
<1> QED BY <1>3, <1>4, <1>6 DEF t, n

(* Closing a port, and those under it, closes ports and frees none; it     *)
(* fails only if the port is for output and does not work, or if one of    *)
(* its layers was freed.                                                   *)
LEMMA ClosePortClosed ==
  ASSUME NEW F, NEW s, Good(F, s), NEW p \in DOMAIN s.ports
  PROVE  /\ Closed(F, s, ClosePort(s, p))
         /\ ClosePort(s, p).reply \in {Abort, Done}
         /\ /\ s.reply # Abort
            /\ Output(s.ports[p]) => Works(s, p)
            /\ \A q \in Layers(s.ports, p) : ~s.ports[q].freed
            => ClosePort(s, p).reply # Abort
<1> DEFINE closes == Layers(s.ports, p)
           flushed == IF Output(s.ports[p]) THEN FlushPort(s, p) ELSE s
           shut(q) == [flushed.ports[q] EXCEPT !.mode = {}, !.open = FALSE]
           f == [q \in DOMAIN flushed.ports |-> IF q \in closes THEN shut(q) ELSE flushed.ports[q]]
           t == PutPorts(flushed, f, Done)
<1>0. Done \in Replies /\ Abort \in Replies /\ Done # Abort
  BY DEF Replies, Done, Abort
<1>1. ClosePort(s, p) = IF flushed.reply = Abort THEN flushed
                        ELSE IF \E q \in closes : s.ports[q].freed THEN Reply(s, Abort)
                        ELSE t
  BY DEF ClosePort, PutPorts
<1>2. Kept(F, s, FlushPort(s, p)) /\ FlushPort(s, p).reply \in {s.reply, Abort}
      /\ (Works(s, p) /\ ~OwesWrongly(s.ports[p]) => FlushPort(s, p).reply = s.reply)
  BY FlushPortKept
<1>3. Kept(F, s, flushed) /\ flushed.reply \in {s.reply, Abort}
  BY <1>2, SameSelf
<1>4. s.reply # Abort /\ (Output(s.ports[p]) => Works(s, p)) => flushed.reply # Abort
  <2>1. Output(s.ports[p]) => ~OwesWrongly(s.ports[p])
    BY TextReaders DEF OwesWrongly
  <2> QED BY <1>2, <2>1
<1> HIDE DEF closes, flushed
<1>5. Good(F, flushed) /\ DOMAIN flushed.ports = DOMAIN s.ports
      /\ \A q \in DOMAIN flushed.ports : Sound(F, flushed.ports[q])
  BY <1>3, KeptParts, GoodParts
<1>6. \A q \in DOMAIN flushed.ports :
        /\ Sound(F, f[q]) /\ Like(flushed.ports[q], f[q]) /\ f[q].freed = flushed.ports[q].freed
  <2> SUFFICES ASSUME NEW q \in DOMAIN flushed.ports
               PROVE  /\ Sound(F, f[q]) /\ Like(flushed.ports[q], f[q])
                      /\ f[q].freed = flushed.ports[q].freed
    OBVIOUS
  <2>1. Sound(F, shut(q)) /\ Like(flushed.ports[q], shut(q)) /\ shut(q).freed = flushed.ports[q].freed
    BY <1>5, ShutSound
  <2>2. Sound(F, flushed.ports[q]) /\ Like(flushed.ports[q], flushed.ports[q])
    BY <1>5 DEF Like
  <2> HIDE DEF shut
  <2>3. f[q] = IF q \in closes THEN shut(q) ELSE flushed.ports[q]
    BY SMTT(30)
  <2> HIDE DEF f
  <2> QED BY <2>1, <2>2, <2>3
<1>7. f = [q \in DOMAIN flushed.ports |-> f[q]]
  OBVIOUS
<1> HIDE DEF f
<1>8. Good(F, t) /\ t.ports = f /\ t.reply = Done /\ Len(f) = Len(flushed.ports)
  <2>1. Likewise(F, flushed, f)
    BY <1>6, <1>7 DEF Likewise
  <2> QED BY <1>0, <1>5, <2>1, LikeGood
<1> HIDE DEF t
<1>9. Closed(F, s, flushed)
  BY <1>3, KeptClosed
<1>10. Closed(F, s, t)
  BY <1>5, <1>6, <1>8, <1>9 DEF Closed, Like
<1>11. Closed(F, s, Reply(s, Abort)) /\ Reply(s, Abort).reply = Abort
  BY <1>0, ReplyKept, KeptClosed
<1>12. Closed(F, s, ClosePort(s, p)) /\ ClosePort(s, p).reply \in {Abort, Done}
  BY <1>0, <1>1, <1>8, <1>9, <1>10, <1>11
<1>13. ASSUME s.reply # Abort, Output(s.ports[p]) => Works(s, p),
              \A q \in Layers(s.ports, p) : ~s.ports[q].freed
       PROVE  ClosePort(s, p).reply # Abort
  BY <1>0, <1>1, <1>4, <1>8, <1>13 DEF closes
<1> QED BY <1>12, <1>13

(* No layer of a port that works was freed.                                *)
LEMMA WorksAlive ==
  ASSUME NEW F, NEW s, Good(F, s), NEW p \in DOMAIN s.ports, Works(s, p)
  PROVE  \A q \in Layers(s.ports, p) : ~s.ports[q].freed
<1>1. p \in Nat \ {0} /\ Ordered(s.ports, p)
  BY GoodOrder
<1>2. /\ s.ports[p].class # "text" => Layers(s.ports, p) = {p}
      /\ s.ports[p].class = "text" => Layers(s.ports, p) = {p, Under(s, p)}
  BY <1>1, LayersAre, OpenUnder DEF Under
<1>3. ~s.ports[p].freed
  <2>1. Sound(F, s.ports[p])
    BY GoodParts
  <2> QED BY <2>1 DEF Sound, Works
<1> QED BY <1>2, <1>3 DEF Works

-----------------------------------------------------------------------------
(* Collecting.                                                             *)

(* Ports were freed, but none outside A.                                   *)
Freed(F, s, t, A) ==
    /\ Good(F, t)
    /\ Len(t.ports) = Len(s.ports)
    /\ \A q \in DOMAIN s.ports :
         /\ Like(s.ports[q], t.ports[q])
         /\ s.ports[q].freed => t.ports[q].freed
         /\ t.ports[q].freed => s.ports[q].freed \/ q \in A

(* Ports freed twice are freed.                                            *)
LEMMA FreedTwice ==
  ASSUME NEW F, NEW s, NEW t, NEW u, NEW A, Good(F, s), Freed(F, s, t, A), Freed(F, t, u, A)
  PROVE  Freed(F, s, u, A)
<1>1. DOMAIN t.ports = DOMAIN s.ports
  BY GoodParts DEF Freed
<1> QED BY <1>1 DEF Freed, Like

(* A port that was freed.                                                  *)
FreedPort(port) == [port EXCEPT !.freed = TRUE, !.open = FALSE, !.mode = {}]

(* It is sound.                                                            *)
LEMMA FreedSound ==
  ASSUME NEW F, NEW port, Sound(F, port)
  PROVE  Sound(F, FreedPort(port)) /\ Like(port, FreedPort(port)) /\ FreedPort(port).freed
BY DEF Sound, Like, PortRecords, FreedPort

(* Freeing a port frees it and no other; it fails only if one of the ports *)
(* under it was freed before.                                              *)
LEMMA GcFreeFrees ==
  ASSUME NEW F, NEW s, Good(F, s), s.reply \in {Done, Abort}, NEW p \in DOMAIN s.ports
  PROVE  /\ Freed(F, s, GcFree(s, p), {p})
         /\ GcFree(s, p).reply \in {Done, Abort}
         /\ GcFree(s, p).reply # Abort => GcFree(s, p).ports[p].freed /\ s.reply # Abort
         /\ /\ s.reply # Abort
            /\ s.ports[p].class = "text" =>
                 \A q \in Layers(s.ports, Under(s, p)) : ~s.ports[q].freed
            => GcFree(s, p).reply # Abort
<1> DEFINE text == s.ports[p].class = "text"
           u == Under(s, p)
           t == IF text THEN ClosePort(s, u) ELSE s
           f == [q \in DOMAIN t.ports |-> IF q = p THEN FreedPort(t.ports[p]) ELSE t.ports[q]]
           z == PutPorts(t, f, t.reply)
<1>0. Done \in Replies /\ Abort \in Replies /\ Done # Abort
  BY DEF Replies, Done, Abort
<1>1. text => u \in DOMAIN s.ports /\ ~TextPort(s.ports[u]) /\ Sound(F, s.ports[u])
  BY UnderIs, GoodParts
<1>2. Closed(F, s, s) /\ Freed(F, s, s, {p})
  <2>1. Closed(F, s, s)
    BY SameSelf, KeptClosed
  <2> QED BY <2>1 DEF Closed, Freed
<1>3. text => Closed(F, s, ClosePort(s, u)) /\ ClosePort(s, u).reply \in {Abort, Done}
  BY <1>1, ClosePortClosed
<1>4. Closed(F, s, t) /\ t.reply \in {Done, Abort}
  BY <1>2, <1>3
<1>5. GcFree(s, p) =
        IF s.reply = Abort THEN s
        ELSE IF text /\ s.ports[u].freed THEN Reply(s, Abort)
        ELSE IF t.reply = Abort THEN t
        ELSE [t EXCEPT !.ports[p].freed = TRUE, !.ports[p].open = FALSE, !.ports[p].mode = {}]
  BY DEF GcFree
<1>6. ASSUME text, s.reply # Abort, \A q \in Layers(s.ports, u) : ~s.ports[q].freed
      PROVE  ~s.ports[u].freed /\ t.reply # Abort
  <2>1. u \in Layers(s.ports, u)
    BY <1>1, <1>6, GoodOrder, LayersAre
  <2>2. Output(s.ports[u]) => Works(s, u)
    <3>1. ASSUME Output(s.ports[u])
          PROVE  Works(s, u)
      <4> DEFINE v == s.ports[u]
      <4>1. v.mode = v.made /\ v.mode # {} /\ "text" \notin v.made /\ MadeRight(v.class, v.made)
        BY <1>1, <1>6, <3>1 DEF Sound, Output, TextPort
      <4>2. v.class # "text"
        <5> HIDE DEF v
        <5> QED BY <4>1 DEF MadeRight, FileClasses
      <4> QED BY <4>1, <4>2 DEF Works
    <3> QED BY <3>1
  <2>3. ClosePort(s, u).reply # Abort
    BY <1>1, <1>6, <2>2, ClosePortClosed
  <2> QED BY <1>6, <2>1, <2>3
<1> HIDE DEF t
<1>7. /\ Good(F, t) /\ DOMAIN t.ports = DOMAIN s.ports /\ Len(t.ports) = Len(s.ports)
      /\ t \in Systems(F) /\ t.ports \in Seq(PortRecords(F))
      /\ \A q \in DOMAIN t.ports : Sound(F, t.ports[q])
  BY <1>4, GoodParts DEF Closed
<1>8. [t EXCEPT !.ports[p].freed = TRUE, !.ports[p].open = FALSE, !.ports[p].mode = {}] = z
  <2>1. [t EXCEPT !.ports[p].freed = TRUE, !.ports[p].open = FALSE, !.ports[p].mode = {}] =
          [t EXCEPT !.ports = [t.ports EXCEPT ![p] = FreedPort(t.ports[p])]]
    BY <1>7 DEF FreedPort, Systems
  <2>2. [t.ports EXCEPT ![p] = FreedPort(t.ports[p])] = f
    BY <1>7
  <2> HIDE DEF f
  <2>3. [t EXCEPT !.ports = f] = z
    BY <1>7 DEF Systems, PutPorts
  <2> QED BY <2>1, <2>2, <2>3
<1>9. \A q \in DOMAIN t.ports :
        /\ Sound(F, f[q]) /\ Like(t.ports[q], f[q])
        /\ f[q].freed = (t.ports[q].freed \/ q = p)
  <2> SUFFICES ASSUME NEW q \in DOMAIN t.ports
               PROVE  /\ Sound(F, f[q]) /\ Like(t.ports[q], f[q])
                      /\ f[q].freed = (t.ports[q].freed \/ q = p)
    OBVIOUS
  <2>1. Sound(F, t.ports[q]) /\ Like(t.ports[q], t.ports[q]) /\ t.ports[q].freed \in BOOLEAN
    BY <1>7 DEF Like, Sound, PortRecords
  <2>2. Sound(F, FreedPort(t.ports[q])) /\ Like(t.ports[q], FreedPort(t.ports[q]))
        /\ FreedPort(t.ports[q]).freed = TRUE
    BY <2>1, FreedSound, ZenonT(60) DEF FreedPort, Sound, PortRecords
  <2>3. f[q] = IF q = p THEN FreedPort(t.ports[q]) ELSE t.ports[q]
    OBVIOUS
  <2> HIDE DEF f
  <2> QED BY <2>1, <2>2, <2>3
<1>10. f = [q \in DOMAIN t.ports |-> f[q]]
  OBVIOUS
<1> HIDE DEF f
<1>11. t.reply \in Replies
  BY <1>0, <1>4
<1>12. Good(F, z) /\ z.ports = f /\ z.reply = t.reply /\ Len(f) = Len(t.ports)
  <2>1. Likewise(F, t, f)
    BY <1>9, <1>10 DEF Likewise
  <2> QED BY <1>7, <1>11, <2>1, LikeGood
<1> HIDE DEF z
<1>13. Freed(F, s, z, {p})
  BY <1>4, <1>7, <1>9, <1>12, ZenonT(60) DEF Freed, Closed, Like
<1>14. z.ports[p].freed
  BY <1>7, <1>9, <1>12
<1>15. Freed(F, s, t, {p})
  BY <1>4 DEF Freed, Closed
<1>16. Freed(F, s, Reply(s, Abort), {p}) /\ Reply(s, Abort).reply = Abort
  <2>1. Kept(F, s, Reply(s, Abort)) /\ Reply(s, Abort).reply = Abort
    BY <1>0, ReplyKept
  <2> QED BY <2>1, KeptClosed DEF Closed, Freed
<1>17. Freed(F, s, GcFree(s, p), {p}) /\ GcFree(s, p).reply \in {Done, Abort}
  BY <1>2, <1>4, <1>5, <1>8, <1>12, <1>13, <1>15, <1>16
<1>18. GcFree(s, p).reply # Abort => GcFree(s, p).ports[p].freed /\ s.reply # Abort
  BY <1>5, <1>8, <1>14, <1>16
<1>19. ASSUME s.reply # Abort, text => \A q \in Layers(s.ports, u) : ~s.ports[q].freed
       PROVE  GcFree(s, p).reply # Abort
  <2>1. CASE text
    BY <1>5, <1>6, <1>8, <1>12, <1>19, <2>1
  <2>2. CASE ~text
    BY <1>5, <1>8, <1>12, <1>19, <2>2 DEF t
  <2> QED BY <2>1, <2>2
<1> QED BY <1>17, <1>18, <1>19

(* Text ports that are not freed are over ports that are not.              *)
LiveLinked(ps) == \A p \in DOMAIN ps : ps[p].class = "text" /\ ~ps[p].freed => ~ps[ps[p].under].freed

(* What is reached from the ports held has the ports under it.             *)
LEMMA ReachableClosed ==
  ASSUME NEW F, Good(F, S), held \subseteq DOMAIN ports
  PROVE  /\ held \subseteq Reachable /\ Reachable \subseteq DOMAIN ports
         /\ \A q \in Reachable : ports[q].class = "text" => ports[q].under \in Reachable
<1>1. \A p \in DOMAIN ports : /\ p \in Nat \ {0} /\ Ordered(ports, p)
                              /\ \A q \in 1 .. p : q \in DOMAIN ports
  BY GoodOrder DEF S
<1>2. \A p \in held : /\ Layers(ports, p) \subseteq 1 .. p /\ p \in Layers(ports, p)
                      /\ \A q \in Layers(ports, p) :
                           ports[q].class = "text" => ports[q].under \in Layers(ports, p)
  BY <1>1, LayersAre
<1> QED BY <1>1, <1>2 DEF Reachable

(* Garbage is a finite set of ports not freed.                             *)
LEMMA GarbageIsFinite ==
  ASSUME NEW F, Good(F, S)
  PROVE  /\ Garbage \subseteq DOMAIN ports /\ Cardinality(Garbage) \in Nat
         /\ \A p \in Garbage : ~ports[p].freed
<1>1. Garbage \subseteq DOMAIN ports /\ \A p \in Garbage : ~ports[p].freed
  BY DEF Garbage
<1>2. DOMAIN ports = 1 .. Len(ports) /\ Len(ports) \in Nat
  BY GoodParts DEF S
<1>3. IsFiniteSet(DOMAIN ports)
  BY <1>2, FS_Interval
<1>4. IsFiniteSet(Garbage)
  BY <1>1, <1>3, FS_Subset
<1> QED BY <1>1, <1>4, FS_CardinalityType

(* No text port is dropped together with the port under it.                *)
Harmless ==
    /\ LiveLinked(ports) /\ held \subseteq DOMAIN ports
    /\ \A q \in Garbage : ports[q].class = "text" => ports[q].under \notin Garbage

(* A sweep frees garbage, and does not fail if the garbage is harmless.    *)
SweptWell(F, t) ==
    /\ Freed(F, S, t, Garbage)
    /\ t.reply \in {Done, Abort}
    /\ Harmless => t.reply # Abort

(* One more port is freed, and those freed before stay so.                 *)
LEMMA SweepsOne ==
  ASSUME NEW F, Good(F, S), NEW t, SweptWell(F, t), NEW p \in Garbage
  PROVE  /\ SweptWell(F, GcFree(t, p))
         /\ GcFree(t, p).reply # Abort =>
              /\ t.reply # Abort /\ GcFree(t, p).ports[p].freed
              /\ \A q \in DOMAIN ports : t.ports[q].freed => GcFree(t, p).ports[q].freed
<1> DEFINE z == GcFree(t, p)
<1>0. /\ S.ports = ports /\ p \in DOMAIN ports /\ ~ports[p].freed
      /\ DOMAIN ports = 1 .. Len(ports) /\ Len(ports) \in Nat
  BY GarbageIsFinite, GoodParts DEF S
<1>1. /\ Good(F, t) /\ DOMAIN t.ports = DOMAIN ports /\ t.reply \in {Done, Abort}
      /\ \A q \in DOMAIN ports : /\ Like(ports[q], t.ports[q])
                                 /\ t.ports[q].freed => ports[q].freed \/ q \in Garbage
  <2>1. Good(F, t) /\ Len(t.ports) = Len(ports) /\ DOMAIN t.ports = 1 .. Len(t.ports)
    BY <1>0, GoodParts DEF SweptWell, Freed
  <2> QED BY <1>0, <2>1 DEF SweptWell, Freed
<1>2. /\ Freed(F, t, z, {p}) /\ z.reply \in {Done, Abort}
      /\ z.reply # Abort => z.ports[p].freed /\ t.reply # Abort
      /\ /\ t.reply # Abort
         /\ t.ports[p].class = "text" => \A q \in Layers(t.ports, Under(t, p)) : ~t.ports[q].freed
         => z.reply # Abort
  BY <1>0, <1>1, GcFreeFrees
<1> HIDE DEF z
<1>3. Freed(F, t, z, Garbage)
  BY <1>2 DEF Freed
<1>4. Freed(F, S, z, Garbage)
  BY <1>3, FreedTwice DEF SweptWell
<1>5. ASSUME Harmless
      PROVE  z.reply # Abort
  <2>1. t.reply # Abort
    BY <1>5 DEF SweptWell
  <2>2. ASSUME t.ports[p].class = "text"
        PROVE  \A q \in Layers(t.ports, Under(t, p)) : ~t.ports[q].freed
    <3> DEFINE u == Under(t, p)
               A == {q \in DOMAIN ports : ports[q].freed} \cup Garbage
    <3>1. u \in DOMAIN ports /\ u = ports[p].under /\ ports[p].class = "text"
      BY <1>0, <1>1, <2>2, UnderIs DEF Like, Under
    <3>2. u \notin A
      BY <1>0, <1>5, <3>1 DEF Harmless, LiveLinked
    <3>3. u \in Nat \ {0} /\ Ordered(t.ports, u) /\ \A q \in 1 .. u : q \in DOMAIN ports
      BY <1>1, <3>1, GoodOrder
    <3>4. ASSUME NEW q \in 1 .. u, q \notin A, t.ports[q].class = "text"
          PROVE  t.ports[q].under \notin A
      <4>1. q \in DOMAIN ports /\ ports[q].class = "text" /\ t.ports[q].under = ports[q].under
        BY <1>1, <3>3, <3>4 DEF Like
      <4>2. q \in Reachable /\ ~ports[q].freed
        BY <3>4, <4>1 DEF Garbage
      <4>3. ports[q].under \in Reachable
        BY <1>5, <4>1, <4>2, ReachableClosed DEF Harmless
      <4>4. ~ports[ports[q].under].freed
        BY <1>5, <4>1, <4>2 DEF Harmless, LiveLinked
      <4> QED BY <4>1, <4>3, <4>4 DEF Garbage
    <3> HIDE DEF A, u
    <3>5. \A r \in Layers(t.ports, u) : r \notin A
      BY <3>2, <3>3, <3>4, LayersAvoid
    <3>6. Layers(t.ports, u) \subseteq 1 .. u
      BY <3>3, LayersAre
    <3> QED BY <1>1, <3>3, <3>5, <3>6 DEF A, u
  <2> QED BY <1>2, <2>1, <2>2
<1>6. SweptWell(F, z)
  BY <1>2, <1>4, <1>5 DEF SweptWell
<1>7. \A q \in DOMAIN ports : t.ports[q].freed => z.ports[q].freed
  BY <1>1, <1>2 DEF Freed
<1> QED BY <1>2, <1>6, <1>7 DEF z

(* The states between the ports of a sweep.                                *)
Swept(f, order, N) == f = [n \in 0 .. N |-> IF n = 0 THEN S ELSE GcFree(f[n - 1], order[n])]

(* The states between the ports that are freed.                            *)
FreeRounds(F, order, f) ==
    LET N == Cardinality(Garbage) IN
    /\ f[0] = S /\ \A n \in 1 .. N : f[n] = GcFree(f[n - 1], order[n])
    /\ Sweep(order) = f[N] /\ N \in Nat /\ N \in 0 .. N
    /\ \A n \in 1 .. N : order[n] \in Garbage
    /\ \A p \in Garbage : \E n \in 1 .. N : order[n] = p
    /\ \A n \in 0 .. N : f[n] \in Systems(F) /\ SweptWell(F, f[n])

(* The garbage is freed port by port.                                      *)
LEMMA SweepRounds ==
  ASSUME NEW F, Good(F, S), NEW order \in Bijection(1 .. Cardinality(Garbage), Garbage)
  PROVE  \E f : FreeRounds(F, order, f)
<1> DEFINE D == {t \in Systems(F) : SweptWell(F, t)}
           N == Cardinality(Garbage)
           G == [x \in D \X (1 .. N) |-> GcFree(x[1], order[x[2]])]
           f == CHOOSE f : Swept(f, order, N)
<1>1. /\ N \in Nat /\ \A n \in 1 .. N : order[n] \in Garbage
      /\ \A p \in Garbage : \E n \in 1 .. N : order[n] = p
  BY GarbageIsFinite DEF Bijection, Injection, Surjection
<1>2. ASSUME NEW t \in D, NEW n \in 1 .. N
      PROVE  GcFree(t, order[n]) \in D
  <2>1. SweptWell(F, GcFree(t, order[n]))
    BY <1>1, SweepsOne
  <2>2. GcFree(t, order[n]) \in Systems(F)
    BY <2>1, GoodParts DEF SweptWell, Freed
  <2> QED BY <2>1, <2>2
<1>3. S \in D
  <2>1. Closed(F, S, S)
    BY SameSelf, KeptClosed
  <2>2. Freed(F, S, S, Garbage)
    BY <2>1 DEF Closed, Freed
  <2>3. S.reply = Done /\ Done # Abort
    BY DEF S, Done, Abort
  <2>4. S \in Systems(F)
    BY GoodParts
  <2> QED BY <2>2, <2>3, <2>4 DEF SweptWell
<1>4. Sweep(order) = f[N]
  BY DEF Sweep, Swept
<1> HIDE DEF D, N
<1>5. G \in [D \X (1 .. N) -> D]
  BY <1>2
<1>6. PICK g \in [0 .. N -> D] : Iterates(g, N, S, G)
  <2> HIDE DEF G
  <2> QED BY <1>1, <1>3, <1>5, IterationExists
<1>7. \A n \in 1 .. N : g[n] = GcFree(g[n - 1], order[n])
  <2> SUFFICES ASSUME NEW n \in 1 .. N PROVE g[n] = GcFree(g[n - 1], order[n])
    OBVIOUS
  <2>1. g[n - 1] \in D
    BY <1>1
  <2>2. g[n] = G[<<g[n - 1], n>>]
    <3> HIDE DEF G
    <3> QED BY <1>6 DEF Iterates
  <2> QED BY <2>1, <2>2
<1> HIDE DEF G
<1>8. Swept(g, order, N)
  <2>1. g = [n \in 0 .. N |-> IF n = 0 THEN S ELSE GcFree(g[n - 1], order[n])]
    BY <1>6, <1>7 DEF Iterates
  <2> QED BY <2>1 DEF Swept
<1>9. Swept(f, order, N)
  BY <1>8
<1> HIDE DEF f
<1>10. f[0] = S /\ \A n \in 1 .. N : f[n] = GcFree(f[n - 1], order[n])
  <2>1. \A n \in 0 .. N : f[n] = IF n = 0 THEN S ELSE GcFree(f[n - 1], order[n])
    BY <1>9 DEF Swept
  <2> QED BY <1>1, <2>1
<1>11. \A n \in 0 .. N : f[n] \in D
  <2>1. f[0] \in D
    BY <1>3, <1>10
  <2>2. \A n \in 1 .. N : f[n - 1] \in D => f[n] \in D
    BY <1>2, <1>10
  <2>3. N \in Nat
    BY <1>1
  <2> QED BY ONLY <2>1, <2>2, <2>3, IterationStays
<1>12. N \in 0 .. N /\ f[N] \in D
  BY <1>1, <1>11
<1> QED BY <1>1, <1>4, <1>10, <1>11, <1>12 DEF D, N, FreeRounds

(* A sweep in any order frees the garbage, and all of it if it does not    *)
(* fail.                                                                   *)
LEMMA SweepFrees ==
  ASSUME NEW F, Good(F, S), NEW order \in Bijection(1 .. Cardinality(Garbage), Garbage)
  PROVE  /\ SweptWell(F, Sweep(order))
         /\ Sweep(order).reply # Abort => \A p \in Garbage : Sweep(order).ports[p].freed
<1> DEFINE N == Cardinality(Garbage)
<1>1. PICK f : /\ f[0] = S /\ \A n \in 1 .. N : f[n] = GcFree(f[n - 1], order[n])
               /\ Sweep(order) = f[N] /\ N \in Nat /\ N \in 0 .. N
               /\ \A n \in 1 .. N : order[n] \in Garbage
               /\ \A p \in Garbage : \E n \in 1 .. N : order[n] = p
               /\ \A n \in 0 .. N : f[n] \in Systems(F) /\ SweptWell(F, f[n])
  <2>1. PICK f : FreeRounds(F, order, f)
    BY SweepRounds
  <2> QED BY <2>1 DEF FreeRounds
<1> HIDE DEF N
<1> DEFINE Sweeps(n) ==
             f[n].reply # Abort => \A k \in 1 .. n : f[n].ports[order[k]].freed
           Bad == {n \in 0 .. N : ~Sweeps(n)}
<1>13. Bad = {}
  <2> SUFFICES ASSUME Bad # {} PROVE FALSE
    OBVIOUS
  <2>1. PICK m \in Bad : \A k \in Bad : m <= k
    <3>1. Bad \subseteq Nat
      OBVIOUS
    <3> HIDE DEF Bad
    <3> QED BY <3>1, LeastExists
  <2>0. Sweeps(0)
    OBVIOUS
  <2>2. m \in 1 .. N /\ m - 1 \in 0 .. N /\ ~ (m <= m - 1)
    <3> HIDE DEF Sweeps
    <3> QED BY <1>1, <2>0, <2>1
  <2>3. Sweeps(m - 1)
    BY <2>1, <2>2
  <2> DEFINE t == f[m - 1]
             p == order[m]
  <2>4. SweptWell(F, t) /\ p \in Garbage /\ f[m] = GcFree(t, p)
    BY <1>1, <2>2
  <2>5. f[m].reply # Abort =>
          /\ t.reply # Abort /\ f[m].ports[p].freed
          /\ \A q \in DOMAIN ports : t.ports[q].freed => f[m].ports[q].freed
    <3> HIDE DEF t, p
    <3> QED BY <2>4, SweepsOne
  <2>6. \A k \in 1 .. m : (k \in 1 .. m - 1 \/ k = m) /\ order[k] \in DOMAIN ports
    <3>1. \A k \in 1 .. m : k \in 1 .. m - 1 \/ k = m
      BY <1>1, <2>2
    <3>2. \A k \in 1 .. m : k \in 1 .. N
      BY <1>1, <2>2
    <3>3. \A k \in 1 .. N : order[k] \in DOMAIN ports
      BY <1>1, GarbageIsFinite
    <3> QED BY <3>1, <3>2, <3>3
  <2>7. Sweeps(m)
    BY <2>3, <2>5, <2>6
  <2> QED BY <2>1, <2>7
<1>14. Sweeps(N)
  BY <1>1, <1>13
<1> HIDE DEF Bad
<1> QED BY <1>1, <1>14
-----------------------------------------------------------------------------
(* The inductive invariant.                                                *)

(* Every port is sound and rightly layered, the ports held were not freed, *)
(* and while the process runs no text port outlives the port under it.     *)
PortsInv ==
    /\ program \in Programs
    /\ Good(program.files, S)
    /\ reply \in Replies
    /\ held \subseteq {p \in DOMAIN ports : ~ports[p].freed}
    /\ reply # Abort => LiveLinked(ports)

(* The answer is forgotten between two calls.                              *)
LEMMA Settled ==
  ASSUME NEW F, NEW t, Good(F, t)
  PROVE  Good(F, [ports |-> t.ports, disk |-> t.disk, reply |-> Done])
<1>1. Good(F, Reply(t, Done))
  BY ReplyKept DEF Kept, Replies
<1>2. Reply(t, Done) = [ports |-> t.ports, disk |-> t.disk, reply |-> Done]
  BY GoodParts DEF Reply, Systems
<1> QED BY <1>1, <1>2

(* A step that keeps the system keeps the invariant.                       *)
LEMMA UsesInv ==
  ASSUME PortsInv, reply # Abort, NEW t, Kept(program.files, S, t), t.reply \in Replies,
         program' = program, ports' = t.ports, disk' = t.disk, reply' = t.reply, held' = held
  PROVE  PortsInv'
<1> DEFINE F == program.files
<1>1. Good(F, S) /\ S.ports = ports
  BY DEF PortsInv, S
<1>2. /\ Good(F, t) /\ DOMAIN t.ports = DOMAIN ports
      /\ \A p \in DOMAIN ports : Fixed(ports[p], t.ports[p])
  BY <1>1, KeptParts
<1>3. Good(F, S)'
  <2>1. Good(F, [ports |-> t.ports, disk |-> t.disk, reply |-> Done])
    BY <1>2, Settled
  <2>2. S' = [ports |-> t.ports, disk |-> t.disk, reply |-> Done]
    BY DEF S
  <2>3. F' = F
    OBVIOUS
  <2> QED BY <2>1, <2>2, <2>3
<1>4. LiveLinked(t.ports)
  <2>1. LiveLinked(ports)
    BY DEF PortsInv
  <2>2. \A p \in DOMAIN ports : ports[p].class = "text" => ports[p].under \in DOMAIN ports
    BY <1>1, UnderIs DEF Under
  <2> QED BY <1>2, <2>1, <2>2 DEF LiveLinked, Fixed
<1>5. held \subseteq {p \in DOMAIN t.ports : ~t.ports[p].freed}
  BY <1>2 DEF PortsInv, Fixed
<1> QED BY <1>3, <1>4, <1>5 DEF PortsInv

(* A test that can answer with an error keeps the system.                  *)
LEMMA FailsKept ==
  ASSUME NEW F, Good(F, S), NEW test \in BOOLEAN, NEW x, ~test => Kept(F, S, x) /\ x.reply \in Replies
  PROVE  Kept(F, S, Fails(test, x)) /\ Fails(test, x).reply \in Replies
<1>1. Kept(F, S, Reply(S, Error)) /\ Reply(S, Error).reply = Error /\ Error \in Replies
  BY ReplyKept DEF Replies
<1> QED BY <1>1 DEF Fails

(* A new port.                                                             *)
Newborn(F, port) ==
    /\ Sound(F, port) /\ ~port.freed
    /\ port.class = "text" =>
         /\ port.under \in DOMAIN ports /\ ~TextPort(ports[port.under]) /\ ~ports[port.under].freed

(* A new port makes a good system of a good one.                           *)
LEMMA BornGood ==
  ASSUME NEW F, Good(F, S), NEW port, Newborn(F, port), NEW d \in [F -> Seq(Characters)]
  PROVE  /\ Good(F, [ports |-> Append(ports, port), disk |-> d, reply |-> Done])
         /\ DOMAIN Append(ports, port) = DOMAIN ports \cup {Len(ports) + 1}
         /\ Len(ports) + 1 \notin DOMAIN ports
         /\ Append(ports, port)[Len(ports) + 1] = port
         /\ \A q \in DOMAIN ports : Append(ports, port)[q] = ports[q]
<1> DEFINE n == Len(ports)
           f == Append(ports, port)
           t == [ports |-> f, disk |-> d, reply |-> Done]
<1>1. /\ ports \in Seq(PortRecords(F)) /\ DOMAIN ports = 1 .. n /\ n \in Nat
      /\ \A q \in DOMAIN ports : Sound(F, ports[q]) /\ Layered(ports, q)
      /\ port \in PortRecords(F)
  BY GoodParts DEF S, Newborn, Sound
<1>2. /\ f \in Seq(PortRecords(F)) /\ DOMAIN f = 1 .. n + 1
      /\ f[n + 1] = port /\ \A q \in 1 .. n : f[q] = ports[q]
  BY <1>1
<1> HIDE DEF n, f
<1>3. t \in Systems(F)
  BY <1>2 DEF Systems, Replies
<1>4. \A q \in 1 .. n + 1 : q \in 1 .. n \/ q = n + 1
  BY <1>1
<1>5. ASSUME NEW q \in 1 .. n + 1
      PROVE  Sound(F, f[q]) /\ Layered(f, q)
  <2>1. CASE q \in 1 .. n
    <3>1. ports[q].class = "text" => ports[q].under \in 1 .. q - 1 /\ ports[q].under \in 1 .. n
      BY <1>1, <2>1 DEF Layered
    <3> QED BY <1>1, <1>2, <2>1, <3>1 DEF Layered
  <2>2. CASE q = n + 1
    <3>1. port.class = "text" => port.under \in 1 .. q - 1 /\ port.under \in 1 .. n
      BY <1>1, <2>2 DEF Newborn
    <3> QED BY <1>1, <1>2, <2>2, <3>1 DEF Newborn, Layered
  <2> QED BY <1>4, <2>1, <2>2
<1>6. Good(F, t)
  BY <1>2, <1>3, <1>5 DEF Good
<1>7. n + 1 \notin 1 .. n
  BY <1>1
<1>8. 1 .. n + 1 = 1 .. n \cup {n + 1}
  BY <1>1
<1> HIDE DEF t
<1>9. DOMAIN f = DOMAIN ports \cup {n + 1} /\ n + 1 \notin DOMAIN ports
  BY <1>1, <1>2, <1>7, <1>8
<1> QED BY <1>1, <1>2, <1>6, <1>9 DEF t, f, n

(* A new port keeps the invariant.                                         *)
LEMMA BornInv ==
  ASSUME PortsInv, reply # Abort, NEW port, Newborn(program.files, port),
         NEW d \in [program.files -> Seq(Characters)],
         program' = program, ports' = Append(ports, port), disk' = d, reply' = Done,
         held' = held \cup {Len(ports) + 1}
  PROVE  PortsInv'
<1> DEFINE F == program.files
           n == Len(ports)
           f == Append(ports, port)
<1>1. Good(F, S)
  BY DEF PortsInv
<1>2. /\ Good(F, [ports |-> f, disk |-> d, reply |-> Done])
      /\ DOMAIN f = DOMAIN ports \cup {n + 1}
      /\ n + 1 \notin DOMAIN ports
      /\ f[n + 1] = port
      /\ \A q \in DOMAIN ports : f[q] = ports[q]
  BY <1>1, BornGood
<1> HIDE DEF f, n
<1>3. ports' = f /\ held' = held \cup {n + 1} /\ F' = F
  BY DEF f, n
<1>4. Good(F, S)'
  <2>1. S' = [ports |-> f, disk |-> d, reply |-> Done]
    BY <1>3 DEF S
  <2> QED BY <1>2, <1>3, <2>1
<1>5. LiveLinked(f)
  <2>1. LiveLinked(ports)
    BY DEF PortsInv
  <2>2. \A p \in DOMAIN ports : ports[p].class = "text" => ports[p].under \in DOMAIN ports
    BY <1>1, UnderIs DEF Under, S
  <2>3. ASSUME NEW p \in DOMAIN f, f[p].class = "text", ~f[p].freed
        PROVE  ~f[f[p].under].freed
    <3>1. CASE p \in DOMAIN ports
      BY <1>2, <2>1, <2>2, <2>3, <3>1 DEF LiveLinked
    <3>2. CASE p = n + 1
      BY <1>2, <2>3, <3>2 DEF Newborn
    <3> QED BY <1>2, <3>1, <3>2
  <2> QED BY <2>3 DEF LiveLinked
<1>6. held \cup {n + 1} \subseteq {p \in DOMAIN f : ~f[p].freed}
  BY <1>2 DEF PortsInv, Newborn
<1>7. Done \in Replies
  BY DEF Replies
<1> QED BY <1>3, <1>4, <1>5, <1>6, <1>7 DEF PortsInv

(* port_cons makes sound ports.                                            *)
LEMMA ConsSound ==
  ASSUME NEW F, NEW class, NEW mode, NEW under \in Nat, NEW data,
         class \in Classes, mode \in SUBSET Modes, MadeRight(class, mode),
         IF class \in FileClasses THEN data \in F ELSE data \in Seq(Characters),
         class # "text" => under = 0
  PROVE  /\ Sound(F, PortCons(class, mode, under, data))
         /\ ~PortCons(class, mode, under, data).freed
         /\ PortCons(class, mode, under, data).class = class
         /\ PortCons(class, mode, under, data).under = under
<1> DEFINE port == PortCons(class, mode, under, data)
<1>1. /\ port.class = class /\ port.mode = mode /\ port.under = under /\ port.made = mode
      /\ port.open = (class \in FileClasses)
      /\ port.data = data /\ port.pbuf = << >> /\ port.freed = FALSE
  BY DEF PortCons
<1>2. << >> \in Seq(Characters) /\ Len(<< >>) <= 1
  OBVIOUS
<1>3. data \in F \cup Seq(Characters)
  OBVIOUS
<1>4. port \in PortRecords(F)
  BY <1>2, <1>3, CrlfAssumption DEF PortCons, PortRecords
<1> HIDE DEF port
<1>5. mode # {}
  BY DEF MadeRight
<1>6. Sound(F, port)
  BY <1>1, <1>2, <1>4, <1>5 DEF Sound
<1> QED BY <1>1, <1>6 DEF port

(* The invariant holds at the start: what it asks of the ports of the      *)
(* program is ProgramsAssumption.                                          *)
LEMMA StartInv == Init => PortsInv
<1> SUFFICES ASSUME Init PROVE PortsInv
  OBVIOUS
<1> DEFINE F == program.files
           n == Len(ports)
<1>1. /\ program \in Programs /\ ports = program.ports /\ disk = program.disk
      /\ reply = Done /\ held = DOMAIN ports
  BY DEF Init
<1>2. /\ disk \in [F -> Seq(Characters)] /\ n \in Nat
      /\ ports = [p \in 1 .. n |-> ports[p]]
      /\ \A p \in 1 .. n : StartPort(ports, disk, p)
  BY <1>1, ProgramsAssumption
<1> HIDE DEF n
<1>3. ASSUME NEW p \in 1 .. n
      PROVE  Sound(F, ports[p]) /\ Layered(ports, p) /\ ~ports[p].freed
  <2> DEFINE port == ports[p]
             c == port.class
             u == port.under
             d == port.data
  <2>1. StartPort(ports, disk, p) /\ DOMAIN disk = F
    BY <1>2
  <2>2. CASE c \in FileClasses /\ d \in F
             /\ port \in {PortCons(c, {"input"}, 0, d), PortCons(c, {"output"}, 0, d)}
    <3>1. PICK mode \in {{"input"}, {"output"}} : port = PortCons(c, mode, 0, d)
      BY <2>2
    <3>2. c \in Classes /\ mode \in SUBSET Modes /\ MadeRight(c, mode) /\ c # "text"
      BY <2>2, <3>1 DEF Classes, Modes, MadeRight, FileClasses
    <3> HIDE DEF c, d, port
    <3>3. /\ Sound(F, PortCons(c, mode, 0, d)) /\ ~PortCons(c, mode, 0, d).freed
          /\ PortCons(c, mode, 0, d).class = c
      BY <2>2, <3>2, ConsSound
    <3> QED BY <3>1, <3>2, <3>3 DEF Layered, c, port
  <2>3. CASE c = "c-data" /\ d \in Seq(Characters) /\ port = PortCons(c, {"input"}, 0, d)
    <3>1. c \in Classes /\ {"input"} \in SUBSET Modes /\ MadeRight(c, {"input"}) /\ c # "text"
          /\ c \notin FileClasses
      BY <2>3 DEF Classes, Modes, MadeRight, FileClasses
    <3> HIDE DEF c, d, port
    <3>2. Sound(F, PortCons(c, {"input"}, 0, d)) /\ ~PortCons(c, {"input"}, 0, d).freed
      BY <2>3, <3>1, ConsSound
    <3> QED BY <2>3, <3>1, <3>2 DEF Layered, c, port
  <2>4. CASE /\ u \in 1 .. p - 1 /\ ~TextPort(ports[u])
             /\ port \in {PortCons("text", {"input", "text"}, u, << >>),
                          PortCons("text", {"output", "text"}, u, << >>)}
    <3>1. PICK mode \in {{"input", "text"}, {"output", "text"}} : port = PortCons("text", mode, u, << >>)
      BY <2>4
    <3>2. /\ "text" \in Classes /\ mode \in SUBSET Modes /\ MadeRight("text", mode)
          /\ "text" \notin FileClasses /\ u \in Nat /\ << >> \in Seq(Characters)
      BY <2>4, <3>1 DEF Classes, Modes, MadeRight, FileClasses
    <3> HIDE DEF u, port
    <3>3. /\ Sound(F, PortCons("text", mode, u, << >>)) /\ ~PortCons("text", mode, u, << >>).freed
      BY <3>2, ConsSound
    <3> QED BY <2>4, <3>1, <3>3 DEF Layered, u, port
  <2> QED BY <2>1, <2>2, <2>3, <2>4 DEF StartPort
<1>4. DOMAIN ports = 1 .. n
  BY <1>2
<1>5. Good(F, S)
  <2>1. ports \in [1 .. n -> PortRecords(F)]
    BY <1>2, <1>3 DEF Sound
  <2>2. ports \in Seq(PortRecords(F))
    BY <1>2, <2>1
  <2>3. S \in Systems(F)
    BY <1>2, <2>2 DEF S, Systems, Replies
  <2>4. S.ports = ports
    BY DEF S
  <2> QED BY <1>3, <1>4, <2>3, <2>4 DEF Good
<1>6. held \subseteq {p \in DOMAIN ports : ~ports[p].freed}
  BY <1>1, <1>3, <1>4
<1>7. LiveLinked(ports)
  <2>1. \A p \in 1 .. n : ports[p].class = "text" => ports[p].under \in 1 .. n
    <3>1. \A p \in 1 .. n : \A u \in 1 .. p - 1 : u \in 1 .. n
      BY <1>2
    <3> QED BY <1>3, <3>1 DEF Layered
  <2> QED BY <1>3, <1>4, <2>1 DEF LiveLinked
<1> QED BY <1>1, <1>5, <1>6, <1>7 DEF PortsInv, Replies

(* A call on a port held keeps the invariant if it keeps the system.       *)
LEMMA OnInv ==
  ASSUME PortsInv, NEW op, NEW p, NEW t, On(op, p, t),
         Kept(program.files, S, t), t.reply \in Replies
  PROVE  PortsInv'
<1>1. /\ reply # Abort
      /\ program' = program /\ ports' = t.ports /\ disk' = t.disk /\ reply' = t.reply /\ held' = held
  BY DEF On, Calls
<1> QED BY <1>1, UsesInv

(* A port held is a port of the system.                                    *)
LEMMA HeldPort ==
  ASSUME PortsInv, NEW p \in held
  PROVE  p \in DOMAIN S.ports /\ p \in DOMAIN ports /\ Good(program.files, S) /\ S.ports = ports
         /\ S.reply = Done /\ Done \in Replies /\ Eof \in Replies
BY DEF PortsInv, S, Replies

(* A read keeps the system.                                                *)
LEMMA ReadsKept ==
  ASSUME NEW F, NEW s, NEW p, NEW t, ReadsWell(F, s, p, t)
  PROVE  Kept(F, s, t) /\ t.reply \in Replies
BY DEF ReadsWell, Replies

(* The reading primitives keep the invariant.                              *)
LEMMA InputInv == PortsInv /\ (ReadCharacter \/ PeekCharacter \/ FlushWhitespaces \/ ReadTextLine) => PortsInv'
<1> SUFFICES ASSUME PortsInv, ReadCharacter \/ PeekCharacter \/ FlushWhitespaces \/ ReadTextLine
             PROVE  PortsInv'
  OBVIOUS
<1> DEFINE F == program.files
<1>1. ASSUME NEW op, NEW p \in held, NEW t, Reads(op, p, t),
             TextPort(ports[p]) => Kept(F, S, t) /\ t.reply \in Replies
      PROVE  PortsInv'
  <2>1. On(op, p, Fails(~TextPort(ports[p]), t))
    BY <1>1 DEF Reads
  <2>2. Good(F, S)
    BY DEF PortsInv
  <2>3. (~TextPort(ports[p])) \in BOOLEAN
    BY DEF TextPort
  <2>4. Kept(F, S, Fails(~TextPort(ports[p]), t)) /\ Fails(~TextPort(ports[p]), t).reply \in Replies
    BY <1>1, <2>2, <2>3, FailsKept
  <2> QED BY <2>1, <2>4, OnInv
<1>2. CASE ReadCharacter
  <2>1. PICK p \in held : Reads("read-char", p, Take(S, p))
    BY <1>2 DEF ReadCharacter
  <2>2. ReadsWell(F, S, p, Take(S, p))
    BY HeldPort, TakeKept
  <2> QED BY <1>1, <2>1, <2>2, ReadsKept
<1>3. CASE PeekCharacter
  <2>1. PICK p \in held : Reads("peek-char", p, PeekChar(S, p))
    BY <1>3 DEF PeekCharacter
  <2>2. ReadsWell(F, S, p, PeekChar(S, p))
    BY HeldPort, PeekKept
  <2> QED BY <1>1, <2>1, <2>2, ReadsKept
<1>4. CASE FlushWhitespaces
  <2>1. PICK p \in held, comments \in BOOLEAN :
          Reads("flush-whitespace", p, Fails(Output(ports[p]), FlushWhitespace(S, p, comments)))
    BY <1>4 DEF FlushWhitespaces
  <2> DEFINE x == FlushWhitespace(S, p, comments)
             t == Fails(Output(ports[p]), x)
  <2>2. ASSUME TextPort(ports[p])
        PROVE  Kept(F, S, t) /\ t.reply \in Replies
    <3>1. ReadsWell(F, S, p, x)
      BY <2>2, HeldPort, FlushWhitespaceKept
    <3>2. Kept(F, S, x) /\ x.reply \in Replies
      BY <3>1, ReadsKept
    <3>3. Output(ports[p]) \in BOOLEAN
      BY DEF Output
    <3> HIDE DEF x
    <3> QED BY <3>2, <3>3, HeldPort, FailsKept
  <2>3. Reads("flush-whitespace", p, t)
    BY <2>1
  <2> HIDE DEF t
  <2> QED BY <1>1, <2>2, <2>3
<1>5. CASE ReadTextLine
  <2>1. PICK p \in held : Reads("read-line", p, Fails(Output(ports[p]), ReadLine(S, p)))
    BY <1>5 DEF ReadTextLine
  <2> DEFINE x == ReadLine(S, p)
             t == Fails(Output(ports[p]), x)
  <2>2. ASSUME TextPort(ports[p])
        PROVE  Kept(F, S, t) /\ t.reply \in Replies
    <3>2. Kept(F, S, x) /\ x.reply \in Replies
      BY <2>2, HeldPort, ReadLineKept
    <3>3. Output(ports[p]) \in BOOLEAN
      BY DEF Output
    <3> HIDE DEF x
    <3> QED BY <3>2, <3>3, HeldPort, FailsKept
  <2>3. Reads("read-line", p, t)
    BY <2>1
  <2> HIDE DEF t
  <2> QED BY <1>1, <2>2, <2>3
<1> QED BY <1>2, <1>3, <1>4, <1>5

(* The writing primitives keep it.                                         *)
LEMMA OutputInv ==
  PortsInv /\ (WriteCharacter \/ WriteStrings \/ NewLine \/ FreshLine) => PortsInv'
<1> SUFFICES ASSUME PortsInv, WriteCharacter \/ WriteStrings \/ NewLine \/ FreshLine
             PROVE  PortsInv'
  OBVIOUS
<1> DEFINE F == program.files
           wrong(p) == ~TextPort(ports[p]) \/ Input(ports[p])
<1>0. /\ Good(F, S) /\ S.reply = Done /\ Done \in Replies /\ Abort \in Replies
      /\ program.chars \subseteq Characters /\ program.texts \subseteq Seq(Characters)
      /\ LF \in Characters
  BY ProgramsAssumption DEF PortsInv, S, Replies, Characters
<1>1. ASSUME NEW op, NEW p \in held, NEW n, NEW t, Writes(op, p, n, t),
             Kept(F, S, t), t.reply \in {Done, Abort}
      PROVE  PortsInv'
  <2>1. On(op, p, Fails(wrong(p), t))
    BY <1>1 DEF Writes
  <2>2. wrong(p) \in BOOLEAN
    OBVIOUS
  <2> HIDE DEF wrong
  <2>3. Kept(F, S, Fails(wrong(p), t)) /\ Fails(wrong(p), t).reply \in Replies
    BY <1>0, <1>1, <2>2, FailsKept
  <2> QED BY <2>1, <2>3, OnInv
<1>2. CASE WriteCharacter
  <2>1. PICK p \in held, c \in program.chars : Writes("write-char", p, 1, WriteChar(S, p, c))
    BY <1>2 DEF WriteCharacter
  <2>2. Kept(F, S, WriteChar(S, p, c)) /\ WriteChar(S, p, c).reply \in {Done, Abort}
    BY <1>0, HeldPort, WriteCharKept
  <2> QED BY <1>1, <2>1, <2>2
<1>3. CASE WriteStrings
  <2>1. PICK p \in held, text \in program.texts :
          Writes("write-strings", p, Len(text), WriteText(S, p, text))
    BY <1>3 DEF WriteStrings
  <2>2. Kept(F, S, WriteText(S, p, text)) /\ WriteText(S, p, text).reply \in {Done, Abort}
    BY <1>0, HeldPort, WriteTextKept
  <2> QED BY <1>1, <2>1, <2>2
<1>4. CASE NewLine
  <2>1. PICK p \in held : Writes("newline", p, 1, WriteChar(S, p, LF))
    BY <1>4 DEF NewLine
  <2>2. Kept(F, S, WriteChar(S, p, LF)) /\ WriteChar(S, p, LF).reply \in {Done, Abort}
    BY <1>0, HeldPort, WriteCharKept
  <2> QED BY <1>1, <2>1, <2>2
<1>5. CASE FreshLine
  <2>1. PICK p \in held :
          Writes("fresh-line", p, 1,
                 IF ports[p].col # 0 /\ ~ports[p].needs_lf THEN WriteChar(S, p, LF) ELSE S)
    BY <1>5 DEF FreshLine
  <2> DEFINE t == IF ports[p].col # 0 /\ ~ports[p].needs_lf THEN WriteChar(S, p, LF) ELSE S
  <2>2. Kept(F, S, WriteChar(S, p, LF)) /\ WriteChar(S, p, LF).reply \in {Done, Abort}
    BY <1>0, HeldPort, WriteCharKept
  <2>3. Kept(F, S, t) /\ t.reply \in {Done, Abort}
    BY <1>0, <2>2, SameSelf
  <2>4. Writes("fresh-line", p, 1, t)
    BY <2>1
  <2> HIDE DEF t
  <2> QED BY <1>1, <2>3, <2>4
<1> QED BY <1>2, <1>3, <1>4, <1>5

(* The primitives that flush keep it.                                      *)
LEMMA FlushInv == PortsInv /\ (GetOutputString \/ Flush \/ SetPortTranslateMode) => PortsInv'
<1> SUFFICES ASSUME PortsInv, GetOutputString \/ Flush \/ SetPortTranslateMode PROVE PortsInv'
  OBVIOUS
<1> DEFINE F == program.files
<1>0. Good(F, S) /\ S.reply = Done /\ Done \in Replies /\ Abort \in Replies
  BY DEF PortsInv, S, Replies
<1>1. ASSUME NEW p \in held
      PROVE  Kept(F, S, FlushPort(S, p)) /\ FlushPort(S, p).reply \in Replies
  BY <1>0, <1>1, HeldPort, FlushPortKept
<1>2. CASE GetOutputString
  <2>1. PICK p \in held : On("get-output-string", p, FlushPort(S, p))
    BY <1>2 DEF GetOutputString
  <2> QED BY <1>1, <2>1, OnInv
<1>3. CASE Flush
  <2>1. PICK p \in held : On("flush-port", p, FlushPort(S, p))
    BY <1>3 DEF Flush
  <2> QED BY <1>1, <2>1, OnInv
<1>4. CASE SetPortTranslateMode
  <2>1. PICK p \in held, mode \in BOOLEAN :
          On("set-port-translate-mode!", p, Fails(~TextPort(ports[p]), SetTranslate(p, mode)))
    BY <1>4 DEF SetPortTranslateMode
  <2>2. Kept(F, S, SetTranslate(p, mode)) /\ SetTranslate(p, mode).reply \in Replies
    BY <1>0, HeldPort, SetTranslateKept
  <2> DEFINE test == ~TextPort(ports[p])
  <2>3. test \in BOOLEAN
    OBVIOUS
  <2> HIDE DEF test
  <2>4. Kept(F, S, Fails(test, SetTranslate(p, mode))) /\ Fails(test, SetTranslate(p, mode)).reply \in Replies
    BY <1>0, <2>2, <2>3, FailsKept
  <2> QED BY <2>1, <2>4, OnInv DEF test
<1> QED BY <1>2, <1>3, <1>4

(* Binary input and output keep it.                                        *)
LEMMA BinaryInv == PortsInv /\ (ReadBinaryString \/ ReadBinaryNumber \/ WriteBinary) => PortsInv'
<1> SUFFICES ASSUME PortsInv, ReadBinaryString \/ ReadBinaryNumber \/ WriteBinary PROVE PortsInv'
  OBVIOUS
<1> DEFINE F == program.files
<1>0. /\ Good(F, S) /\ Done \in Replies
      /\ program.texts \subseteq Seq(Characters) /\ program.sizes \subseteq Nat \ {0}
  BY ProgramsAssumption DEF PortsInv, S, Replies
<1>1. ASSUME NEW op, NEW p \in held, NEW t, On(op, p, Fails(TextPort(ports[p]), t)),
             Kept(F, S, t), t.reply \in Replies
      PROVE  PortsInv'
  <2>1. TextPort(ports[p]) \in BOOLEAN
    BY DEF TextPort
  <2>2. Kept(F, S, Fails(TextPort(ports[p]), t)) /\ Fails(TextPort(ports[p]), t).reply \in Replies
    BY <1>0, <1>1, <2>1, FailsKept
  <2> QED BY <1>1, <2>2, OnInv
<1>2. ASSUME NEW p \in held, NEW n \in program.sizes
      PROVE  Kept(F, S, ReadBytes(p, n)) /\ ReadBytes(p, n).reply \in Replies
  <2>1. n \in Nat
    BY <1>0
  <2> QED BY <1>0, <2>1, HeldPort, ReadBytesKept DEF UsesWell
<1>3. CASE ReadBinaryString
  <2>1. PICK p \in held, n \in program.sizes :
          On("read-binary-string", p,
             Fails(TextPort(ports[p]),
                   IF ReadBytes(p, n).reply = Eof /\ ReadBytes(p, n).ports[p].pos # ports[p].pos
                     THEN Reply(ReadBytes(p, n), Done) ELSE ReadBytes(p, n)))
    BY <1>3 DEF ReadBinaryString
  <2> DEFINE r == ReadBytes(p, n)
             t == IF r.reply = Eof /\ r.ports[p].pos # ports[p].pos THEN Reply(r, Done) ELSE r
  <2>2. Kept(F, S, r) /\ r.reply \in Replies
    BY <1>2
  <2> HIDE DEF r
  <2>3. Kept(F, r, Reply(r, Done)) /\ Reply(r, Done).reply = Done
    BY <1>0, <2>2, KeptParts, ReplyKept
  <2>4. Kept(F, S, Reply(r, Done))
    BY <1>0, <2>2, <2>3, KeptTwice
  <2>5. Kept(F, S, t) /\ t.reply \in Replies
    BY <1>0, <2>2, <2>3, <2>4
  <2>6. On("read-binary-string", p, Fails(TextPort(ports[p]), t))
    BY <2>1 DEF r
  <2> HIDE DEF t
  <2> QED BY <1>1, <2>5, <2>6
<1>4. CASE ReadBinaryNumber
  <2>1. PICK p \in held, n \in program.sizes :
          On("read-binary-fixnum", p, Fails(TextPort(ports[p]), ReadBytes(p, n)))
    BY <1>4 DEF ReadBinaryNumber
  <2> QED BY <1>1, <1>2, <2>1
<1>5. CASE WriteBinary
  <2>1. PICK p \in held, text \in program.texts :
          On("write-binary", p, Fails(TextPort(ports[p]), WriteBytes(p, text)))
    BY <1>5 DEF WriteBinary
  <2>2. Kept(F, S, WriteBytes(p, text)) /\ WriteBytes(p, text).reply \in Replies
    BY <1>0, HeldPort, WriteBytesKept
  <2> QED BY <1>1, <2>1, <2>2
<1> QED BY <1>3, <1>4, <1>5

(* A primitive that makes a port keeps it, or answers with an error.       *)
LEMMA MakesInv ==
  ASSUME PortsInv, NEW op, NEW port, NEW d \in [program.files -> Seq(Characters)], NEW t, Makes(op, t),
         \/ t = Reply(S, Error)
         \/ /\ Newborn(program.files, port) /\ t.ports = Append(ports, port)
            /\ t.disk = d /\ t.reply = Done
  PROVE  PortsInv' /\ reply' \in {Done, Error}
<1> DEFINE F == program.files
<1>0. /\ reply # Abort /\ program' = program /\ ports' = t.ports /\ disk' = t.disk /\ reply' = t.reply
      /\ held' = IF t.reply = Done THEN held \cup {Len(ports) + 1} ELSE held
  BY DEF Makes, Calls
<1>1. CASE t = Reply(S, Error)
  <2>1. Good(F, S) /\ Error \in Replies /\ Error # Done
    BY DEF PortsInv, Replies, Error, Done
  <2>2. Kept(F, S, t) /\ t.reply = Error
    BY <1>1, <2>1, ReplyKept
  <2> QED BY <1>0, <2>1, <2>2, UsesInv
<1>2. CASE Newborn(F, port) /\ t.ports = Append(ports, port) /\ t.disk = d /\ t.reply = Done
  <2>1. /\ ports' = Append(ports, port) /\ disk' = d /\ reply' = Done
        /\ held' = held \cup {Len(ports) + 1}
    BY <1>0, <1>2
  <2>2. PortsInv'
    BY <1>0, <1>2, <2>1, BornInv
  <2> QED BY <2>1, <2>2
<1> QED BY <1>1, <1>2

(* The primitives that open ports keep it, and do not abort.               *)
LEMMA OpensInv == PortsInv /\ Opens => PortsInv' /\ reply' \in {Done, Error}
<1> SUFFICES ASSUME PortsInv, Opens PROVE PortsInv' /\ reply' \in {Done, Error}
  OBVIOUS
<1> DEFINE F == program.files
           Empty == << >>
<1>0. /\ Good(F, S) /\ S.ports = ports /\ S.disk = disk /\ disk \in [F -> Seq(Characters)]
      /\ program.texts \subseteq Seq(Characters) /\ Empty \in Seq(Characters) /\ 0 \in Nat
      /\ \A p \in held : p \in DOMAIN ports /\ ~ports[p].freed /\ Sound(F, ports[p])
      /\ \A p \in DOMAIN ports : p \in Nat
  <2>1. Good(F, S) /\ S.ports = ports /\ S.disk = disk /\ held \subseteq {p \in DOMAIN ports : ~ports[p].freed}
    BY DEF PortsInv, S
  <2>2. program.texts \subseteq Seq(Characters)
    BY ProgramsAssumption DEF PortsInv
  <2> QED BY <2>1, <2>2, GoodParts
<1> HIDE DEF Empty
<1>1. ASSUME NEW port
      PROVE  Add(S, port).ports = Append(ports, port) /\ Add(S, port).disk = disk
             /\ Add(S, port).reply = Done
  BY DEF Add, S
<1>2. ASSUME NEW class, NEW mode, NEW data,
             class \in Classes \ {"text"}, mode \in SUBSET Modes, MadeRight(class, mode),
             IF class \in FileClasses THEN data \in F ELSE data \in Seq(Characters)
      PROVE  Newborn(F, PortCons(class, mode, 0, data))
  <2>1. /\ Sound(F, PortCons(class, mode, 0, data)) /\ ~PortCons(class, mode, 0, data).freed
        /\ PortCons(class, mode, 0, data).class = class
    <3>1. class \in Classes /\ class # "text" /\ 0 \in Nat
      BY <1>2
    <3>2. /\ mode \in SUBSET Modes /\ MadeRight(class, mode)
          /\ IF class \in FileClasses THEN data \in F ELSE data \in Seq(Characters)
      BY <1>2
    <3> QED BY ONLY <3>1, <3>2, ConsSound, SMTT(30)
  <2> QED BY <1>2, <2>1 DEF Newborn
<1>3. CASE OpenRawInputFile
  <2>1. PICK f \in F : Makes("open-raw-input-file", Add(S, PortCons("file", {"input"}, 0, f)))
    BY <1>3 DEF OpenRawInputFile
  <2>2. Newborn(F, PortCons("file", {"input"}, 0, f))
    BY <1>2 DEF Classes, Modes, MadeRight, FileClasses
  <2> QED BY <1>0, <1>1, <2>1, <2>2, MakesInv
<1>4. CASE OpenRawOutputFile
  <2>1. PICK f \in F :
          Makes("open-raw-output-file", [Add(S, PortCons("file", {"output"}, 0, f)) EXCEPT !.disk[f] = << >>])
    BY <1>4 DEF OpenRawOutputFile
  <2> DEFINE port == PortCons("file", {"output"}, 0, f)
             t == [Add(S, port) EXCEPT !.disk[f] = << >>]
             d == [disk EXCEPT ![f] = Empty]
  <2>2. Newborn(F, port)
    BY <1>2 DEF Classes, Modes, MadeRight, FileClasses
  <2> HIDE DEF port
  <2>3. d \in [F -> Seq(Characters)]
    BY <1>0
  <2>4. t.ports = Append(ports, port) /\ t.disk = d /\ t.reply = Done
    BY DEF Add, S, Empty
  <2>5. Makes("open-raw-output-file", t)
    BY <2>1 DEF port
  <2> HIDE DEF d, t
  <2> QED BY <2>2, <2>3, <2>4, <2>5, MakesInv
<1>5. CASE OpenFails
  <2>1. PICK op : Makes(op, Reply(S, Error))
    BY <1>5 DEF OpenFails
  <2> QED BY <1>0, <2>1, MakesInv
<1>6. ASSUME NEW op, NEW direction \in {"input", "output"}, OpenText(op, direction)
      PROVE  PortsInv' /\ reply' \in {Done, Error}
  <2>1. PICK u \in held :
          Makes(op, Fails(TextPort(ports[u]), Add(S, PortCons("text", {direction, "text"}, u, << >>))))
    BY <1>6 DEF OpenText
  <2> DEFINE mode == {direction, "text"}
             port == PortCons("text", mode, u, Empty)
             t == Fails(TextPort(ports[u]), Add(S, port))
  <2>2. ASSUME ~TextPort(ports[u])
        PROVE  Newborn(F, port)
    <3>1. /\ "text" \in Classes /\ mode \in SUBSET Modes
          /\ MadeRight("text", mode) /\ "text" \notin FileClasses /\ u \in Nat
      BY <1>0 DEF Classes, Modes, MadeRight, FileClasses
    <3> HIDE DEF mode
    <3>2. Sound(F, port) /\ ~port.freed /\ port.class = "text" /\ port.under = u
      BY <1>0, <3>1, ConsSound, SMTT(30)
    <3> HIDE DEF port
    <3> QED BY <1>0, <2>2, <3>2 DEF Newborn
  <2>3. Makes(op, t)
    BY <2>1 DEF Empty
  <2> HIDE DEF port
  <2>4. t = Reply(S, Error) \/ (~TextPort(ports[u]) /\ t = Add(S, port))
    BY DEF Fails
  <2> HIDE DEF t
  <2> QED BY <1>0, <1>1, <2>2, <2>3, <2>4, MakesInv
<1>7. CASE OpenTextInputPort
  BY <1>6, <1>7 DEF OpenTextInputPort
<1>8. CASE OpenTextOutputPort
  BY <1>6, <1>8 DEF OpenTextOutputPort
<1>9. CASE OpenInputString
  <2>1. PICK text \in program.texts :
          Makes("open-input-string", Add(S, PortCons("string-input", {"input", "text"}, 0, text)))
    BY <1>9 DEF OpenInputString
  <2>2. Newborn(F, PortCons("string-input", {"input", "text"}, 0, text))
    BY <1>0, <1>2 DEF Classes, Modes, MadeRight, FileClasses
  <2> QED BY <1>0, <1>1, <2>1, <2>2, MakesInv
<1>10. CASE OpenOutputString
  <2>1. Makes("open-output-string", Add(S, PortCons("string-output", {"output", "text"}, 0, Empty)))
    BY <1>10 DEF OpenOutputString, Empty
  <2>2. Newborn(F, PortCons("string-output", {"output", "text"}, 0, Empty))
    BY <1>0, <1>2 DEF Classes, Modes, MadeRight, FileClasses
  <2> QED BY <1>0, <1>1, <2>1, <2>2, MakesInv
<1>11. CASE OpenNullPort
  <2>1. Makes("open-null-port", Add(S, PortCons("null", {"input", "output"}, 0, Empty)))
    BY <1>11 DEF OpenNullPort, Empty
  <2>2. Newborn(F, PortCons("null", {"input", "output"}, 0, Empty))
    BY <1>0, <1>2 DEF Classes, Modes, MadeRight, FileClasses
  <2> QED BY <1>0, <1>1, <2>1, <2>2, MakesInv
<1>12. CASE CloneCDataPort
  <2>1. PICK p \in held :
          Makes("clone-c-data-port",
                Fails(ports[p].class # "c-data" \/ ~Input(ports[p]),
                      Add(S, [PortCons("c-data", ports[p].mode, 0, ports[p].data)
                                EXCEPT !.pos = ports[p].pos, !.from = ports[p].pos])))
    BY <1>12 DEF CloneCDataPort
  <2> DEFINE test == ports[p].class # "c-data" \/ ~Input(ports[p])
             cons == PortCons("c-data", ports[p].mode, 0, ports[p].data)
             port == [cons EXCEPT !.pos = ports[p].pos, !.from = ports[p].pos]
             t == Fails(test, Add(S, port))
  <2>2. ASSUME ~test
        PROVE  Newborn(F, port)
    <3>1. /\ "c-data" \in Classes \ {"text"} /\ ports[p].mode = {"input"} /\ {"input"} \in SUBSET Modes
          /\ MadeRight("c-data", {"input"}) /\ "c-data" \notin FileClasses
          /\ ports[p].data \in Seq(Characters) /\ ports[p].pos \in Nat
      BY <1>0, <2>2, ZenonT(60) DEF Classes, Modes, MadeRight, FileClasses, Sound, Input, PortRecords
    <3>2. Newborn(F, cons)
      BY <1>2, <3>1
    <3> HIDE DEF cons
    <3> QED BY <3>1, <3>2, ZenonT(60) DEF Newborn, Sound, PortRecords
  <2>3. Makes("clone-c-data-port", t)
    BY <2>1
  <2> HIDE DEF port, test
  <2>4. t = Reply(S, Error) \/ (~test /\ t = Add(S, port))
    BY DEF Fails
  <2> HIDE DEF t
  <2> QED BY <1>0, <1>1, <2>2, <2>3, <2>4, MakesInv
<1> QED
  BY <1>3, <1>4, <1>5, <1>7, <1>8, <1>9, <1>10, <1>11, <1>12 DEF Opens

(* Closing a port, dropping one and a collection keep it.                  *)
LEMMA CloseInv == PortsInv /\ (Close \/ Drop \/ Collect) => PortsInv'
<1> SUFFICES ASSUME PortsInv, Close \/ Drop \/ Collect PROVE PortsInv'
  OBVIOUS
<1> DEFINE F == program.files
<1>0. /\ Good(F, S) /\ S.ports = ports /\ S.disk = disk /\ Done \in Replies /\ Abort \in Replies
      /\ held \subseteq {p \in DOMAIN ports : ~ports[p].freed}
      /\ DOMAIN ports = 1 .. Len(ports)
  <2>1. /\ Good(F, S) /\ S.ports = ports /\ S.disk = disk /\ Done \in Replies /\ Abort \in Replies
        /\ held \subseteq {p \in DOMAIN ports : ~ports[p].freed}
    BY DEF PortsInv, S, Replies
  <2> QED BY <2>1, GoodParts
<1>1. ASSUME NEW t, Freed(F, S, t, Garbage), t.reply \in {Done, Abort}, reply # Abort,
             program' = program, ports' = t.ports, disk' = t.disk, reply' = t.reply, held' = held,
             t.reply # Abort => LiveLinked(t.ports),
             \A p \in held : ~t.ports[p].freed
      PROVE  PortsInv'
  <2>1. Good(F, t) /\ DOMAIN t.ports = DOMAIN ports
    <3>1. Good(F, t) /\ Len(t.ports) = Len(ports) /\ DOMAIN t.ports = 1 .. Len(t.ports)
      BY <1>0, <1>1, GoodParts DEF Freed
    <3> QED BY <1>0, <3>1
  <2>2. Good(F, S)'
    <3>1. Good(F, [ports |-> t.ports, disk |-> t.disk, reply |-> Done])
      BY <2>1, Settled
    <3>2. S' = [ports |-> t.ports, disk |-> t.disk, reply |-> Done]
      BY <1>1 DEF S
    <3>3. F' = F
      BY <1>1
    <3> QED BY <3>1, <3>2, <3>3
  <2>3. held \subseteq {p \in DOMAIN t.ports : ~t.ports[p].freed}
    BY <1>0, <1>1, <2>1
  <2> QED BY <1>0, <1>1, <2>2, <2>3 DEF PortsInv
<1>2. CASE Close
  <2>1. PICK p \in held : On("close-port", p, ClosePort(S, p))
    BY <1>2 DEF Close
  <2> DEFINE t == ClosePort(S, p)
  <2>2. Closed(F, S, t) /\ t.reply \in {Abort, Done}
    BY <1>0, HeldPort, ClosePortClosed
  <2>3. /\ program' = program /\ ports' = t.ports /\ disk' = t.disk /\ reply' = t.reply /\ held' = held
        /\ reply # Abort
    BY <2>1 DEF On, Calls
  <2> HIDE DEF t
  <2>4. Freed(F, S, t, Garbage) /\ \A q \in DOMAIN ports : t.ports[q].freed = ports[q].freed
    BY <1>0, <2>2 DEF Closed, Freed
  <2>5. LiveLinked(t.ports)
    <3>1. DOMAIN t.ports = DOMAIN ports
      BY <1>0, <2>2, GoodParts DEF Closed
    <3>2. \A q \in DOMAIN ports : ports[q].class = "text" => ports[q].under \in DOMAIN ports
      BY <1>0, UnderIs DEF Under
    <3>3. LiveLinked(ports)
      BY <2>3 DEF PortsInv
    <3>4. \A q \in DOMAIN ports : t.ports[q].class = ports[q].class /\ t.ports[q].under = ports[q].under
      BY <1>0, <2>2 DEF Closed, Like
    <3> QED BY <2>4, <3>1, <3>2, <3>3, <3>4 DEF LiveLinked
  <2>6. \A q \in held : ~t.ports[q].freed
    BY <1>0, <2>4
  <2> QED BY <1>1, <2>2, <2>3, <2>4, <2>5, <2>6
<1>3. CASE Drop
  <2>1. PICK p \in held : held' = held \ {p} /\ reply' = Done /\ UNCHANGED <<program, ports, disk>>
                          /\ reply # Abort
    BY <1>3 DEF Drop
  <2>2. S' = S
    BY <2>1 DEF S
  <2> QED BY <1>0, <2>1, <2>2 DEF PortsInv
<1>4. CASE Collect
  <2>1. PICK order \in Bijection(1 .. Cardinality(Garbage), Garbage) :
          Calls("collect", 0, Sweep(order))
    BY <1>4 DEF Collect
  <2> DEFINE t == Sweep(order)
  <2>2. SweptWell(F, t) /\ (t.reply # Abort => \A p \in Garbage : t.ports[p].freed)
    BY <1>0, SweepFrees
  <2>3. /\ program' = program /\ ports' = t.ports /\ disk' = t.disk /\ reply' = t.reply /\ held' = held
        /\ reply # Abort
    BY <1>4, <2>1 DEF Collect, Calls
  <2> HIDE DEF t
  <2>4. /\ held \subseteq Reachable /\ Reachable \subseteq DOMAIN ports
        /\ \A q \in Reachable : ports[q].class = "text" => ports[q].under \in Reachable
    BY <1>0, ReachableClosed
  <2>5. \A q \in DOMAIN ports : /\ Like(ports[q], t.ports[q])
                                /\ ports[q].freed => t.ports[q].freed
                                /\ t.ports[q].freed => ports[q].freed \/ q \in Garbage
    BY <1>0, <2>2 DEF SweptWell, Freed
  <2>6. \A q \in held : ~t.ports[q].freed
    BY <1>0, <2>4, <2>5 DEF Garbage
  <2>7. DOMAIN t.ports = DOMAIN ports
    BY <1>0, <2>2, GoodParts DEF SweptWell, Freed
  <2>8. ASSUME t.reply # Abort
        PROVE  LiveLinked(t.ports)
    <3>1. LiveLinked(ports)
      BY <2>3 DEF PortsInv
    <3>2. ASSUME NEW q \in DOMAIN ports, t.ports[q].class = "text", ~t.ports[q].freed
          PROVE  ~t.ports[t.ports[q].under].freed
      <4>1. ~ports[q].freed /\ q \notin Garbage /\ ports[q].class = "text"
            /\ t.ports[q].under = ports[q].under
        BY <2>2, <2>5, <2>8, <3>2 DEF Like
      <4>2. q \in Reachable
        BY <4>1 DEF Garbage
      <4>3. ports[q].under \in Reachable /\ ~ports[ports[q].under].freed
        BY <2>4, <3>1, <4>1, <4>2 DEF LiveLinked
      <4> QED BY <2>4, <2>5, <4>1, <4>3 DEF Garbage
    <3> QED BY <2>7, <3>2 DEF LiveLinked
  <2> QED BY <1>1, <2>2, <2>3, <2>6, <2>8 DEF SweptWell
<1> QED BY <1>2, <1>3, <1>4

(* Every step keeps it.                                                    *)
LEMMA StepInv == PortsInv /\ [Next]_vars => PortsInv'
<1> SUFFICES ASSUME PortsInv, [Next]_vars PROVE PortsInv'
  OBVIOUS
<1>1. CASE Opens
  BY <1>1, OpensInv
<1>2. CASE Uses
  <2>1. \/ ReadCharacter \/ PeekCharacter \/ FlushWhitespaces \/ ReadTextLine
        \/ WriteCharacter \/ WriteStrings \/ NewLine \/ FreshLine
        \/ GetOutputString \/ Flush \/ SetPortTranslateMode
        \/ ReadBinaryString \/ ReadBinaryNumber \/ WriteBinary
    BY <1>2 DEF Uses
  <2> QED BY <2>1, InputInv, OutputInv, FlushInv, BinaryInv
<1>3. CASE Close \/ Drop \/ Collect
  BY <1>3, CloseInv
<1>4. CASE UNCHANGED vars
  <2>1. /\ program' = program /\ ports' = ports /\ disk' = disk /\ held' = held /\ reply' = reply
    BY <1>4 DEF vars
  <2>2. S' = S
    BY <2>1 DEF S
  <2> QED BY <2>1, <2>2 DEF PortsInv
<1> QED BY <1>1, <1>2, <1>3, <1>4 DEF Next

(* In every state of every program, every port is sound and over the right *)
(* port, and while the process runs no port held, nor the port under it,   *)
(* was freed by a collection (port_gc_free frees only what port_gc_mark    *)
(* did not reach).                                                         *)
THEOREM PortsInvariant == Spec => []PortsInv
<1>1. Init => PortsInv
  BY StartInv
<1>2. PortsInv /\ [Next]_vars => PortsInv'
  BY StepInv
<1> QED BY <1>1, <1>2, PTL DEF Spec

(* The invariant has the type invariant in it.                             *)
LEMMA InvTypes == PortsInv => TypeOK
<1> SUFFICES ASSUME PortsInv PROVE TypeOK
  OBVIOUS
<1>1. ASSUME NEW p \in DOMAIN ports
      PROVE  /\ ports[p].mode \in SUBSET ports[p].made
             /\ ports[p].under \in 0 .. p - 1
             /\ Len(ports[p].pbuf) <= (IF ports[p].class = "text" THEN 1 ELSE 0)
             /\ ports[p].row >= 1 /\ ports[p].col >= 0
  <2> DEFINE port == ports[p]
  <2>1. Sound(program.files, port) /\ Layered(ports, p) /\ p \in 1 .. Len(ports) /\ Len(ports) \in Nat
    BY GoodParts DEF PortsInv, S
  <2>2. port.mode \in SUBSET port.made
    BY <2>1 DEF Sound
  <2>3. port.under \in 0 .. p - 1
    <3>1. CASE port.class = "text"
      BY <2>1, <3>1 DEF Layered
    <3>2. CASE port.class # "text"
      BY <2>1, <3>2 DEF Sound
    <3> QED BY <3>1, <3>2
  <2>4. Len(port.pbuf) <= (IF port.class = "text" THEN 1 ELSE 0)
    BY <2>1 DEF Sound
  <2>5. port.row >= 1 /\ port.col >= 0
    BY <2>1 DEF Sound, PortRecords
  <2> QED BY <2>2, <2>3, <2>4, <2>5
<1> QED BY <1>1 DEF TypeOK, PortsInv, Replies

(* The type invariant of module Ports: the ports, the disk, the answers    *)
(* and the counters of every program stay in their types.                  *)
THEOREM PortsTyped == Spec => []TypeOK
BY PortsInvariant, InvTypes, PTL
-----------------------------------------------------------------------------
(* Failed assertions.                                                      *)

(* The primitives that flush without asking whether they may.              *)
Flushers == {"flush-port", "get-output-string", "set-port-translate-mode!"}

(* The call op is no proper use of p.                                      *)
Misuse(op, p) ==
    \/ ~Working(p) \/ ~RightWay(op, p)
    \/ op \in Flushers /\ Input(ports[p]) /\ ports[p].translate /\ ports[p].needs_lf

(* What AbortsNeedMisuse says of one step.                                 *)
AbortNeedsMisuse ==
    reply' = Abort =>
      LET op == call'[1]
          p == call'[2]
      IN  IF op = "collect"
            THEN \E q \in Garbage : ports[q].class = "text" /\ ports[q].under \in Garbage
            ELSE Misuse(op, p)

(* A working port held works, and is open for one direction.               *)
LEMMA WorkingWorks ==
  ASSUME PortsInv, NEW p \in held, Working(p)
  PROVE  /\ Works(S, p)
         /\ ports[p].class \in FileClasses => ports[p].open
         /\ Output(ports[p]) \/ Input(ports[p])
         /\ TextPort(ports[p]) => (Input(ports[p]) <=> ~Output(ports[p]))
<1>1. /\ p \in DOMAIN ports /\ Good(program.files, S) /\ S.ports = ports
  BY HeldPort
<1>2. Sound(program.files, ports[p])
  BY <1>1, GoodParts
<1>3. ports[p].mode = ports[p].made /\ MadeRight(ports[p].class, ports[p].made)
  BY <1>2 DEF Sound, Working
<1>4. /\ Output(ports[p]) \/ Input(ports[p])
      /\ TextPort(ports[p]) => (Input(ports[p]) <=> ~Output(ports[p]))
  <2> DEFINE port == ports[p]
  <2>1. port.mode = port.made /\ MadeRight(port.class, port.made)
    BY <1>3
  <2> HIDE DEF port
  <2>2. (Output(port) \/ Input(port)) /\ (TextPort(port) => (Input(port) <=> ~Output(port)))
    BY <2>1 DEF MadeRight, TextPort, Input, Output
  <2> QED BY <2>2 DEF port
<1>5. Works(S, p)
  <2>1. CASE ports[p].class # "text"
    BY <1>1, <2>1 DEF Works, Working
  <2>2. CASE ports[p].class = "text"
    <3> DEFINE u == ports[p].under
    <3>1. u \in DOMAIN ports /\ Under(S, p) = u
      BY <1>1, <2>2, UnderIs DEF Under
    <3>2. Sound(program.files, ports[u]) /\ ports[u].mode # {}
      BY <1>1, <2>2, <3>1, GoodParts DEF Working
    <3>3. ~ports[u].freed
      BY <3>2 DEF Sound
    <3> QED BY <1>1, <2>2, <3>1, <3>2, <3>3 DEF Works, Working
  <2> QED BY <2>1, <2>2
<1>6. ports[p].class \in FileClasses => ports[p].open
  BY <1>2 DEF Sound, Working
<1> QED BY <1>4, <1>5, <1>6

(* A call on a port aborts only by misuse if what it does does.            *)
LEMMA OnAborts ==
  ASSUME PortsInv, NEW op, op # "collect", NEW p, NEW t, On(op, p, t), t.reply = Abort => Misuse(op, p)
  PROVE  AbortNeedsMisuse
<1>1. call' = <<op, p>> /\ reply' = t.reply
  BY DEF On, Calls
<1>2. call'[1] = op /\ call'[2] = p
  BY <1>1
<1> QED BY <1>1, <1>2 DEF AbortNeedsMisuse

(* A test that answers with an error does not abort.                       *)
LEMMA FailsAborts ==
  ASSUME NEW test \in BOOLEAN, NEW x, Fails(test, x).reply = Abort
  PROVE  ~test /\ x.reply = Abort
<1>1. Reply(S, Error).reply = Error /\ Error # Abort
  BY DEF Reply, S, Error, Abort
<1> QED BY <1>1 DEF Fails

(* The reading primitives abort only by misuse.                            *)
LEMMA InputAborts ==
  PortsInv /\ (ReadCharacter \/ PeekCharacter \/ FlushWhitespaces \/ ReadTextLine) => AbortNeedsMisuse
<1> SUFFICES ASSUME PortsInv, ReadCharacter \/ PeekCharacter \/ FlushWhitespaces \/ ReadTextLine
             PROVE  AbortNeedsMisuse
  OBVIOUS
<1> DEFINE F == program.files
<1>1. ASSUME NEW op, op # "collect", NEW p \in held, NEW t, Reads(op, p, t),
             /\ TextPort(ports[p]) /\ t.reply = Abort /\ Working(p) /\ RightWay(op, p) => FALSE
      PROVE  AbortNeedsMisuse
  <2>1. On(op, p, Fails(~TextPort(ports[p]), t))
    BY <1>1 DEF Reads
  <2>2. (~TextPort(ports[p])) \in BOOLEAN
    BY DEF TextPort
  <2>3. Fails(~TextPort(ports[p]), t).reply = Abort => Misuse(op, p)
    BY <1>1, <2>2, FailsAborts DEF Misuse
  <2> QED BY <1>1, <2>1, <2>3, OnAborts
<1>2. ASSUME NEW p \in held, TextPort(ports[p]), Working(p), Input(ports[p])
      PROVE  CanTake(S, p)
  BY <1>2, WorkingWorks, HeldPort DEF CanTake
<1>3. CASE ReadCharacter
  <2>1. PICK p \in held : Reads("read-char", p, Take(S, p))
    BY <1>3 DEF ReadCharacter
  <2>2. CanTake(S, p) => Take(S, p).reply # Abort
    BY HeldPort, TakeKept DEF ReadsWell
  <2>3. RightWay("read-char", p) => Input(ports[p])
    BY DEF RightWay
  <2> QED BY <1>1, <1>2, <2>1, <2>2, <2>3
<1>4. CASE PeekCharacter
  <2>1. PICK p \in held : Reads("peek-char", p, PeekChar(S, p))
    BY <1>4 DEF PeekCharacter
  <2>2. CanTake(S, p) => PeekChar(S, p).reply # Abort
    BY HeldPort, PeekKept DEF ReadsWell
  <2>3. RightWay("peek-char", p) => Input(ports[p])
    BY DEF RightWay
  <2> QED BY <1>1, <1>2, <2>1, <2>2, <2>3
<1>5. ASSUME NEW op, op # "collect", NEW p \in held, NEW x, Reads(op, p, Fails(Output(ports[p]), x)),
             TextPort(ports[p]) /\ CanTake(S, p) => x.reply # Abort
      PROVE  AbortNeedsMisuse
  <2> DEFINE t == Fails(Output(ports[p]), x)
  <2>1. Output(ports[p]) \in BOOLEAN
    BY DEF Output
  <2>2. t.reply = Abort => ~Output(ports[p]) /\ x.reply = Abort
    BY <2>1, FailsAborts
  <2> HIDE DEF t
  <2>3. TextPort(ports[p]) /\ t.reply = Abort /\ Working(p) /\ RightWay(op, p) => FALSE
    BY <1>2, <1>5, <2>2, WorkingWorks
  <2>4. Reads(op, p, t)
    BY <1>5 DEF t
  <2> QED BY <1>1, <1>5, <2>3, <2>4
<1>6. CASE FlushWhitespaces
  <2>1. PICK p \in held, comments \in BOOLEAN :
          Reads("flush-whitespace", p, Fails(Output(ports[p]), FlushWhitespace(S, p, comments)))
    BY <1>6 DEF FlushWhitespaces
  <2>2. TextPort(ports[p]) /\ CanTake(S, p) => FlushWhitespace(S, p, comments).reply # Abort
    BY HeldPort, FlushWhitespaceKept DEF ReadsWell
  <2> QED BY <1>5, <2>1, <2>2
<1>7. CASE ReadTextLine
  <2>1. PICK p \in held : Reads("read-line", p, Fails(Output(ports[p]), ReadLine(S, p)))
    BY <1>7 DEF ReadTextLine
  <2>2. TextPort(ports[p]) /\ CanTake(S, p) => ReadLine(S, p).reply # Abort
    BY HeldPort, ReadLineKept
  <2> QED BY <1>5, <2>1, <2>2
<1> QED BY <1>3, <1>4, <1>6, <1>7

(* So do the writing primitives.                                           *)
LEMMA OutputAborts ==
  PortsInv /\ (WriteCharacter \/ WriteStrings \/ NewLine \/ FreshLine) => AbortNeedsMisuse
<1> SUFFICES ASSUME PortsInv, WriteCharacter \/ WriteStrings \/ NewLine \/ FreshLine
             PROVE  AbortNeedsMisuse
  OBVIOUS
<1> DEFINE F == program.files
           wrong(p) == ~TextPort(ports[p]) \/ Input(ports[p])
<1>0. /\ Good(F, S) /\ S.reply = Done /\ Done # Abort /\ S.ports = ports
      /\ program.chars \subseteq Characters /\ program.texts \subseteq Seq(Characters)
      /\ LF \in Characters
  BY ProgramsAssumption DEF PortsInv, S, Characters, Done, Abort
<1>1. ASSUME NEW op, op # "collect", NEW p \in held, NEW n, NEW t, Writes(op, p, n, t),
             TextPort(ports[p]) /\ ~Input(ports[p]) /\ Output(ports[p]) /\ Works(S, p) => t.reply # Abort
      PROVE  AbortNeedsMisuse
  <2>1. On(op, p, Fails(wrong(p), t))
    BY <1>1 DEF Writes
  <2>2. wrong(p) \in BOOLEAN
    OBVIOUS
  <2>3. Fails(wrong(p), t).reply = Abort => TextPort(ports[p]) /\ ~Input(ports[p]) /\ t.reply = Abort
    <3> HIDE DEF wrong
    <3>1. Fails(wrong(p), t).reply = Abort => ~wrong(p) /\ t.reply = Abort
      BY <2>2, FailsAborts
    <3> QED BY <3>1 DEF wrong
  <2>4. Fails(wrong(p), t).reply = Abort => Misuse(op, p)
    BY <1>1, <2>3, WorkingWorks DEF Misuse
  <2> HIDE DEF wrong
  <2> QED BY <1>1, <2>1, <2>4, OnAborts
<1>2. ASSUME NEW p \in held, NEW c \in Characters,
             TextPort(ports[p]), ~Input(ports[p]), Works(S, p)
      PROVE  WriteChar(S, p, c).reply # Abort
  BY <1>0, <1>2, HeldPort, WriteCharKept
<1>3. CASE WriteCharacter
  <2>1. PICK p \in held, c \in program.chars : Writes("write-char", p, 1, WriteChar(S, p, c))
    BY <1>3 DEF WriteCharacter
  <2>2. c \in Characters
    BY <1>0
  <2> QED BY <1>1, <1>2, <2>1, <2>2
<1>4. CASE WriteStrings
  <2>1. PICK p \in held, text \in program.texts :
          Writes("write-strings", p, Len(text), WriteText(S, p, text))
    BY <1>4 DEF WriteStrings
  <2>2. ASSUME TextPort(ports[p]), Output(ports[p]), Works(S, p)
        PROVE  WriteText(S, p, text).reply # Abort
    <3>1. WritableUnder(S, p)
      BY <1>0, <2>2, HeldPort, OpenUnder
    <3> QED BY <1>0, <2>2, <3>1, HeldPort, WriteTextKept
  <2> QED BY <1>1, <2>1, <2>2
<1>5. CASE NewLine
  <2>1. PICK p \in held : Writes("newline", p, 1, WriteChar(S, p, LF))
    BY <1>5 DEF NewLine
  <2> QED BY <1>0, <1>1, <1>2, <2>1
<1>6. CASE FreshLine
  <2>1. PICK p \in held :
          Writes("fresh-line", p, 1,
                 IF ports[p].col # 0 /\ ~ports[p].needs_lf THEN WriteChar(S, p, LF) ELSE S)
    BY <1>6 DEF FreshLine
  <2> DEFINE t == IF ports[p].col # 0 /\ ~ports[p].needs_lf THEN WriteChar(S, p, LF) ELSE S
  <2>2. TextPort(ports[p]) /\ ~Input(ports[p]) /\ Output(ports[p]) /\ Works(S, p) => t.reply # Abort
    BY <1>0, <1>2
  <2>3. Writes("fresh-line", p, 1, t)
    BY <2>1
  <2> HIDE DEF t
  <2> QED BY <1>1, <2>2, <2>3
<1> QED BY <1>3, <1>4, <1>5, <1>6

(* So do the primitives that flush.                                        *)
LEMMA FlushAborts ==
  PortsInv /\ (GetOutputString \/ Flush \/ SetPortTranslateMode) => AbortNeedsMisuse
<1> SUFFICES ASSUME PortsInv, GetOutputString \/ Flush \/ SetPortTranslateMode PROVE AbortNeedsMisuse
  OBVIOUS
<1>0. Good(program.files, S) /\ S.reply = Done /\ Done # Abort /\ S.ports = ports
  BY DEF PortsInv, S, Done, Abort
<1>1. ASSUME NEW op \in Flushers, NEW p \in held, Works(S, p) /\ ~OwesWrongly(ports[p]) => FALSE
      PROVE  Misuse(op, p)
  BY <1>1, WorkingWorks DEF Misuse, OwesWrongly
<1>2. ASSUME NEW p \in held, Works(S, p), ~OwesWrongly(ports[p])
      PROVE  FlushPort(S, p).reply # Abort
  BY <1>0, <1>2, HeldPort, FlushPortKept
<1>3. CASE GetOutputString
  <2>1. PICK p \in held : On("get-output-string", p, FlushPort(S, p))
    BY <1>3 DEF GetOutputString
  <2>2. "get-output-string" \in Flushers
    BY DEF Flushers
  <2>3. FlushPort(S, p).reply = Abort => Misuse("get-output-string", p)
    BY <1>1, <1>2, <2>2
  <2> QED BY <2>1, <2>3, OnAborts
<1>4. CASE Flush
  <2>1. PICK p \in held : On("flush-port", p, FlushPort(S, p))
    BY <1>4 DEF Flush
  <2>2. "flush-port" \in Flushers
    BY DEF Flushers
  <2>3. FlushPort(S, p).reply = Abort => Misuse("flush-port", p)
    BY <1>1, <1>2, <2>2
  <2> QED BY <2>1, <2>3, OnAborts
<1>5. CASE SetPortTranslateMode
  <2>1. PICK p \in held, mode \in BOOLEAN :
          On("set-port-translate-mode!", p, Fails(~TextPort(ports[p]), SetTranslate(p, mode)))
    BY <1>5 DEF SetPortTranslateMode
  <2> DEFINE test == ~TextPort(ports[p])
             op == "set-port-translate-mode!"
  <2>2. op \in Flushers /\ test \in BOOLEAN
    BY DEF Flushers
  <2> HIDE DEF test
  <2>3. Works(S, p) /\ ~OwesWrongly(ports[p]) => SetTranslate(p, mode).reply # Abort
    BY <1>0, HeldPort, SetTranslateKept
  <2>4. Fails(test, SetTranslate(p, mode)).reply = Abort => Misuse(op, p)
    BY <1>1, <2>2, <2>3, FailsAborts
  <2>5. On(op, p, Fails(test, SetTranslate(p, mode)))
    BY <2>1 DEF test
  <2> QED BY <2>4, <2>5, OnAborts
<1> QED BY <1>3, <1>4, <1>5

(* So do binary input and output.                                          *)
LEMMA BinaryAborts ==
  PortsInv /\ (ReadBinaryString \/ ReadBinaryNumber \/ WriteBinary) => AbortNeedsMisuse
<1> SUFFICES ASSUME PortsInv, ReadBinaryString \/ ReadBinaryNumber \/ WriteBinary PROVE AbortNeedsMisuse
  OBVIOUS
<1>0. /\ Good(program.files, S) /\ S.ports = ports /\ Done # Abort
      /\ program.texts \subseteq Seq(Characters) /\ program.sizes \subseteq Nat \ {0}
  BY ProgramsAssumption DEF PortsInv, S, Done, Abort
<1>1. ASSUME NEW op, op # "collect", NEW p \in held, NEW t, On(op, p, Fails(TextPort(ports[p]), t)),
             Working(p) /\ RightWay(op, p) => t.reply # Abort
      PROVE  AbortNeedsMisuse
  <2>1. TextPort(ports[p]) \in BOOLEAN
    BY DEF TextPort
  <2>2. Fails(TextPort(ports[p]), t).reply = Abort => Misuse(op, p)
    BY <1>1, <2>1, FailsAborts DEF Misuse
  <2> QED BY <1>1, <2>2, OnAborts
<1>2. ASSUME NEW p \in held, NEW n \in program.sizes, Working(p), ports[p].class \in ReadsBytes
      PROVE  ReadBytes(p, n).reply # Abort
  <2>1. n \in Nat
    BY <1>0
  <2>2. CanRead(S.ports[p])
    BY <1>0, <1>2, WorkingWorks DEF CanRead
  <2> QED BY <1>0, <2>1, <2>2, HeldPort, ReadBytesKept DEF UsesWell
<1>3. CASE ReadBinaryString
  <2>1. PICK p \in held, n \in program.sizes :
          On("read-binary-string", p,
             Fails(TextPort(ports[p]),
                   IF ReadBytes(p, n).reply = Eof /\ ReadBytes(p, n).ports[p].pos # ports[p].pos
                     THEN Reply(ReadBytes(p, n), Done) ELSE ReadBytes(p, n)))
    BY <1>3 DEF ReadBinaryString
  <2> DEFINE r == ReadBytes(p, n)
             t == IF r.reply = Eof /\ r.ports[p].pos # ports[p].pos THEN Reply(r, Done) ELSE r
  <2>2. Working(p) /\ ports[p].class \in ReadsBytes => r.reply # Abort
    BY <1>2
  <2>3. Kept(program.files, S, r)
    BY <1>0, HeldPort, ReadBytesKept
  <2> HIDE DEF r
  <2>4. Reply(r, Done).reply = Done
    BY <1>0, <2>3, KeptParts, ReplyKept DEF Replies
  <2>5. RightWay("read-binary-string", p) => ports[p].class \in ReadsBytes
    BY DEF RightWay
  <2>6. Working(p) /\ RightWay("read-binary-string", p) => t.reply # Abort
    BY <1>0, <2>2, <2>4, <2>5
  <2>7. On("read-binary-string", p, Fails(TextPort(ports[p]), t))
    BY <2>1 DEF r
  <2> HIDE DEF t
  <2> QED BY <1>1, <2>6, <2>7
<1>4. CASE ReadBinaryNumber
  <2>1. PICK p \in held, n \in program.sizes :
          On("read-binary-fixnum", p, Fails(TextPort(ports[p]), ReadBytes(p, n)))
    BY <1>4 DEF ReadBinaryNumber
  <2>2. RightWay("read-binary-fixnum", p) => ports[p].class \in ReadsBytes
    BY DEF RightWay
  <2> QED BY <1>1, <1>2, <2>1, <2>2
<1>5. CASE WriteBinary
  <2>1. PICK p \in held, text \in program.texts :
          On("write-binary", p, Fails(TextPort(ports[p]), WriteBytes(p, text)))
    BY <1>5 DEF WriteBinary
  <2>2. RightWay("write-binary", p) => ports[p].class \in WritesBytes
    BY DEF RightWay
  <2>3. Working(p) /\ ports[p].class \in WritesBytes => WriteBytes(p, text).reply # Abort
    <3>1. Working(p) /\ ports[p].class \in WritesBytes => CanWrite(S.ports[p])
      BY <1>0, WorkingWorks DEF CanWrite
    <3> QED BY <1>0, <3>1, HeldPort, WriteBytesKept
  <2> QED BY <1>1, <2>1, <2>2, <2>3
<1> QED BY <1>3, <1>4, <1>5

(* So does closing; a collection aborts only if it finds a text port       *)
(* together with the port under it.                                        *)
LEMMA CloseAborts == PortsInv /\ (Close \/ Drop \/ Collect) => AbortNeedsMisuse
<1> SUFFICES ASSUME PortsInv, Close \/ Drop \/ Collect PROVE AbortNeedsMisuse
  OBVIOUS
<1>0. Good(program.files, S) /\ S.reply = Done /\ Done # Abort /\ S.ports = ports
      /\ held \subseteq DOMAIN ports
  BY DEF PortsInv, S, Done, Abort
<1>1. CASE Close
  <2>1. PICK p \in held : On("close-port", p, ClosePort(S, p))
    BY <1>1 DEF Close
  <2>2. ASSUME Working(p)
        PROVE  ClosePort(S, p).reply # Abort
    <3>1. Works(S, p) /\ p \in DOMAIN S.ports
      BY <2>2, WorkingWorks, HeldPort
    <3>2. \A q \in Layers(S.ports, p) : ~S.ports[q].freed
      BY <1>0, <3>1, WorksAlive
    <3> QED BY <1>0, <3>1, <3>2, ClosePortClosed
  <2>3. ClosePort(S, p).reply = Abort => Misuse("close-port", p)
    BY <2>2 DEF Misuse
  <2> QED BY <2>1, <2>3, OnAborts
<1>2. CASE Drop
  BY <1>0, <1>2 DEF Drop, AbortNeedsMisuse
<1>3. CASE Collect
  <2>1. PICK order \in Bijection(1 .. Cardinality(Garbage), Garbage) :
          Calls("collect", 0, Sweep(order))
    BY <1>3 DEF Collect
  <2>2. SweptWell(program.files, Sweep(order))
    BY <1>0, SweepFrees
  <2>3. call' = <<"collect", 0>> /\ reply' = Sweep(order).reply /\ reply # Abort
    BY <2>1 DEF Calls
  <2>4. LiveLinked(ports)
    BY <2>3 DEF PortsInv
  <2>5. reply' = Abort => \E q \in Garbage : ports[q].class = "text" /\ ports[q].under \in Garbage
    BY <1>0, <2>2, <2>3, <2>4 DEF SweptWell, Harmless
  <2>6. call'[1] = "collect"
    BY <2>3
  <2> QED BY <2>5, <2>6 DEF AbortNeedsMisuse
<1> QED BY <1>1, <1>2, <1>3

(* So does every step.                                                     *)
LEMMA StepAborts == PortsInv /\ Next => AbortNeedsMisuse
<1> SUFFICES ASSUME PortsInv, Next PROVE AbortNeedsMisuse
  OBVIOUS
<1>1. CASE Opens
  <2>1. reply' \in {Done, Error} /\ Done # Abort /\ Error # Abort
    BY <1>1, OpensInv DEF Done, Error, Abort
  <2> QED BY <2>1 DEF AbortNeedsMisuse
<1>2. CASE Uses
  <2>1. \/ ReadCharacter \/ PeekCharacter \/ FlushWhitespaces \/ ReadTextLine
        \/ WriteCharacter \/ WriteStrings \/ NewLine \/ FreshLine
        \/ GetOutputString \/ Flush \/ SetPortTranslateMode
        \/ ReadBinaryString \/ ReadBinaryNumber \/ WriteBinary
    BY <1>2 DEF Uses
  <2> QED BY <2>1, InputAborts, OutputAborts, FlushAborts, BinaryAborts
<1>3. CASE Close \/ Drop \/ Collect
  BY <1>3, CloseAborts
<1> QED BY <1>1, <1>2, <1>3 DEF Next

(* A failed assertion of port.c or text-port.c ends the process only if a  *)
(* port is misused, or if a collection finds a text port together with the *)
(* port under it: used as they should be, ports of any number, over any    *)
(* files and with any text, never abort.                                   *)
THEOREM PortsAbort == Spec => AbortsNeedMisuse
<1>1. PortsInv /\ [Next]_vars =>
        [reply' = Abort =>
           LET op == call'[1]
               p == call'[2]
           IN  IF op = "collect"
                 THEN \E q \in Garbage : ports[q].class = "text" /\ ports[q].under \in Garbage
                 ELSE \/ ~Working(p) \/ ~RightWay(op, p)
                      \/ /\ op \in {"flush-port", "get-output-string", "set-port-translate-mode!"}
                         /\ Input(ports[p]) /\ ports[p].translate /\ ports[p].needs_lf]_vars
  <2>1. PortsInv /\ Next => AbortNeedsMisuse
    BY StepAborts
  <2> QED BY <2>1 DEF AbortNeedsMisuse, Misuse, Flushers
<1> QED BY <1>1, PortsInvariant, PTL DEF Spec, AbortsNeedMisuse
-----------------------------------------------------------------------------
(* Peeking.                                                                *)

(* A character other than CR that is unread and read again moves the       *)
(* position to where it was.                                               *)
LEMMA StepsBack ==
  ASSUME NEW F, NEW port, Sound(F, port), NEW c, c # CR
  PROVE  /\ ReadPosition(Unmove(ReadPosition(port, c), c), c) = ReadPosition(port, c)
         /\ Unmove(ReadPosition(port, c), c).pbuf = port.pbuf
<1> DEFINE r == ReadPosition(port, c)
<1>1. port \in PortRecords(F) /\ port.col \in Nat /\ port.row \in Nat
  BY DEF Sound, PortRecords
<1>2. CASE c = LF
  <2> DEFINE w == port.row
             k == port.col
             a == [port EXCEPT !.col = 0, !.row = w + 1, !.pline_mcol = k]
             b == [a EXCEPT !.col = k, !.row = w]
  <2>1. r = a
    BY <1>1, <1>2 DEF ReadPosition, Move, PortRecords
  <2>2. a.pline_mcol = k /\ a.row - 1 = w /\ a \in PortRecords(F) /\ a.pbuf = port.pbuf
    <3>1. 0 \in Nat /\ w + 1 \in Nat \ {0} /\ k \in Nat /\ (w + 1) - 1 = w
      BY <1>1
    <3>2. a.row = w + 1 /\ a.pline_mcol = k /\ a.pbuf = port.pbuf
      BY <1>1 DEF PortRecords
    <3>3. a \in PortRecords(F)
      BY <1>1, <3>1 DEF PortRecords
    <3> HIDE DEF a, k, w
    <3> QED BY <3>1, <3>2, <3>3
  <2>3. Unmove(a, c) = [a EXCEPT !.col = a.pline_mcol, !.row = a.row - 1]
    BY <1>2 DEF Unmove
  <2>4. Unmove(a, c) = b
    BY <2>2, <2>3
  <2>5. b.col = k /\ b.row = w /\ b \in PortRecords(F) /\ b.pbuf = port.pbuf
    BY <1>1, <2>2 DEF PortRecords
  <2>6. ReadPosition(b, c) = [b EXCEPT !.col = 0, !.row = w + 1, !.pline_mcol = k]
    BY <1>2, <2>5 DEF ReadPosition, Move, PortRecords
  <2>7. [b EXCEPT !.col = 0, !.row = w + 1, !.pline_mcol = k] = a
    BY <1>1 DEF PortRecords
  <2> HIDE DEF a, b
  <2> QED BY <2>1, <2>4, <2>5, <2>6, <2>7
<1>3. CASE c # LF
  <2> DEFINE k == port.col
             a == [port EXCEPT !.col = k + 1]
  <2>1. r = a
    BY <1>1, <1>3 DEF ReadPosition, Move, PortRecords
  <2>2. a.col - 1 = k /\ a \in PortRecords(F) /\ a.pbuf = port.pbuf
    <3>1. k + 1 \in Nat /\ (k + 1) - 1 = k
      BY <1>1
    <3>2. a.col = k + 1 /\ a.pbuf = port.pbuf
      BY <1>1 DEF PortRecords
    <3>3. a \in PortRecords(F)
      BY <1>1, <3>1 DEF PortRecords
    <3> HIDE DEF a, k
    <3> QED BY <3>1, <3>2, <3>3
  <2>3. Unmove(a, c) = [a EXCEPT !.col = a.col - 1]
    BY <1>3 DEF Unmove
  <2>4. [a EXCEPT !.col = k] = port
    BY <1>1 DEF PortRecords
  <2>5. Unmove(a, c) = port
    BY <2>2, <2>3, <2>4
  <2> HIDE DEF a
  <2> QED BY <2>1, <2>5
<1> QED BY <1>2, <1>3

(* Of two changes of a port the second counts.                             *)
LEMMA PutAgain ==
  ASSUME NEW F, NEW s \in Systems(F), NEW p \in DOMAIN s.ports, NEW x, NEW y
  PROVE  PutPort(PutPort(s, p, x), p, y) = PutPort(s, p, y)
<1>1. s.ports \in Seq(PortRecords(F)) /\ s = [ports |-> s.ports, disk |-> s.disk, reply |-> s.reply]
  BY SystemParts DEF Systems
<1>2. [[s.ports EXCEPT ![p] = x] EXCEPT ![p] = y] = [s.ports EXCEPT ![p] = y]
  BY <1>1
<1> QED BY <1>1, <1>2 DEF PutPort

(* So it does when answers come between them.                              *)
LEMMA PutTwice ==
  ASSUME NEW F, NEW s \in Systems(F), NEW p \in DOMAIN s.ports, NEW x, NEW y, NEW z, NEW r
  PROVE  PutPort(Reply(PutPort(Reply(PutPort(s, p, x), r), p, y), s.reply), p, z) = PutPort(s, p, z)
<1> DEFINE f(v) == [s.ports EXCEPT ![p] = v]
           R(g, q) == [ports |-> g, disk |-> s.disk, reply |-> q]
<1>1. s.ports \in Seq(PortRecords(F)) /\ s = R(s.ports, s.reply)
  BY SystemParts DEF Systems
<1>2. ASSUME NEW v, NEW q, NEW g
      PROVE  PutPort(R(g, q), p, v) = R([g EXCEPT ![p] = v], q)
  BY DEF PutPort
<1>3. ASSUME NEW q, NEW g, NEW k
      PROVE  Reply(R(g, q), k) = R(g, k)
  BY DEF Reply
<1>4. ASSUME NEW v, NEW w
      PROVE  [f(v) EXCEPT ![p] = w] = f(w)
  BY <1>1
<1> HIDE DEF R
<1>5. PutPort(s, p, x) = R(f(x), s.reply) /\ PutPort(s, p, y) = R(f(y), s.reply)
      /\ PutPort(s, p, z) = R(f(z), s.reply)
  BY <1>1, <1>2
<1> HIDE DEF f
<1>6. PutPort(R(f(x), s.reply), p, y) = R(f(y), s.reply)
  BY <1>2, <1>4
<1>7. Reply(R(f(x), s.reply), r) = R(f(x), r)
  BY <1>3
<1>8. PutPort(R(f(x), r), p, y) = R(f(y), r)
  BY <1>2, <1>4
<1>9. Reply(R(f(y), r), s.reply) = R(f(y), s.reply)
  BY <1>3
<1>10. PutPort(R(f(y), s.reply), p, z) = R(f(z), s.reply)
  BY <1>2, <1>4
<1> QED BY <1>5, <1>6, <1>7, <1>8, <1>9, <1>10

(* A read after a peek is the read without it: both the character and the  *)
(* whole system are the same.                                              *)
LEMMA PeekThenRead ==
  ASSUME NEW F, NEW s, Good(F, s), NEW p \in DOMAIN s.ports, s.ports[p].class = "text",
         TextPort(s.ports[p]), Input(s.ports[p]),
         PeekChar(s, p).reply \notin {Eof, Abort, CR}, NEW r \in Replies
  PROVE  /\ ReadChar(Reply(PeekChar(s, p), r), p) = ReadChar(s, p)
         /\ ReadChar(s, p).reply = PeekChar(s, p).reply
<1> DEFINE t == ReadChar(s, p)
           c == t.reply
           m == Raw(s, p)
           q == m.ports[p]
           o == Unmove(ReadPosition(q, c), c)
           x == [o EXCEPT !.pbuf = <<c>>]
           y == ReadPosition(q, c)
           z == PeekChar(s, p)
           v == Reply(z, r)
<1>1. z = IF c \in {Eof, Abort} THEN t ELSE [t EXCEPT !.ports[p] = [Unmove(@, c) EXCEPT !.pbuf = <<c>>]]
  BY DEF PeekChar, PeekTextPort
<1>2. ReadsWell(F, s, p, z)
  BY PeekKept
<1>3. c \in Characters \cup {Eof, Abort} /\ Kept(F, s, t)
  BY ReadCharKept
<1>4. c \notin {Eof, Abort} /\ c \in Characters
  BY <1>1, <1>3
<1>5. /\ c = m.reply /\ q.pbuf = << >> /\ Sound(F, q) /\ t.ports[p] = y /\ t = PutPort(m, p, y)
  BY <1>4, ReadCharKept
<1>6. Kept(F, s, m) /\ Good(F, m) /\ m \in Systems(F) /\ p \in DOMAIN m.ports
  <2>1. Kept(F, s, m)
    BY RawKept
  <2> QED BY <2>1, KeptParts, GoodParts
<1>7. z = PutPort(t, p, x)
  BY <1>1, <1>4, <1>5 DEF PutPort
<1> HIDE DEF t, m, q, z
<1>8. /\ Sound(F, o) /\ Fixed(q, o) /\ Sound(F, y) /\ Fixed(q, y)
      /\ q.class = "text"
  <2>1. q.class = "text"
    BY <1>6, SameWays DEF q
  <2> QED BY <1>4, <1>5, <2>1, UnmoveSound, PositionSound
<1>9. o.pbuf = << >> /\ (c # CR => ReadPosition(o, c) = y)
  <2>1. c # CR \/ c = CR
    OBVIOUS
  <2>2. CASE c # CR
    BY <1>5, <2>2, StepsBack
  <2>3. CASE c = CR
    <3>1. ReadPosition(q, c).pbuf = q.pbuf
      BY <1>5, <2>3 DEF ReadPosition, Move, Sound, PortRecords
    <3> QED BY <1>5, <2>3, <3>1 DEF Unmove, CR, LF
  <2> QED BY <2>1, <2>2, <2>3
<1> HIDE DEF o, y
<1>10. Sound(F, x) /\ Fixed(o, x) /\ x.pbuf = <<c>> /\ [x EXCEPT !.pbuf = << >>] = o
  <2>1. o.class = "text"
    BY <1>8 DEF Fixed
  <2>2. Sound(F, x) /\ Fixed(o, x)
    BY <1>4, <1>8, <2>1, FilledSound
  <2>3. x.pbuf = <<c>> /\ [x EXCEPT !.pbuf = << >>] = o
    BY <1>8, <1>9, ZenonT(60) DEF Sound, PortRecords
  <2> QED BY <2>2, <2>3
<1> HIDE DEF x
<1>11. x \in PortRecords(F) /\ y \in PortRecords(F) /\ o \in PortRecords(F)
  BY <1>8, <1>10 DEF Sound
<1>12. z = PutPort(m, p, x)
  BY <1>5, <1>6, <1>7, <1>11, PutAgain
<1>13. z.reply = c /\ z.ports[p] = x /\ p \in DOMAIN z.ports
  BY <1>5, <1>6, <1>12, PutParts
<1>14. c # CR
  BY <1>13 DEF z
<1>15. v.ports = z.ports
  BY <1>2, KeptParts, ReplyKept DEF ReadsWell
<1> HIDE DEF v
<1>16. TextPort(v.ports[p]) /\ Input(v.ports[p])
  <2>1. Kept(F, s, z)
    BY <1>2 DEF ReadsWell
  <2>2. TextPort(z.ports[p]) = TextPort(s.ports[p]) /\ Input(z.ports[p]) = Input(s.ports[p])
    BY <2>1, SameWays, ZenonT(60)
  <2> QED BY <1>15, <2>2
<1> DEFINE w == Reply(PutPort(v, p, o), c)
<1>17. Raw(v, p) = w
  <2>1. v.ports[p] = x /\ x.pbuf # << >> /\ x.pbuf[1] = c
    BY <1>10, <1>13, <1>15
  <2>2. Raw(v, p) = Reply([v EXCEPT !.ports[p].pbuf = << >>], c)
    BY <2>1 DEF Raw, Unread
  <2>3. [v EXCEPT !.ports[p].pbuf = << >>] = PutPort(v, p, o)
    <3>1. [v EXCEPT !.ports[p].pbuf = << >>] = PutPort(v, p, [v.ports[p] EXCEPT !.pbuf = << >>])
      BY DEF PutPort
    <3> QED BY <1>10, <2>1, <3>1
  <2> QED BY <2>2, <2>3
<1>18. w.reply = c /\ w.ports[p] = o
  <2>1. Good(F, z)
    BY <1>2, KeptParts DEF ReadsWell
  <2>2. Good(F, v) /\ p \in DOMAIN v.ports /\ v \in Systems(F)
    BY <1>13, <1>15, <2>1, ReplyKept, GoodParts DEF v, Kept
  <2>3. PutPort(v, p, o).ports[p] = o /\ PutPort(v, p, o) \in Systems(F)
    BY <1>11, <2>2, PutParts, PutTyped
  <2>4. w.reply = c /\ w.ports = PutPort(v, p, o).ports
    BY <2>3 DEF Reply, Systems
  <2> QED BY <2>3, <2>4
<1>19. ReadChar(v, p) = PutPort(w, p, ReadPosition(o, c))
  <2>1. c # Abort
    BY <1>4
  <2> HIDE DEF w
  <2> QED BY <1>16, <1>17, <1>18, <2>1, ReadCharIs
<1>20. ReadChar(v, p) = PutPort(w, p, y)
  BY <1>9, <1>14, <1>19
<1>21. PutPort(w, p, y) = PutPort(m, p, y)
  BY <1>5, <1>6, <1>12, PutTwice DEF v, w
<1> QED BY <1>5, <1>13, <1>20, <1>21 DEF v, z, t

(* Take is determined by ReadChar.                                         *)
LEMMA TakesAlike ==
  ASSUME NEW s, NEW t, NEW p, ReadChar(s, p) = ReadChar(t, p)
  PROVE  Take(s, p) = Take(t, p)
BY DEF Take

(* It answers what ReadChar does.                                          *)
LEMMA TakesRead ==
  ASSUME NEW s, NEW p
  PROVE  Take(s, p).reply = ReadChar(s, p).reply
BY DEF Take

(* A call of peek-char is such a peek.                                     *)
LEMMA StepPeeks ==
  ASSUME PortsInv, Next, NEW p \in held, call' = <<"peek-char", p>>, reply' \notin {Eof, Error, Abort, CR}
  PROVE  Take(S, p).reply = reply' /\ Take(S, p) = Take(S', p)
<1> DEFINE F == program.files
           t == PeekChar(S, p)
<1>0. /\ Good(F, S) /\ p \in DOMAIN S.ports /\ S.ports = ports /\ S.disk = disk /\ S.reply = Done
      /\ Done \in Replies /\ Error \in Replies
  BY HeldPort DEF S, Replies
<1>1. Reads("peek-char", p, t)
  <2>1. ASSUME NEW op, NEW q, NEW z, Calls(op, q, z)
        PROVE  op = "peek-char" /\ q = p
    BY <2>1 DEF Calls
  <2>2. PeekCharacter
    <3>1. ~Opens
      BY <2>1 DEF Opens, OpenRawInputFile, OpenRawOutputFile, OpenFails, OpenTextInputPort,
                  OpenTextOutputPort, OpenText, OpenInputString, OpenOutputString, OpenNullPort,
                  CloneCDataPort, Makes
    <3>2. Uses => PeekCharacter
      BY <2>1 DEF Uses, ReadCharacter, FlushWhitespaces, ReadTextLine, WriteCharacter, WriteStrings,
                  NewLine, FreshLine, GetOutputString, Flush, SetPortTranslateMode, ReadBinaryString,
                  ReadBinaryNumber, WriteBinary, Reads, Writes, On
    <3>3. ~Close /\ ~Drop /\ ~Collect
      BY <2>1 DEF Close, Drop, Collect, On
    <3> QED BY <3>1, <3>2, <3>3, SMTT(30) DEF Next
  <2>3. PICK q \in held : Reads("peek-char", q, PeekChar(S, q))
    BY <2>2 DEF PeekCharacter
  <2>4. q = p
    BY <2>1, <2>3 DEF Reads, On
  <2> QED BY <2>3, <2>4
<1>2. /\ TextPort(ports[p]) /\ ports' = t.ports /\ disk' = t.disk /\ reply' = t.reply
  <2>1. /\ ports' = Fails(~TextPort(ports[p]), t).ports /\ disk' = Fails(~TextPort(ports[p]), t).disk
        /\ reply' = Fails(~TextPort(ports[p]), t).reply
    BY <1>1 DEF Reads, On, Calls
  <2>2. Reply(S, Error).reply = Error
    BY <1>0, ReplyKept
  <2> QED BY <2>1, <2>2 DEF Fails
<1>3. ReadsWell(F, S, p, t)
  BY <1>0, PeekKept
<1>4. t \in Systems(F) /\ t.reply \in Characters
  BY <1>2, <1>3, GoodParts DEF ReadsWell, Kept
<1>5. S' = Reply(t, Done)
  <2>1. S' = [ports |-> t.ports, disk |-> t.disk, reply |-> Done]
    BY <1>2 DEF S
  <2> HIDE DEF t
  <2> QED BY <1>4, <2>1 DEF Reply, Systems
<1>6. Input(ports[p])
  <2>1. ~Input(ports[p]) => t = Reply(S, Abort)
    BY <1>0 DEF PeekChar
  <2>2. Reply(S, Abort).reply = Abort
    BY <1>0, ReplyKept DEF Replies
  <2> QED BY <1>2, <2>1, <2>2
<1>7. CASE ports[p].class = "text"
  <2>1. ReadChar(Reply(t, Done), p) = ReadChar(S, p) /\ ReadChar(S, p).reply = t.reply
    BY <1>0, <1>2, <1>6, <1>7, PeekThenRead
  <2> QED BY <1>2, <1>5, <2>1, TakesAlike, TakesRead
<1>8. CASE ports[p].class # "text"
  <2> DEFINE port == ports[p]
             c == IF port.pos >= Len(port.data) THEN Eof ELSE port.data[port.pos + 1]
  <2>1. t = Reply(S, c)
    BY <1>0, <1>2, <1>6, <1>8 DEF PeekChar
  <2>2. Reply(t, Done) = S
    BY <2>1 DEF Reply, S
  <2>3. t.reply = c
    BY <2>1 DEF Reply, S
  <2>4. c \in Characters /\ ~(port.pos >= Len(port.data))
    BY <1>2, <1>4, <2>3
  <2>5. port.pbuf = << >>
    <3>1. Sound(F, port)
      BY <1>0, GoodParts
    <3> QED BY <1>8, <3>1 DEF Sound
  <2>6. Raw(S, p) = Reply([S EXCEPT !.ports[p].pos = @ + 1], c)
    BY <1>0, <1>8, <2>4, <2>5 DEF Raw, ReadStringPort
  <2>7. Raw(S, p).reply = c
    BY <2>6 DEF Reply, S
  <2>8. c # Abort
    BY <2>4 DEF Characters, Abort, CR, LF
  <2>9. ReadChar(S, p).reply = c
    <3>1. ReadChar(S, p) = PutPort(Raw(S, p), p, ReadPosition(Raw(S, p).ports[p], Raw(S, p).reply))
      BY <1>0, <1>2, <1>6, <2>7, <2>8, ReadCharIs
    <3>2. ReadChar(S, p).reply # Abort \/ ReadChar(S, p).reply = Abort
      OBVIOUS
    <3>3. Raw(S, p) \in Systems(F) /\ p \in DOMAIN Raw(S, p).ports
      BY <1>0, <1>2, <1>6, RawKept, KeptParts, GoodParts
    <3> QED BY <2>7, <3>1, <3>3, PutParts
  <2> QED BY <1>2, <1>5, <2>2, <2>3, <2>9, TakesRead
<1> QED BY <1>7, <1>8

(* A peek changes nothing that is read later, for any text, translation    *)
(* mode and position (peek_char reads and unreads).                        *)
THEOREM PortsPeek == Spec => PeekInvisible
<1>1. PortsInv /\ [Next]_vars =>
        [\A p \in held :
           call' = <<"peek-char", p>> /\ reply' \notin {Eof, Error, Abort, CR} =>
             Take(S, p).reply = reply' /\ Take(S, p) = Take(S, p)']_vars
  BY StepPeeks
<1> QED BY <1>1, PortsInvariant, PTL DEF Spec, PeekInvisible
=============================================================================
