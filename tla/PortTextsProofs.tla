-------------------------- MODULE PortTextsProofs ---------------------------
(***************************************************************************)
(* What the text ports of module Ports make of texts, for every program:   *)
(* what is written comes to the file line by line, what is read is what    *)
(* the file says, and the position is that of the text.  Each operator of  *)
(* the model keeps, for every port that has its bytes for itself, what     *)
(* WriterSays and ReaderSays say of the bytes, and what Untouched says of  *)
(* bytes no text port is over yet.                                         *)
(***************************************************************************)
EXTENDS PortsProofs

(* It has a greatest if it is bounded: a search from above ends there.     *)
LEMMA GreatestExists ==
  ASSUME NEW n \in Nat, NEW A, A \subseteq 0 .. n, A # {}
  PROVE  \E m \in A : \A k \in A : k <= m
<1> DEFINE T == {n - k : k \in A}
<1>1. T \subseteq Nat /\ T # {}
  <2>1. \A k \in A : n - k \in Nat
    OBVIOUS
  <2> QED BY <2>1
<1>2. PICK t \in T : \A k \in T : t <= k
  BY <1>1, LeastExists
<1>3. PICK m \in A : t = n - m
  OBVIOUS
<1>4. \A k \in A : n - k \in T
  OBVIOUS
<1> HIDE DEF T
<1> QED
  BY <1>2, <1>3, <1>4
-----------------------------------------------------------------------------
(* Texts that grow.                                                        *)

EndsCR(text) == text # << >> /\ text[Len(text)] = CR

(* A text that got one more character.                                     *)
LEMMA Appended ==
  ASSUME NEW text \in Seq(Characters), NEW c \in Characters
  PROVE  /\ Append(text, c) \in Seq(Characters) /\ Len(text) \in Nat
         /\ Len(Append(text, c)) = Len(text) + 1
         /\ DOMAIN text = 1 .. Len(text) /\ DOMAIN Append(text, c) = 1 .. Len(text) + 1
         /\ Append(text, c)[Len(text) + 1] = c
         /\ \A i \in 1 .. Len(text) : i \in 1 .. Len(text) + 1 /\ Append(text, c)[i] = text[i]
OBVIOUS

(* It ends in CR if that is what it got.                                   *)
LEMMA EndsAdd ==
  ASSUME NEW text \in Seq(Characters), NEW c \in Characters
  PROVE  EndsCR(Append(text, c)) <=> c = CR
<1>1. Len(Append(text, c)) # 0 /\ Len(<< >>) = 0
  BY Appended
<1>2. Append(text, c) # << >>
  BY ONLY <1>1, Zenon
<1> QED BY <1>2, Appended DEF EndsCR

(* The row of a text is one more after a LF.                               *)
LEMMA RowAdd ==
  ASSUME NEW text \in Seq(Characters), NEW c \in Characters
  PROVE  /\ Row(text) \in Nat
         /\ Row(Append(text, c)) = IF c = LF THEN Row(text) + 1 ELSE Row(text)
<1> DEFINE n == Len(text)
           A == {i \in 1 .. n : text[i] = LF}
           B == {i \in 1 .. n + 1 : Append(text, c)[i] = LF}
<1>0. /\ n \in Nat /\ DOMAIN text = 1 .. n /\ DOMAIN Append(text, c) = 1 .. n + 1
      /\ Append(text, c)[n + 1] = c
      /\ \A i \in 1 .. n : i \in 1 .. n + 1 /\ Append(text, c)[i] = text[i]
  BY Appended
<1>1. Row(text) = 1 + Cardinality(A) /\ Row(Append(text, c)) = 1 + Cardinality(B)
  BY <1>0 DEF Row
<1>2. \A i \in 1 .. n + 1 : i \in 1 .. n \/ i = n + 1
  BY <1>0
<1>3. n + 1 \notin 1 .. n /\ n + 1 \in 1 .. n + 1
  BY <1>0
<1>4. B = IF c = LF THEN A \cup {n + 1} ELSE A
  BY <1>0, <1>2, <1>3
<1>5. IsFiniteSet(A) /\ n + 1 \notin A
  <2>1. IsFiniteSet(1 .. n)
    BY <1>0, FS_Interval
  <2>2. A \subseteq 1 .. n
    OBVIOUS
  <2> QED BY <1>3, <2>1, <2>2, FS_Subset
<1> HIDE DEF A, B
<1>6. Cardinality(A) \in Nat /\ Cardinality(A \cup {n + 1}) = Cardinality(A) + 1
  BY <1>5, FS_AddElement, FS_CardinalityType
<1> QED BY <1>1, <1>4, <1>6

(* What the lines of a text are after n characters, those before being f.  *)
LinesTo(f, text, n) ==
    IF n = 0 THEN << >>
    ELSE IF text[n] = LF /\ n > 1 /\ text[n - 1] = CR THEN f[n - 1]
    ELSE Append(f[n - 1], IF text[n] = CR THEN LF ELSE text[n])

Lined(f, text) == f = [n \in 0 .. Len(text) |-> LinesTo(f, text, n)]

LinedTo(f, text, N) == \A n \in 0 .. N : f[n] = LinesTo(f, text, n)

(* Two texts begin alike.                                                  *)
Begin(a, b, N) == \A n \in 1 .. N : a[n] = b[n]

(* They are sequences of characters.                                       *)
LEMMA LinesExist ==
  ASSUME NEW text \in Seq(Characters)
  PROVE  \E f \in [0 .. Len(text) -> Seq(Characters)] : Lined(f, text)
<1> DEFINE D == Seq(Characters)
           N == Len(text)
           more(l, n) == IF text[n] = LF /\ n > 1 /\ text[n - 1] = CR THEN l
                         ELSE Append(l, IF text[n] = CR THEN LF ELSE text[n])
           G == [x \in D \X (1 .. N) |-> more(x[1], x[2])]
<1>0. LF \in Characters
  BY DEF Characters
<1>1. N \in Nat /\ << >> \in D /\ LF \in Characters /\ \A n \in 1 .. N : text[n] \in Characters
  BY <1>0
<1>2. \A l \in D, n \in 1 .. N : more(l, n) \in D
  BY <1>1
<1> HIDE DEF more, D, N
<1>3. G \in [D \X (1 .. N) -> D]
  BY <1>2
<1>4. \A l \in D, n \in 1 .. N : G[<<l, n>>] = more(l, n)
  OBVIOUS
<1> HIDE DEF G
<1>5. PICK g \in [0 .. N -> D] : Iterates(g, N, << >>, G)
  BY <1>1, <1>3, IterationExists
<1>6. g[0] = << >> /\ \A n \in 1 .. N : g[n] = more(g[n - 1], n)
  <2>1. \A n \in 1 .. N : n - 1 \in 0 .. N
    BY <1>1
  <2> QED BY <1>4, <1>5, <2>1 DEF Iterates
<1>7. \A n \in 0 .. N : g[n] = LinesTo(g, text, n)
  <2>1. \A n \in 0 .. N : n = 0 \/ n \in 1 .. N
    BY <1>1
  <2>2. \A n \in 1 .. N : n # 0
    BY <1>1
  <2> QED BY <1>6, <2>1, <2>2 DEF LinesTo, more
<1> QED BY <1>7 DEF Lined, N, D

(* There is one way to count them.                                         *)
LEMMA LinesAgree ==
  ASSUME NEW N \in Nat, NEW a, NEW b, NEW f, NEW g,
         Begin(a, b, N), LinedTo(f, a, N), LinedTo(g, b, N)
  PROVE  f[N] = g[N]
<1> DEFINE Bad == {n \in 0 .. N : f[n] # g[n]}
<1>1. CASE Bad = {}
  BY <1>1
<1>2. CASE Bad # {}
  <2>0. Bad \subseteq Nat
    OBVIOUS
  <2>1. PICK m \in Bad : \A k \in Bad : m <= k
    <3> HIDE DEF Bad
    <3> QED BY <1>2, <2>0, LeastExists
  <2>2. CASE m = 0
    <3>1. 0 \in 0 .. N
      OBVIOUS
    <3>2. f[0] = << >> /\ g[0] = << >>
      BY <3>1 DEF LinesTo, LinedTo
    <3> QED BY <2>1, <2>2, <3>2
  <2>3. CASE m # 0
    <3>1. m \in 1 .. N /\ m - 1 \in 0 .. N /\ m - 1 \notin Bad /\ m \in Nat
      BY <2>1, <2>3
    <3>2. f[m - 1] = g[m - 1] /\ a[m] = b[m]
      BY <3>1 DEF Begin
    <3>3. m > 1 => a[m - 1] = b[m - 1]
      BY <3>1 DEF Begin
    <3>4. f[m] = LinesTo(f, a, m) /\ g[m] = LinesTo(g, b, m)
      BY <3>1 DEF LinedTo
    <3> HIDE DEF Bad
    <3>5. LinesTo(f, a, m) = LinesTo(g, b, m)
      BY <2>3, <3>2, <3>3 DEF LinesTo
    <3> QED BY <2>1, <3>4, <3>5 DEF Bad
  <2> QED BY <2>2, <2>3
<1> QED BY <1>1, <1>2

(* The lines of a text are the last of them.                               *)
LEMMA LinesAre ==
  ASSUME NEW text \in Seq(Characters)
  PROVE  \E f \in [0 .. Len(text) -> Seq(Characters)] :
           /\ LinedTo(f, text, Len(text))
           /\ Lines(text) = f[Len(text)] /\ f[Len(text)] \in Seq(Characters)
<1> DEFINE h == CHOOSE f : Lined(f, text)
<1>1. PICK g \in [0 .. Len(text) -> Seq(Characters)] : Lined(g, text)
  BY LinesExist
<1>2. Lined(h, text)
  BY <1>1
<1>3. Lines(text) = h[Len(text)]
  BY DEF Lines, Lined, LinesTo
<1> HIDE DEF h
<1>4. Len(text) \in Nat
  OBVIOUS
<1>5. LinedTo(h, text, Len(text)) /\ LinedTo(g, text, Len(text)) /\ Begin(text, text, Len(text))
  BY <1>1, <1>2 DEF Lined, LinedTo, Begin
<1>6. h[Len(text)] = g[Len(text)]
  BY <1>4, <1>5, LinesAgree
<1>7. g[Len(text)] \in Seq(Characters)
  BY <1>4
<1> QED BY <1>3, <1>5, <1>6, <1>7

(* A LF after a CR adds nothing to the lines; every other character adds   *)
(* itself, a CR as a LF.                                                   *)
LEMMA LinesAdd ==
  ASSUME NEW text \in Seq(Characters), NEW c \in Characters
  PROVE  /\ Lines(text) \in Seq(Characters)
         /\ Lines(Append(text, c)) =
              IF c = LF /\ EndsCR(text) THEN Lines(text)
              ELSE Append(Lines(text), IF c = CR THEN LF ELSE c)
<1> DEFINE more == Append(text, c)
           N == Len(text)
<1>1. /\ more \in Seq(Characters) /\ Len(more) = N + 1 /\ more[N + 1] = c /\ N \in Nat
      /\ \A i \in 1 .. N : more[i] = text[i]
  BY Appended
<1> HIDE DEF more, N
<1>2. PICK f : /\ LinedTo(f, text, N)
               /\ Lines(text) = f[N] /\ f[N] \in Seq(Characters)
  BY LinesAre DEF N
<1>3. PICK g : /\ LinedTo(g, more, N + 1)
               /\ Lines(more) = g[N + 1]
  BY <1>1, LinesAre
<1>4. f[N] = g[N]
  <2>1. Begin(text, more, N)
    BY <1>1 DEF Begin
  <2>2. LinedTo(g, more, N)
    BY <1>1, <1>3 DEF LinedTo
  <2> QED BY <1>1, <1>2, <2>1, <2>2, LinesAgree
<1>5. Lines(more) = LinesTo(g, more, N + 1) /\ N + 1 # 0 /\ N + 1 - 1 = N
  BY <1>1, <1>3 DEF LinedTo
<1>6. N + 1 > 1 => more[N] = text[N]
  BY <1>1
<1>7. EndsCR(text) <=> N + 1 > 1 /\ text[N] = CR
  <2>1. text # << >> <=> N + 1 > 1
    BY <1>1 DEF N
  <2> QED BY <2>1 DEF EndsCR, N
<1>8. LinesTo(g, more, N + 1) =
        IF c = LF /\ EndsCR(text) THEN g[N] ELSE Append(g[N], IF c = CR THEN LF ELSE c)
  <2>1. LinesTo(g, more, N + 1) =
          IF more[N + 1] = LF /\ N + 1 > 1 /\ more[N] = CR THEN g[N]
          ELSE Append(g[N], IF more[N + 1] = CR THEN LF ELSE more[N + 1])
    <3>1. PICK k : k = N + 1
      OBVIOUS
    <3>2. k # 0 /\ k - 1 = N
      BY <1>1, <3>1
    <3>3. LinesTo(g, more, k) =
            IF more[k] = LF /\ k > 1 /\ more[k - 1] = CR THEN g[k - 1]
            ELSE Append(g[k - 1], IF more[k] = CR THEN LF ELSE more[k])
      BY <3>2, Zenon DEF LinesTo
    <3> QED BY <3>1, <3>2, <3>3
  <2>2. N + 1 > 1 /\ more[N] = CR <=> EndsCR(text)
    BY <1>6, <1>7
  <2> QED BY <1>1, <2>1, <2>2
<1> QED BY <1>2, <1>4, <1>5, <1>8 DEF more

(* A text of no character is in the first row and column.                  *)
LEMMA EmptyText ==
  ASSUME NEW ends, NEW skipped
  PROVE  /\ Row(<< >>) = 1 /\ Column(<< >>, ends, skipped) = 0
         /\ Lines(<< >>) = << >> /\ ~EndsCR(<< >>) /\ Paired(<< >>, FALSE)
<1>1. DOMAIN << >> = {} /\ Len(<< >>) = 0
  OBVIOUS
<1>2. Row(<< >>) = 1
  BY <1>1, FS_EmptySet DEF Row
<1>3. Column(<< >>, ends, skipped) = 0
  <2> DEFINE starts == {0} \cup {i \in DOMAIN << >> : << >>[i] \in ends}
  <2>1. starts = {0}
    BY <1>1
  <2>2. Max(starts) = 0
    BY <2>1 DEF Max
  <2>3. Column(<< >>, ends, skipped) =
          Cardinality({i \in Max(starts) + 1 .. Len(<< >>) : << >>[i] \notin skipped})
    BY DEF Column
  <2> HIDE DEF starts
  <2>4. Max(starts) + 1 .. Len(<< >>) = {}
    BY <2>2
  <2> QED BY <2>3, <2>4, FS_EmptySet
<1>4. Lines(<< >>) = << >>
  <2>1. << >> \in Seq(Characters) /\ 0 \in 0 .. 0
    OBVIOUS
  <2>2. PICK f : LinedTo(f, << >>, 0) /\ Lines(<< >>) = f[0]
    BY <1>1, <2>1, LinesAre
  <2> QED BY <2>1, <2>2 DEF LinesTo, LinedTo
<1> QED BY <1>1, <1>2, <1>3, <1>4 DEF EndsCR, Paired

(* The greatest element of a bounded set of numbers.                       *)
LEMMA MaxIs ==
  ASSUME NEW n \in Nat, NEW A, A \subseteq 0 .. n, A # {}
  PROVE  Max(A) \in A /\ \A k \in A : k <= Max(A)
<1>1. PICK m \in A : \A k \in A : k <= m
  BY GreatestExists
<1>2. \A k \in A : m >= k
  BY <1>1
<1>3. Max(A) \in A /\ \A k \in A : Max(A) >= k
  BY <1>2 DEF Max
<1>4. \A k \in A : k \in Nat
  OBVIOUS
<1> QED BY <1>3, <1>4

(* The column of a text is 0 after an end of line, and one more after a    *)
(* character that is not skipped.                                          *)
LEMMA ColumnAdd ==
  ASSUME NEW text \in Seq(Characters), NEW c \in Characters, NEW ends, NEW skipped
  PROVE  /\ Column(text, ends, skipped) \in Nat
         /\ Column(Append(text, c), ends, skipped) =
              IF c \in ends THEN 0
              ELSE IF c \in skipped THEN Column(text, ends, skipped)
              ELSE Column(text, ends, skipped) + 1
<1> DEFINE n == Len(text)
           more == Append(text, c)
           A == {0} \cup {i \in 1 .. n : text[i] \in ends}
           B == {0} \cup {i \in 1 .. n + 1 : more[i] \in ends}
           X == {i \in Max(A) + 1 .. n : text[i] \notin skipped}
           Y == {i \in Max(B) + 1 .. n + 1 : more[i] \notin skipped}
<1>0. /\ n \in Nat /\ DOMAIN text = 1 .. n /\ DOMAIN more = 1 .. n + 1 /\ Len(more) = n + 1
      /\ more[n + 1] = c
      /\ \A i \in 1 .. n : i \in 1 .. n + 1 /\ more[i] = text[i]
  BY Appended
<1>1. Column(text, ends, skipped) = Cardinality(X) /\ Column(more, ends, skipped) = Cardinality(Y)
  BY <1>0 DEF Column
<1> HIDE DEF more, n, X, Y
<1>2. A \subseteq 0 .. n /\ A # {} /\ B \subseteq 0 .. n + 1 /\ B # {} /\ n + 1 \in Nat
  BY <1>0
<1>3. \A i \in 1 .. n + 1 : i \in 1 .. n \/ i = n + 1
  BY <1>0
<1>4. n + 1 \notin 1 .. n /\ n + 1 \in 1 .. n + 1 /\ n + 1 # 0
  BY <1>0
<1>5. B = IF c \in ends THEN A \cup {n + 1} ELSE A
  BY <1>0, <1>3, <1>4
<1> HIDE DEF A, B
<1>6. Max(A) \in A /\ \A k \in A : k <= Max(A)
  BY <1>0, <1>2, MaxIs
<1>7. Max(B) \in B /\ \A k \in B : k <= Max(B)
  BY <1>2, MaxIs
<1>8. Max(A) \in 0 .. n /\ Max(B) \in 0 .. n + 1
  BY <1>2, <1>6, <1>7
<1>9. IsFiniteSet(X) /\ Cardinality(X) \in Nat /\ n + 1 \notin X
  <2>1. IsFiniteSet(Max(A) + 1 .. n)
    BY <1>0, <1>8, FS_Interval
  <2>2. X \subseteq Max(A) + 1 .. n
    BY DEF X
  <2>3. n + 1 \notin Max(A) + 1 .. n
    BY <1>0, <1>8
  <2> QED BY <2>1, <2>2, <2>3, FS_Subset, FS_CardinalityType
<1>10. CASE c \in ends
  <2>1. n + 1 \in B
    BY <1>5, <1>10
  <2>2. Max(B) = n + 1
    BY <1>0, <1>7, <1>8, <2>1
  <2>3. Max(B) + 1 .. n + 1 = {}
    BY <1>0, <2>2
  <2>4. Y = {}
    BY <2>3 DEF Y
  <2> QED BY <1>1, <1>9, <1>10, <2>4, FS_EmptySet DEF more
<1>11. CASE c \notin ends
  <2>1. Max(B) = Max(A)
    BY <1>5, <1>11
  <2>2. \A i \in Max(A) + 1 .. n + 1 : i \in Max(A) + 1 .. n \/ i = n + 1
    BY <1>0, <1>8
  <2>3. \A i \in Max(A) + 1 .. n : i \in Max(A) + 1 .. n + 1 /\ more[i] = text[i]
    BY <1>0, <1>8
  <2>4. n + 1 \in Max(A) + 1 .. n + 1
    BY <1>0, <1>8
  <2>5. Y = IF c \in skipped THEN X ELSE X \cup {n + 1}
    BY <1>0, <2>1, <2>2, <2>3, <2>4 DEF X, Y
  <2>6. Cardinality(X \cup {n + 1}) = Cardinality(X) + 1
    BY <1>9, FS_AddElement
  <2> QED BY <1>1, <1>9, <1>11, <2>5, <2>6 DEF more
<1> QED BY <1>10, <1>11

(* A paired text that waits for nothing, or for the LF it gets.            *)
LEMMA PairedAdd ==
  ASSUME NEW text \in Seq(Characters), NEW c \in Characters, NEW waits \in BOOLEAN,
         Paired(text, waits), waits <=> EndsCR(text), c = LF <=> waits
  PROVE  Paired(Append(text, c), c = CR)
<1> DEFINE n == Len(text)
           more == Append(text, c)
<1>0. /\ n \in Nat /\ DOMAIN text = 1 .. n /\ DOMAIN more = 1 .. n + 1 /\ Len(more) = n + 1
      /\ more[n + 1] = c
      /\ \A i \in 1 .. n : i \in 1 .. n + 1 /\ more[i] = text[i]
  BY Appended
<1>1. EndsCR(text) <=> n >= 1 /\ text[n] = CR
  <2>1. text # << >> <=> n >= 1
    BY <1>0
  <2> QED BY <2>1 DEF EndsCR
<1> HIDE DEF more, n
<1>2. ASSUME NEW i \in 1 .. n + 1
      PROVE  /\ more[i] = CR => IF i < n + 1 THEN more[i + 1] = LF ELSE c = CR
             /\ more[i] = LF => i > 1 /\ more[i - 1] = CR
  <2>1. CASE i < n
    <3>1. i \in 1 .. n /\ i + 1 \in 1 .. n /\ i < n + 1 /\ (i > 1 => i - 1 \in 1 .. n)
      BY <1>0, <2>1
    <3>2. /\ text[i] = CR => text[i + 1] = LF
          /\ text[i] = LF => i > 1 /\ text[i - 1] = CR
      BY <1>0, <2>1, <3>1 DEF Paired, n
    <3> QED BY <1>0, <3>1, <3>2
  <2>2. CASE i = n
    <3>1. i \in 1 .. n /\ i < n + 1 /\ ~(i < n) /\ (i > 1 => i - 1 \in 1 .. n) /\ i >= 1
      BY <1>0, <2>2
    <3>2. /\ text[i] = CR => waits
          /\ text[i] = LF => i > 1 /\ text[i - 1] = CR
      BY <1>0, <2>2, <3>1 DEF Paired, n
    <3> QED BY <1>0, <2>2, <3>1, <3>2
  <2>3. CASE i = n + 1
    <3>1. ~(i < n + 1) /\ (n >= 1 => i > 1 /\ n \in 1 .. n) /\ i - 1 = n
      BY <1>0, <2>3
    <3> QED BY <1>0, <1>1, <2>3, <3>1
  <2> QED BY <1>0, <2>1, <2>2, <2>3
<1> QED BY <1>0, <1>2 DEF Paired, more, n
-----------------------------------------------------------------------------
(* What a port and its text have to do with each other.                    *)

(* A writer owes a LF only while it translates, and until it is closed.    *)
Owing(port) ==
    port.class = "text" /\ "output" \in port.made /\ port.needs_lf =>
      port.translate /\ (port.mode # {} \/ port.freed)

(* What was written to a port, and what came to its file.                  *)
WriterSays(port, bytes, said) ==
    /\ port.needs_lf => port.col = 0
    /\ At(port, Row(bytes), Column(bytes, {CR, LF}, {}))
    /\ ~port.toggled =>
         IF port.translate
           THEN /\ Lines(bytes) = Lines(said) /\ Paired(bytes, port.needs_lf)
                /\ port.needs_lf <=> EndsCR(said)
                /\ port.needs_lf <=> EndsCR(bytes)
           ELSE bytes = said

(* What a port was read for, and the bytes that were used for it.          *)
ReaderSays(port, used, said) ==
    ~port.toggled =>
      /\ port.translate = Crlf
      /\ said = IF Crlf THEN Lines(used) ELSE used
      /\ Crlf => (port.needs_lf <=> EndsCR(used))

(* The port that gave the LF it owed, and one that was given a character.  *)
Emitted(port) == [port EXCEPT !.needs_lf = FALSE, !.row = @ + 1]

Typed(port, c) ==
    IF c = CR THEN [port EXCEPT !.col = 0, !.needs_lf = port.translate] ELSE Move(port, c)

(* The bytes that a character comes to.                                    *)
Typing(port, bytes, c) ==
    IF c = LF /\ port.translate THEN Append(Append(bytes, CR), LF) ELSE Append(bytes, c)

(* The port that read a byte, and what it answers.                         *)
Heard(port, b) ==
    IF ~port.translate THEN port
    ELSE IF b = CR THEN [port EXCEPT !.needs_lf = TRUE]
    ELSE IF port.needs_lf THEN [port EXCEPT !.needs_lf = FALSE]
    ELSE port

Answer(port, b) ==
    IF port.translate /\ b = CR THEN LF
    ELSE IF port.translate /\ port.needs_lf /\ b = LF THEN Skip
    ELSE b

(* The characters are different.                                           *)
LEMMA CharactersDiffer ==
    /\ CR \in Characters /\ LF \in Characters /\ CR # LF
    /\ \A c \in Characters : c # Skip /\ c # Eof /\ c # Abort
    /\ Skip \notin {Eof, Abort} /\ Eof # Abort
BY DEF Characters, CR, LF, Skip, Eof, Abort

(* A port of a sound system, field by field.                               *)
LEMMA FieldTypes ==
  ASSUME NEW F, NEW port, Sound(F, port)
  PROVE  /\ port \in PortRecords(F)
         /\ port.translate \in BOOLEAN /\ port.needs_lf \in BOOLEAN /\ port.toggled \in BOOLEAN
         /\ port.col \in Nat /\ port.row \in Nat /\ port.pos \in Nat /\ port.from \in Nat
         /\ port.passed \in Seq(Characters) /\ port.pbuf \in Seq(Characters)
BY DEF Sound, PortRecords

(* The fields that writing changes.                                        *)
LEMMA EmittedFields ==
  ASSUME NEW F, NEW port, Sound(F, port)
  PROVE  /\ Emitted(port).needs_lf = FALSE /\ Emitted(port).row = port.row + 1
         /\ Emitted(port).col = port.col /\ Emitted(port).toggled = port.toggled
         /\ Emitted(port).translate = port.translate
<1>1. port \in PortRecords(F)
  BY FieldTypes
<1> QED BY <1>1 DEF PortRecords, Emitted

(* The same of a character.                                                *)
LEMMA TypedFields ==
  ASSUME NEW F, NEW port, Sound(F, port), NEW c
  PROVE  /\ c = CR => /\ Typed(port, c).needs_lf = port.translate /\ Typed(port, c).col = 0
                      /\ Typed(port, c).row = port.row
         /\ c = LF => /\ Typed(port, c).needs_lf = port.needs_lf /\ Typed(port, c).col = 0
                      /\ Typed(port, c).row = port.row + 1
         /\ c \notin {CR, LF} => /\ Typed(port, c).needs_lf = port.needs_lf
                                 /\ Typed(port, c).col = port.col + 1
                                 /\ Typed(port, c).row = port.row
         /\ Typed(port, c).toggled = port.toggled
         /\ Typed(port, c).translate = port.translate
<1>1. port \in PortRecords(F)
  BY FieldTypes
<1> QED BY <1>1, CharactersDiffer DEF PortRecords, Typed, Move

(* The owed LF changes nothing of what was written.                        *)
LEMMA EmitSays ==
  ASSUME NEW F, NEW port, Sound(F, port), NEW bytes \in Seq(Characters), NEW said \in Seq(Characters),
         WriterSays(port, bytes, said), port.needs_lf, port.translate
  PROVE  WriterSays(Emitted(port), Append(bytes, LF), Append(said, LF))
<1> DEFINE e == Emitted(port)
<1>1. /\ e.needs_lf = FALSE /\ e.row = port.row + 1 /\ e.col = port.col
      /\ e.toggled = port.toggled /\ e.translate = port.translate
  BY EmittedFields
<1>2. /\ port.col = 0 /\ port.row = Row(bytes)
      /\ ~port.toggled => /\ Lines(bytes) = Lines(said) /\ Paired(bytes, TRUE)
                          /\ EndsCR(said) /\ EndsCR(bytes)
  <2>1. port.needs_lf = TRUE
    BY FieldTypes
  <2> QED BY <2>1 DEF WriterSays, At
<1> HIDE DEF e
<1>3. At(e, Row(Append(bytes, LF)), Column(Append(bytes, LF), {CR, LF}, {}))
  BY <1>1, <1>2, RowAdd, ColumnAdd, CharactersDiffer DEF At
<1>4. ASSUME ~port.toggled
      PROVE  /\ Lines(Append(bytes, LF)) = Lines(Append(said, LF))
             /\ Paired(Append(bytes, LF), FALSE)
             /\ ~EndsCR(Append(said, LF)) /\ ~EndsCR(Append(bytes, LF))
  <2>1. Paired(Append(bytes, LF), LF = CR)
    BY <1>2, <1>4, PairedAdd, CharactersDiffer
  <2>2. (LF = CR) = FALSE
    BY CharactersDiffer
  <2>3. Paired(Append(bytes, LF), FALSE)
    BY <2>1, <2>2
  <2> QED BY <1>2, <1>4, <2>3, LinesAdd, EndsAdd, CharactersDiffer
<1>5. WriterSays(e, Append(bytes, LF), Append(said, LF))
  BY <1>1, <1>2, <1>3, <1>4 DEF WriterSays
<1> QED BY <1>5 DEF e

(* A character given to a port that owes nothing comes to the file, a LF   *)
(* after the CR it needs.                                                  *)
LEMMA TypeSays ==
  ASSUME NEW F, NEW port, Sound(F, port), NEW bytes \in Seq(Characters), NEW said \in Seq(Characters),
         WriterSays(port, bytes, said), ~port.needs_lf, NEW c \in Characters
  PROVE  /\ Typing(port, bytes, c) \in Seq(Characters)
         /\ WriterSays(Typed(port, c), Typing(port, bytes, c), Append(said, c))
<1> DEFINE e == Typed(port, c)
           x == Append(bytes, c)
           y == Append(bytes, CR)
           z == Append(y, LF)
           w == Typing(port, bytes, c)
<1>1. /\ c = CR => e.needs_lf = port.translate /\ e.col = 0 /\ e.row = port.row
      /\ c = LF => e.needs_lf = FALSE /\ e.col = 0 /\ e.row = port.row + 1
      /\ c \notin {CR, LF} => e.needs_lf = FALSE /\ e.col = port.col + 1 /\ e.row = port.row
      /\ e.toggled = port.toggled /\ e.translate = port.translate
      /\ port.needs_lf = FALSE
  BY TypedFields, FieldTypes
<1>2. /\ port.row = Row(bytes) /\ port.col = Column(bytes, {CR, LF}, {})
      /\ ~port.toggled /\ port.translate =>
            /\ Lines(bytes) = Lines(said) /\ Paired(bytes, FALSE)
            /\ ~EndsCR(said) /\ ~EndsCR(bytes)
      /\ ~port.toggled /\ ~port.translate => bytes = said
  BY <1>1 DEF WriterSays, At
<1>3. x \in Seq(Characters) /\ y \in Seq(Characters) /\ z \in Seq(Characters)
      /\ (EndsCR(x) <=> c = CR) /\ EndsCR(y) /\ ~EndsCR(z) /\ CR # LF
      /\ w = IF c = LF /\ port.translate THEN z ELSE x
  <2>1. x \in Seq(Characters) /\ y \in Seq(Characters) /\ CR # LF
        /\ LF \in Characters /\ CR \in Characters
    BY Appended, CharactersDiffer
  <2>2. z \in Seq(Characters)
    BY <2>1, Appended
  <2> QED BY <2>1, <2>2, EndsAdd DEF Typing
<1>4. /\ Row(x) = (IF c = LF THEN Row(bytes) + 1 ELSE Row(bytes))
      /\ Row(y) = Row(bytes) /\ Row(z) = Row(y) + 1
      /\ Column(x, {CR, LF}, {}) = IF c \in {CR, LF} THEN 0 ELSE Column(bytes, {CR, LF}, {}) + 1
      /\ Column(z, {CR, LF}, {}) = 0
  <2>1. y \in Seq(Characters) /\ CR # LF /\ LF \in Characters /\ CR \in Characters
    BY <1>3, CharactersDiffer
  <2> HIDE DEF y
  <2>2. Row(z) = Row(y) + 1 /\ Column(z, {CR, LF}, {}) = 0
    BY <2>1, RowAdd, ColumnAdd
  <2>3. Row(y) = Row(bytes)
    BY <2>1, RowAdd DEF y
  <2> QED BY <2>2, <2>3, RowAdd, ColumnAdd
<1>5. ASSUME ~port.toggled, port.translate
      PROVE  /\ Lines(w) = Lines(Append(said, c)) /\ Paired(w, e.needs_lf)
             /\ e.needs_lf <=> EndsCR(Append(said, c))
             /\ e.needs_lf <=> EndsCR(w)
  <2>0. (EndsCR(Append(said, c)) <=> c = CR) /\ (e.needs_lf <=> c = CR)
    BY <1>1, <1>3, <1>5, EndsAdd
  <2>1. CASE c = LF
    <3>1. w = z
      BY <1>3, <1>5, <2>1
    <3>2. Lines(Append(said, LF)) = Append(Lines(said), LF)
      BY <1>2, <1>5, LinesAdd, CharactersDiffer
    <3>3. Lines(y) = Append(Lines(bytes), LF) /\ Lines(z) = Lines(y)
      <4> HIDE DEF y
      <4>1. Lines(z) = Lines(y)
        BY <1>3, LinesAdd, CharactersDiffer
      <4>2. Lines(y) = Append(Lines(bytes), LF)
        BY LinesAdd, CharactersDiffer DEF y
      <4> QED BY <4>1, <4>2
    <3>4. Paired(y, TRUE)
      <4>1. Paired(y, CR = CR)
        BY <1>2, <1>3, <1>5, PairedAdd, CharactersDiffer
      <4> QED BY <4>1
    <3>5. Paired(z, FALSE)
      <4> HIDE DEF y
      <4>1. Paired(z, LF = CR)
        BY <1>3, <3>4, PairedAdd, CharactersDiffer
      <4>2. (LF = CR) = FALSE
        BY <1>3
      <4> QED BY <4>1, <4>2
    <3> HIDE DEF z, y, w, e
    <3> QED BY <1>1, <1>2, <1>3, <1>5, <2>0, <2>1, <3>1, <3>2, <3>3, <3>5
  <2>2. CASE c # LF
    <3>1. w = x
      BY <1>3, <2>2
    <3>2. Lines(Append(said, c)) = Append(Lines(said), IF c = CR THEN LF ELSE c)
      BY <2>2, LinesAdd
    <3>3. Lines(x) = Append(Lines(bytes), IF c = CR THEN LF ELSE c)
      BY <2>2, LinesAdd
    <3>4. Paired(x, c = CR)
      BY <1>2, <1>5, <2>2, PairedAdd
    <3>5. e.needs_lf = (c = CR)
      BY <1>1, <1>5, <2>2, CharactersDiffer
    <3> HIDE DEF x, w, e
    <3> QED BY <1>2, <1>3, <1>5, <2>0, <3>1, <3>2, <3>3, <3>4, <3>5
  <2> QED BY <2>1, <2>2
<1>6. ~port.toggled /\ ~port.translate => w = Append(said, c)
  BY <1>2, <1>3
<1>7. e.needs_lf => e.col = 0
  BY <1>1
<1>8. At(e, Row(w), Column(w, {CR, LF}, {}))
  <2>0. Row(bytes) \in Nat /\ Column(bytes, {CR, LF}, {}) \in Nat
    BY RowAdd, ColumnAdd, CharactersDiffer
  <2> HIDE DEF x, y, z, w, e
  <2> QED BY <1>1, <1>2, <1>3, <1>4, <2>0 DEF At
<1>9. w \in Seq(Characters)
  BY <1>3
<1> HIDE DEF e, w
<1>10. WriterSays(e, w, Append(said, c))
  BY <1>1, <1>5, <1>6, <1>7, <1>8 DEF WriterSays
<1> QED BY <1>9, <1>10 DEF e, w

(* A character given to a port that owes a LF is preceded by it.           *)
LEMMA OwedSays ==
  ASSUME NEW F, NEW port, Sound(F, port), NEW bytes \in Seq(Characters), NEW said \in Seq(Characters),
         WriterSays(port, bytes, said), port.needs_lf, port.translate, NEW c \in Characters, c # LF
  PROVE  WriterSays(Typed(Emitted(port), c), Typing(Emitted(port), Append(bytes, LF), c),
                    Append(said, c))
<1> DEFINE e == Emitted(port)
           b == Append(bytes, LF)
           d == Append(said, LF)
           t == Typed(e, c)
           w == Typing(e, b, c)
<1>1. Sound(F, e)
  BY EmittedSound DEF Emitted
<1>2. b \in Seq(Characters) /\ d \in Seq(Characters) /\ ~EndsCR(d)
  BY Appended, EndsAdd, CharactersDiffer
<1>3. WriterSays(e, b, d)
  BY EmitSays
<1>4. ~e.needs_lf /\ e.translate /\ e.toggled = port.toggled
  BY EmittedFields
<1> HIDE DEF e, b
<1>5. WriterSays(t, w, Append(d, c))
  <2> HIDE DEF d, t, w
  <2> QED BY <1>1, <1>2, <1>3, <1>4, TypeSays DEF t, w
<1>6. t.toggled = e.toggled /\ t.translate
  BY <1>1, <1>4, TypedFields
<1>7. EndsCR(Append(d, c)) <=> EndsCR(Append(said, c))
  BY <1>2, EndsAdd
<1>8. ~port.toggled => Lines(Append(d, c)) = Lines(Append(said, c))
  <2>1. ~port.toggled => EndsCR(said)
    BY DEF WriterSays
  <2>2. Lines(Append(d, c)) = Append(Lines(d), IF c = CR THEN LF ELSE c)
    <3> HIDE DEF d
    <3> QED BY <1>2, LinesAdd
  <2>3. Lines(Append(said, c)) = Append(Lines(said), IF c = CR THEN LF ELSE c)
    BY LinesAdd
  <2>4. EndsCR(said) => Lines(d) = Lines(said)
    BY LinesAdd, CharactersDiffer
  <2> QED BY <2>1, <2>2, <2>3, <2>4
<1> HIDE DEF t, w, d
<1>9. WriterSays(t, w, Append(said, c))
  BY <1>4, <1>5, <1>6, <1>7, <1>8 DEF WriterSays
<1> QED BY <1>9 DEF t, w, e, b

(* A byte that is read adds what it means.                                 *)
LEMMA HearSays ==
  ASSUME NEW F, NEW port, Sound(F, port), NEW used \in Seq(Characters), NEW said \in Seq(Characters),
         ReaderSays(port, used, said), NEW b \in Characters
  PROVE  ReaderSays(Heard(port, b), Append(used, b),
                    IF Answer(port, b) = Skip THEN said ELSE Append(said, Answer(port, b)))
<1> DEFINE e == Heard(port, b)
<1>1. /\ e.toggled = port.toggled /\ e.translate = port.translate
      /\ e.needs_lf = IF ~port.translate THEN port.needs_lf ELSE b = CR
  <2>1. port \in PortRecords(F)
    BY FieldTypes
  <2> QED BY <2>1 DEF Heard, PortRecords
<1>2. Answer(port, b) = IF port.translate /\ b = CR THEN LF
                        ELSE IF port.translate /\ port.needs_lf /\ b = LF THEN Skip ELSE b
  BY DEF Answer
<1>3. /\ Lines(Append(used, b)) = IF b = LF /\ EndsCR(used) THEN Lines(used)
                                  ELSE Append(Lines(used), IF b = CR THEN LF ELSE b)
      /\ EndsCR(Append(used, b)) <=> b = CR
      /\ b # Skip /\ LF # Skip /\ CR # LF
  BY LinesAdd, EndsAdd, CharactersDiffer
<1> HIDE DEF e
<1>4. ReaderSays(e, Append(used, b), IF Answer(port, b) = Skip THEN said ELSE Append(said, Answer(port, b)))
  BY <1>1, <1>2, <1>3 DEF ReaderSays
<1> QED BY <1>4 DEF e
-----------------------------------------------------------------------------
(* Reading.                                                                *)

(* The bytes of a port that were used since it was made.                   *)
Used(s, u) == SubSeq(Bytes(s, u), s.ports[u].from + 1, s.ports[u].pos)

(* What a port was read for is what the bytes used for it say.             *)
Hears(s, p, said) ==
    /\ s.ports[Under(s, p)].from <= s.ports[Under(s, p)].pos
    /\ ReaderSays(s.ports[p], Used(s, Under(s, p)), said)

(* A part of a text that gets the next character.                          *)
LEMMA PartAdd ==
  ASSUME NEW text \in Seq(Characters), NEW m \in Nat, NEW n \in Nat, m <= n, n < Len(text)
  PROVE  /\ SubSeq(text, m + 1, n) \in Seq(Characters)
         /\ text[n + 1] \in Characters
         /\ SubSeq(text, m + 1, n + 1) = Append(SubSeq(text, m + 1, n), text[n + 1])
<1> DEFINE a == SubSeq(text, m + 1, n)
           b == SubSeq(text, m + 1, n + 1)
           c == Append(a, text[n + 1])
<1>1. text[n + 1] \in Characters
  OBVIOUS
<1>2. /\ a \in Seq(Characters) /\ Len(a) = n - m
      /\ \A i \in 1 .. n - m : a[i] = text[m + i]
  OBVIOUS
<1>3. /\ b \in Seq(Characters) /\ Len(b) = n + 1 - m
      /\ \A i \in 1 .. n + 1 - m : b[i] = text[m + i]
  OBVIOUS
<1> HIDE DEF a, b
<1>4. /\ c \in Seq(Characters) /\ Len(c) = n + 1 - m
      /\ c[n + 1 - m] = text[n + 1] /\ \A i \in 1 .. n - m : c[i] = a[i]
  BY <1>1, <1>2
<1>5. \A i \in 1 .. n + 1 - m : i \in 1 .. n - m \/ (i = n + 1 - m /\ m + i = n + 1)
  OBVIOUS
<1>6. \A i \in 1 .. n + 1 - m : c[i] = b[i]
  BY <1>2, <1>3, <1>4, <1>5
<1> HIDE DEF c
<1>7. b = c
  BY <1>3, <1>4, <1>6
<1> QED BY <1>1, <1>2, <1>7 DEF a, b, c

(* A byte is read for a text port, and translated.                         *)
ByteFor(s, p) == Translate(ReadByte(s, Under(s, p)), p)

(* The system after it.                                                    *)
ByteRead(s, p) ==
    LET u == Under(s, p)
        b == Bytes(s, u)[s.ports[u].pos + 1]
    IN  Reply(PutPort(PutPort(s, u, [s.ports[u] EXCEPT !.pos = @ + 1]), p, Heard(s.ports[p], b)),
              Answer(s.ports[p], b))

(* The port that read a byte is sound.                                     *)
LEMMA HeardSound ==
  ASSUME NEW F, NEW port, Sound(F, port), NEW b
  PROVE  Sound(F, Heard(port, b)) /\ Fixed(port, Heard(port, b))
<1>1. /\ Sound(F, [port EXCEPT !.needs_lf = TRUE]) /\ Fixed(port, [port EXCEPT !.needs_lf = TRUE])
      /\ Sound(F, [port EXCEPT !.needs_lf = FALSE]) /\ Fixed(port, [port EXCEPT !.needs_lf = FALSE])
      /\ Fixed(port, port)
  BY OwedSound, ZenonT(60) DEF Fixed
<1> QED BY <1>1 DEF Heard

(* A port that can be read has bytes.                                      *)
LEMMA ReadableBytes ==
  ASSUME NEW F, NEW s, Good(F, s), NEW u \in DOMAIN s.ports, CanRead(s.ports[u]), Readable(s, u)
  PROVE  /\ Bytes(s, u) \in Seq(Characters) /\ s.ports[u].pos \in Nat
         /\ s.ports[u].pos < Len(Bytes(s, u))
         /\ Bytes(s, u)[s.ports[u].pos + 1] \in Characters
<1>1. s.ports[u].class \in FileClasses \cup {"c-data"}
  BY DEF CanRead, Readable, ReadsBytes, FileClasses
<1>2. Bytes(s, u) \in Seq(Characters)
  BY <1>1, BytesAre
<1>3. s.ports[u].pos \in Nat
  BY GoodParts, FieldTypes
<1>4. s.ports[u].pos < Len(Bytes(s, u))
  BY DEF Readable
<1>5. s.ports[u].pos + 1 \in 1 .. Len(Bytes(s, u))
  BY <1>2, <1>3, <1>4
<1> QED BY <1>2, <1>3, <1>4, <1>5

(* Either there is no byte, or one is used up.                             *)
LEMMA ByteForIs ==
  ASSUME NEW F, NEW s, Good(F, s), NEW p \in DOMAIN s.ports, s.ports[p].class = "text"
  PROVE  \/ /\ Readable(s, Under(s, p)) /\ CanRead(s.ports[Under(s, p)])
            /\ ByteFor(s, p) = ByteRead(s, p)
         \/ ByteFor(s, p) = Reply(s, Abort)
         \/ ~Readable(s, Under(s, p)) /\ ByteFor(s, p) = Reply(s, Eof)
<1> DEFINE u == Under(s, p)
           port == s.ports[p]
           a == ReadByte(s, u)
<1>0. u \in DOMAIN s.ports /\ u # p /\ s \in Systems(F) /\ Sound(F, port)
  BY UnderIs, GoodParts
<1>1. CASE ~CanRead(s.ports[u])
  <2>1. a = Reply(s, Abort)
    BY <1>1 DEF ReadByte, CanRead
  <2>2. a.reply = Abort
    BY <2>1, ReplyKept DEF Replies
  <2> HIDE DEF a
  <2>3. Translate(a, p) = a
    BY <2>2 DEF Translate
  <2> QED BY <2>1, <2>3 DEF ByteFor, a
<1>2. CASE CanRead(s.ports[u]) /\ ~Readable(s, u)
  <2>1. a = Reply(s, Eof)
    BY <1>2 DEF ReadByte, CanRead
  <2>2. a.reply = Eof
    BY <2>1, ReplyKept DEF Replies
  <2> HIDE DEF a
  <2>3. Translate(a, p) = a
    BY <2>2 DEF Translate
  <2> QED BY <1>2, <2>1, <2>3 DEF ByteFor, a
<1>3. CASE CanRead(s.ports[u]) /\ Readable(s, u)
  <2> DEFINE b == Bytes(s, u)[s.ports[u].pos + 1]
             o == [s.ports[u] EXCEPT !.pos = @ + 1]
             m == PutPort(s, u, o)
  <2>1. b \in Characters /\ s.ports[u].pos + 1 \in Nat
    BY <1>0, <1>3, ReadableBytes
  <2>2. a = Reply(m, b)
    <3>1. m = [s EXCEPT !.ports[u].pos = @ + 1]
      BY DEF PutPort
    <3>2. a = Reply([s EXCEPT !.ports[u].pos = @ + 1], Bytes(s, u)[s.ports[u].pos + 1])
      BY <1>3 DEF ReadByte, CanRead
    <3> QED BY <3>1, <3>2
  <2>3. Sound(F, o) /\ Fixed(s.ports[u], o)
    BY <1>0, <2>1, GoodParts, PosSound
  <2> HIDE DEF o, b
  <2>4. Good(F, m) /\ m.ports[p] = port /\ m \in Systems(F) /\ p \in DOMAIN m.ports
    BY <1>0, <2>3, PutKept, PutParts, GoodParts DEF Kept
  <2> HIDE DEF m, a, u
  <2>5. /\ a.reply = b /\ a.ports = m.ports /\ a.disk = m.disk /\ a \in Systems(F)
        /\ p \in DOMAIN a.ports /\ a.ports[p] = port
    <3>1. b \in Replies \cup {Skip}
      BY <2>1 DEF Replies
    <3> QED BY <2>2, <2>4, <3>1, ReplyKept, GoodParts DEF Kept
  <2> DEFINE z(x, r) == Reply(PutPort(m, p, x), r)
  <2>6. \A x, r : Reply(PutPort(a, p, x), r) = z(x, r)
    BY <2>2, <2>4 DEF Reply, PutPort, Systems
  <2>7. z(port, b) = a
    <3>1. m.ports \in Seq(PortRecords(F))
      BY <2>4, SystemParts
    <3>2. PutPort(m, p, port) = m
      BY <2>4, <3>1 DEF PutPort, Systems
    <3> QED BY <2>2, <3>2
  <2>8. b \notin {Eof, Abort}
    BY <2>1, CharactersDiffer
  <2>9. Translate(a, p) =
          IF ~port.translate THEN a
          ELSE IF b = CR THEN Reply([a EXCEPT !.ports[p].needs_lf = TRUE], LF)
          ELSE IF port.needs_lf
            THEN Reply([a EXCEPT !.ports[p].needs_lf = FALSE], IF b = LF THEN Skip ELSE b)
          ELSE a
    <3> HIDE DEF port
    <3> QED BY <2>5, <2>8 DEF Translate
  <2>10. \A w : [a EXCEPT !.ports[p].needs_lf = w] = PutPort(a, p, [port EXCEPT !.needs_lf = w])
    BY <2>5 DEF PutPort
  <2> HIDE DEF z, port
  <2>11. Translate(a, p) = z(Heard(port, b), Answer(port, b))
    <3>1. CASE ~port.translate
      BY <2>7, <2>9, <3>1 DEF Heard, Answer
    <3>2. CASE port.translate /\ b = CR
      <4>1. Translate(a, p) = Reply(PutPort(a, p, [port EXCEPT !.needs_lf = TRUE]), LF)
        BY <2>9, <2>10, <3>2
      <4>2. Heard(port, b) = [port EXCEPT !.needs_lf = TRUE] /\ Answer(port, b) = LF
        BY <3>2 DEF Heard, Answer
      <4> QED BY <2>6, <4>1, <4>2
    <3>3. CASE port.translate /\ b # CR /\ port.needs_lf
      <4>1. Translate(a, p) =
              Reply(PutPort(a, p, [port EXCEPT !.needs_lf = FALSE]), IF b = LF THEN Skip ELSE b)
        BY <2>9, <2>10, <3>3
      <4>2. /\ Heard(port, b) = [port EXCEPT !.needs_lf = FALSE]
            /\ Answer(port, b) = IF b = LF THEN Skip ELSE b
        BY <3>3 DEF Heard, Answer
      <4> QED BY <2>6, <4>1, <4>2
    <3>4. CASE port.translate /\ b # CR /\ ~port.needs_lf
      BY <2>7, <2>9, <3>4 DEF Heard, Answer
    <3> QED BY <3>1, <3>2, <3>3, <3>4
  <2>12. ByteFor(s, p) = ByteRead(s, p)
    BY <2>11 DEF ByteFor, ByteRead, z, m, o, b, a, u, port
  <2> QED BY <1>3, <2>12 DEF u
<1> QED BY <1>1, <1>2, <1>3

(* Reading a port changes the port, and the position in the one under it.  *)
Reading(s, t, p) ==
    /\ t.disk = s.disk
    /\ \A q \in DOMAIN s.ports \ {p, Under(s, p)} : t.ports[q] = s.ports[q]
    /\ s.ports[p].class = "text" =>
         LET u == Under(s, p) IN
         /\ t.ports[u] = [s.ports[u] EXCEPT !.pos = t.ports[u].pos]
         /\ s.ports[u].pos <= t.ports[u].pos

(* Twice, too.                                                             *)
LEMMA ReadingTwice ==
  ASSUME NEW F, NEW s, NEW t, NEW x, Good(F, s), Kept(F, s, t), Kept(F, t, x), NEW p \in DOMAIN s.ports,
         Reading(s, t, p), Reading(t, x, p)
  PROVE  Reading(s, x, p)
<1> DEFINE u == Under(s, p)
<1>1. /\ Good(F, t) /\ Good(F, x) /\ DOMAIN t.ports = DOMAIN s.ports /\ Under(t, p) = u
      /\ t.ports[p].class = s.ports[p].class
  BY KeptParts, SameWays DEF Kept
<1>2. x.disk = s.disk /\ \A q \in DOMAIN s.ports \ {p, u} : x.ports[q] = s.ports[q]
  BY <1>1 DEF Reading
<1>3. ASSUME s.ports[p].class = "text"
      PROVE  /\ x.ports[u] = [s.ports[u] EXCEPT !.pos = x.ports[u].pos]
             /\ s.ports[u].pos <= x.ports[u].pos
  <2>1. u \in DOMAIN s.ports
    BY <1>3, UnderIs
  <2>2. /\ s.ports[u] \in PortRecords(F)
        /\ s.ports[u].pos \in Nat /\ t.ports[u].pos \in Nat /\ x.ports[u].pos \in Nat
    <3>1. DOMAIN x.ports = DOMAIN t.ports
      BY <1>1, KeptParts
    <3> QED BY <1>1, <2>1, <3>1, GoodParts, FieldTypes
  <2>3. /\ t.ports[u] = [s.ports[u] EXCEPT !.pos = t.ports[u].pos]
        /\ x.ports[u] = [t.ports[u] EXCEPT !.pos = x.ports[u].pos]
        /\ s.ports[u].pos <= t.ports[u].pos /\ t.ports[u].pos <= x.ports[u].pos
    BY <1>1, <1>3 DEF Reading
  <2> DEFINE a == s.ports[u]
             b == t.ports[u]
             c == x.ports[u]
  <2> HIDE DEF a, b, c
  <2>4. [[a EXCEPT !.pos = b.pos] EXCEPT !.pos = c.pos] = [a EXCEPT !.pos = c.pos]
    BY <2>2 DEF PortRecords, a
  <2>5. c = [a EXCEPT !.pos = c.pos]
    BY <2>3, <2>4 DEF a, b, c
  <2> QED BY <2>2, <2>3, <2>5 DEF a, c
<1> QED BY <1>2, <1>3 DEF Reading

(* What is readable after a reading was so before.                         *)
LEMMA ReadableBefore ==
  ASSUME NEW F, NEW s, NEW t, Good(F, s), Kept(F, s, t), NEW p \in DOMAIN s.ports,
         Reading(s, t, p), s.ports[p].class = "text",
         s.ports[Under(s, p)].class \in FileClasses \cup {"c-data"}
  PROVE  /\ Readable(t, Under(s, p)) => Readable(s, Under(s, p))
         /\ Bytes(t, Under(s, p)) = Bytes(s, Under(s, p))
         /\ t.ports[Under(s, p)].from = s.ports[Under(s, p)].from
<1> DEFINE u == Under(s, p)
           a == s.ports[u]
           b == t.ports[u]
<1>1. u \in DOMAIN s.ports /\ Good(F, t) /\ DOMAIN t.ports = DOMAIN s.ports
  BY UnderIs, KeptParts
<1>2. a \in PortRecords(F) /\ b \in PortRecords(F)
  BY <1>1, GoodParts, FieldTypes
<1>3. b = [a EXCEPT !.pos = b.pos] /\ a.pos <= b.pos /\ t.disk = s.disk
  BY DEF Reading
<1> HIDE DEF a, b
<1>4. /\ b.class = a.class /\ b.data = a.data /\ b.mode = a.mode /\ b.from = a.from
      /\ a.pos \in Nat /\ b.pos \in Nat /\ a.pos <= b.pos
  <2>1. DOMAIN a = DOMAIN b
    BY <1>2 DEF PortRecords
  <2> QED BY <1>2, <1>3 DEF PortRecords
<1>5. Bytes(t, u) = Bytes(s, u)
  BY <1>3, <1>4 DEF Bytes, a, b
<1>6. ASSUME Readable(t, u)
      PROVE  Readable(s, u)
  <2>1. Input(b) /\ b.class # "null" /\ b.pos < Len(Bytes(t, u))
    BY <1>6 DEF Readable, b
  <2>2. Input(a) /\ a.class # "null" /\ a.pos < Len(Bytes(s, u))
    <3>1. Len(Bytes(s, u)) \in Nat
      <4>1. Bytes(s, u) \in Seq(Characters)
        BY <1>1, BytesAre
      <4> QED BY <4>1
    <3> QED BY <1>4, <1>5, <2>1, <3>1 DEF Input
  <2> QED BY <2>2 DEF Readable, a
<1> QED BY <1>4, <1>5, <1>6 DEF u, a, b

(* To change only the answer.                                              *)
LEMMA ReplyReading ==
  ASSUME NEW F, NEW s, Good(F, s), NEW p \in DOMAIN s.ports, NEW r \in Replies \cup {Skip}
  PROVE  Reading(s, Reply(s, r), p)
<1> DEFINE u == Under(s, p)
           t == Reply(s, r)
<1>1. t.ports = s.ports /\ t.disk = s.disk
  BY ReplyKept
<1>2. ASSUME s.ports[p].class = "text"
      PROVE  s.ports[u] = [s.ports[u] EXCEPT !.pos = s.ports[u].pos] /\ s.ports[u].pos <= s.ports[u].pos
  <2>1. s.ports[u] \in PortRecords(F) /\ s.ports[u].pos \in Nat
    BY <1>2, UnderIs, GoodParts, FieldTypes
  <2> QED BY <2>1, SMTT(30) DEF PortRecords
<1> HIDE DEF t
<1>3. Reading(s, t, p)
  BY <1>1, <1>2 DEF Reading
<1> QED BY <1>3 DEF t

(* What a byte read for a text port changes, and what the port answers.    *)
ByteReads(s, t, p) ==
    /\ Reading(s, t, p)
    /\ t.ports[p] = [s.ports[p] EXCEPT !.needs_lf = t.ports[p].needs_lf]
    /\ t.reply = Eof => ~Readable(s, Under(s, p))
    /\ \A said \in Seq(Characters) :
         Hears(s, p, said) =>
           Hears(t, p, IF t.reply \in {Eof, Abort, Skip} THEN said ELSE Append(said, t.reply))

(* The answer alone says nothing new.                                      *)
LEMMA HearsReply ==
  ASSUME NEW F, NEW s, Good(F, s), NEW p, NEW r \in Replies \cup {Skip}, NEW said, Hears(s, p, said)
  PROVE  Hears(Reply(s, r), p, said)
BY ReplyKept, ZenonT(60) DEF Hears, Used, Bytes, Under

(* One byte of a port is used up.                                          *)
LEMMA ByteForReads ==
  ASSUME NEW F, NEW s, Good(F, s), NEW p \in DOMAIN s.ports, s.ports[p].class = "text"
  PROVE  /\ Kept(F, s, ByteFor(s, p))
         /\ ByteFor(s, p).reply \in Characters \cup {Skip, Eof, Abort}
         /\ ByteReads(s, ByteFor(s, p), p)
<1> DEFINE u == Under(s, p)
           port == s.ports[p]
           t == ByteFor(s, p)
<1>0. u \in DOMAIN s.ports /\ u # p /\ s \in Systems(F) /\ Sound(F, port) /\ port \in PortRecords(F)
  BY UnderIs, GoodParts, FieldTypes
<1>1. ASSUME NEW r \in {Eof, Abort}, t = Reply(s, r), r = Eof => ~Readable(s, u)
      PROVE  Kept(F, s, t) /\ t.reply \in Characters \cup {Skip, Eof, Abort} /\ ByteReads(s, t, p)
  <2>1. r \in Replies \cup {Skip}
    BY DEF Replies
  <2>2. Kept(F, s, t) /\ t.reply = r /\ t.ports = s.ports
    BY <1>1, <2>1, ReplyKept
  <2>3. Reading(s, t, p) /\ \A said : Hears(s, p, said) => Hears(t, p, said)
    BY <1>1, <2>1, ReplyReading, HearsReply
  <2>4. port = [port EXCEPT !.needs_lf = port.needs_lf]
    BY <1>0 DEF PortRecords
  <2> HIDE DEF t
  <2> QED BY <1>1, <2>2, <2>3, <2>4 DEF ByteReads
<1>2. ASSUME Readable(s, u), CanRead(s.ports[u]), t = ByteRead(s, p)
      PROVE  Kept(F, s, t) /\ t.reply \in Characters \cup {Skip, Eof, Abort} /\ ByteReads(s, t, p)
  <2> DEFINE bytes == Bytes(s, u)
             pos == s.ports[u].pos
             from == s.ports[u].from
             b == bytes[pos + 1]
             o == [s.ports[u] EXCEPT !.pos = pos + 1]
             m == PutPort(s, u, o)
             h == Heard(port, b)
             z == PutPort(m, p, h)
             r == Answer(port, b)
  <2>1. bytes \in Seq(Characters) /\ pos \in Nat /\ pos < Len(bytes) /\ b \in Characters
    BY <1>0, <1>2, ReadableBytes
  <2>2. Sound(F, o) /\ Fixed(s.ports[u], o) /\ s.ports[u] \in PortRecords(F) /\ from \in Nat
    <3>1. Sound(F, s.ports[u])
      BY <1>0, GoodParts
    <3>2. pos + 1 \in Nat
      BY <2>1
    <3> QED BY <3>1, <3>2, PosSound, FieldTypes
  <2>3. o.pos = pos + 1 /\ o.from = from /\ o.class = s.ports[u].class /\ o.data = s.ports[u].data
    BY <2>2 DEF PortRecords
  <2>4. t = Reply(z, r)
    BY <1>2 DEF ByteRead
  <2>5. Sound(F, h) /\ Fixed(port, h)
    BY <1>0, HeardSound
  <2>6. h = [port EXCEPT !.needs_lf = h.needs_lf]
    BY <1>0 DEF Heard, PortRecords
  <2>7. r \in Characters \cup {Skip} /\ r \notin {Eof, Abort}
    BY <2>1, CharactersDiffer DEF Answer
  <2> HIDE DEF o, h, b, r
  <2>8. /\ Kept(F, s, m) /\ m.ports[u] = o /\ m.ports[p] = port /\ m.disk = s.disk
        /\ \A q \in DOMAIN s.ports \ {u} : m.ports[q] = s.ports[q]
        /\ Good(F, m) /\ DOMAIN m.ports = DOMAIN s.ports /\ m \in Systems(F)
    BY <1>0, <2>2, PutKept, PutParts, KeptParts, GoodParts
  <2> HIDE DEF m
  <2>9. /\ Kept(F, m, z) /\ z.ports[p] = h /\ z.disk = s.disk
        /\ \A q \in DOMAIN s.ports \ {p} : z.ports[q] = m.ports[q]
        /\ Good(F, z)
    BY <1>0, <2>5, <2>8, PutKept, PutParts DEF Kept
  <2> HIDE DEF z
  <2>10. /\ Kept(F, z, t) /\ t.reply = r /\ t.ports = z.ports /\ t.disk = s.disk
    <3>1. r \in Replies \cup {Skip}
      BY <2>7 DEF Replies
    <3> QED BY <2>4, <2>9, <3>1, ReplyKept
  <2> HIDE DEF t
  <2>11. /\ Kept(F, s, t) /\ t.ports[p] = h /\ t.ports[u] = o
         /\ \A q \in DOMAIN s.ports \ {p, u} : t.ports[q] = s.ports[q]
    <3>1. Kept(F, s, z)
      BY <2>8, <2>9, KeptTwice
    <3>2. Kept(F, s, t)
      BY <2>10, <3>1, KeptTwice
    <3> QED BY <1>0, <2>8, <2>9, <2>10, <3>2
  <2>12. Reading(s, t, p)
    <3>1. t.ports[u] = [s.ports[u] EXCEPT !.pos = t.ports[u].pos] /\ s.ports[u].pos <= t.ports[u].pos
      BY <2>1, <2>3, <2>11 DEF o
    <3> QED BY <2>10, <2>11, <3>1 DEF Reading
  <2>13. ASSUME NEW said \in Seq(Characters), Hears(s, p, said)
         PROVE  Hears(t, p, IF t.reply \in {Eof, Abort, Skip} THEN said ELSE Append(said, t.reply))
    <3> DEFINE used == Used(s, u)
    <3>1. from <= pos /\ ReaderSays(port, used, said)
      BY <2>13 DEF Hears
    <3>2. Under(t, p) = u /\ Bytes(t, u) = bytes
      <4>1. Under(t, p) = u
        BY <2>5, <2>11, SMTT(30) DEF Fixed, Under
      <4> QED BY <2>3, <2>10, <2>11, <4>1 DEF Bytes
    <3>3. used \in Seq(Characters) /\ Used(t, u) = Append(used, b)
      <4>1. /\ SubSeq(bytes, from + 1, pos) \in Seq(Characters)
            /\ SubSeq(bytes, from + 1, pos + 1) = Append(SubSeq(bytes, from + 1, pos), bytes[pos + 1])
        <5> HIDE DEF bytes, from, pos
        <5> QED BY <2>1, <2>2, <3>1, PartAdd
      <4> QED BY <2>3, <2>11, <3>2, <4>1 DEF Used, b
    <3> HIDE DEF used
    <3>4. ReaderSays(h, Append(used, b), IF r = Skip THEN said ELSE Append(said, r))
      BY <1>0, <2>1, <3>1, <3>3, HearSays DEF h, r
    <3>5. t.ports[Under(t, p)].from <= t.ports[Under(t, p)].pos
      <4>1. t.ports[u].from = from /\ t.ports[u].pos = pos + 1
        BY <2>3, <2>11
      <4> HIDE DEF from, pos
      <4> QED BY <2>1, <2>2, <3>1, <3>2, <4>1
    <3>6. ReaderSays(t.ports[p], Used(t, Under(t, p)), IF r = Skip THEN said ELSE Append(said, r))
      BY <2>11, <3>2, <3>3, <3>4
    <3> QED BY <2>7, <2>10, <3>5, <3>6 DEF Hears
  <2>14. t.reply \in Characters \cup {Skip, Eof, Abort} /\ t.reply # Eof
    BY <2>7, <2>10
  <2>15. ByteReads(s, t, p)
    BY <2>6, <2>11, <2>12, <2>13, <2>14 DEF ByteReads
  <2> QED BY <2>11, <2>14, <2>15
<1>3. \/ Readable(s, u) /\ CanRead(s.ports[u]) /\ t = ByteRead(s, p)
      \/ t = Reply(s, Abort)
      \/ ~Readable(s, u) /\ t = Reply(s, Eof)
  BY ByteForIs
<1>4. Eof # Abort
  BY CharactersDiffer
<1> HIDE DEF t
<1>5. Kept(F, s, t) /\ t.reply \in Characters \cup {Skip, Eof, Abort} /\ ByteReads(s, t, p)
  BY <1>1, <1>2, <1>3, <1>4
<1> QED BY <1>5 DEF t

(* What was read from a port, with what is unread.                         *)
Said(port) == port.passed \o port.pbuf

(* A text port over bytes.                                                 *)
HasBytes(s, p) ==
    s.ports[p].class = "text" /\ s.ports[Under(s, p)].class \in FileClasses \cup {"c-data"}

(* A port for input reports the position of what was read.                 *)
ReaderStands(s, p) ==
    CR \notin Range(Said(s.ports[p])) /\ Readable(s, Under(s, p)) =>
      At(s.ports[p], Row(s.ports[p].passed), Column(s.ports[p].passed, {LF}, {}))

(* What is claimed of a port for input.                                    *)
ReaderIs(s, p) == Hears(s, p, Said(s.ports[p])) /\ ReaderStands(s, p)

(* A port with nothing unread.                                             *)
Blank(port, owes) == [port EXCEPT !.needs_lf = owes, !.pbuf = << >>]

(* A character read from a text port, before the position moves.           *)
RawReads(s, t, p) ==
    /\ Reading(s, t, p)
    /\ t.ports[p] = Blank(s.ports[p], t.ports[p].needs_lf)
    /\ t.reply = Eof /\ HasBytes(s, p) => ~Readable(t, Under(s, p))
    /\ Said(s.ports[p]) \in {s.ports[p].passed, Append(s.ports[p].passed, t.reply)}
    /\ t.reply \in {Eof, Abort} => Said(s.ports[p]) = s.ports[p].passed
    /\ Hears(s, p, Said(s.ports[p])) =>
         Hears(t, p, IF t.reply \in {Eof, Abort} THEN s.ports[p].passed
                     ELSE Append(s.ports[p].passed, t.reply))

(* A port whose buffer is empty reads a byte, and another if the first is  *)
(* to be skipped.                                                          *)
LEMMA ReadTextPortReads ==
  ASSUME NEW F, NEW s, Good(F, s), NEW p \in DOMAIN s.ports, s.ports[p].class = "text",
         s.ports[p].pbuf = << >>
  PROVE  RawReads(s, ReadTextPort(s, p), p)
<1> DEFINE u == Under(s, p)
           port == s.ports[p]
           a == ByteFor(s, p)
           t == ReadTextPort(s, p)
           said == port.passed
<1>0. /\ u \in DOMAIN s.ports /\ u # p /\ port \in PortRecords(F) /\ said \in Seq(Characters)
      /\ port.passed \o << >> = port.passed
  BY UnderIs, GoodParts, FieldTypes
<1>1. Kept(F, s, a) /\ a.reply \in Characters \cup {Skip, Eof, Abort} /\ ByteReads(s, a, p)
  BY ByteForReads
<1>2. Good(F, a) /\ p \in DOMAIN a.ports /\ a.ports[p].class = "text" /\ Under(a, p) = u
  BY <1>1, KeptParts, SameWays
<1>3. t = IF a.reply = Skip THEN ByteFor(a, p) ELSE a
  BY <1>2 DEF ReadTextPort, ByteFor
<1>4. t.reply \in Characters \cup {Eof, Abort} /\ t.reply # Skip
  BY ReadTextPortKept, CharactersDiffer
<1>5. Said(port) = said
  BY <1>0 DEF Said
<1> HIDE DEF a, t, port
<1>6. /\ Reading(s, a, p) /\ a.ports[p] = [port EXCEPT !.needs_lf = a.ports[p].needs_lf]
      /\ a.reply = Eof => ~Readable(s, u)
      /\ Hears(s, p, said) =>
           Hears(a, p, IF a.reply \in {Eof, Abort, Skip} THEN said ELSE Append(said, a.reply))
  BY <1>0, <1>1 DEF ByteReads, port
<1>7. HasBytes(s, p) /\ Readable(a, u) => Readable(s, u)
  BY <1>0, <1>1, <1>6, ReadableBefore DEF HasBytes
<1>8. ASSUME a.reply # Skip PROVE RawReads(s, t, p)
  <2>1. a.ports[p] = Blank(port, a.ports[p].needs_lf)
    <3> DEFINE b == a.ports[p].needs_lf
    <3> HIDE DEF b
    <3>1. [port EXCEPT !.needs_lf = b] = [port EXCEPT !.needs_lf = b, !.pbuf = << >>]
      BY <1>0 DEF PortRecords, port
    <3>2. a.ports[p] = [port EXCEPT !.needs_lf = b]
      BY <1>6 DEF b
    <3> QED BY <3>1, <3>2 DEF b, Blank
  <2>2. /\ Reading(s, a, p) /\ (a.reply = Eof /\ HasBytes(s, p) => ~Readable(a, u))
        /\ a.reply \in {Eof, Abort} => Said(port) = said
        /\ Said(port) \in {said, Append(said, a.reply)}
        /\ Hears(s, p, said) =>
             Hears(a, p, IF a.reply \in {Eof, Abort} THEN said ELSE Append(said, a.reply))
    BY <1>5, <1>6, <1>7, <1>8
  <2>3. t = a
    BY <1>3, <1>8
  <2>4. Said(port) = said => (Hears(s, p, Said(port)) <=> Hears(s, p, said))
    OBVIOUS
  <2> HIDE DEF said
  <2>5. Hears(s, p, Said(port)) =>
             Hears(a, p, IF a.reply \in {Eof, Abort} THEN said ELSE Append(said, a.reply))
    BY <1>5, <2>2
  <2>6. RawReads(s, a, p)
    BY <2>1, <2>2, <2>5 DEF RawReads, port, said
  <2> QED BY <2>3, <2>6
<1>9. ASSUME a.reply = Skip PROVE RawReads(s, t, p)
  <2>1. t = ByteFor(a, p)
    BY <1>3, <1>9
  <2>2. Kept(F, a, t) /\ ByteReads(a, t, p)
    BY <1>2, <2>1, ByteForReads
  <2>3. /\ Reading(a, t, p) /\ t.ports[p] = [a.ports[p] EXCEPT !.needs_lf = t.ports[p].needs_lf]
        /\ t.reply = Eof => ~Readable(a, u)
        /\ Hears(a, p, said) =>
             Hears(t, p, IF t.reply \in {Eof, Abort, Skip} THEN said ELSE Append(said, t.reply))
    BY <1>0, <1>2, <2>2 DEF ByteReads
  <2>4. Reading(s, t, p)
    BY <1>1, <1>6, <2>2, <2>3, ReadingTwice
  <2>5. t.ports[p] = Blank(port, t.ports[p].needs_lf)
    <3> DEFINE b == a.ports[p].needs_lf
               c == t.ports[p].needs_lf
    <3> HIDE DEF b, c
    <3>1. [[port EXCEPT !.needs_lf = b] EXCEPT !.needs_lf = c] = [port EXCEPT !.needs_lf = c, !.pbuf = << >>]
      BY <1>0 DEF PortRecords, port
    <3>2. t.ports[p] = [[port EXCEPT !.needs_lf = b] EXCEPT !.needs_lf = c]
      BY <1>6, <2>3 DEF b, c
    <3> QED BY <3>1, <3>2 DEF c, Blank
  <2>6. HasBytes(s, p) => HasBytes(a, p)
    BY <1>1, <1>2, <1>0, SameWays DEF HasBytes
  <2>7. HasBytes(s, p) /\ Readable(t, u) => Readable(a, u)
    BY <1>2, <2>2, <2>3, <2>6, ReadableBefore DEF HasBytes
  <2>8. Hears(s, p, said) => Hears(t, p, IF t.reply \in {Eof, Abort} THEN said ELSE Append(said, t.reply))
    BY <1>4, <1>6, <1>9, <2>3
  <2>9. t.reply = Eof /\ HasBytes(s, p) => ~Readable(t, u)
    BY <2>3, <2>7
  <2> HIDE DEF said
  <2>10. /\ Hears(s, p, Said(port)) => Hears(t, p, IF t.reply \in {Eof, Abort} THEN said ELSE Append(said, t.reply))
         /\ Said(port) \in {said, Append(said, t.reply)} /\ (t.reply \in {Eof, Abort} => Said(port) = said)
    BY <1>5, <2>8
  <2> QED BY <2>4, <2>5, <2>9, <2>10 DEF RawReads, port, said
<1> QED BY <1>8, <1>9 DEF t

(* A character that was unread is read again.                              *)
LEMMA UnreadReads ==
  ASSUME NEW F, NEW s, Good(F, s), NEW p \in DOMAIN s.ports, s.ports[p].class = "text",
         s.ports[p].pbuf # << >>
  PROVE  RawReads(s, Unread(s, p), p)
<1> DEFINE u == Under(s, p)
           port == s.ports[p]
           o == [port EXCEPT !.pbuf = << >>]
           c == port.pbuf[1]
           m == PutPort(s, p, o)
           t == Unread(s, p)
<1>0. /\ u \in DOMAIN s.ports /\ u # p /\ port \in PortRecords(F) /\ s \in Systems(F) /\ Sound(F, port)
      /\ port.passed \in Seq(Characters) /\ port.pbuf \in Seq(Characters) /\ Len(port.pbuf) <= 1
  BY UnderIs, GoodParts, FieldTypes DEF Sound
<1>1. port.pbuf = <<c>> /\ c \in Characters
  BY <1>0
<1>2. Said(port) = Append(port.passed, c)
  <2> DEFINE x == port.passed
             y == port.pbuf
  <2>1. x \in Seq(Characters) /\ y = <<c>>
    BY <1>0, <1>1
  <2>2. Said(port) = x \o y
    BY DEF Said
  <2> HIDE DEF x, y, c
  <2>3. x \o <<c>> = Append(x, c)
    BY <2>1
  <2> QED BY <2>1, <2>2, <2>3 DEF x
<1>3. /\ o = [port EXCEPT !.needs_lf = port.needs_lf, !.pbuf = << >>]
      /\ o.needs_lf = port.needs_lf /\ o.toggled = port.toggled /\ o.translate = port.translate
      /\ o.under = port.under
  BY <1>0 DEF PortRecords
<1>4. t = Reply(m, c)
  BY DEF Unread, PutPort
<1>5. c \notin {Eof, Abort}
  BY <1>1, CharactersDiffer
<1>6. Sound(F, o) /\ Fixed(port, o)
  BY <1>0, EmptiedSound
<1> HIDE DEF o, c
<1>7. /\ Kept(F, s, m) /\ m.disk = s.disk /\ m.ports[p] = o /\ Good(F, m)
      /\ \A q \in DOMAIN s.ports \ {p} : m.ports[q] = s.ports[q]
  BY <1>0, <1>6, PutKept, PutParts DEF Kept
<1> HIDE DEF m, t, port
<1>8. t.ports = m.ports /\ t.disk = m.disk /\ t.reply = c
  BY <1>1, <1>4, <1>7, ReplyKept DEF Replies
<1>9. t.ports[u] = s.ports[u] /\ Under(t, p) = u
  <2>1. t.ports[u] = s.ports[u]
    BY <1>0, <1>7, <1>8
  <2> QED BY <1>3, <1>7, <1>8, <2>1 DEF Under, port
<1>10. s.ports[u].pos <= s.ports[u].pos /\ s.ports[u] = [s.ports[u] EXCEPT !.pos = s.ports[u].pos]
  <2>1. s.ports[u] \in PortRecords(F) /\ s.ports[u].pos \in Nat
    BY <1>0, GoodParts, FieldTypes
  <2> QED BY <2>1, SMTT(30) DEF PortRecords
<1>11. Reading(s, t, p)
  BY <1>7, <1>8, <1>9, <1>10 DEF Reading
<1>12. Used(t, u) = Used(s, u)
  BY <1>7, <1>8, <1>9 DEF Used, Bytes
<1>13. \A said : Hears(s, p, said) => Hears(t, p, said)
  BY <1>3, <1>7, <1>8, <1>9, <1>12, ZenonT(60) DEF Hears, ReaderSays, port
<1>14. t.ports[p] = Blank(port, t.ports[p].needs_lf)
  BY <1>3, <1>7, <1>8, ZenonT(60) DEF Blank
<1>15. t.reply # Eof /\ t.reply \notin {Eof, Abort}
  BY <1>5, <1>8
<1> QED BY <1>2, <1>5, <1>8, <1>11, <1>13, <1>14, <1>15 DEF RawReads, port, t
-----------------------------------------------------------------------------
(* The invariant of the texts.                                             *)

(* What is known of a port by itself.                                      *)
Local(s, p) ==
    LET port == s.ports[p] IN
    /\ Owing(port)
    /\ port.class = "string-output" => At(port, Row(port.data), Column(port.data, {LF}, {CR}))
    /\ Alone(s.ports, p) /\ "output" \in port.made =>
         WriterSays(port, Bytes(s, Under(s, p)), port.passed)
    /\ Alone(s.ports, p) /\ "input" \in port.made => ReaderIs(s, p)

(* A port over bytes that no other port uses, nor was it used itself.      *)
Bare(ps, u) ==
    /\ ps[u].class \in FileClasses \cup {"c-data"}
    /\ ~ps[u].direct
    /\ \A q \in DOMAIN ps \ {u} :
         /\ ps[q].under # u
         /\ {ps[q].class, ps[u].class} \subseteq FileClasses => ps[q].data # ps[u].data

(* Nothing was read from it or written to it.                              *)
Untouched(s, u) ==
    Bare(s.ports, u) =>
      /\ s.ports[u].pos = s.ports[u].from
      /\ "output" \in s.ports[u].made => Bytes(s, u) = << >>

(* That of all ports.                                                      *)
TextsIn(s) == \A p \in DOMAIN s.ports : Local(s, p) /\ Untouched(s, p)

(* The same ports over the same files; a port once used for bytes stays so.*)
Framed(ps, qs) ==
    /\ DOMAIN qs = DOMAIN ps
    /\ \A r \in DOMAIN ps :
         /\ qs[r].class = ps[r].class /\ qs[r].under = ps[r].under /\ qs[r].made = ps[r].made
         /\ ps[r].class \in FileClasses => qs[r].data = ps[r].data
         /\ ps[r].class \in FileClasses \cup {"c-data"} /\ ps[r].direct => qs[r].direct

(* A port that is alone was so before.                                     *)
LEMMA FramedAlone ==
  ASSUME NEW ps, NEW qs, Framed(ps, qs), NEW p \in DOMAIN ps,
         ps[p].class = "text" => ps[p].under \in DOMAIN ps
  PROVE  /\ Alone(qs, p) => Alone(ps, p)
         /\ Bare(qs, p) => Bare(ps, p)
<1>1. ASSUME Alone(qs, p)
      PROVE  Alone(ps, p)
  <2> DEFINE u == ps[p].under
  <2>1. qs[p].under = u /\ ps[p].class = "text" /\ u \in DOMAIN ps
    BY <1>1 DEF Alone, Framed
  <2> HIDE DEF u
  <2>2. /\ qs[u].class \in FileClasses \cup {"c-data"} /\ ~qs[u].direct
        /\ qs[p].made \subseteq qs[u].made \cup {"text"}
        /\ \A q \in DOMAIN qs \ {p, u} :
             /\ qs[q].under # u
             /\ {qs[q].class, qs[u].class} \subseteq FileClasses => qs[q].data # qs[u].data
    BY <1>1, <2>1 DEF Alone
  <2>3. /\ qs[u].class = ps[u].class /\ qs[u].made = ps[u].made /\ qs[p].made = ps[p].made
        /\ ps[u].class \in FileClasses => qs[u].data = ps[u].data
        /\ DOMAIN qs = DOMAIN ps /\ ~ps[u].direct
    BY <2>1, <2>2 DEF Framed
  <2>4. ASSUME NEW q \in DOMAIN ps \ {p, u}
        PROVE  /\ ps[q].under # u
               /\ {ps[q].class, ps[u].class} \subseteq FileClasses => ps[q].data # ps[u].data
    <3>1. /\ qs[q].class = ps[q].class /\ qs[q].under = ps[q].under
          /\ ps[q].class \in FileClasses => qs[q].data = ps[q].data
      BY DEF Framed
    <3> QED BY <2>2, <2>3, <3>1
  <2> QED BY <2>1, <2>2, <2>3, <2>4 DEF Alone, u
<1>2. ASSUME Bare(qs, p)
      PROVE  Bare(ps, p)
  <2>1. /\ qs[p].class \in FileClasses \cup {"c-data"} /\ ~qs[p].direct
        /\ \A q \in DOMAIN qs \ {p} :
             /\ qs[q].under # p
             /\ {qs[q].class, qs[p].class} \subseteq FileClasses => qs[q].data # qs[p].data
    BY <1>2 DEF Bare
  <2>2. /\ qs[p].class = ps[p].class /\ ~ps[p].direct
        /\ ps[p].class \in FileClasses => qs[p].data = ps[p].data
        /\ DOMAIN qs = DOMAIN ps
    BY <2>1 DEF Framed
  <2>3. ASSUME NEW q \in DOMAIN ps \ {p}
        PROVE  /\ ps[q].under # p
               /\ {ps[q].class, ps[p].class} \subseteq FileClasses => ps[q].data # ps[p].data
    <3>1. /\ qs[q].class = ps[q].class /\ qs[q].under = ps[q].under
          /\ ps[q].class \in FileClasses => qs[q].data = ps[q].data
      BY DEF Framed
    <3> QED BY <2>1, <2>2, <3>1
  <2> QED BY <2>1, <2>2, <2>3 DEF Bare
<1> QED BY <1>1, <1>2

(* The fields of a port that tell of its text are the same.                *)
LooksAs(a, b) ==
    /\ b.class = a.class /\ b.under = a.under /\ b.made = a.made
    /\ b.translate = a.translate /\ b.needs_lf = a.needs_lf /\ b.toggled = a.toggled
    /\ b.row = a.row /\ b.col = a.col /\ b.passed = a.passed /\ b.pbuf = a.pbuf
    /\ a.class = "string-output" => b.data = a.data

(* A port has the same bytes, and used as many of them.                    *)
BytesStay(s, t, u) ==
    /\ t.ports[u].from = s.ports[u].from /\ t.ports[u].pos = s.ports[u].pos
    /\ Bytes(t, u) = Bytes(s, u)
    /\ Readable(t, u) => Readable(s, u)

(* Then what is known of it stays so.                                      *)
LEMMA LocalStays ==
  ASSUME NEW s, NEW t, NEW p, Local(s, p), LooksAs(s.ports[p], t.ports[p]), Owing(t.ports[p]),
         Alone(t.ports, p) => Alone(s.ports, p) /\ BytesStay(s, t, Under(s, p))
  PROVE  Local(t, p)
<1> DEFINE a == s.ports[p]
           b == t.ports[p]
           u == Under(s, p)
<1>1. /\ b.class = a.class /\ b.under = a.under /\ b.made = a.made
      /\ b.translate = a.translate /\ b.needs_lf = a.needs_lf /\ b.toggled = a.toggled
      /\ b.row = a.row /\ b.col = a.col /\ b.passed = a.passed /\ b.pbuf = a.pbuf
      /\ a.class = "string-output" => b.data = a.data
  BY DEF LooksAs
<1>2. Under(t, p) = u /\ Said(b) = Said(a)
  BY <1>1 DEF Under, Said
<1>3. b.class = "string-output" => At(b, Row(b.data), Column(b.data, {LF}, {CR}))
  <2>1. a.class = "string-output" => At(a, Row(a.data), Column(a.data, {LF}, {CR}))
    BY DEF Local
  <2> HIDE DEF a, b
  <2> QED BY <1>1, <2>1 DEF At
<1>4. ASSUME Alone(t.ports, p), "output" \in b.made
      PROVE  WriterSays(b, Bytes(t, u), b.passed)
  <2>1. WriterSays(a, Bytes(s, u), a.passed) /\ Bytes(t, u) = Bytes(s, u)
    BY <1>1, <1>4 DEF Local, BytesStay
  <2> HIDE DEF a, b, u
  <2> QED BY <1>1, <2>1 DEF WriterSays, At
<1>5. ASSUME Alone(t.ports, p), "input" \in b.made
      PROVE  ReaderIs(t, p)
  <2>1. /\ BytesStay(s, t, u) /\ Hears(s, p, Said(a)) /\ ReaderStands(s, p)
    BY <1>1, <1>5 DEF Local, ReaderIs
  <2>2. Used(t, u) = Used(s, u)
    BY <2>1 DEF Used, BytesStay
  <2> HIDE DEF u
  <2>3. Hears(t, p, Said(a))
    <3>1. /\ s.ports[u].from <= s.ports[u].pos /\ ReaderSays(a, Used(s, u), Said(a))
      BY <2>1 DEF Hears, u
    <3>2. ReaderSays(b, Used(t, u), Said(a))
      <4> HIDE DEF a, b
      <4> QED BY <1>1, <2>2, <3>1 DEF ReaderSays
    <3> QED BY <1>2, <2>1, <3>1, <3>2 DEF Hears, BytesStay, u
  <2>4. ReaderStands(t, p)
    <3>1. Readable(t, u) => Readable(s, u)
      BY <2>1 DEF BytesStay
    <3>2. CR \notin Range(Said(a)) /\ Readable(s, u) => At(a, Row(a.passed), Column(a.passed, {LF}, {}))
      BY <2>1 DEF ReaderStands, u
    <3>3. CR \notin Range(Said(b)) /\ Readable(t, u) => At(b, Row(b.passed), Column(b.passed, {LF}, {}))
      <4> HIDE DEF a, b
      <4> QED BY <1>1, <1>2, <3>1, <3>2 DEF At
    <3> QED BY <1>2, <3>3 DEF ReaderStands, u
  <2> QED BY <1>2, <2>3, <2>4 DEF ReaderIs
<1> QED BY <1>2, <1>3, <1>4, <1>5 DEF Local

(* What is known of all ports stays so, when each either looks the same    *)
(* over the same bytes, or is known anew.                                  *)
LEMMA TextsStay ==
  ASSUME NEW F, NEW s, NEW t, Good(F, s), Framed(s.ports, t.ports), TextsIn(s),
         \A q \in DOMAIN s.ports :
           \/ Local(t, q)
           \/ /\ LooksAs(s.ports[q], t.ports[q]) /\ Owing(t.ports[q])
              /\ Alone(s.ports, q) /\ Alone(t.ports, q) => BytesStay(s, t, Under(s, q)),
         \A q \in DOMAIN s.ports : Bare(s.ports, q) /\ Bare(t.ports, q) => BytesStay(s, t, q)
  PROVE  TextsIn(t)
<1> SUFFICES ASSUME NEW q \in DOMAIN s.ports
             PROVE  Local(t, q) /\ Untouched(t, q)
  BY DEF TextsIn, Framed
<1>1. /\ Alone(t.ports, q) => Alone(s.ports, q)
      /\ Bare(t.ports, q) => Bare(s.ports, q)
  <2>1. s.ports[q].class = "text" => s.ports[q].under \in DOMAIN s.ports
    BY UnderIs DEF Under
  <2> QED BY <2>1, FramedAlone
<1>2. Local(s, q) /\ Untouched(s, q)
  BY DEF TextsIn
<1>3. Local(t, q)
  BY <1>1, <1>2, LocalStays
<1>4. ASSUME Bare(t.ports, q)
      PROVE  /\ t.ports[q].pos = t.ports[q].from
             /\ "output" \in t.ports[q].made => Bytes(t, q) = << >>
  <2>1. BytesStay(s, t, q) /\ Bare(s.ports, q)
    BY <1>1, <1>4
  <2>2. /\ s.ports[q].pos = s.ports[q].from
        /\ "output" \in s.ports[q].made => Bytes(s, q) = << >>
    BY <1>2, <2>1 DEF Untouched
  <2>3. t.ports[q].made = s.ports[q].made
    BY DEF Framed
  <2> QED BY <2>1, <2>2, <2>3 DEF BytesStay
<1> QED BY <1>3, <1>4 DEF Untouched

(* Every file but that of port u has the same bytes.                       *)
FilesStay(s, t, u) ==
    \A q \in DOMAIN s.ports :
      /\ s.ports[q].class \in FileClasses
      /\ ~(s.ports[u].class \in FileClasses /\ s.ports[q].data = s.ports[u].data)
      => t.disk[s.ports[q].data] = s.disk[s.ports[q].data]

(* Only port p changes, the position in the port under it, and its file.   *)
Through(s, t, p) ==
    /\ s.ports[p].class \notin FileClasses \cup {"c-data"}
    /\ \A q \in DOMAIN s.ports \ {p, Under(s, p)} : t.ports[q] = s.ports[q]
    /\ s.ports[p].class = "text" =>
         t.ports[Under(s, p)] = [s.ports[Under(s, p)] EXCEPT !.pos = t.ports[Under(s, p)].pos]
    /\ IF s.ports[p].class = "text" THEN FilesStay(s, t, Under(s, p)) ELSE t.disk = s.disk

(* Only port p changes, which is used for bytes, and its file.             *)
Directly(s, t, p) ==
    /\ \A q \in DOMAIN s.ports \ {p} : t.ports[q] = s.ports[q]
    /\ t.ports[p] = [s.ports[p] EXCEPT !.pos = t.ports[p].pos, !.direct = TRUE]
    /\ FilesStay(s, t, p)

(* A port keeps its bytes when neither it nor its file changes.            *)
LEMMA OtherBytes ==
  ASSUME NEW F, NEW s, NEW t, Good(F, s), NEW u, NEW v \in DOMAIN s.ports,
         t.ports[v] = s.ports[v], s.ports[v].class \in FileClasses \cup {"c-data"},
         \/ t.disk = s.disk
         \/ /\ FilesStay(s, t, u)
            /\ {s.ports[u].class, s.ports[v].class} \subseteq FileClasses =>
                 s.ports[u].data # s.ports[v].data
  PROVE  BytesStay(s, t, v)
<1>1. s.ports[v].class # "c-data" => t.disk[s.ports[v].data] = s.disk[s.ports[v].data]
  BY DEF FilesStay
<1>2. Bytes(t, v) = Bytes(s, v)
  BY <1>1 DEF Bytes
<1> QED BY <1>2 DEF BytesStay, Readable

(* A port is the same, but for its position and whether it was used        *)
(* directly.                                                               *)
LEMMA LooksStay ==
  ASSUME NEW F, NEW a, Sound(F, a), Owing(a), NEW b,
         \/ b = a
         \/ b = [a EXCEPT !.pos = b.pos]
         \/ b = [a EXCEPT !.pos = b.pos, !.direct = TRUE]
  PROVE  LooksAs(a, b) /\ Owing(b) /\ b.data = a.data /\ b.mode = a.mode
<1>0. a \in PortRecords(F)
  BY FieldTypes
<1>1. LooksAs(a, b) /\ b.mode = a.mode /\ b.freed = a.freed /\ b.data = a.data
  BY <1>0, ZenonT(60) DEF PortRecords, LooksAs
<1> QED BY <1>1 DEF Owing, LooksAs

(* What a text port does leaves what is known of all other ports.          *)
LEMMA ThroughTexts ==
  ASSUME NEW F, NEW s, NEW t, Good(F, s), Kept(F, s, t), NEW p \in DOMAIN s.ports,
         Through(s, t, p), TextsIn(s), Local(t, p)
  PROVE  TextsIn(t)
<1> DEFINE u == Under(s, p)
<1>1. /\ DOMAIN t.ports = DOMAIN s.ports
      /\ \A q \in DOMAIN s.ports : Fixed(s.ports[q], t.ports[q]) /\ Sound(F, s.ports[q])
  BY KeptParts, GoodParts
<1>2. \A q \in DOMAIN s.ports : Local(s, q)
  BY DEF TextsIn
<1>3. IF s.ports[p].class = "text" THEN u \in DOMAIN s.ports ELSE u \notin DOMAIN s.ports
  <2>1. s.ports[p].class # "text" => u = 0
    BY <1>1 DEF Sound, Under
  <2>2. 0 \notin DOMAIN s.ports
    BY GoodParts
  <2> QED BY <2>1, <2>2, UnderIs
<1>4. ASSUME NEW q \in DOMAIN s.ports, q # p
      PROVE  LooksAs(s.ports[q], t.ports[q]) /\ Owing(t.ports[q]) /\ t.ports[q].direct = s.ports[q].direct
  <2>1. Sound(F, s.ports[q]) /\ Owing(s.ports[q])
    BY <1>1, <1>2 DEF Local
  <2>2. t.ports[q] = s.ports[q] \/ t.ports[q] = [s.ports[q] EXCEPT !.pos = t.ports[q].pos]
    BY <1>3, <1>4 DEF Through
  <2>3. t.ports[q].direct = s.ports[q].direct
    BY <2>1, <2>2, FieldTypes DEF PortRecords
  <2> QED BY <2>1, <2>2, <2>3, LooksStay
<1>5. Framed(s.ports, t.ports)
  <2>1. ASSUME NEW r \in DOMAIN s.ports, s.ports[r].class \in FileClasses \cup {"c-data"}
        PROVE  t.ports[r].direct = s.ports[r].direct
    <3>1. r # p
      BY <2>1 DEF Through
    <3> QED BY <3>1, <1>4
  <2> QED BY <1>1, <2>1 DEF Framed, Fixed
<1>6. ASSUME NEW v \in DOMAIN s.ports, v # p, v # u,
             s.ports[v].class \in FileClasses \cup {"c-data"},
             s.ports[p].class = "text" /\ {s.ports[u].class, s.ports[v].class} \subseteq FileClasses =>
               s.ports[u].data # s.ports[v].data
      PROVE  BytesStay(s, t, v)
  <2>1. t.ports[v] = s.ports[v]
    BY <1>6 DEF Through
  <2>2. CASE s.ports[p].class = "text"
    BY <1>6, <2>1, <2>2, OtherBytes DEF Through
  <2>3. CASE s.ports[p].class # "text"
    BY <1>6, <2>1, <2>3, OtherBytes DEF Through
  <2> QED BY <2>2, <2>3
<1>7. ASSUME NEW q \in DOMAIN s.ports, q # p, Alone(s.ports, q)
      PROVE  BytesStay(s, t, Under(s, q))
  <2> DEFINE v == Under(s, q)
  <2>1. /\ v \in DOMAIN s.ports /\ s.ports[v].class \in FileClasses \cup {"c-data"}
        /\ s.ports[q].class = "text" /\ v # p /\ p \in DOMAIN s.ports \ {q, v}
    BY <1>7, UnderIs DEF Alone, Under, Through
  <2>2. s.ports[p].under # v
    BY <1>7, <2>1 DEF Alone, Under
  <2>3. ASSUME s.ports[p].class = "text", {s.ports[u].class, s.ports[v].class} \subseteq FileClasses
        PROVE  s.ports[u].data # s.ports[v].data
    <3>1. u # q
      BY <2>1, <2>3 DEF FileClasses
    <3>2. u \in DOMAIN s.ports \ {q, v}
      BY <1>3, <2>2, <2>3, <3>1 DEF Under
    <3> QED BY <1>7, <2>3, <3>2 DEF Alone, Under
  <2> QED BY <1>6, <2>1, <2>2, <2>3 DEF Under
<1>8. ASSUME NEW q \in DOMAIN s.ports, Bare(s.ports, q)
      PROVE  BytesStay(s, t, q)
  <2>1. s.ports[q].class \in FileClasses \cup {"c-data"} /\ q # p
    BY <1>8 DEF Bare, Through
  <2>2. q # u
    BY <1>3, <1>8, <2>1 DEF Bare, Under
  <2>3. ASSUME s.ports[p].class = "text", {s.ports[u].class, s.ports[q].class} \subseteq FileClasses
        PROVE  s.ports[u].data # s.ports[q].data
    BY <1>3, <1>8, <2>2, <2>3 DEF Bare
  <2> QED BY <1>6, <2>1, <2>2, <2>3
<1>9. \A q \in DOMAIN s.ports :
        \/ Local(t, q)
        \/ /\ LooksAs(s.ports[q], t.ports[q]) /\ Owing(t.ports[q])
           /\ Alone(s.ports, q) /\ Alone(t.ports, q) => BytesStay(s, t, Under(s, q))
  BY <1>4, <1>7
<1>10. \A q \in DOMAIN s.ports : Bare(s.ports, q) /\ Bare(t.ports, q) => BytesStay(s, t, q)
  BY <1>8
<1> QED BY <1>5, <1>9, <1>10, TextsStay

(* So does the use of a port for bytes.                                    *)
LEMMA DirectlyTexts ==
  ASSUME NEW F, NEW s, NEW t, Good(F, s), Kept(F, s, t), NEW p \in DOMAIN s.ports,
         Directly(s, t, p), TextsIn(s)
  PROVE  TextsIn(t)
<1>1. /\ DOMAIN t.ports = DOMAIN s.ports
      /\ \A q \in DOMAIN s.ports : Fixed(s.ports[q], t.ports[q]) /\ Sound(F, s.ports[q])
  BY KeptParts, GoodParts
<1>2. \A q \in DOMAIN s.ports : Local(s, q)
  BY DEF TextsIn
<1>3. ASSUME NEW q \in DOMAIN s.ports
      PROVE  LooksAs(s.ports[q], t.ports[q]) /\ Owing(t.ports[q])
  <2>1. Sound(F, s.ports[q]) /\ Owing(s.ports[q])
    BY <1>1, <1>2 DEF Local
  <2>2. \/ t.ports[q] = s.ports[q]
        \/ t.ports[q] = [s.ports[q] EXCEPT !.pos = t.ports[q].pos, !.direct = TRUE]
    BY DEF Directly
  <2> QED BY <2>1, <2>2, LooksStay
<1>4. t.ports[p].direct
  <2>1. s.ports[p] \in PortRecords(F)
    BY <1>1, FieldTypes
  <2> QED BY <2>1 DEF PortRecords, Directly
<1>5. Framed(s.ports, t.ports)
  <2>1. ASSUME NEW r \in DOMAIN s.ports, s.ports[r].direct
        PROVE  t.ports[r].direct
    BY <1>4, <2>1 DEF Directly
  <2> QED BY <1>1, <2>1 DEF Framed, Fixed
<1>6. ASSUME NEW v \in DOMAIN s.ports, v # p,
             s.ports[v].class \in FileClasses \cup {"c-data"},
             {s.ports[p].class, s.ports[v].class} \subseteq FileClasses =>
               s.ports[p].data # s.ports[v].data
      PROVE  BytesStay(s, t, v)
  <2>1. t.ports[v] = s.ports[v] /\ FilesStay(s, t, p)
    BY <1>6 DEF Directly
  <2> QED BY <1>6, <2>1, OtherBytes
<1>7. ASSUME NEW q \in DOMAIN s.ports, Alone(s.ports, q), Alone(t.ports, q)
      PROVE  BytesStay(s, t, Under(s, q))
  <2> DEFINE v == Under(s, q)
  <2>1. /\ v \in DOMAIN s.ports /\ s.ports[v].class \in FileClasses \cup {"c-data"}
        /\ s.ports[q].class = "text" /\ t.ports[q].under = v
    BY <1>1, <1>7, UnderIs DEF Alone, Under, Fixed
  <2>2. v # p
    BY <1>4, <1>7, <2>1 DEF Alone
  <2>3. ASSUME {s.ports[p].class, s.ports[v].class} \subseteq FileClasses
        PROVE  s.ports[p].data # s.ports[v].data
    <3>1. p \in DOMAIN s.ports \ {q, v}
      BY <2>1, <2>2, <2>3 DEF FileClasses
    <3> QED BY <1>7, <2>3, <3>1 DEF Alone, Under
  <2> QED BY <1>6, <2>1, <2>2, <2>3
<1>8. ASSUME NEW q \in DOMAIN s.ports, Bare(s.ports, q), Bare(t.ports, q)
      PROVE  BytesStay(s, t, q)
  <2>1. s.ports[q].class \in FileClasses \cup {"c-data"} /\ q # p
    BY <1>4, <1>8 DEF Bare
  <2>2. {s.ports[p].class, s.ports[q].class} \subseteq FileClasses => s.ports[p].data # s.ports[q].data
    BY <1>8, <2>1 DEF Bare
  <2> QED BY <1>6, <2>1, <2>2
<1>9. \A q \in DOMAIN s.ports :
        \/ Local(t, q)
        \/ /\ LooksAs(s.ports[q], t.ports[q]) /\ Owing(t.ports[q])
           /\ Alone(s.ports, q) /\ Alone(t.ports, q) => BytesStay(s, t, Under(s, q))
  BY <1>3, <1>7
<1> QED BY <1>5, <1>8, <1>9, TextsStay

(* An answer is not part of it.                                            *)
LEMMA ReplyTexts ==
  ASSUME NEW F, NEW s, Good(F, s), TextsIn(s), NEW r
  PROVE  TextsIn(Reply(s, r))
<1> DEFINE t == Reply(s, r)
<1>1. t.ports = s.ports /\ t.disk = s.disk
  BY GoodParts DEF Reply, Systems
<1>2. TextsIn(s)
  OBVIOUS
<1> HIDE DEF t
<1>3. TextsIn(t)
  <2>1. \A u : Bytes(t, u) = Bytes(s, u)
    BY <1>1 DEF Bytes
  <2>2. \A p : Under(t, p) = Under(s, p)
    BY <1>1 DEF Under
  <2>3. \A u : (Readable(t, u) <=> Readable(s, u)) /\ Used(t, u) = Used(s, u)
    BY <1>1, <2>1 DEF Readable, Used
  <2>4. \A p : ReaderIs(t, p) <=> ReaderIs(s, p)
    BY <1>1, <2>2, <2>3 DEF ReaderIs, Hears, ReaderStands
  <2>5. \A p : (Local(t, p) <=> Local(s, p)) /\ (Untouched(t, p) <=> Untouched(s, p))
    BY <1>1, <2>1, <2>2, <2>4 DEF Local, Untouched
  <2> QED BY <1>1, <1>2, <2>5 DEF TextsIn
<1> QED BY <1>3 DEF t
-----------------------------------------------------------------------------
(* Reading leaves the texts as they should be.                             *)

(* A character is read from a port without a change to any but the ports   *)
(* it is read through.                                                     *)
LEMMA RawReading ==
  ASSUME NEW F, NEW s, Good(F, s), NEW p \in DOMAIN s.ports, TextPort(s.ports[p]), Input(s.ports[p])
  PROVE  /\ Reading(s, Raw(s, p), p)
         /\ s.ports[p].class = "text" => RawReads(s, Raw(s, p), p)
<1> DEFINE port == s.ports[p]
           t == Raw(s, p)
<1>1. CASE port.class = "text"
  <2>1. RawReads(s, t, p)
    BY <1>1, UnreadReads, ReadTextPortReads DEF Raw
  <2> QED BY <2>1 DEF RawReads
<1>2. CASE port.class # "text"
  <2>0. /\ Sound(F, port) /\ port.pbuf = << >> /\ s \in Systems(F)
        /\ s \in [ports : Seq(PortRecords(F)), disk : [F -> Seq(Characters)], reply : Replies \cup {Skip}]
    BY <1>2, GoodParts DEF Sound, Systems
  <2>1. CASE port.pos >= Len(port.data)
    <3>1. t = Reply(s, Eof) /\ Eof \in Replies \cup {Skip}
      BY <1>2, <2>0, <2>1 DEF Raw, ReadStringPort, Replies
    <3> HIDE DEF t
    <3>2. Reading(s, t, p)
      BY <3>1, ReplyReading
    <3> QED BY <1>2, <3>2 DEF t
  <2>2. CASE ~(port.pos >= Len(port.data))
    <3> DEFINE x == PutPort(s, p, [port EXCEPT !.pos = @ + 1])
    <3>1. t = Reply(x, port.data[port.pos + 1])
      <4>1. t = Reply([s EXCEPT !.ports[p].pos = @ + 1], port.data[port.pos + 1])
        BY <1>2, <2>0, <2>2 DEF Raw, ReadStringPort
      <4>2. [s EXCEPT !.ports[p].pos = @ + 1] = x
        BY DEF PutPort
      <4> QED BY <4>1, <4>2
    <3>2. x.disk = s.disk /\ \A q \in DOMAIN s.ports \ {p} : x.ports[q] = s.ports[q]
      BY <2>0, PutParts
    <3>3. t.ports = x.ports /\ t.disk = x.disk
      BY <2>0, <3>1 DEF Reply, PutPort
    <3> HIDE DEF t, x
    <3>4. Reading(s, t, p)
      BY <1>2, <3>2, <3>3 DEF Reading
    <3> QED BY <1>2, <3>4 DEF t
  <2> QED BY <2>1, <2>2
<1> QED BY <1>1, <1>2

(* What reading changes is what a text port changes.                       *)
LEMMA ReadingThrough ==
  ASSUME NEW F, NEW s, Good(F, s), NEW p \in DOMAIN s.ports, NEW t, Reading(s, t, p),
         s.ports[p].class \in {"text", "string-input", "string-output"}
  PROVE  Through(s, t, p)
<1>1. s.ports[p].class \notin FileClasses \cup {"c-data"}
  BY DEF FileClasses
<1>2. t.disk = s.disk
  BY DEF Reading
<1>3. FilesStay(s, t, Under(s, p))
  BY <1>2 DEF FilesStay
<1> QED BY <1>1, <1>2, <1>3 DEF Reading, Through

(* A character is read, and the port is changed once more.                 *)
Moved(s, t, p, port) ==
    /\ t.disk = Raw(s, p).disk
    /\ t.ports = PutPort(Raw(s, p), p, port).ports

(* Such a change of a port for input, which keeps what the port said and   *)
(* has it stand at the end of it.                                          *)
LEMMA ReaderMoves ==
  ASSUME NEW F, NEW s, Good(F, s), NEW p \in DOMAIN s.ports, TextPort(s.ports[p]), Input(s.ports[p]),
         TextsIn(s), NEW port, NEW t, Kept(F, s, t), Moved(s, t, p, port),
         Fixed(Raw(s, p).ports[p], port), Sound(F, port),
         s.ports[p].class = "text" =>
           LET r == Raw(s, p).reply
               was == Raw(s, p).ports[p]
               said == IF r \in {Eof, Abort} THEN was.passed ELSE Append(was.passed, r)
           IN  /\ port.needs_lf = was.needs_lf /\ port.translate = was.translate
               /\ port.toggled = was.toggled
               /\ Said(port) = said
               /\ r # Eof /\ CR \notin Range(said)
                  /\ At(was, Row(was.passed), Column(was.passed, {LF}, {})) =>
                    At(port, Row(port.passed), Column(port.passed, {LF}, {}))
  PROVE  TextsIn(t)
<1> DEFINE x == Raw(s, p)
           a == s.ports[p]
           b == x.ports[p]
           u == Under(s, p)
           r == x.reply
           said == IF r \in {Eof, Abort} THEN a.passed ELSE Append(a.passed, r)
<1>1. /\ Kept(F, s, x) /\ Good(F, x) /\ DOMAIN x.ports = DOMAIN s.ports /\ x \in Systems(F)
      /\ a.class \in {"text", "string-input"} /\ Sound(F, a)
      /\ r \in Characters \cup {Eof, Abort}
  BY RawKept, TextReaders, KeptParts, GoodParts
<1>2. Reading(s, x, p)
  BY RawReading
<1> HIDE DEF x
<1>3. /\ t.disk = x.disk /\ t.ports[p] = port
      /\ \A q \in DOMAIN s.ports \ {p} : t.ports[q] = x.ports[q]
  BY <1>1, PutParts DEF Moved, x
<1>4. Reading(s, t, p)
  <2>1. a.class = "text" => u \in DOMAIN s.ports /\ u # p
    BY UnderIs
  <2> QED BY <1>2, <1>3, <2>1 DEF Reading
<1>5. Through(s, t, p)
  BY <1>1, <1>4, ReadingThrough
<1>6. t.ports[p].class = a.class /\ t.ports[p].made = a.made /\ t.ports[p].under = a.under
  BY KeptParts DEF Fixed
<1>7. CASE a.class = "string-input"
  <2>1. Local(t, p)
    BY <1>6, <1>7 DEF Local, Owing, Alone
  <2> QED BY <1>5, <2>1, ThroughTexts
<1>8. ASSUME a.class = "text" PROVE TextsIn(t)
  <2>1. "output" \notin a.made
    BY <1>1, <1>8 DEF Sound, Input, MadeRight, FileClasses
  <2>2. RawReads(s, x, p) /\ u \in DOMAIN s.ports /\ u # p
    BY <1>8, RawReading, UnderIs DEF x
  <2>3. /\ b.passed = a.passed /\ b.row = a.row /\ b.col = a.col
        /\ b.translate = a.translate /\ b.toggled = a.toggled
    <3>1. b = Blank(a, b.needs_lf) /\ a \in PortRecords(F)
      BY <1>1, <2>2, FieldTypes DEF RawReads
    <3> HIDE DEF a
    <3> QED BY <3>1 DEF Blank, PortRecords
  <2>4. /\ port.needs_lf = b.needs_lf /\ port.translate = b.translate /\ port.toggled = b.toggled
        /\ Said(port) = said
        /\ r # Eof /\ CR \notin Range(said) /\ At(b, Row(b.passed), Column(b.passed, {LF}, {})) =>
             At(port, Row(port.passed), Column(port.passed, {LF}, {}))
    BY <1>8, <2>3 DEF x
  <2>5. Under(t, p) = u /\ Under(x, p) = u
    BY <1>1, <1>6, SameWays DEF Under
  <2>6. ASSUME Alone(t.ports, p)
        PROVE  ReaderIs(t, p)
    <3>1. Framed(s.ports, t.ports)
      <4>1. ASSUME NEW q \in DOMAIN s.ports, s.ports[q].class \in FileClasses \cup {"c-data"}
            PROVE  t.ports[q].direct = s.ports[q].direct
        <5>1. q # p
          BY <1>8, <4>1 DEF FileClasses
        <5>2. CASE q = u
          <6>1. t.ports[u] = [s.ports[u] EXCEPT !.pos = t.ports[u].pos] /\ s.ports[u] \in PortRecords(F)
            BY <1>4, <1>8, <2>2, GoodParts, FieldTypes DEF Reading
          <6> QED BY <5>2, <6>1 DEF PortRecords
        <5>3. CASE q # u
          BY <1>4, <5>1, <5>3 DEF Reading
        <5> QED BY <5>2, <5>3
      <4>2. /\ DOMAIN t.ports = DOMAIN s.ports
            /\ \A q \in DOMAIN s.ports : Fixed(s.ports[q], t.ports[q])
        BY KeptParts
      <4> QED BY <4>1, <4>2 DEF Framed, Fixed
    <3>2. Alone(s.ports, p)
      <4>1. s.ports[p].under \in DOMAIN s.ports
        BY <2>2 DEF Under
      <4> QED BY <2>6, <3>1, <4>1, FramedAlone
    <3>3. ReaderIs(s, p) /\ HasBytes(s, p)
      <4>1. Local(s, p)
        BY DEF TextsIn
      <4>2. "input" \in a.made
        BY <1>1, <1>8 DEF Sound, Input
      <4>3. HasBytes(s, p)
        BY <3>2 DEF Alone, HasBytes, Under
      <4> QED BY <3>2, <4>1, <4>2, <4>3 DEF Local
    <3>4. /\ Hears(x, p, said)
          /\ r = Eof => ~Readable(x, u)
          /\ Said(a) \in {a.passed, Append(a.passed, r)} /\ (r \in {Eof, Abort} => Said(a) = a.passed)
      BY <2>2, <3>3 DEF RawReads, ReaderIs
    <3>5. Readable(x, u) => Readable(s, u)
      BY <1>1, <1>2, <3>3, ReadableBefore DEF HasBytes
    <3>6. t.ports[u] = x.ports[u] /\ t.disk = x.disk
      BY <1>3, <2>2
    <3>7. (Readable(t, u) <=> Readable(x, u)) /\ Used(t, u) = Used(x, u)
      BY <3>6 DEF Readable, Used, Bytes
    <3>8. Hears(t, p, said)
      <4>1. x.ports[u].from <= x.ports[u].pos /\ ReaderSays(b, Used(x, u), said)
        BY <2>5, <3>4 DEF Hears
      <4>2. ReaderSays(port, Used(t, u), said)
        <5> HIDE DEF b, said
        <5> QED BY <2>4, <3>7, <4>1 DEF ReaderSays
      <4> QED BY <1>3, <2>5, <3>6, <4>1, <4>2 DEF Hears
    <3>9. ReaderStands(t, p)
      <4>1. ASSUME CR \notin Range(said), Readable(t, u)
            PROVE  At(port, Row(port.passed), Column(port.passed, {LF}, {}))
        <5>1. CR \notin Range(Said(a))
          <6>1. a.passed \in Seq(Characters)
            BY <1>1, FieldTypes
          <6>2. CASE r \in {Eof, Abort}
            BY <3>4, <4>1, <6>2
          <6>3. CASE r \notin {Eof, Abort}
            <7>1. r \in Characters
              BY <1>1, <6>3
            <7>2. Range(a.passed) \subseteq Range(Append(a.passed, r))
              <8> DEFINE v == a.passed
                         w == Append(v, r)
              <8>1. /\ DOMAIN v = 1 .. Len(v) /\ DOMAIN w = 1 .. Len(v) + 1
                    /\ \A i \in 1 .. Len(v) : i \in 1 .. Len(v) + 1 /\ w[i] = v[i]
                BY <6>1, <7>1, Appended
              <8> HIDE DEF v, w
              <8>2. Range(v) \subseteq Range(w)
                BY <8>1 DEF Range
              <8> QED BY <8>2 DEF v, w
            <7> QED BY <3>4, <4>1, <6>3, <7>2
          <6> QED BY <6>2, <6>3
        <5>2. Readable(s, u) /\ r # Eof
          BY <3>4, <3>5, <3>7, <4>1
        <5>3. At(a, Row(a.passed), Column(a.passed, {LF}, {}))
          BY <3>3, <5>1, <5>2 DEF ReaderIs, ReaderStands
        <5>4. At(b, Row(b.passed), Column(b.passed, {LF}, {}))
          <6> HIDE DEF a, b
          <6> QED BY <2>3, <5>3 DEF At
        <5> QED BY <2>4, <4>1, <5>2, <5>4
      <4> QED BY <1>3, <2>4, <2>5, <4>1 DEF ReaderStands
    <3> QED BY <1>3, <2>4, <3>8, <3>9 DEF ReaderIs
  <2>7. Local(t, p)
    BY <1>6, <1>8, <2>1, <2>6 DEF Local, Owing
  <2> QED BY <1>5, <2>7, ThroughTexts
<1> QED BY <1>1, <1>7, <1>8

(* The fields of a port that read a character.                             *)
LEMMA PositionFields ==
  ASSUME NEW F, NEW port, Sound(F, port), NEW c
  PROVE  LET o == ReadPosition(port, c) IN
         /\ o.needs_lf = port.needs_lf /\ o.translate = port.translate /\ o.toggled = port.toggled
         /\ o.passed = port.passed /\ o.pbuf = port.pbuf
         /\ o.row = (IF c = LF THEN port.row + 1 ELSE port.row)
         /\ o.col = (IF c = LF THEN 0 ELSE port.col + 1)
         /\ o.pline_mcol = (IF c = LF THEN port.col ELSE port.pline_mcol)
<1>1. port \in PortRecords(F)
  BY FieldTypes
<1>2. CASE c = LF
  BY <1>1, <1>2 DEF PortRecords, ReadPosition, Move
<1>3. CASE c # LF
  BY <1>1, <1>3 DEF PortRecords, ReadPosition, Move
<1> QED BY <1>2, <1>3

(* Those of one that unread it.                                            *)
LEMMA UnmoveFields ==
  ASSUME NEW F, NEW port, Sound(F, port), NEW c
  PROVE  LET o == Unmove(ReadPosition(port, c), c) IN
         /\ o.needs_lf = port.needs_lf /\ o.translate = port.translate /\ o.toggled = port.toggled
         /\ o.passed = port.passed
         /\ c # CR => o.row = port.row /\ o.col = port.col
<1> DEFINE a == ReadPosition(port, c)
           o == Unmove(a, c)
<1>1. port \in PortRecords(F) /\ Sound(F, a)
  BY FieldTypes, PositionSound
<1>2. a \in PortRecords(F) /\ port.col \in Nat /\ port.row \in Nat
  BY <1>1, FieldTypes
<1>3. /\ a.needs_lf = port.needs_lf /\ a.translate = port.translate /\ a.toggled = port.toggled
      /\ a.passed = port.passed
      /\ a.row = (IF c = LF THEN port.row + 1 ELSE port.row)
      /\ a.col = (IF c = LF THEN 0 ELSE port.col + 1)
      /\ a.pline_mcol = (IF c = LF THEN port.col ELSE port.pline_mcol)
  BY PositionFields
<1> HIDE DEF a
<1>4. /\ o.needs_lf = a.needs_lf /\ o.translate = a.translate /\ o.toggled = a.toggled
      /\ o.passed = a.passed
      /\ c = LF => o.row = a.row - 1 /\ o.col = a.pline_mcol
      /\ c \notin {CR, LF} => o.row = a.row /\ o.col = a.col - 1
  <2>1. CASE c = LF
    BY <1>2, <2>1, CharactersDiffer DEF PortRecords, Unmove
  <2>2. CASE c = CR
    BY <1>2, <2>2, CharactersDiffer DEF PortRecords, Unmove
  <2>3. CASE c \notin {CR, LF}
    BY <1>2, <2>3 DEF PortRecords, Unmove
  <2> QED BY <2>1, <2>2, <2>3
<1> HIDE DEF o
<1>5. c # CR => o.row = port.row /\ o.col = port.col
  BY <1>2, <1>3, <1>4
<1> QED BY <1>3, <1>4, <1>5 DEF o, a

(* Nothing follows a text that ends.                                       *)
LEMMA SaidBy ==
  ASSUME NEW F, NEW port, Sound(F, port)
  PROVE  /\ port.pbuf = << >> => Said(port) = port.passed
         /\ \A c \in Characters : port.pbuf = <<c>> => Said(port) = Append(port.passed, c)
<1> DEFINE x == port.passed
<1>1. x \in Seq(Characters)
  BY FieldTypes
<1> HIDE DEF x
<1>2. x \o << >> = x /\ \A c \in Characters : x \o <<c>> = Append(x, c)
  BY <1>1
<1> QED BY <1>2 DEF Said, x

(* Taking a character.                                                     *)
LEMMA TakeTexts ==
  ASSUME NEW F, NEW s, Good(F, s), NEW p \in DOMAIN s.ports, TextsIn(s)
  PROVE  TextsIn(Take(s, p))
<1> DEFINE x == Raw(s, p)
           r == x.reply
           b == x.ports[p]
           d == ReadPosition(b, r)
           t == Take(s, p)
           read == ReadChar(s, p)
<1>0. Kept(F, s, t)
  BY TakeKept DEF ReadsWell
<1>1. CASE ~(TextPort(s.ports[p]) /\ Input(s.ports[p]))
  <2>1. read = Reply(s, Abort)
    BY <1>1, ReadCharIs
  <2>2. t = Reply(s, Abort)
    <3>1. read.reply = Abort
      BY <2>1, ReplyKept DEF Replies
    <3> QED BY <2>1, <3>1 DEF Take
  <2> QED BY <2>2, ReplyTexts
<1>2. ASSUME TextPort(s.ports[p]), Input(s.ports[p]) PROVE TextsIn(t)
  <2>1. /\ Kept(F, s, x) /\ r \in Characters \cup {Eof, Abort} /\ b.pbuf = << >>
        /\ x \in Systems(F) /\ p \in DOMAIN x.ports /\ Sound(F, b)
    BY <1>2, RawKept, KeptParts, GoodParts
  <2>2. \A port : PutPort(x, p, port).ports[p] = port /\ PutPort(x, p, port).disk = x.disk
                  /\ PutPort(x, p, port).reply = r
    BY <2>1, PutParts
  <2>3. Said(b) = b.passed
    BY <2>1, SaidBy
  <2> HIDE DEF x
  <2>4. CASE r = Abort
    <3>1. read = x
      BY <1>2, <2>4, ReadCharIs DEF x
    <3>2. t = x
      BY <2>4, <3>1 DEF Take
    <3>3. PutPort(x, p, b) = x
      BY <2>1 DEF PutPort, Systems
    <3>4. Moved(s, t, p, b) /\ Fixed(b, b)
      BY <3>2, <3>3 DEF Moved, x, Fixed
    <3> HIDE DEF t
    <3> QED BY <1>0, <1>2, <2>1, <2>3, <2>4, <3>4, ReaderMoves DEF x, t
  <2>5. CASE r # Abort
    <3>1. read = PutPort(x, p, d)
      BY <1>2, <2>5, ReadCharIs DEF x
    <3>2. Sound(F, d) /\ Fixed(b, d)
      BY <2>1, PositionSound
    <3>3. /\ d.needs_lf = b.needs_lf /\ d.translate = b.translate /\ d.toggled = b.toggled
          /\ d.passed = b.passed /\ d.pbuf = b.pbuf
          /\ d.row = (IF r = LF THEN b.row + 1 ELSE b.row)
          /\ d.col = (IF r = LF THEN 0 ELSE b.col + 1)
      BY <2>1, PositionFields
    <3> HIDE DEF d
    <3>4. CASE r = Eof
      <4>1. t = PutPort(x, p, d)
        BY <2>2, <3>1, <3>4 DEF Take
      <4>2. Said(d) = d.passed
        BY <2>1, <3>2, <3>3, SaidBy
      <4>3. Moved(s, t, p, d)
        BY <4>1, <2>2 DEF Moved, x
      <4> HIDE DEF t
      <4> QED BY <1>0, <1>2, <3>2, <3>3, <3>4, <4>2, <4>3, ReaderMoves DEF x, t
    <3>5. CASE r # Eof
      <4> DEFINE e == [d EXCEPT !.passed = Append(@, r)]
                 said == Append(b.passed, r)
      <4>0. r \in Characters
        BY <2>1, <2>5, <3>5
      <4>1. Sound(F, e) /\ Fixed(d, e)
        BY <3>2, <4>0, PassedSound
      <4>2. t = PutPort(x, p, e)
        <5>1. read.reply = r /\ read.ports[p] = d
          BY <2>2, <3>1
        <5>2. t = PutPort(read, p, e)
          <6>1. t = [read EXCEPT !.ports[p].passed = Append(@, r)]
            BY <2>5, <3>5, <5>1 DEF Take
          <6> HIDE DEF read, t
          <6> QED BY <5>1, <6>1 DEF PutPort
        <5> HIDE DEF t, e, read
        <5> QED BY <2>1, <3>1, <5>2, PutAgain
      <4>3. /\ e.needs_lf = d.needs_lf /\ e.translate = d.translate /\ e.toggled = d.toggled
            /\ e.passed = Append(d.passed, r) /\ e.pbuf = d.pbuf /\ e.row = d.row /\ e.col = d.col
        <5>1. d \in PortRecords(F)
          BY <3>2, FieldTypes
        <5> QED BY <5>1 DEF PortRecords
      <4> HIDE DEF e
      <4>4. Said(e) = said /\ e.passed = said
        BY <2>1, <3>3, <4>1, <4>3, SaidBy
      <4>5. Moved(s, t, p, e)
        BY <4>2, <2>2 DEF Moved, x
      <4>6. Fixed(b, e)
        BY <3>2, <4>1 DEF Fixed
      <4>7. ASSUME At(b, Row(b.passed), Column(b.passed, {LF}, {}))
            PROVE  At(e, Row(e.passed), Column(e.passed, {LF}, {}))
        <5>1. b.passed \in Seq(Characters)
          BY <2>1, FieldTypes
        <5>2. /\ Row(said) = IF r = LF THEN Row(b.passed) + 1 ELSE Row(b.passed)
              /\ Column(said, {LF}, {}) =
                   IF r = LF THEN 0 ELSE Column(b.passed, {LF}, {}) + 1
          BY <4>0, <5>1, RowAdd, ColumnAdd
        <5>3. b.row = Row(b.passed) /\ b.col = Column(b.passed, {LF}, {})
          BY <4>7, SMTT(30) DEF At
        <5> HIDE DEF said, b
        <5> QED BY <3>3, <4>3, <4>4, <5>2, <5>3 DEF At
      <4> HIDE DEF t
      <4>8. TextsIn(t)
        BY <1>0, <1>2, <2>5, <3>3, <3>5, <4>1, <4>3, <4>4, <4>5, <4>6, <4>7, ReaderMoves DEF x
      <4> QED BY <4>8 DEF t
    <3> QED BY <3>4, <3>5
  <2> QED BY <2>4, <2>5
<1> QED BY <1>1, <1>2

(* Peeking at one.                                                         *)
LEMMA PeekTexts ==
  ASSUME NEW F, NEW s, Good(F, s), NEW p \in DOMAIN s.ports, TextsIn(s)
  PROVE  TextsIn(PeekChar(s, p))
<1> DEFINE x == Raw(s, p)
           r == x.reply
           b == x.ports[p]
           d == ReadPosition(b, r)
           t == PeekChar(s, p)
           read == ReadChar(s, p)
<1>0. Kept(F, s, t)
  BY PeekKept DEF ReadsWell
<1>1. CASE ~(TextPort(s.ports[p]) /\ Input(s.ports[p])) \/ s.ports[p].class # "text"
  <2>1. \E c : t = Reply(s, c)
    BY <1>1 DEF PeekChar
  <2> QED BY <2>1, ReplyTexts
<1>2. ASSUME TextPort(s.ports[p]), Input(s.ports[p]), s.ports[p].class = "text" PROVE TextsIn(t)
  <2>1. /\ Kept(F, s, x) /\ r \in Characters \cup {Eof, Abort} /\ b.pbuf = << >>
        /\ x \in Systems(F) /\ p \in DOMAIN x.ports /\ Sound(F, b) /\ b.class = "text"
    BY <1>2, RawKept, KeptParts, GoodParts, SameWays
  <2>2. \A port : PutPort(x, p, port).ports[p] = port /\ PutPort(x, p, port).disk = x.disk
                  /\ PutPort(x, p, port).reply = r
    BY <2>1, PutParts
  <2>3. t = IF read.reply \in {Eof, Abort} THEN read
            ELSE [read EXCEPT !.ports[p] = [Unmove(@, read.reply) EXCEPT !.pbuf = <<read.reply>>]]
    BY <1>2 DEF PeekChar, PeekTextPort
  <2>4. Said(b) = b.passed
    BY <2>1, SaidBy
  <2> HIDE DEF x, t
  <2>5. CASE r = Abort
    <3>1. read = x
      BY <1>2, <2>5, ReadCharIs DEF x
    <3>2. t = x
      BY <2>3, <2>5, <3>1
    <3>3. PutPort(x, p, b) = x
      BY <2>1 DEF PutPort, Systems
    <3>4. Moved(s, t, p, b) /\ Fixed(b, b)
      BY <3>2, <3>3 DEF Moved, x, Fixed
    <3> QED BY <1>0, <1>2, <2>1, <2>4, <2>5, <3>4, ReaderMoves DEF x
  <2>6. CASE r # Abort
    <3>1. read = PutPort(x, p, d) /\ read.reply = r /\ read.ports[p] = d
      BY <1>2, <2>2, <2>6, ReadCharIs DEF x
    <3>2. Sound(F, d) /\ Fixed(b, d)
      BY <2>1, PositionSound
    <3>3. CASE r = Eof
      <4>1. t = PutPort(x, p, d)
        BY <2>3, <3>1, <3>3
      <4>2. /\ d.needs_lf = b.needs_lf /\ d.translate = b.translate /\ d.toggled = b.toggled
            /\ d.passed = b.passed /\ d.pbuf = b.pbuf
        BY <2>1, PositionFields
      <4> HIDE DEF d
      <4>3. Said(d) = d.passed
        BY <2>1, <3>2, <4>2, SaidBy
      <4>4. Moved(s, t, p, d)
        BY <4>1, <2>2 DEF Moved, x
      <4> QED BY <1>0, <1>2, <3>2, <3>3, <4>2, <4>3, <4>4, ReaderMoves DEF x
    <3>4. CASE r # Eof
      <4> DEFINE o == Unmove(d, r)
                 e == [o EXCEPT !.pbuf = <<r>>]
                 said == Append(b.passed, r)
      <4>0. r \in Characters
        BY <2>1, <2>6, <3>4
      <4>1. /\ o.needs_lf = b.needs_lf /\ o.translate = b.translate /\ o.toggled = b.toggled
            /\ o.passed = b.passed
            /\ r # CR => o.row = b.row /\ o.col = b.col
        BY <2>1, UnmoveFields
      <4>2. Sound(F, o) /\ Fixed(b, o)
        BY <2>1, <4>0, UnmoveSound
      <4>3. t = PutPort(x, p, e)
        <5>1. t = PutPort(read, p, e)
          <6>1. t = [read EXCEPT !.ports[p] = [Unmove(@, r) EXCEPT !.pbuf = <<r>>]]
            BY <2>3, <2>6, <3>1, <3>4
          <6> HIDE DEF read, d
          <6> QED BY <3>1, <6>1 DEF PutPort
        <5> HIDE DEF e, read, d
        <5> QED BY <2>1, <3>1, <5>1, PutAgain
      <4> HIDE DEF o
      <4>4. Sound(F, e) /\ Fixed(o, e)
        BY <2>1, <4>0, <4>2, FilledSound DEF Fixed
      <4>5. /\ e.needs_lf = o.needs_lf /\ e.translate = o.translate /\ e.toggled = o.toggled
            /\ e.passed = o.passed /\ e.pbuf = <<r>> /\ e.row = o.row /\ e.col = o.col
        <5>1. o \in PortRecords(F)
          BY <4>2, FieldTypes
        <5> QED BY <5>1 DEF PortRecords
      <4> HIDE DEF e
      <4>6. Said(e) = said
        BY <4>0, <4>1, <4>4, <4>5, SaidBy
      <4>7. Moved(s, t, p, e) /\ Fixed(b, e)
        BY <4>2, <4>3, <4>4, <2>2 DEF Moved, x, Fixed
      <4>8. ASSUME At(b, Row(b.passed), Column(b.passed, {LF}, {})), CR \notin Range(said)
            PROVE  At(e, Row(e.passed), Column(e.passed, {LF}, {}))
        <5>1. r # CR
          <6>1. b.passed \in Seq(Characters)
            BY <2>1, FieldTypes
          <6> DEFINE v == b.passed
          <6>2. Len(v) + 1 \in DOMAIN said /\ said[Len(v) + 1] = r
            <7>1. DOMAIN said = 1 .. Len(v) + 1 /\ Len(v) \in Nat /\ said[Len(v) + 1] = r
              BY <4>0, <6>1, Appended
            <7> HIDE DEF v, said
            <7> QED BY <7>1
          <6>3. r \in Range(said)
            <7> HIDE DEF v, said
            <7> QED BY <6>2 DEF Range
          <6> QED BY <4>8, <6>3
        <5> HIDE DEF b
        <5> QED BY <4>1, <4>5, <4>8, <5>1 DEF At
      <4>9. TextsIn(t)
        BY <1>0, <1>2, <2>6, <3>4, <4>1, <4>4, <4>5, <4>6, <4>7, <4>8, ReaderMoves DEF x
      <4> QED BY <4>9
    <3> QED BY <3>3, <3>4
  <2> QED BY <2>5, <2>6
<1> QED BY <1>1, <1>2 DEF t
-----------------------------------------------------------------------------
(* Writing leaves the texts as they should be.                             *)

(* Writing through port p has changed it to port, and the bytes under it.  *)
Puts(s, t, p, port, bytes) ==
    LET u == Under(s, p) IN
    /\ DOMAIN t.ports = DOMAIN s.ports /\ t.ports[p] = port
    /\ \A q \in DOMAIN s.ports \ {p} : t.ports[q] = s.ports[q]
    /\ FilesStay(s, t, u)
    /\ CanWrite(s.ports[u])
    /\ s.ports[u].class \in FileClasses /\ Output(s.ports[u]) => Bytes(t, u) = bytes

(* A byte that could be written is at the end of the file.                 *)
LEMMA ByteGoes ==
  ASSUME NEW F, NEW s, Good(F, s), NEW u \in DOMAIN s.ports, NEW b \in Characters,
         WriteByte(s, u, b).reply # Abort
  PROVE  LET t == WriteByte(s, u, b) IN
         /\ t.ports = s.ports /\ FilesStay(s, t, u) /\ CanWrite(s.ports[u])
         /\ s.ports[u].class \in FileClasses /\ Output(s.ports[u]) => Bytes(t, u) = Append(Bytes(s, u), b)
<1> DEFINE t == WriteByte(s, u, b)
           port == s.ports[u]
<1>0. /\ s \in Systems(F) /\ s.disk \in [F -> Seq(Characters)] /\ Sound(F, port)
      /\ \A q \in DOMAIN s.ports : Sound(F, s.ports[q])
  BY GoodParts
<1>1. t.ports = s.ports
  BY WriteByteKept
<1>2. CanWrite(port)
  <2>1. CASE ~CanWrite(port)
    <3>1. t = Reply(s, Abort)
      BY <2>1 DEF WriteByte, CanWrite
    <3>2. t.reply = Abort
      BY <3>1, ReplyKept DEF Replies
    <3> QED BY <3>2
  <2> QED BY <2>1
<1>3. CASE port.class = "null" \/ ~Output(port)
  <2>1. t = s
    BY <1>2, <1>3 DEF WriteByte, CanWrite
  <2>2. FilesStay(s, s, u)
    BY DEF FilesStay
  <2> QED BY <1>2, <1>3, <2>1, <2>2 DEF FileClasses
<1>4. CASE ~(port.class = "null" \/ ~Output(port))
  <2> DEFINE f == port.data
             d == Append(s.disk[f], b)
  <2>1. t = [s EXCEPT !.disk[f] = d]
    BY <1>2, <1>4 DEF WriteByte, CanWrite
  <2>2. port.class \in FileClasses /\ f \in F
    BY <1>0, <1>2, <1>4 DEF CanWrite, WritesBytes, FileClasses, Sound
  <2> HIDE DEF d, f
  <2>3. t.disk[f] = d /\ \A g \in F \ {f} : t.disk[g] = s.disk[g]
    BY <1>0, <2>1, <2>2 DEF Systems
  <2> HIDE DEF t
  <2>4. FilesStay(s, t, u)
    <3>1. ASSUME NEW q \in DOMAIN s.ports, s.ports[q].class \in FileClasses, s.ports[q].data # f
          PROVE  t.disk[s.ports[q].data] = s.disk[s.ports[q].data]
      <4>1. s.ports[q].data \in F
        BY <1>0, <3>1, SMTT(30) DEF Sound
      <4> QED BY <2>3, <3>1, <4>1
    <3> QED BY <2>2, <3>1 DEF FilesStay, f
  <2>5. Bytes(t, u) = Append(Bytes(s, u), b)
    <3>1. port.class # "c-data"
      BY <2>2 DEF FileClasses
    <3> QED BY <1>1, <2>3, <3>1 DEF Bytes, d, f, t
  <2> QED BY <1>1, <1>2, <2>4, <2>5 DEF t
<1> QED BY <1>3, <1>4

(* A port changes after its bytes came to a file.                          *)
LEMMA PutGoes ==
  ASSUME NEW F, NEW s, Good(F, s), NEW p \in DOMAIN s.ports, s.ports[p].class = "text",
         NEW x, x \in Systems(F), x.ports = s.ports, FilesStay(s, x, Under(s, p)), CanWrite(s.ports[Under(s, p)]),
         NEW bytes,
         s.ports[Under(s, p)].class \in FileClasses /\ Output(s.ports[Under(s, p)]) =>
           Bytes(x, Under(s, p)) = bytes,
         NEW port
  PROVE  Puts(s, PutPort(x, p, port), p, port, bytes)
<1> DEFINE u == Under(s, p)
           t == PutPort(x, p, port)
<1>1. u \in DOMAIN s.ports /\ u # p
  BY UnderIs
<1>2. /\ t.disk = x.disk /\ DOMAIN t.ports = DOMAIN s.ports /\ t.ports[p] = port
      /\ \A q \in DOMAIN s.ports \ {p} : t.ports[q] = s.ports[q]
  BY PutParts
<1> HIDE DEF t
<1>3. FilesStay(s, t, u) /\ Bytes(t, u) = Bytes(x, u)
  BY <1>1, <1>2 DEF FilesStay, Bytes
<1> QED BY <1>2, <1>3 DEF Puts, t

(* The owed LF.                                                            *)
LEMMA EmitGoes ==
  ASSUME NEW F, NEW s, Good(F, s), NEW p \in DOMAIN s.ports, s.ports[p].class = "text",
         EmitLF(s, p).reply # Abort
  PROVE  Puts(s, EmitLF(s, p), p, Emitted(s.ports[p]), Append(Bytes(s, Under(s, p)), LF))
<1> DEFINE u == Under(s, p)
           t == WriteByte(s, u, LF)
           port == Emitted(s.ports[p])
<1>1. u \in DOMAIN s.ports /\ LF \in Characters
  BY UnderIs, CharactersDiffer
<1> HIDE DEF u
<1>2. Kept(F, s, t) /\ t.ports = s.ports
  BY <1>1, WriteByteKept
<1>3. t \in Systems(F) /\ p \in DOMAIN t.ports
  BY <1>2, GoodParts DEF Kept
<1>4. EmitLF(s, p) = PutPort(t, p, port)
  <2>1. EmitLF(s, p) = [t EXCEPT !.ports[p] = [t.ports[p] EXCEPT !.needs_lf = FALSE, !.row = @ + 1]]
    <3> HIDE DEF t
    <3> QED BY DEF EmitLF, t, u
  <2> QED BY <1>2, <2>1 DEF PutPort, Emitted
<1> HIDE DEF port
<1>5. t.reply # Abort
  <2>1. PutPort(t, p, port).reply = t.reply
    BY <1>3, PutParts
  <2> QED BY <1>4, <2>1
<1>6. /\ FilesStay(s, t, u) /\ CanWrite(s.ports[u])
      /\ s.ports[u].class \in FileClasses /\ Output(s.ports[u]) => Bytes(t, u) = Append(Bytes(s, u), LF)
  BY <1>1, <1>5, ByteGoes
<1> HIDE DEF t
<1> QED BY <1>2, <1>3, <1>4, <1>6, PutGoes DEF u, port

(* A character.                                                            *)
LEMMA TypeGoes ==
  ASSUME NEW F, NEW s, Good(F, s), NEW p \in DOMAIN s.ports, s.ports[p].class = "text",
         NEW c \in Characters, WriteTextPort(s, p, c).reply # Abort
  PROVE  Puts(s, WriteTextPort(s, p, c), p, Typed(s.ports[p], c),
              Typing(s.ports[p], Bytes(s, Under(s, p)), c))
<1> DEFINE u == Under(s, p)
           port == s.ports[p]
           v == IF port.translate THEN WriteByte(s, u, CR) ELSE s
           x == IF c = LF THEN WriteByte(v, u, LF) ELSE WriteByte(s, u, c)
           m == Typed(port, c)
<1>1. u \in DOMAIN s.ports /\ LF \in Characters /\ CR \in Characters /\ CR # LF /\ Sound(F, port)
  BY UnderIs, GoodParts, CharactersDiffer
<1> HIDE DEF u
<1>2. Kept(F, s, v) /\ v.ports = s.ports /\ Good(F, v)
  BY <1>1, WriteByteKept, SameSelf DEF Kept
<1> HIDE DEF v
<1>3. Kept(F, s, x) /\ x.ports = s.ports
  BY <1>1, <1>2, WriteByteKept, KeptTwice
<1>4. x \in Systems(F) /\ p \in DOMAIN x.ports /\ x.ports[p] = port
  BY <1>3, GoodParts DEF Kept
<1>5. WriteTextPort(s, p, c) = PutPort(x, p, m)
  <2>1. CASE c = LF
    <3>1. WriteTextPort(s, p, c) = [x EXCEPT !.ports[p] = Move(@, LF)]
      BY <2>1 DEF WriteTextPort, CR, LF, v, u
    <3>2. m = Move(port, LF)
      BY <1>1, <2>1 DEF Typed
    <3> HIDE DEF x, m, port
    <3> QED BY <1>4, <3>1, <3>2 DEF PutPort
  <2>2. CASE c = CR
    <3>1. WriteTextPort(s, p, c) = [x EXCEPT !.ports[p].col = 0, !.ports[p].needs_lf = port.translate]
      BY <2>2 DEF WriteTextPort, CR, LF, u
    <3>2. m = [port EXCEPT !.col = 0, !.needs_lf = port.translate]
      BY <2>2 DEF Typed
    <3> HIDE DEF x
    <3>3. x.ports \in Seq(PortRecords(F))
      BY <1>4, SystemParts
    <3>4. [x EXCEPT !.ports[p].col = 0, !.ports[p].needs_lf = port.translate] =
            PutPort(x, p, [x.ports[p] EXCEPT !.col = 0, !.needs_lf = port.translate])
      BY <1>4, <3>3 DEF PutPort, Systems
    <3> QED BY <1>4, <3>1, <3>2, <3>4
  <2>3. CASE c \notin {LF, CR}
    <3>1. WriteTextPort(s, p, c) = [x EXCEPT !.ports[p] = Move(@, c)]
      BY <2>3 DEF WriteTextPort, u
    <3>2. m = Move(port, c)
      BY <2>3 DEF Typed
    <3> HIDE DEF x, m, port
    <3> QED BY <1>4, <3>1, <3>2 DEF PutPort
  <2> QED BY <2>1, <2>2, <2>3
<1> HIDE DEF m
<1>6. x.reply # Abort
  <2> HIDE DEF x
  <2>1. PutPort(x, p, m).reply = x.reply
    BY <1>4, PutParts
  <2> QED BY <1>5, <2>1
<1>7. /\ FilesStay(s, x, u) /\ CanWrite(s.ports[u])
      /\ s.ports[u].class \in FileClasses /\ Output(s.ports[u]) => Bytes(x, u) = Typing(port, Bytes(s, u), c)
  <2>1. CASE c # LF
    <3>1. x = WriteByte(s, u, c)
      BY <2>1
    <3> HIDE DEF x, port
    <3> QED BY <1>1, <1>6, <2>1, <3>1, ByteGoes DEF Typing
  <2>2. CASE c = LF /\ ~port.translate
    <3>1. x = WriteByte(s, u, LF)
      BY <2>2 DEF v
    <3> HIDE DEF x, port
    <3> QED BY <1>1, <1>6, <2>2, <3>1, ByteGoes DEF Typing
  <2>3. CASE c = LF /\ port.translate
    <3>1. x = WriteByte(v, u, LF) /\ v = WriteByte(s, u, CR)
      BY <2>3 DEF v
    <3> HIDE DEF x, port
    <3>2. /\ FilesStay(v, x, u) /\ CanWrite(s.ports[u])
          /\ s.ports[u].class \in FileClasses /\ Output(s.ports[u]) => Bytes(x, u) = Append(Bytes(v, u), LF)
      BY <1>1, <1>2, <1>6, <3>1, ByteGoes
    <3>3. v.reply # Abort
      <4>1. WriteByte(v, u, LF).reply \in {v.reply, Abort}
        BY <1>1, <1>2, WriteByteKept
      <4> QED BY <1>6, <3>1, <4>1
    <3>4. /\ FilesStay(s, v, u)
          /\ s.ports[u].class \in FileClasses /\ Output(s.ports[u]) => Bytes(v, u) = Append(Bytes(s, u), CR)
      BY <1>1, <3>1, <3>3, ByteGoes
    <3>5. FilesStay(s, x, u)
      BY <1>2, <3>2, <3>4 DEF FilesStay
    <3> QED BY <2>3, <3>2, <3>4, <3>5 DEF Typing
  <2> QED BY <2>1, <2>2, <2>3
<1> HIDE DEF x
<1>8. Puts(s, PutPort(x, p, m), p, m, Typing(port, Bytes(s, u), c))
  <2> HIDE DEF port
  <2> QED BY <1>3, <1>4, <1>7, PutGoes DEF u
<1> QED BY <1>5, <1>8 DEF m, u

(* One after the other.                                                    *)
LEMMA PutsTwice ==
  ASSUME NEW F, NEW s, NEW x, NEW t, Good(F, s), NEW p \in DOMAIN s.ports, s.ports[p].class = "text",
         NEW a, NEW b, NEW c, NEW d, Puts(s, x, p, a, b), x.ports[p].under = s.ports[p].under,
         Puts(x, t, p, c, d)
  PROVE  Puts(s, t, p, c, d)
<1> DEFINE u == Under(s, p)
<1>1. u \in DOMAIN s.ports /\ u # p /\ Under(x, p) = u
  BY UnderIs DEF Under
<1> HIDE DEF u
<1>2. /\ x.ports[u] = s.ports[u] /\ DOMAIN x.ports = DOMAIN s.ports
      /\ \A q \in DOMAIN s.ports \ {p} : x.ports[q] = s.ports[q]
      /\ FilesStay(s, x, u)
  BY <1>1 DEF Puts, u
<1>3. /\ DOMAIN t.ports = DOMAIN x.ports /\ t.ports[p] = c
      /\ \A q \in DOMAIN x.ports \ {p} : t.ports[q] = x.ports[q]
      /\ FilesStay(x, t, u) /\ CanWrite(x.ports[u])
      /\ x.ports[u].class \in FileClasses /\ Output(x.ports[u]) => Bytes(t, u) = d
  BY <1>1 DEF Puts
<1>4. FilesStay(s, t, u)
  <2>1. ASSUME NEW q \in DOMAIN s.ports, s.ports[q].class \in FileClasses
        PROVE  q # p
    BY <2>1 DEF FileClasses
  <2> QED BY <1>2, <1>3, <2>1 DEF FilesStay
<1> QED BY <1>2, <1>3, <1>4 DEF Puts, u

(* A port for output that is alone writes what it is given.                *)
LEMMA AloneWrites ==
  ASSUME NEW F, NEW s, Good(F, s), NEW p \in DOMAIN s.ports, Alone(s.ports, p),
         "output" \in s.ports[p].made, CanWrite(s.ports[Under(s, p)])
  PROVE  /\ s.ports[Under(s, p)].class \in FileClasses /\ Output(s.ports[Under(s, p)])
         /\ "input" \notin s.ports[p].made
<1> DEFINE u == Under(s, p)
<1>1. /\ s.ports[p].class = "text" /\ s.ports[u].class \in FileClasses \cup {"c-data"}
      /\ "output" \in s.ports[u].made
  BY DEF Alone, Under
<1>2. u \in DOMAIN s.ports
  BY <1>1, UnderIs
<1>3. s.ports[u].class \in FileClasses /\ s.ports[u].open
  BY <1>1 DEF CanWrite, WritesBytes
<1>4. Sound(F, s.ports[u]) /\ Sound(F, s.ports[p])
  BY <1>2, GoodParts
<1>5. s.ports[u].mode = s.ports[u].made
  BY <1>3, <1>4 DEF Sound
<1>6. "input" \notin s.ports[p].made
  BY <1>1, <1>4 DEF Sound, MadeRight, FileClasses
<1> QED BY <1>1, <1>3, <1>5, <1>6 DEF Output

(* Writing through a port leaves what is known of all ports, if the port   *)
(* says what came to its file.                                             *)
LEMMA WriterMoves ==
  ASSUME NEW F, NEW s, NEW t, Good(F, s), Kept(F, s, t), NEW p \in DOMAIN s.ports,
         s.ports[p].class = "text", "output" \in s.ports[p].made, TextsIn(s),
         NEW port, NEW bytes, Puts(s, t, p, port, bytes), Owing(port),
         Alone(s.ports, p) => WriterSays(port, bytes, port.passed)
  PROVE  TextsIn(t)
<1> DEFINE u == Under(s, p)
<1>1. u \in DOMAIN s.ports /\ u # p
  BY UnderIs
<1>2. /\ t.ports[p] = port /\ \A q \in DOMAIN s.ports \ {p} : t.ports[q] = s.ports[q]
      /\ FilesStay(s, t, u) /\ CanWrite(s.ports[u])
      /\ s.ports[u].class \in FileClasses /\ Output(s.ports[u]) => Bytes(t, u) = bytes
      /\ DOMAIN t.ports = DOMAIN s.ports
  BY DEF Puts
<1>3. Through(s, t, p)
  <2>1. s.ports[u] = [s.ports[u] EXCEPT !.pos = s.ports[u].pos]
    <3>1. s.ports[u] \in PortRecords(F)
      BY <1>1, GoodParts, FieldTypes
    <3> QED BY <3>1 DEF PortRecords
  <2>2. t.ports[u] = s.ports[u]
    BY <1>1, <1>2
  <2> QED BY <1>2, <2>1, <2>2 DEF Through, FileClasses
<1>4. \A q \in DOMAIN s.ports : Fixed(s.ports[q], t.ports[q])
  BY KeptParts
<1>5. /\ port.class = "text" /\ port.under = s.ports[p].under /\ port.made = s.ports[p].made
      /\ "input" \notin s.ports[p].made
  <2>1. Sound(F, s.ports[p])
    BY GoodParts
  <2> QED BY <1>2, <1>4, <2>1 DEF Fixed, Sound, MadeRight, FileClasses
<1>6. ASSUME Alone(t.ports, p)
      PROVE  WriterSays(port, Bytes(t, u), port.passed)
  <2>1. Framed(s.ports, t.ports)
    <3>1. ASSUME NEW q \in DOMAIN s.ports, s.ports[q].class \in FileClasses \cup {"c-data"}
          PROVE  t.ports[q].direct = s.ports[q].direct
      <4>1. q # p
        BY <3>1 DEF FileClasses
      <4> QED BY <1>2, <4>1
    <3> QED BY <1>2, <1>4, <3>1 DEF Framed, Fixed
  <2>2. Alone(s.ports, p)
    BY <1>1, <1>6, <2>1, FramedAlone DEF Under
  <2>3. s.ports[u].class \in FileClasses /\ Output(s.ports[u])
    BY <1>2, <2>2, AloneWrites
  <2> QED BY <1>2, <2>2, <2>3
<1>7. Local(t, p)
  <2>1. Under(t, p) = u
    BY <1>2, <1>5 DEF Under
  <2> QED BY <1>2, <1>5, <1>6, <2>1 DEF Local
<1> QED BY <1>3, <1>7, ThroughTexts

(* The ports that writing changes owe what they may.                       *)
LEMMA TypedOwes ==
  ASSUME NEW F, NEW port, Sound(F, port), port.class = "text", port.mode # {}, port.needs_lf => port.translate,
         NEW c \in Characters
  PROVE  /\ Owing(Typed(port, c)) /\ Owing(Emitted(port))
         /\ Typed(port, c).passed = port.passed /\ Emitted(port).passed = port.passed
         /\ Emitted(port).mode = port.mode /\ Emitted(port).class = port.class
         /\ Emitted(port).under = port.under
<1>1. port \in PortRecords(F)
  BY FieldTypes
<1>2. /\ Typed(port, c).mode = port.mode /\ Typed(port, c).passed = port.passed
      /\ Typed(port, c).translate = port.translate
      /\ Typed(port, c).needs_lf \in {port.needs_lf, port.translate}
  BY <1>1 DEF Typed, Move, PortRecords
<1>3. /\ Emitted(port).mode = port.mode /\ Emitted(port).passed = port.passed
      /\ Emitted(port).class = port.class /\ Emitted(port).needs_lf = FALSE
      /\ Emitted(port).under = port.under
  BY <1>1 DEF Emitted, PortRecords
<1> QED BY <1>2, <1>3 DEF Owing

(* The history of a port is no part of what its bytes say.                 *)
LEMMA PassedSays ==
  ASSUME NEW F, NEW port, Sound(F, port), NEW c
  PROVE  LET more == [port EXCEPT !.passed = Append(@, c)] IN
         /\ more.passed = Append(port.passed, c) /\ more.needs_lf = port.needs_lf
         /\ more.translate = port.translate /\ more.mode = port.mode /\ more.class = port.class
         /\ more.data = port.data /\ more.row = port.row /\ more.col = port.col
         /\ more.under = port.under
         /\ \A bytes, said : WriterSays(port, bytes, said) => WriterSays(more, bytes, said)
<1> DEFINE more == [port EXCEPT !.passed = Append(@, c)]
<1>1. port \in PortRecords(F)
  BY FieldTypes
<1>2. /\ more.passed = Append(port.passed, c) /\ more.needs_lf = port.needs_lf
      /\ more.translate = port.translate /\ more.mode = port.mode /\ more.class = port.class
      /\ more.row = port.row /\ more.col = port.col /\ more.toggled = port.toggled
      /\ more.data = port.data /\ more.under = port.under
  BY <1>1 DEF PortRecords
<1> HIDE DEF more
<1>3. \A bytes, said : WriterSays(port, bytes, said) => WriterSays(more, bytes, said)
  BY <1>2 DEF WriterSays, At
<1> QED BY <1>2, <1>3 DEF more

(* A port that gave the LF it owed is sound.                               *)
LEMMA EmittedIsSound ==
  ASSUME NEW F, NEW port, Sound(F, port)
  PROVE  Sound(F, Emitted(port))
BY EmittedSound DEF Emitted

(* A character is given to a text port.                                    *)
LEMMA OwedTexts ==
  ASSUME NEW F, NEW s, Good(F, s), NEW p \in DOMAIN s.ports, s.ports[p].class = "text", Output(s.ports[p]),
         TextsIn(s), NEW c \in Characters, PutChar(s, p, c).reply # Abort
  PROVE  TextsIn(PutChar(s, p, c))
<1> DEFINE port == s.ports[p]
           more == [port EXCEPT !.passed = Append(@, c)]
           u == Under(s, p)
           bytes == Bytes(s, u)
           m == PutPort(s, p, more)
           e == EmitLF(m, p)
           t == PutChar(s, p, c)
           said == Append(port.passed, c)
<1>1. Sound(F, port) /\ s \in Systems(F) /\ port.passed \in Seq(Characters) /\ Owing(port) /\ Local(s, p)
  BY GoodParts, FieldTypes DEF TextsIn, Local
<1>2. /\ "output" \in port.made /\ port.mode # {}
      /\ port.needs_lf => port.translate
  BY <1>1 DEF Sound, Output, Owing
<1>3. Sound(F, more) /\ Fixed(port, more)
  BY <1>1, PassedSound
<1>4. /\ more.passed = said /\ more.needs_lf = port.needs_lf
      /\ more.translate = port.translate /\ more.mode = port.mode /\ more.class = "text"
      /\ more.under = port.under
      /\ \A x, y : WriterSays(port, x, y) => WriterSays(more, x, y)
  BY <1>1, PassedSays, SMTT(30)
<1>5. t = WriteOwed(m, p, c) /\ Kept(F, s, t)
  <2>1. s.reply # Abort
    BY PutCharKept
  <2>2. [s EXCEPT !.ports[p].passed = Append(@, c)] = m
    BY DEF PutPort
  <2> QED BY <2>1, <2>2, PutCharKept DEF PutChar
<1> HIDE DEF more, port, said
<1>6. /\ Kept(F, s, m) /\ m.ports[p] = more /\ m.disk = s.disk /\ DOMAIN m.ports = DOMAIN s.ports
      /\ \A q \in DOMAIN s.ports \ {p} : m.ports[q] = s.ports[q]
      /\ Good(F, m) /\ Under(m, p) = u
  <2>1. /\ Kept(F, s, m) /\ m.ports[p] = more /\ m.disk = s.disk /\ DOMAIN m.ports = DOMAIN s.ports
        /\ \A q \in DOMAIN s.ports \ {p} : m.ports[q] = s.ports[q]
    BY <1>1, <1>3, PutKept, PutParts DEF port
  <2>2. Good(F, m) /\ Under(m, p) = u
    BY <2>1, KeptParts, SameWays
  <2> QED BY <2>1, <2>2
<1>7. u \in DOMAIN s.ports /\ u # p
  BY UnderIs
<1> HIDE DEF m, t, u
<1>8. m.ports[u] = s.ports[u] /\ Bytes(m, u) = bytes
  BY <1>6, <1>7 DEF Bytes
<1>9. ASSUME NEW a, NEW b, Puts(m, t, p, a, b)
      PROVE  Puts(s, t, p, a, b)
  <2>1. /\ DOMAIN t.ports = DOMAIN m.ports /\ t.ports[p] = a
        /\ \A q \in DOMAIN m.ports \ {p} : t.ports[q] = m.ports[q]
        /\ FilesStay(m, t, u) /\ CanWrite(m.ports[u])
        /\ m.ports[u].class \in FileClasses /\ Output(m.ports[u]) => Bytes(t, u) = b
    BY <1>6, <1>9 DEF Puts
  <2>2. FilesStay(s, t, u)
    <3>1. ASSUME NEW q \in DOMAIN s.ports, s.ports[q].class \in FileClasses
          PROVE  q # p
      BY <3>1 DEF FileClasses
    <3> QED BY <1>6, <1>8, <2>1, <3>1 DEF FilesStay
  <2> QED BY <1>6, <1>8, <2>1, <2>2 DEF Puts, u
<1>10. Alone(s.ports, p) => bytes \in Seq(Characters) /\ WriterSays(more, bytes, port.passed)
  <2>1. ASSUME Alone(s.ports, p)
        PROVE  bytes \in Seq(Characters) /\ WriterSays(port, bytes, port.passed)
    <3>1. s.ports[u].class \in FileClasses \cup {"c-data"}
      BY <2>1 DEF Alone, Under, u
    <3> QED BY <1>1, <1>2, <1>7, <2>1, <3>1, BytesAre DEF Local, port, u
  <2> QED BY <1>4, <2>1
<1>11. ASSUME NEW a, NEW b, Puts(m, t, p, a, b), Owing(a), a.passed = said,
              Alone(s.ports, p) => WriterSays(a, b, said)
       PROVE  TextsIn(t)
  BY <1>2, <1>5, <1>9, <1>11, WriterMoves DEF port
<1> HIDE DEF bytes
<1>12. ASSUME ~more.needs_lf
       PROVE  TextsIn(t)
  <2>1. t = WriteTextPort(m, p, c)
    BY <1>5, <1>6, <1>12 DEF WriteOwed
  <2>2. Puts(m, t, p, Typed(more, c), Typing(more, bytes, c))
    BY <1>4, <1>6, <1>8, <2>1, TypeGoes DEF t
  <2>3. Owing(Typed(more, c)) /\ Typed(more, c).passed = said
    BY <1>2, <1>3, <1>4, TypedOwes
  <2>4. Alone(s.ports, p) => WriterSays(Typed(more, c), Typing(more, bytes, c), said)
    BY <1>1, <1>3, <1>10, <1>12, TypeSays DEF said
  <2> QED BY <1>11, <2>2, <2>3, <2>4
<1>13. ASSUME more.needs_lf, c = LF
       PROVE  TextsIn(t)
  <2>1. t = e
    BY <1>5, <1>6, <1>13 DEF WriteOwed
  <2>2. Puts(m, t, p, Emitted(more), Append(bytes, LF))
    BY <1>4, <1>6, <1>8, <2>1, EmitGoes DEF t
  <2>3. Owing(Emitted(more)) /\ Emitted(more).passed = said
    BY <1>2, <1>3, <1>4, TypedOwes
  <2>4. Alone(s.ports, p) => WriterSays(Emitted(more), Append(bytes, LF), said)
    BY <1>1, <1>2, <1>3, <1>4, <1>10, <1>13, EmitSays DEF said
  <2> QED BY <1>11, <2>2, <2>3, <2>4
<1>14. ASSUME more.needs_lf, c # LF
       PROVE  TextsIn(t)
  <2> DEFINE a == Emitted(more)
             b == Append(bytes, LF)
  <2>1. t = WriteTextPort(e, p, c)
    BY <1>5, <1>6, <1>14 DEF WriteOwed
  <2>2. /\ Kept(F, m, e) /\ Good(F, e) /\ p \in DOMAIN e.ports
        /\ e.ports[p].class = "text" /\ Under(e, p) = u
    <3>1. Kept(F, m, e)
      BY <1>4, <1>6, EmitLFKept
    <3> HIDE DEF e
    <3> QED BY <1>4, <1>6, <3>1, KeptParts, SameWays
  <2> HIDE DEF e
  <2>3. e.reply # Abort
    <3>1. WriteTextPort(e, p, c).reply \in {e.reply, Abort}
      BY <2>2, WriteTextPortKept
    <3> QED BY <2>1, <3>1 DEF t
  <2>4. Puts(m, e, p, a, b)
    BY <1>4, <1>6, <1>8, <2>3, EmitGoes DEF e
  <2>5. Sound(F, a) /\ a.class = "text" /\ a.mode # {} /\ a.under = more.under /\ a.passed = said
    <3>1. /\ c \in Characters /\ Emitted(more).passed = more.passed /\ Emitted(more).mode = more.mode
          /\ Emitted(more).class = more.class /\ Emitted(more).under = more.under
      <4>1. more.mode # {} /\ (more.needs_lf => more.translate) /\ more.class = "text"
        BY <1>2, <1>4
      <4> QED BY <1>3, <4>1, TypedOwes
    <3>2. Sound(F, Emitted(more))
      BY <1>3, EmittedIsSound
    <3>3. more.mode # {}
      BY <1>2, <1>4
    <3> QED BY <1>4, <3>1, <3>2, <3>3
  <2>6. a.translate /\ a.needs_lf = FALSE
    BY <1>2, <1>3, <1>4, <1>14, EmittedFields
  <2>7. e.ports[p] = a
    BY <2>4 DEF Puts
  <2>8. m.ports[u].class \in FileClasses /\ Output(m.ports[u]) => Bytes(e, u) = b
    BY <1>6, <2>4 DEF Puts
  <2> HIDE DEF a, b
  <2> DEFINE w == IF m.ports[u].class \in FileClasses /\ Output(m.ports[u]) THEN Typing(a, b, c)
                  ELSE Typing(a, Bytes(e, u), c)
  <2>9. Puts(e, t, p, Typed(a, c), w)
    <3>1. Puts(e, t, p, Typed(a, c), Typing(a, Bytes(e, u), c))
      BY <2>1, <2>2, <2>7, TypeGoes DEF t
    <3> QED BY <2>8, <3>1
  <2> HIDE DEF w
  <2>10. Puts(m, t, p, Typed(a, c), w)
    BY <1>4, <1>6, <2>4, <2>5, <2>7, <2>9, PutsTwice
  <2>11. Owing(Typed(a, c)) /\ Typed(a, c).passed = said
    BY <2>5, <2>6, TypedOwes
  <2>12. Alone(s.ports, p) => WriterSays(Typed(a, c), w, said)
    <3>1. ASSUME Alone(s.ports, p)
          PROVE  m.ports[u].class \in FileClasses /\ Output(m.ports[u])
      <4>1. CanWrite(s.ports[u])
        BY <1>6, <1>8, <2>4 DEF Puts
      <4> QED BY <1>2, <1>8, <3>1, <4>1, AloneWrites DEF port, u
    <3>2. Alone(s.ports, p) => WriterSays(Typed(a, c), Typing(a, b, c), said)
      BY <1>1, <1>2, <1>3, <1>4, <1>10, <1>14, OwedSays DEF said, a, b
    <3> QED BY <3>1, <3>2 DEF w
  <2> QED BY <1>11, <2>10, <2>11, <2>12
<1> QED BY <1>12, <1>13, <1>14 DEF t

(* The string port that was given a character.                             *)
Grown(port, c) ==
    LET more == [port EXCEPT !.passed = Append(@, c)]
        moved == IF c = CR THEN more ELSE Move(more, c)
    IN  [moved EXCEPT !.data = Append(@, c)]

(* Its fields.                                                             *)
LEMMA GrownFields ==
  ASSUME NEW F, NEW port, Sound(F, port), NEW c \in Characters
  PROVE  /\ Grown(port, c).class = port.class /\ Grown(port, c).under = port.under
         /\ Grown(port, c).data = Append(port.data, c)
         /\ Grown(port, c).row = (IF c = LF THEN port.row + 1 ELSE port.row)
         /\ Grown(port, c).col = (IF c = CR THEN port.col ELSE IF c = LF THEN 0 ELSE port.col + 1)
<1>1. port \in PortRecords(F)
  BY FieldTypes
<1> DEFINE more == [port EXCEPT !.passed = Append(@, c)]
           moved == IF c = CR THEN more ELSE Move(more, c)
<1>2. Append(port.passed, c) \in Seq(Characters)
  BY FieldTypes
<1>3. /\ more \in PortRecords(F) /\ more.class = port.class /\ more.under = port.under
      /\ more.data = port.data /\ more.row = port.row /\ more.col = port.col
  BY <1>1, <1>2 DEF PortRecords
<1> HIDE DEF more
<1>4. /\ Move(more, c).class = port.class /\ Move(more, c).under = port.under
      /\ Move(more, c).data = port.data /\ Move(more, c) \in PortRecords(F)
      /\ Move(more, c).row = (IF c = LF THEN port.row + 1 ELSE port.row)
      /\ Move(more, c).col = (IF c = LF THEN 0 ELSE port.col + 1)
  <2>1. more.row + 1 \in Nat \ {0} /\ more.col + 1 \in Nat /\ 0 \in Nat
    BY <1>3, SMTT(30) DEF PortRecords
  <2>2. CASE c = LF
    BY <1>3, <2>1, <2>2 DEF PortRecords, Move
  <2>3. CASE c # LF
    BY <1>3, <2>1, <2>3 DEF PortRecords, Move
  <2> QED BY <2>2, <2>3
<1>5. /\ moved.class = port.class /\ moved.under = port.under
      /\ moved.data = port.data /\ moved \in PortRecords(F)
      /\ moved.row = (IF c = LF THEN port.row + 1 ELSE port.row)
      /\ moved.col = (IF c = CR THEN port.col ELSE IF c = LF THEN 0 ELSE port.col + 1)
  BY <1>3, <1>4, CharactersDiffer
<1>6. Grown(port, c) = [moved EXCEPT !.data = Append(@, c)]
  BY DEF Grown, more
<1> HIDE DEF moved
<1> QED BY <1>5, <1>6 DEF PortRecords

(* A character is given to a string port.                                  *)
LEMMA GrownTexts ==
  ASSUME NEW F, NEW s, Good(F, s), NEW p \in DOMAIN s.ports, s.ports[p].class = "string-output",
         TextsIn(s), NEW c \in Characters, PutChar(s, p, c).reply # Abort
  PROVE  TextsIn(PutChar(s, p, c))
<1> DEFINE port == s.ports[p]
           last == Grown(port, c)
           m == PutPort(s, p, [port EXCEPT !.passed = Append(@, c)])
           t == PutChar(s, p, c)
<1>1. Sound(F, port) /\ s \in Systems(F) /\ Local(s, p)
  BY GoodParts DEF TextsIn
<1>2. port.data \in Seq(Characters) /\ port.under = 0
  BY <1>1 DEF Sound, FileClasses
<1>3. Kept(F, s, t) /\ t = WriteStringPort(m, p, c)
  <2>1. s.reply # Abort
    BY PutCharKept
  <2>2. [s EXCEPT !.ports[p].passed = Append(@, c)] = m
    BY DEF PutPort
  <2> QED BY <2>1, <2>2, PutCharKept DEF PutChar
<1>4. t = PutPort(m, p, last)
  <2>1. m.ports[p] = [port EXCEPT !.passed = Append(@, c)]
    BY <1>1, PutParts
  <2> QED BY <1>3, <2>1 DEF WriteStringPort, PutPort, Grown
<1>5. /\ t.ports[p] = last /\ t.disk = s.disk
      /\ \A q \in DOMAIN s.ports \ {p} : t.ports[q] = s.ports[q]
  <2>1. t = PutPort(s, p, last)
    BY <1>1, <1>4, PutAgain
  <2> HIDE DEF t, last
  <2> QED BY <1>1, <2>1, PutParts
<1> HIDE DEF t, m
<1>6. Through(s, t, p)
  BY <1>2, <1>5 DEF Through, Under, FileClasses
<1>7. Local(t, p)
  <2>1. At(port, Row(port.data), Column(port.data, {LF}, {CR}))
    BY <1>1 DEF Local
  <2>2. /\ last.class = "string-output" /\ last.data = Append(port.data, c)
        /\ last.row = (IF c = LF THEN port.row + 1 ELSE port.row)
        /\ last.col = (IF c = CR THEN port.col ELSE IF c = LF THEN 0 ELSE port.col + 1)
    BY <1>1, GrownFields
  <2> HIDE DEF last, port
  <2>3. At(last, Row(last.data), Column(last.data, {LF}, {CR}))
    BY <1>2, <2>1, <2>2, RowAdd, ColumnAdd, CharactersDiffer DEF At
  <2> QED BY <1>5, <2>2, <2>3 DEF Local, Owing, Alone
<1> QED BY <1>3, <1>6, <1>7, ThroughTexts DEF t

(* A character is given to a port.                                         *)
LEMMA PutCharTexts ==
  ASSUME NEW F, NEW s, Good(F, s), NEW p \in DOMAIN s.ports,
         TextPort(s.ports[p]), Output(s.ports[p]),
         TextsIn(s), NEW c \in Characters, PutChar(s, p, c).reply # Abort
  PROVE  TextsIn(PutChar(s, p, c))
BY TextWriters, OwedTexts, GrownTexts

(* A text is given to a port.                                              *)
LEMMA WriteTextTexts ==
  ASSUME NEW F, NEW s, Good(F, s), NEW p \in DOMAIN s.ports, NEW text \in Seq(Characters),
         TextsIn(s), WriteText(s, p, text).reply # Abort
  PROVE  TextsIn(WriteText(s, p, text))
<1>1. TextPort(s.ports[p]) /\ Output(s.ports[p])
  <2>1. ASSUME ~(TextPort(s.ports[p]) /\ Output(s.ports[p]))
        PROVE  WriteText(s, p, text).reply = Abort
    <3>1. WriteText(s, p, text) = Reply(s, Abort)
      BY <2>1 DEF WriteText
    <3> QED BY <3>1, ReplyKept DEF Replies
  <2> QED BY <2>1
<1> DEFINE N == Len(text)
           D == {t \in Systems(F) : t.reply # Abort => TextsIn(t)}
<1>2. PICK f : TextRounds(F, s, p, text, f)
  BY <1>1, WriteTextRounds
<1>3. N \in Nat /\ \A n \in 1 .. N : text[n] \in Characters /\ n - 1 \in 0 .. N /\ n \in 0 .. N
  OBVIOUS
<1>4. ASSUME NEW n \in 1 .. N, f[n - 1] \in D
      PROVE  f[n] \in D
  <2> DEFINE t == f[n - 1]
             c == text[n]
  <2>1. Kept(F, s, t) /\ f[n] = PutChar(t, p, c) /\ f[n] \in Systems(F)
    BY <1>2, <1>3 DEF TextRounds
  <2>2. c \in Characters
    BY <1>3
  <2>3. t.reply # Abort => TextsIn(t)
    BY <1>4
  <2> HIDE DEF t, c, D
  <2>4. /\ Good(F, t) /\ p \in DOMAIN t.ports /\ TextPort(t.ports[p]) /\ Output(t.ports[p])
    BY <1>1, <2>1, KeptParts, SameWays
  <2>5. ASSUME PutChar(t, p, c).reply # Abort
        PROVE  TextsIn(PutChar(t, p, c))
    <3>1. PutChar(t, p, c).reply \in {t.reply, Abort}
      BY <2>2, <2>4, TextWriters, PutCharKept
    <3>2. TextsIn(t)
      BY <2>3, <2>5, <3>1
    <3> QED BY <2>2, <2>4, <2>5, <3>2, PutCharTexts
  <2> QED BY <2>1, <2>5 DEF D
<1>5. f[0] \in D
  BY <1>2, GoodParts DEF TextRounds
<1> HIDE DEF D
<1>6. \A n \in 0 .. N : f[n] \in D
  BY <1>3, <1>4, <1>5, IterationStays
<1>7. WriteText(s, p, text) \in D
  BY <1>2, <1>6 DEF TextRounds
<1> QED BY <1>7 DEF D

(* A line is read.                                                         *)
LEMMA RestOfLineTexts ==
  ASSUME NEW F, NEW s, Good(F, s), NEW p \in DOMAIN s.ports, TextPort(s.ports[p]), TextsIn(s)
  PROVE  TextsIn(RestOfLine(s, p))
<1> DEFINE N == Left(s, p)
           D == {t \in Systems(F) : TextsIn(t)}
<1>1. PICK f : LineRounds(F, s, p, f)
  BY RestOfLineRounds
<1>2. N \in Nat /\ \A n \in 1 .. N : n - 1 \in 0 .. N /\ n \in 0 .. N
  BY <1>1 DEF LineRounds
<1>3. ASSUME NEW n \in 1 .. N, f[n - 1] \in D
      PROVE  f[n] \in D
  <2> DEFINE t == f[n - 1]
  <2>1. Kept(F, s, t) /\ f[n] \in {t, Take(t, p)} /\ f[n] \in Systems(F)
    BY <1>1, <1>2 DEF LineRounds, ReadsWell
  <2>2. TextsIn(t)
    BY <1>3
  <2> HIDE DEF t, D
  <2>3. Good(F, t) /\ p \in DOMAIN t.ports
    BY <2>1, KeptParts
  <2> QED BY <2>1, <2>2, <2>3, TakeTexts DEF D
<1>4. f[0] \in D
  <2>1. f[0] = Take(s, p) /\ f[0] \in Systems(F)
    BY <1>1, <1>2 DEF LineRounds
  <2> QED BY <2>1, TakeTexts
<1> HIDE DEF D
<1>5. \A n \in 0 .. N : f[n] \in D
  BY <1>2, <1>3, <1>4, IterationStays
<1>6. RestOfLine(s, p) \in D
  BY <1>1, <1>5 DEF LineRounds
<1> QED BY <1>6 DEF D

(* So is one for the program.                                              *)
LEMMA ReadLineTexts ==
  ASSUME NEW F, NEW s, Good(F, s), NEW p \in DOMAIN s.ports, TextPort(s.ports[p]), TextsIn(s)
  PROVE  TextsIn(ReadLine(s, p))
<1> DEFINE t == RestOfLine(s, p)
<1>1. TextsIn(t) /\ Good(F, t)
  BY RestOfLineTexts, RestOfLineKept DEF ReadsWell, Kept
<1>2. ReadLine(s, p) \in {t, Reply(t, Done)}
  BY DEF ReadLine
<1> HIDE DEF t
<1> QED BY <1>1, <1>2, ReplyTexts

(* Whitespace is flushed.                                                  *)
LEMMA FlushWhitespaceTexts ==
  ASSUME NEW F, NEW s, Good(F, s), NEW p \in DOMAIN s.ports, TextPort(s.ports[p]), NEW comments,
         TextsIn(s)
  PROVE  TextsIn(FlushWhitespace(s, p, comments))
<1> DEFINE N == Left(s, p)
           D == {t \in Systems(F) : TextsIn(t)}
<1>1. PICK f : SkipRounds(F, s, p, comments, f)
  BY FlushWhitespaceRounds
<1>2. N \in Nat /\ \A n \in 1 .. N : n - 1 \in 0 .. N /\ n \in 0 .. N
  BY <1>1 DEF SkipRounds
<1>3. ASSUME NEW n \in 1 .. N, f[n - 1] \in D
      PROVE  f[n] \in D
  <2> DEFINE t == f[n - 1]
  <2>1. Kept(F, s, t) /\ f[n] = SkipOne(t, p, comments) /\ f[n] \in Systems(F)
    BY <1>1, <1>2 DEF SkipRounds, ReadsWell
  <2>2. TextsIn(t)
    BY <1>3
  <2> HIDE DEF t, D
  <2>3. Good(F, t) /\ p \in DOMAIN t.ports /\ TextPort(t.ports[p])
    BY <2>1, KeptParts, SameWays
  <2>4. ASSUME NEW u, Kept(F, t, u), TextsIn(u)
        PROVE  TextsIn(PeekChar(u, p))
    BY <2>3, <2>4, KeptParts, PeekTexts
  <2>5. /\ Kept(F, t, RestOfLine(t, p)) /\ TextsIn(RestOfLine(t, p))
        /\ Kept(F, t, Take(t, p)) /\ TextsIn(Take(t, p))
    BY <2>2, <2>3, RestOfLineTexts, RestOfLineKept, TakeTexts, TakeKept DEF ReadsWell
  <2> QED BY <2>1, <2>2, <2>4, <2>5 DEF D, SkipOne
<1>4. f[0] \in D
  <2>1. f[0] = PeekChar(s, p) /\ f[0] \in Systems(F)
    BY <1>1, <1>2 DEF SkipRounds
  <2> QED BY <2>1, PeekTexts
<1> HIDE DEF D
<1>5. \A n \in 0 .. N : f[n] \in D
  BY <1>2, <1>3, <1>4, IterationStays
<1>6. FlushWhitespace(s, p, comments) \in D
  BY <1>1, <1>5 DEF SkipRounds
<1> QED BY <1>6 DEF D

(* A LF given to a port that owes one is the one it owed.                  *)
LEMMA GivesOwed ==
  ASSUME NEW F, NEW s, Good(F, s), NEW p \in DOMAIN s.ports, s.ports[p].class = "text",
         s.ports[p].needs_lf, PutChar(s, p, LF).reply # Abort
  PROVE  PutChar(s, p, LF).ports[p].needs_lf = FALSE
<1> DEFINE port == s.ports[p]
           more == [port EXCEPT !.passed = Append(@, LF)]
           m == PutPort(s, p, more)
<1>0. LF \in Characters
  BY CharactersDiffer
<1>1. Sound(F, port) /\ s \in Systems(F)
  BY GoodParts
<1>2. Sound(F, more) /\ Fixed(port, more) /\ more.needs_lf = port.needs_lf /\ more.class = port.class
  <2>1. Sound(F, more) /\ Fixed(port, more)
    BY <1>0, <1>1, PassedSound
  <2>2. port \in PortRecords(F)
    BY <1>1, FieldTypes
  <2>3. more.needs_lf = port.needs_lf /\ more.class = port.class
    BY <2>2 DEF PortRecords
  <2> QED BY <2>1, <2>3
<1>3. PutChar(s, p, LF) = WriteOwed(m, p, LF)
  <2>1. s.reply # Abort
    BY <1>0, PutCharKept
  <2>2. [s EXCEPT !.ports[p].passed = Append(@, LF)] = m
    BY DEF PutPort
  <2> QED BY <2>1, <2>2 DEF PutChar
<1> HIDE DEF more, port
<1>4. m.ports[p] = more /\ Good(F, m) /\ p \in DOMAIN m.ports
  <2>1. Kept(F, s, m) /\ m.ports[p] = more
    BY <1>1, <1>2, PutKept, PutParts DEF port
  <2> HIDE DEF m
  <2> QED BY <2>1, KeptParts
<1> HIDE DEF m
<1>5. WriteOwed(m, p, LF) = EmitLF(m, p)
  BY <1>2, <1>4 DEF WriteOwed, port
<1>6. EmitLF(m, p).ports[p] = Emitted(more)
  <2>1. EmitLF(m, p).reply # Abort /\ m.ports[p].class = "text"
    BY <1>2, <1>3, <1>4, <1>5 DEF port
  <2>2. Puts(m, EmitLF(m, p), p, Emitted(m.ports[p]), Append(Bytes(m, Under(m, p)), LF))
    BY <1>4, <2>1, EmitGoes
  <2> QED BY <1>4, <2>2 DEF Puts
<1>7. Emitted(more).needs_lf = FALSE
  BY <1>2, EmittedFields
<1> QED BY <1>3, <1>5, <1>6, <1>7

(* A text of one character.                                                *)
LEMMA WriteOneIs ==
  ASSUME NEW F, NEW s, Good(F, s), NEW p \in DOMAIN s.ports, NEW c \in Characters,
         TextPort(s.ports[p]), Output(s.ports[p])
  PROVE  WriteText(s, p, <<c>>) = PutChar(s, p, c)
<1> DEFINE text == <<c>>
<1>1. text \in Seq(Characters) /\ Len(text) = 1 /\ text[1] = c
  OBVIOUS
<1> HIDE DEF text
<1>2. PICK f : TextRounds(F, s, p, text, f)
  BY <1>1, WriteTextRounds
<1>3. f[0] = s /\ f[1] = PutChar(f[1 - 1], p, text[1]) /\ WriteText(s, p, text) = f[1]
  BY <1>1, <1>2 DEF TextRounds
<1>4. 1 - 1 = 0
  OBVIOUS
<1> QED BY <1>1, <1>3, <1>4 DEF text

(* A port is flushed, and owes nothing then.                               *)
LEMMA FlushTexts ==
  ASSUME NEW F, NEW s, Good(F, s), NEW p \in DOMAIN s.ports, TextsIn(s), FlushPort(s, p).reply # Abort
  PROVE  /\ TextsIn(FlushPort(s, p))
         /\ s.ports[p].class = "text" /\ Output(s.ports[p]) =>
              FlushPort(s, p).ports[p].needs_lf = FALSE
<1> DEFINE port == s.ports[p]
           owes == TextPort(port) /\ port.translate /\ port.needs_lf
           w == WriteText(s, p, <<LF>>)
           t == IF owes THEN w ELSE s
<1>0. LF \in Characters /\ <<LF>> \in Seq(Characters) /\ Sound(F, port) /\ Owing(port)
  BY CharactersDiffer, GoodParts DEF TextsIn, Local
<1>1. Kept(F, s, w)
  BY <1>0, WriteTextKept
<1>2. FlushPort(s, p) = IF t.reply = Abort THEN t ELSE ClassFlush(t, p)
  BY DEF FlushPort
<1>3. t.reply # Abort /\ FlushPort(s, p) = ClassFlush(t, p)
  BY <1>2
<1>4. FlushPort(s, p) = t
  <2>1. ClassFlush(t, p) \in {t, Reply(t, Abort)}
    BY DEF ClassFlush
  <2>2. Good(F, t)
    BY <1>1 DEF Kept
  <2> HIDE DEF t
  <2>3. Reply(t, Abort).reply = Abort
    BY <2>2, GoodParts DEF Reply, Systems
  <2> QED BY <1>3, <2>1, <2>3
<1>5. CASE owes
  <2>1. t = w /\ w.reply # Abort
    BY <1>3, <1>5
  <2>2. TextPort(port) /\ Output(port)
    <3>1. ASSUME ~(TextPort(port) /\ Output(port))
          PROVE  w.reply = Abort
      <4>1. w = Reply(s, Abort)
        BY <3>1 DEF WriteText
      <4> QED BY <4>1, ReplyKept DEF Replies
    <3> QED BY <2>1, <3>1
  <2>3. w = PutChar(s, p, LF)
    BY <1>0, <2>2, WriteOneIs
  <2>4. TextsIn(w)
    BY <1>0, <2>1, WriteTextTexts
  <2>5. port.class = "text" => w.ports[p].needs_lf = FALSE
    BY <1>5, <2>1, <2>3, GivesOwed
  <2> QED BY <1>4, <2>1, <2>4, <2>5
<1>6. CASE ~owes
  <2>1. t = s
    BY <1>6
  <2>2. ASSUME port.class = "text", Output(port)
        PROVE  port.needs_lf = FALSE
    <3>1. port.mode = port.made /\ MadeRight(port.class, port.made) /\ port.needs_lf \in BOOLEAN
      BY <1>0, <2>2, FieldTypes DEF Sound, Output
    <3>2. "text" \in port.mode /\ "output" \in port.made
      BY <2>2, <3>1 DEF MadeRight, FileClasses, Output
    <3> HIDE DEF port
    <3>3. port.needs_lf => port.translate
      BY <1>0, <2>2, <3>2 DEF Owing
    <3> QED BY <1>6, <3>1, <3>2, <3>3 DEF TextPort
  <2> QED BY <1>4, <2>1, <2>2
<1> QED BY <1>5, <1>6

(* A character is written, and a LF flushed.                               *)
LEMMA WriteCharTexts ==
  ASSUME NEW F, NEW s, Good(F, s), NEW p \in DOMAIN s.ports, NEW c \in Characters,
         TextsIn(s), WriteChar(s, p, c).reply # Abort
  PROVE  TextsIn(WriteChar(s, p, c))
<1> DEFINE t == WriteText(s, p, <<c>>)
<1>1. <<c>> \in Seq(Characters)
  OBVIOUS
<1>2. WriteChar(s, p, c) = IF c = LF /\ t.reply # Abort THEN FlushPort(t, p) ELSE t
  BY DEF WriteChar
<1>3. t.reply # Abort
  BY <1>2
<1>4. Kept(F, s, t) /\ TextsIn(t)
  BY <1>1, <1>3, WriteTextKept, WriteTextTexts
<1> HIDE DEF t
<1>5. Good(F, t) /\ p \in DOMAIN t.ports
  BY <1>4, KeptParts
<1> QED BY <1>2, <1>4, <1>5, FlushTexts

(* The port whose translation mode is set.                                 *)
Toggled(port, mode) == [port EXCEPT !.translate = mode, !.toggled = TRUE]

(* The translation mode is set.                                            *)
LEMMA SetTranslateTexts ==
  ASSUME NEW F, Good(F, S), NEW p \in DOMAIN S.ports, NEW mode \in BOOLEAN,
         TextPort(S.ports[p]), TextsIn(S), SetTranslate(p, mode).reply # Abort
  PROVE  TextsIn(SetTranslate(p, mode))
<1> DEFINE s == FlushPort(S, p)
           a == s.ports[p]
           b == Toggled(a, mode)
           t == PutPort(s, p, b)
           u == Under(s, p)
<1>1. Kept(F, S, s)
  BY FlushPortKept
<1>2. SetTranslate(p, mode) =
        IF s.reply = Abort THEN s ELSE [s EXCEPT !.ports[p].translate = mode, !.ports[p].toggled = TRUE]
  BY DEF SetTranslate
<1>3. s.reply # Abort
  BY <1>2
<1>4. TextsIn(s) /\ (S.ports[p].class = "text" /\ Output(S.ports[p]) => a.needs_lf = FALSE)
  BY <1>3, FlushTexts
<1> HIDE DEF s
<1>5. /\ Good(F, s) /\ p \in DOMAIN s.ports /\ Sound(F, a) /\ s \in Systems(F) /\ Fixed(S.ports[p], a)
      /\ s.ports \in Seq(PortRecords(F)) /\ a \in PortRecords(F) /\ Local(s, p)
  BY <1>1, <1>4, KeptParts, GoodParts, FieldTypes DEF TextsIn
<1>6. SetTranslate(p, mode) = t
  BY <1>2, <1>3, <1>5 DEF PutPort, Systems, Toggled
<1>7. /\ b.class = a.class /\ b.under = a.under /\ b.made = a.made
      /\ b.needs_lf = a.needs_lf /\ b.toggled = TRUE
      /\ b.row = a.row /\ b.col = a.col /\ b.passed = a.passed /\ b.pbuf = a.pbuf
      /\ b.data = a.data
  BY <1>5 DEF PortRecords, Toggled
<1>8. Sound(F, b) /\ Fixed(a, b)
  BY <1>5, ToggledSound DEF Toggled
<1> HIDE DEF b
<1>9. /\ Kept(F, s, t) /\ t.ports[p] = b /\ t.disk = s.disk
      /\ \A q \in DOMAIN s.ports \ {p} : t.ports[q] = s.ports[q]
      /\ DOMAIN t.ports = DOMAIN s.ports
  BY <1>5, <1>8, PutKept, PutParts
<1> HIDE DEF t
<1>10. TextPort(a) /\ a.class \notin FileClasses \cup {"c-data"}
  <2>1. TextPort(a) /\ a.mode = a.made /\ "text" \in a.made /\ MadeRight(a.class, a.made)
    BY <1>5 DEF Fixed, TextPort, Sound
  <2> HIDE DEF a
  <2> QED BY <2>1 DEF MadeRight, FileClasses
<1>11. a.class = "text" => u \in DOMAIN s.ports /\ u # p
  BY <1>5, UnderIs
<1>12. Through(s, t, p)
  <2>1. ASSUME a.class = "text"
        PROVE  t.ports[u] = [s.ports[u] EXCEPT !.pos = t.ports[u].pos] /\ FilesStay(s, t, u)
    <3>1. t.ports[u] = s.ports[u] /\ s.ports[u] \in PortRecords(F)
      BY <1>5, <1>9, <1>11, <2>1, GoodParts, FieldTypes
    <3> QED BY <1>9, <3>1 DEF PortRecords, FilesStay
  <2> QED BY <1>9, <1>10, <2>1 DEF Through
<1>13. Under(t, p) = u
  BY <1>7, <1>9 DEF Under
<1>14. Alone(t.ports, p) => Alone(s.ports, p)
  <2>1. \A q \in DOMAIN s.ports : Fixed(s.ports[q], t.ports[q])
    BY <1>5, <1>9, KeptParts
  <2>2. ASSUME NEW q \in DOMAIN s.ports, s.ports[q].class \in FileClasses \cup {"c-data"}
        PROVE  t.ports[q].direct = s.ports[q].direct
    <3>1. q # p
      BY <1>10, <2>2
    <3> QED BY <1>9, <3>1
  <2>3. Framed(s.ports, t.ports)
    BY <1>9, <2>1, <2>2, SMTT(30) DEF Framed, Fixed
  <2> QED BY <1>5, <1>11, <2>3, FramedAlone DEF Under
<1>15. a.class = "text" => /\ Bytes(t, u) = Bytes(s, u) /\ Used(t, u) = Used(s, u)
                           /\ t.ports[u] = s.ports[u]
                           /\ Readable(t, u) = Readable(s, u)
  BY <1>9, <1>11 DEF Bytes, Used, Readable
<1>16. Owing(b)
  <2>1. a.class = "text" /\ "output" \in a.made => a.needs_lf = FALSE
    <3>1. a.mode = a.made
      BY <1>5, <1>10 DEF Sound, TextPort
    <3>2. "output" \in a.made => Output(S.ports[p])
      BY <1>5, <3>1 DEF Fixed, Output
    <3> QED BY <1>4, <1>5, <3>2 DEF Fixed
  <2> QED BY <1>7, <2>1 DEF Owing
<1>17. Local(t, p)
  <2>1. b.class = "string-output" => At(b, Row(b.data), Column(b.data, {LF}, {CR}))
    <3>1. a.class = "string-output" => At(a, Row(a.data), Column(a.data, {LF}, {CR}))
      BY <1>5 DEF Local
    <3> HIDE DEF a
    <3> QED BY <1>7, <3>1 DEF At
  <2>2. ASSUME Alone(t.ports, p), "output" \in b.made
        PROVE  WriterSays(b, Bytes(t, u), b.passed)
    <3>1. WriterSays(a, Bytes(s, u), a.passed) /\ a.class = "text"
      BY <1>5, <1>7, <1>14, <2>2, ZenonT(60) DEF Local, Alone
    <3>2. Bytes(t, u) = Bytes(s, u)
      BY <1>15, <3>1
    <3> HIDE DEF a, u
    <3> QED BY <1>7, <3>1, <3>2, SMTT(30) DEF WriterSays, At
  <2>3. ASSUME Alone(t.ports, p), "input" \in b.made
        PROVE  ReaderIs(t, p)
    <3>1. Hears(s, p, Said(a)) /\ ReaderStands(s, p) /\ a.class = "text"
      BY <1>5, <1>7, <1>14, <2>3, ZenonT(60) DEF Local, Alone, ReaderIs
    <3>2. Said(b) = Said(a)
      BY <1>7 DEF Said
    <3>3. Hears(t, p, Said(b))
      BY <1>7, <1>9, <1>13, <1>15, <3>1 DEF Hears, ReaderSays
    <3>4. CR \notin Range(Said(a)) /\ Readable(s, u) => At(a, Row(a.passed), Column(a.passed, {LF}, {}))
      BY <3>1 DEF ReaderStands
    <3>5. CR \notin Range(Said(b)) /\ Readable(t, u) => At(b, Row(b.passed), Column(b.passed, {LF}, {}))
      <4>1. Readable(t, u) = Readable(s, u)
        BY <1>15, <3>1
      <4> HIDE DEF a, u
      <4> QED BY <1>7, <3>2, <3>4, <4>1 DEF At
    <3> QED BY <1>9, <1>13, <3>3, <3>5, SMTT(30) DEF ReaderIs, ReaderStands
  <2> QED BY <1>9, <1>13, <1>16, <2>1, <2>2, <2>3 DEF Local
<1> QED BY <1>4, <1>5, <1>6, <1>9, <1>12, <1>17, ThroughTexts

(* A port that is used for bytes is marked so.                             *)
LEMMA MarkedTexts ==
  ASSUME NEW F, NEW s, Good(F, s), NEW p \in DOMAIN s.ports, TextsIn(s)
  PROVE  LET t == PutPort(s, p, [s.ports[p] EXCEPT !.direct = TRUE])
         IN  TextsIn(t) /\ t.ports[p].direct = TRUE
<1> DEFINE o == [s.ports[p] EXCEPT !.direct = TRUE]
           t == PutPort(s, p, o)
<1>1. Sound(F, s.ports[p]) /\ s \in Systems(F) /\ s.ports[p] \in PortRecords(F)
  BY GoodParts, FieldTypes
<1>2. /\ Sound(F, o) /\ Fixed(s.ports[p], o) /\ o.direct = TRUE
      /\ o = [s.ports[p] EXCEPT !.pos = o.pos, !.direct = TRUE]
  BY <1>1, DirectSound DEF PortRecords
<1> HIDE DEF o
<1>3. /\ Kept(F, s, t) /\ t.ports[p] = o /\ t.disk = s.disk
      /\ \A q \in DOMAIN s.ports \ {p} : t.ports[q] = s.ports[q]
  BY <1>1, <1>2, PutKept, PutParts
<1> HIDE DEF t
<1>4. Directly(s, t, p)
  BY <1>2, <1>3 DEF Directly, FilesStay
<1> QED BY <1>2, <1>3, <1>4, DirectlyTexts, ZenonT(60) DEF t, o

(* A byte is read.                                                         *)
LEMMA ReadByteTexts ==
  ASSUME NEW F, NEW s, Good(F, s), NEW p \in DOMAIN s.ports, TextsIn(s), s.ports[p].direct = TRUE
  PROVE  TextsIn(ReadByte(s, p)) /\ ReadByte(s, p).ports[p].direct = TRUE
<1> DEFINE o == [s.ports[p] EXCEPT !.pos = @ + 1]
           b == Bytes(s, p)[s.ports[p].pos + 1]
           x == PutPort(s, p, o)
           t == ReadByte(s, p)
<1>1. Sound(F, s.ports[p]) /\ s \in Systems(F) /\ s.ports[p] \in PortRecords(F) /\ Kept(F, s, t)
  BY GoodParts, FieldTypes, ReadByteKept
<1>2. \A r : Reply(s, r).ports = s.ports
  BY <1>1 DEF Reply, Systems
<1>3. t \in {Reply(s, Abort), Reply(s, Eof), Reply(x, b)}
  BY DEF ReadByte, PutPort
<1>4. /\ o.direct = TRUE /\ o = [s.ports[p] EXCEPT !.pos = o.pos, !.direct = TRUE]
  BY <1>1 DEF PortRecords
<1>5. /\ x.ports[p] = o /\ x.disk = s.disk
      /\ \A q \in DOMAIN s.ports \ {p} : x.ports[q] = s.ports[q]
  BY <1>1, PutParts
<1>6. Reply(x, b).ports = x.ports /\ Reply(x, b).disk = x.disk
  BY <1>1 DEF PutPort, Reply, Systems
<1> HIDE DEF o, b, t
<1>7. CASE t \in {Reply(s, Abort), Reply(s, Eof)}
  BY <1>2, <1>7, ReplyTexts DEF t
<1>8. CASE t = Reply(x, b)
  <2> HIDE DEF x
  <2>1. t.ports = x.ports /\ t.disk = s.disk
    BY <1>5, <1>6, <1>8
  <2>2. Directly(s, t, p)
    BY <1>4, <1>5, <2>1 DEF Directly, FilesStay
  <2> QED BY <1>1, <1>4, <1>5, <2>1, <2>2, DirectlyTexts DEF t
<1> QED BY <1>3, <1>7, <1>8

(* A byte is written.                                                      *)
LEMMA WriteByteTexts ==
  ASSUME NEW F, NEW s, Good(F, s), NEW p \in DOMAIN s.ports, TextsIn(s), s.ports[p].direct = TRUE,
         NEW b \in Characters, WriteByte(s, p, b).reply # Abort
  PROVE  TextsIn(WriteByte(s, p, b)) /\ WriteByte(s, p, b).ports[p].direct = TRUE
<1> DEFINE t == WriteByte(s, p, b)
<1>1. s.ports[p] \in PortRecords(F) /\ Kept(F, s, t)
  BY GoodParts, FieldTypes, WriteByteKept
<1>2. t.ports = s.ports /\ FilesStay(s, t, p)
  BY ByteGoes
<1> HIDE DEF t
<1>3. s.ports[p] = [s.ports[p] EXCEPT !.pos = s.ports[p].pos, !.direct = TRUE]
  BY <1>1 DEF PortRecords
<1>4. Directly(s, t, p)
  BY <1>2, <1>3 DEF Directly
<1> QED BY <1>1, <1>2, <1>4, DirectlyTexts DEF t

(* Bytes are read.                                                         *)
LEMMA ReadBytesTexts ==
  ASSUME NEW F, Good(F, S), NEW p \in DOMAIN S.ports, NEW N \in Nat, TextsIn(S)
  PROVE  TextsIn(ReadBytes(p, N))
<1> DEFINE D == {t \in Systems(F) : TextsIn(t) /\ t.ports[p].direct = TRUE}
<1>1. PICK f : InRounds(F, p, N, f)
  BY ReadBytesRounds
<1>2. \A n \in 1 .. N : n - 1 \in 0 .. N /\ n \in 0 .. N
  OBVIOUS
<1>3. ASSUME NEW n \in 1 .. N, f[n - 1] \in D
      PROVE  f[n] \in D
  <2> DEFINE t == f[n - 1]
  <2>1. Kept(F, S, t) /\ f[n] \in {t, ReadByte(t, p)} /\ f[n] \in Systems(F)
    BY <1>1, <1>2 DEF InRounds
  <2>2. TextsIn(t) /\ t.ports[p].direct = TRUE
    BY <1>3
  <2> HIDE DEF t, D
  <2>3. Good(F, t) /\ p \in DOMAIN t.ports
    BY <2>1, KeptParts
  <2> QED BY <2>1, <2>2, <2>3, ReadByteTexts DEF D
<1>4. f[0] \in D
  <2>1. f[0] = PutPort(S, p, [S.ports[p] EXCEPT !.direct = TRUE]) /\ f[0] \in Systems(F)
    BY <1>1 DEF InRounds
  <2> QED BY <2>1, MarkedTexts
<1> HIDE DEF D
<1>5. \A n \in 0 .. N : f[n] \in D
  BY <1>3, <1>4, IterationStays
<1>6. ReadBytes(p, N) \in D
  BY <1>1, <1>5 DEF InRounds
<1> QED BY <1>6 DEF D

(* Bytes are written.                                                      *)
LEMMA WriteBytesTexts ==
  ASSUME NEW F, Good(F, S), NEW p \in DOMAIN S.ports, NEW text \in Seq(Characters), TextsIn(S),
         WriteBytes(p, text).reply # Abort
  PROVE  TextsIn(WriteBytes(p, text))
<1> DEFINE N == Len(text)
           D == {t \in Systems(F) : t.reply # Abort => TextsIn(t) /\ t.ports[p].direct = TRUE}
<1>1. PICK f : OutRounds(F, p, text, f)
  BY WriteBytesRounds
<1>2. N \in Nat /\ \A n \in 1 .. N : text[n] \in Characters /\ n - 1 \in 0 .. N /\ n \in 0 .. N
  OBVIOUS
<1>3. ASSUME NEW n \in 1 .. N, f[n - 1] \in D
      PROVE  f[n] \in D
  <2> DEFINE t == f[n - 1]
             b == text[n]
  <2>1. Kept(F, S, t) /\ f[n] = WriteMore(t, p, b) /\ f[n] \in Systems(F)
    BY <1>1, <1>2 DEF OutRounds
  <2>2. b \in Characters
    BY <1>2
  <2>3. t.reply # Abort => TextsIn(t) /\ t.ports[p].direct = TRUE
    BY <1>3
  <2> HIDE DEF t, b, D
  <2>4. Good(F, t) /\ p \in DOMAIN t.ports
    BY <2>1, KeptParts
  <2>5. WriteMore(t, p, b).reply # Abort =>
          TextsIn(WriteMore(t, p, b)) /\ WriteMore(t, p, b).ports[p].direct = TRUE
    BY <2>2, <2>3, <2>4, WriteByteTexts DEF WriteMore
  <2> QED BY <2>1, <2>5 DEF D
<1>4. f[0] \in D
  <2>1. f[0] = PutPort(S, p, [S.ports[p] EXCEPT !.direct = TRUE]) /\ f[0] \in Systems(F)
    BY <1>1, <1>2 DEF OutRounds
  <2> QED BY <2>1, MarkedTexts
<1> HIDE DEF D
<1>5. \A n \in 0 .. N : f[n] \in D
  BY <1>2, <1>3, <1>4, IterationStays
<1>6. f[N] \in D /\ WriteBytes(p, text) \in {f[N], Reply(f[N], Error)} /\ Kept(F, S, f[N])
      /\ WritesWell(S, p, f[N])
  BY <1>1, <1>5 DEF OutRounds
<1>7. CASE WriteBytes(p, text) = f[N]
  BY <1>6, <1>7 DEF D
<1>8. CASE WriteBytes(p, text) # f[N]
  <2>1. WriteBytes(p, text) = Reply(f[N], Error) /\ Good(F, f[N])
    BY <1>6, <1>8 DEF Kept
  <2>2. f[N].reply # Abort
    <3>1. WriteBytes(p, text) =
            IF f[N].reply = Done /\ ports[p].class # "null" /\ ~Output(ports[p]) THEN Reply(f[N], Error)
            ELSE f[N]
      BY <1>1, <1>2 DEF OutRounds
    <3> QED BY <1>8, <3>1 DEF Done, Abort
  <2> QED BY <1>6, <2>1, <2>2, ReplyTexts DEF D
<1> QED BY <1>7, <1>8

(* A closed port, and the forms in which closing and freeing leave a port. *)
ShutPort(port) == [port EXCEPT !.mode = {}, !.open = FALSE]

ShutAs(a, b) == b = a \/ b = ShutPort(a) \/ b = FreedPort(a)

(* Such a port says what it said.                                          *)
LEMMA ShutLooks ==
  ASSUME NEW F, NEW a, Sound(F, a), NEW b, ShutAs(a, b)
  PROVE  /\ LooksAs(a, b) /\ b.from = a.from /\ b.pos = a.pos /\ b.data = a.data
         /\ b.direct = a.direct /\ (Input(b) => Input(a))
<1>1. a \in PortRecords(F)
  BY FieldTypes
<1>2. CASE b = a
  BY <1>2 DEF LooksAs
<1>3. CASE b = ShutPort(a)
  BY <1>1, <1>3 DEF LooksAs, ShutPort, PortRecords, Input
<1>4. CASE b = FreedPort(a)
  BY <1>1, <1>4 DEF LooksAs, FreedPort, PortRecords, Input
<1> QED BY <1>2, <1>3, <1>4 DEF ShutAs

(* Ports are closed and freed over the same files.                         *)
Shuts(s, t) ==
    /\ t.disk = s.disk /\ DOMAIN t.ports = DOMAIN s.ports
    /\ \A q \in DOMAIN s.ports : ShutAs(s.ports[q], t.ports[q])

(* This leaves what is known of them, if they owe no LF after it.          *)
LEMMA ShutTexts ==
  ASSUME NEW F, NEW s, NEW t, Good(F, s), Shuts(s, t), TextsIn(s),
         \A q \in DOMAIN s.ports : Owing(t.ports[q])
  PROVE  TextsIn(t)
<1>1. ASSUME NEW q \in DOMAIN s.ports
      PROVE  /\ LooksAs(s.ports[q], t.ports[q]) /\ t.ports[q].data = s.ports[q].data
             /\ t.ports[q].direct = s.ports[q].direct
             /\ s.ports[q].class \in FileClasses \cup {"c-data"} => BytesStay(s, t, q)
  <2>1. Sound(F, s.ports[q]) /\ ShutAs(s.ports[q], t.ports[q])
    BY GoodParts DEF Shuts
  <2>2. /\ LooksAs(s.ports[q], t.ports[q]) /\ t.ports[q].from = s.ports[q].from
        /\ t.ports[q].pos = s.ports[q].pos /\ t.ports[q].data = s.ports[q].data
        /\ t.ports[q].direct = s.ports[q].direct
        /\ Input(t.ports[q]) => Input(s.ports[q])
    BY <2>1, ShutLooks
  <2>3. t.ports[q].class = s.ports[q].class
    BY <2>2 DEF LooksAs
  <2>4. Bytes(t, q) = Bytes(s, q)
    BY <2>2, <2>3 DEF Bytes, Shuts
  <2> QED BY <2>2, <2>3, <2>4 DEF BytesStay, Readable
<1>2. Framed(s.ports, t.ports)
  BY <1>1 DEF Framed, Shuts, LooksAs
<1>3. ASSUME NEW q \in DOMAIN s.ports, Alone(s.ports, q)
      PROVE  BytesStay(s, t, Under(s, q))
  <2>1. Under(s, q) \in DOMAIN s.ports /\ s.ports[Under(s, q)].class \in FileClasses \cup {"c-data"}
    BY <1>3, UnderIs DEF Alone, Under
  <2> QED BY <1>1, <2>1
<1>4. \A q \in DOMAIN s.ports : Bare(s.ports, q) => BytesStay(s, t, q)
  BY <1>1 DEF Bare
<1> QED BY <1>1, <1>2, <1>3, <1>4, TextsStay

(* A text port that is under another one is closed.                        *)
LEMMA LayersClosed ==
  ASSUME NEW F, NEW s, Good(F, s), NEW p \in DOMAIN s.ports, NEW q \in Layers(s.ports, p), q # p
  PROVE  q \in DOMAIN s.ports /\ ~TextPort(s.ports[q])
<1> DEFINE A == {r \in DOMAIN s.ports : r # p /\ TextPort(s.ports[r])}
<1>1. p \in Nat \ {0} /\ Ordered(s.ports, p) /\ \A r \in 1 .. p : r \in DOMAIN s.ports
  BY GoodOrder
<1>2. ASSUME NEW r \in 1 .. p, s.ports[r].class = "text"
      PROVE  s.ports[r].under \notin A
  <2>1. Layered(s.ports, r)
    BY <1>1, GoodParts
  <2> QED BY <1>2, <2>1 DEF Layered
<1>3. p \notin A
  OBVIOUS
<1> HIDE DEF A
<1>4. q \notin A
  BY <1>1, <1>2, <1>3, LayersAvoid
<1>5. q \in DOMAIN s.ports
  BY <1>1, LayersAre
<1> QED BY <1>4, <1>5 DEF A

(* A port that owes nothing can be closed.                                 *)
LEMMA ShutOwing ==
  ASSUME NEW F, NEW a, Sound(F, a), Owing(a)
  PROVE  /\ a.class # "text" \/ "output" \notin a.made \/ ~a.needs_lf \/ a.mode = {} =>
              Owing(ShutPort(a))
         /\ Owing(FreedPort(a))
<1>1. a \in PortRecords(F)
  BY FieldTypes
<1>2. /\ ShutPort(a).class = a.class /\ ShutPort(a).made = a.made /\ ShutPort(a).needs_lf = a.needs_lf
      /\ ShutPort(a).translate = a.translate /\ ShutPort(a).freed = a.freed /\ ShutPort(a).mode = {}
  BY <1>1 DEF PortRecords, ShutPort
<1>3. /\ FreedPort(a).class = a.class /\ FreedPort(a).made = a.made /\ FreedPort(a).needs_lf = a.needs_lf
      /\ FreedPort(a).translate = a.translate /\ FreedPort(a).freed = TRUE
  BY <1>1 DEF PortRecords, FreedPort
<1> QED BY <1>2, <1>3 DEF Owing

(* A port is closed.                                                       *)
LEMMA ClosePortTexts ==
  ASSUME NEW F, NEW s, Good(F, s), NEW p \in DOMAIN s.ports, TextsIn(s), ClosePort(s, p).reply # Abort
  PROVE  TextsIn(ClosePort(s, p))
<1> DEFINE closes == Layers(s.ports, p)
           x == IF Output(s.ports[p]) THEN FlushPort(s, p) ELSE s
           f == [q \in DOMAIN x.ports |-> IF q \in closes THEN ShutPort(x.ports[q]) ELSE x.ports[q]]
           t == PutPorts(x, f, Done)
<1>1. ClosePort(s, p) = IF x.reply = Abort THEN x
                        ELSE IF \E q \in closes : s.ports[q].freed THEN Reply(s, Abort)
                        ELSE t
  BY DEF ClosePort, PutPorts, ShutPort
<1>2. Kept(F, s, FlushPort(s, p)) /\ Kept(F, s, s)
  BY FlushPortKept, SameSelf
<1>3. x.reply # Abort
  BY <1>1
<1>4. Reply(s, Abort).reply = Abort
  BY GoodParts DEF Reply, Systems
<1>5. ClosePort(s, p) = t
  BY <1>1, <1>3, <1>4
<1>6. Kept(F, s, x) /\ TextsIn(x)
  BY <1>2, <1>3, FlushTexts
<1>7. Output(s.ports[p]) /\ s.ports[p].class = "text" => x.ports[p].needs_lf = FALSE
  BY <1>3, FlushTexts
<1> HIDE DEF x
<1>8. /\ Good(F, x) /\ DOMAIN x.ports = DOMAIN s.ports /\ x \in Systems(F)
      /\ \A q \in DOMAIN s.ports : Fixed(s.ports[q], x.ports[q]) /\ Sound(F, x.ports[q])
                                   /\ Sound(F, s.ports[q]) /\ Owing(x.ports[q])
  BY <1>6, KeptParts, GoodParts DEF TextsIn, Local
<1>9. t.ports = f /\ t.disk = x.disk
  BY <1>8 DEF PutPorts, Systems
<1> HIDE DEF t
<1>10. Shuts(x, t)
  BY <1>9 DEF Shuts, ShutAs
<1>11. ASSUME NEW q \in DOMAIN x.ports
       PROVE  Owing(f[q])
  <2> DEFINE a == x.ports[q]
  <2>0. Sound(F, a) /\ Owing(a) /\ Fixed(s.ports[q], a) /\ Sound(F, s.ports[q]) /\ q \in DOMAIN s.ports
    BY <1>8
  <2>1. CASE q \notin closes
    <3>1. f[q] = a
      BY <2>1
    <3> QED BY <2>0, <3>1
  <2>2. CASE q \in closes
    <3>1. f[q] = ShutPort(a)
      BY <2>2
    <3>2. CASE q = p /\ Output(s.ports[p])
      BY <1>7, <2>0, <3>1, <3>2, ShutOwing DEF Fixed
    <3>3. CASE q = p /\ ~Output(s.ports[p])
      <4>1. "output" \notin a.made \/ a.mode = {}
        BY <2>0, <3>3 DEF Sound, Fixed, Output
      <4> QED BY <2>0, <3>1, <4>1, ShutOwing
    <3>4. CASE q # p
      <4>1. ~TextPort(s.ports[q])
        BY <2>0, <2>2, <3>4, LayersClosed
      <4>2. a.class # "text" \/ a.mode = {}
        <5>1. ~TextPort(a) /\ MadeRight(a.class, a.made) /\ a.mode \in {{}, a.made}
          BY <2>0, <4>1 DEF Sound, Fixed, TextPort
        <5> HIDE DEF a
        <5> QED BY <5>1 DEF MadeRight, TextPort, FileClasses
      <4> QED BY <2>0, <3>1, <4>2, ShutOwing
    <3> QED BY <3>2, <3>3, <3>4
  <2> QED BY <2>1, <2>2
<1> HIDE DEF f
<1> QED BY <1>5, <1>6, <1>8, <1>9, <1>10, <1>11, ShutTexts

(* A port is freed.                                                        *)
LEMMA GcFreeTexts ==
  ASSUME NEW F, NEW s, Good(F, s), NEW p \in DOMAIN s.ports, TextsIn(s), GcFree(s, p).reply # Abort
  PROVE  TextsIn(GcFree(s, p))
<1> DEFINE text == s.ports[p].class = "text"
           u == Under(s, p)
           x == IF text THEN ClosePort(s, u) ELSE s
           t == PutPort(x, p, FreedPort(x.ports[p]))
<1>1. text => u \in DOMAIN s.ports
  BY UnderIs
<1>2. GcFree(s, p) =
        IF s.reply = Abort THEN s
        ELSE IF text /\ s.ports[u].freed THEN Reply(s, Abort)
        ELSE IF x.reply = Abort THEN x
        ELSE [x EXCEPT !.ports[p].freed = TRUE, !.ports[p].open = FALSE, !.ports[p].mode = {}]
  BY DEF GcFree
<1>3. Reply(s, Abort).reply = Abort
  BY GoodParts DEF Reply, Systems
<1>4. /\ s.reply # Abort /\ x.reply # Abort
      /\ GcFree(s, p) = [x EXCEPT !.ports[p].freed = TRUE, !.ports[p].open = FALSE, !.ports[p].mode = {}]
  BY <1>2, <1>3
<1>5. Closed(F, s, x) /\ TextsIn(x)
  BY <1>1, <1>4, ClosePortClosed, ClosePortTexts, KeptClosed, SameSelf
<1> HIDE DEF x
<1>6. /\ Good(F, x) /\ DOMAIN x.ports = DOMAIN s.ports /\ x \in Systems(F)
      /\ x.ports \in Seq(PortRecords(F))
      /\ \A q \in DOMAIN x.ports : Sound(F, x.ports[q]) /\ Owing(x.ports[q])
  BY <1>5, GoodParts DEF Closed, TextsIn, Local
<1>7. GcFree(s, p) = t
  BY <1>4, <1>6, ZenonT(60) DEF PutPort, FreedPort, Systems
<1>8. /\ t.disk = x.disk /\ DOMAIN t.ports = DOMAIN x.ports /\ t.ports[p] = FreedPort(x.ports[p])
      /\ \A q \in DOMAIN x.ports \ {p} : t.ports[q] = x.ports[q]
  BY <1>6, PutParts
<1> HIDE DEF t
<1>9. Shuts(x, t)
  BY <1>8 DEF Shuts, ShutAs
<1>10. \A q \in DOMAIN x.ports : Owing(t.ports[q])
  BY <1>6, <1>8, ShutOwing
<1> QED BY <1>5, <1>6, <1>7, <1>9, <1>10, ShutTexts

(* Garbage is freed.                                                       *)
LEMMA SweepTexts ==
  ASSUME NEW F, Good(F, S), NEW order \in Bijection(1 .. Cardinality(Garbage), Garbage),
         TextsIn(S), Sweep(order).reply # Abort
  PROVE  TextsIn(Sweep(order))
<1> DEFINE N == Cardinality(Garbage)
           D == {t \in Systems(F) : t.reply # Abort => TextsIn(t)}
<1>1. PICK f : FreeRounds(F, order, f)
  BY SweepRounds
<1>2. /\ f[0] = S /\ \A n \in 1 .. N : f[n] = GcFree(f[n - 1], order[n]) /\ order[n] \in Garbage
      /\ Sweep(order) = f[N] /\ N \in Nat /\ N \in 0 .. N
      /\ \A n \in 0 .. N : f[n] \in Systems(F) /\ SweptWell(F, f[n])
  BY <1>1 DEF FreeRounds
<1> HIDE DEF N
<1>3. \A n \in 1 .. N : n - 1 \in 0 .. N /\ n \in 0 .. N
  BY <1>2
<1>4. ASSUME NEW n \in 1 .. N, f[n - 1] \in D
      PROVE  f[n] \in D
  <2> DEFINE t == f[n - 1]
             p == order[n]
  <2>1. SweptWell(F, t) /\ f[n] = GcFree(t, p) /\ f[n] \in Systems(F) /\ p \in Garbage
    BY <1>2, <1>3
  <2>2. t.reply # Abort => TextsIn(t)
    BY <1>4
  <2> HIDE DEF t, p, D
  <2>3. Good(F, t) /\ p \in DOMAIN t.ports
    <3>1. Good(F, t) /\ Len(t.ports) = Len(S.ports) /\ DOMAIN t.ports = 1 .. Len(t.ports)
          /\ DOMAIN S.ports = 1 .. Len(S.ports)
      BY <2>1, GoodParts DEF SweptWell, Freed
    <3>2. p \in DOMAIN S.ports
      BY <2>1, GarbageIsFinite DEF S
    <3> QED BY <3>1, <3>2
  <2>4. ASSUME GcFree(t, p).reply # Abort
        PROVE  TextsIn(GcFree(t, p))
    <3>1. t.reply # Abort
      BY <2>3, <2>4, GcFreeFrees, <2>1 DEF SweptWell
    <3> QED BY <2>2, <2>3, <2>4, <3>1, GcFreeTexts
  <2> QED BY <2>1, <2>4 DEF D
<1>5. f[0] \in D
  BY <1>2, GoodParts
<1> HIDE DEF D
<1>6. \A n \in 0 .. N : f[n] \in D
  BY <1>2, <1>4, <1>5, IterationStays
<1>7. Sweep(order) \in D
  BY <1>2, <1>6
<1> QED BY <1>7 DEF D
-----------------------------------------------------------------------------
(* New ports.                                                              *)

(* A port as port_cons makes it.                                           *)
Newly(port) ==
    /\ port.needs_lf = FALSE /\ port.translate = Crlf /\ ~port.toggled
    /\ port.row = 1 /\ port.col = 0 /\ port.passed = << >> /\ port.pbuf = << >>
    /\ port.pos = port.from
    /\ port.class = "string-output" => port.data = << >>

(* A new port over bytes that were not used keeps the lines of nothing.    *)
LEMMA NewLocal ==
  ASSUME NEW s, NEW p, Newly(s.ports[p]),
         Alone(s.ports, p) =>
           LET u == Under(s, p) IN
           /\ s.ports[u].pos = s.ports[u].from /\ s.ports[u].pos \in Nat
           /\ Bytes(s, u) \in Seq(Characters)
           /\ "output" \in s.ports[p].made => Bytes(s, u) = << >>
  PROVE  Local(s, p)
<1> DEFINE port == s.ports[p]
           u == Under(s, p)
           x == s.ports[u]
           bytes == Bytes(s, u)
           none == << >>
<1>1. /\ port.needs_lf = FALSE /\ port.translate = Crlf /\ ~port.toggled
      /\ port.row = 1 /\ port.col = 0 /\ port.passed = none /\ port.pbuf = none
      /\ port.class = "string-output" => port.data = none
  BY DEF Newly
<1>2. Said(port) = none
  BY <1>1 DEF Said
<1>3. /\ Row(none) = 1 /\ \A ends, skipped : Column(none, ends, skipped) = 0
      /\ Lines(none) = none /\ ~EndsCR(none) /\ Paired(none, FALSE)
  BY EmptyText
<1>4. Alone(s.ports, p) =>
        /\ x.pos = x.from /\ x.pos \in Nat /\ bytes \in Seq(Characters)
        /\ "output" \in port.made => bytes = none
  OBVIOUS
<1>5. ASSUME Alone(s.ports, p)
      PROVE  Used(s, u) = none
  <2> DEFINE k == x.from
  <2>1. Used(s, u) = SubSeq(bytes, k + 1, k) /\ k \in Nat /\ bytes \in Seq(Characters)
    BY <1>4, <1>5 DEF Used
  <2> HIDE DEF k, bytes
  <2> QED BY <2>1 DEF none
<1>6. Column(none, {CR, LF}, {}) = 0 /\ Column(none, {LF}, {}) = 0
  BY <1>3
<1> HIDE DEF none, bytes, x
<1>7. Owing(port)
  BY <1>1 DEF Owing
<1>8. port.class = "string-output" => At(port, Row(port.data), Column(port.data, {LF}, {CR}))
  BY <1>1, <1>3 DEF At
<1>9. ASSUME Alone(s.ports, p), "output" \in port.made
      PROVE  WriterSays(port, bytes, port.passed)
  <2>1. bytes = none
    BY <1>4, <1>9
  <2> HIDE DEF port
  <2> QED BY <1>1, <1>3, <1>6, <2>1 DEF WriterSays, At
<1>10. ASSUME Alone(s.ports, p)
       PROVE  ReaderIs(s, p)
  <2>1. ReaderSays(port, Used(s, u), Said(port))
    <3> HIDE DEF port
    <3> QED BY <1>1, <1>2, <1>3, <1>5, <1>10 DEF ReaderSays
  <2>2. x.from <= x.pos
    BY <1>4, <1>10
  <2>3. ReaderStands(s, p)
    BY <1>1, <1>3, <1>6 DEF ReaderStands, At
  <2> QED BY <2>1, <2>2, <2>3 DEF ReaderIs, Hears, x
<1> QED BY <1>7, <1>8, <1>9, <1>10 DEF Local, bytes

(* The same files, but for that of a port which is opened for output and   *)
(* is empty then.                                                          *)
Opened(F, port, d) ==
    /\ d \in [F -> Seq(Characters)]
    /\ \A f \in F : ~(port.class \in FileClasses /\ port.data = f) => d[f] = disk[f]
    /\ port.class \in FileClasses /\ "output" \in port.made => d[port.data] = << >>

(* A new port leaves what is known of all others, and nothing was read or  *)
(* written for it.                                                         *)
LEMMA BornTexts ==
  ASSUME NEW F, Good(F, S), NEW port, Newborn(F, port), Newly(port), NEW d, Opened(F, port, d),
         TextsIn(S)
  PROVE  TextsIn([ports |-> Append(ports, port), disk |-> d, reply |-> Done])
<1> DEFINE n == Len(ports) + 1
           f == Append(ports, port)
           t == [ports |-> f, disk |-> d, reply |-> Done]
<1>1. /\ Good(F, t) /\ DOMAIN f = DOMAIN ports \cup {n} /\ n \notin DOMAIN ports
      /\ f[n] = port /\ \A q \in DOMAIN ports : f[q] = ports[q]
  BY BornGood DEF Opened
<1>2. t.ports = f /\ t.disk = d /\ S.ports = ports /\ S.disk = disk
  BY DEF S
<1> HIDE DEF n, f, t
<1>3. /\ \A q \in DOMAIN ports : Sound(F, ports[q])
      /\ \A q \in DOMAIN ports : ports[q].class = "text" => ports[q].under \in DOMAIN ports
  BY <1>2, GoodParts, UnderIs DEF Under
<1>4. ASSUME NEW v \in DOMAIN ports, ports[v].class \in FileClasses \cup {"c-data"},
             {port.class, ports[v].class} \subseteq FileClasses => port.data # ports[v].data
      PROVE  BytesStay(S, t, v)
  <2>1. t.ports[v] = S.ports[v]
    BY <1>1, <1>2
  <2>2. ASSUME ports[v].class # "c-data"
        PROVE  d[ports[v].data] = disk[ports[v].data]
    <3>1. ports[v].class \in FileClasses /\ ports[v].data \in F
      BY <1>3, <1>4, <2>2 DEF Sound
    <3> QED BY <1>4, <3>1 DEF Opened
  <2>3. Bytes(t, v) = Bytes(S, v)
    BY <1>2, <2>1, <2>2 DEF Bytes
  <2> QED BY <2>1, <2>3 DEF BytesStay, Readable
<1>5. ASSUME NEW q \in DOMAIN ports, Alone(f, q)
      PROVE  Alone(ports, q) /\ BytesStay(S, t, Under(S, q))
  <2> DEFINE u == ports[q].under
  <2>1. f[q] = ports[q] /\ ports[q].class = "text" /\ u \in DOMAIN ports
    BY <1>1, <1>3, <1>5 DEF Alone
  <2>2. f[u] = ports[u] /\ n \in DOMAIN f \ {q, u}
    BY <1>1, <2>1
  <2> HIDE DEF u
  <2>3. /\ ports[u].class \in FileClasses \cup {"c-data"} /\ ~ports[u].direct
        /\ ports[q].made \subseteq ports[u].made \cup {"text"}
        /\ \A r \in DOMAIN f \ {q, u} :
             /\ f[r].under # u
             /\ {f[r].class, ports[u].class} \subseteq FileClasses => f[r].data # ports[u].data
    BY <1>5, <2>1, <2>2 DEF Alone, u
  <2>4. \A r \in DOMAIN ports \ {q, u} : r \in DOMAIN f \ {q, u} /\ f[r] = ports[r]
    BY <1>1
  <2>5. Alone(ports, q)
    BY <2>1, <2>3, <2>4 DEF Alone, u
  <2>6. BytesStay(S, t, u)
    BY <1>1, <1>4, <2>1, <2>2, <2>3
  <2> QED BY <1>2, <2>5, <2>6 DEF Under, u
<1>6. ASSUME NEW q \in DOMAIN ports, Bare(f, q)
      PROVE  Bare(ports, q) /\ BytesStay(S, t, q)
  <2>1. f[q] = ports[q] /\ n \in DOMAIN f \ {q}
    BY <1>1
  <2>2. /\ ports[q].class \in FileClasses \cup {"c-data"} /\ ~ports[q].direct
        /\ \A r \in DOMAIN f \ {q} :
             /\ f[r].under # q
             /\ {f[r].class, ports[q].class} \subseteq FileClasses => f[r].data # ports[q].data
    BY <1>6, <2>1 DEF Bare
  <2>3. \A r \in DOMAIN ports \ {q} : r \in DOMAIN f \ {q} /\ f[r] = ports[r]
    BY <1>1
  <2>4. Bare(ports, q)
    BY <2>2, <2>3 DEF Bare
  <2>5. BytesStay(S, t, q)
    BY <1>1, <1>4, <2>1, <2>2
  <2> QED BY <2>4, <2>5
<1>7. ASSUME NEW q \in DOMAIN ports
      PROVE  Local(t, q) /\ Untouched(t, q)
  <2>1. Local(S, q) /\ Untouched(S, q) /\ t.ports[q] = S.ports[q]
    BY <1>1, <1>2 DEF TextsIn
  <2>2. LooksAs(S.ports[q], t.ports[q]) /\ Owing(t.ports[q])
    BY <2>1 DEF LooksAs, Local
  <2>3. Local(t, q)
    BY <1>2, <1>5, <2>1, <2>2, LocalStays
  <2>4. Untouched(t, q)
    BY <1>2, <1>6, <2>1 DEF Untouched, BytesStay
  <2> QED BY <2>3, <2>4
<1>8. Local(t, n)
  <2> DEFINE u == port.under
  <2>1. ASSUME Alone(f, n)
        PROVE  /\ f[u].pos = f[u].from /\ f[u].pos \in Nat
               /\ Bytes(t, u) \in Seq(Characters)
               /\ "output" \in port.made => Bytes(t, u) = << >>
    <3>1. port.class = "text" /\ u \in DOMAIN ports /\ f[u] = ports[u] /\ f[n] = port
      BY <1>1, <2>1 DEF Alone, Newborn
    <3> HIDE DEF u
    <3>2. /\ ports[u].class \in FileClasses \cup {"c-data"} /\ ~ports[u].direct
          /\ port.made \subseteq ports[u].made \cup {"text"}
          /\ \A r \in DOMAIN f \ {n, u} :
               /\ f[r].under # u
               /\ {f[r].class, ports[u].class} \subseteq FileClasses => f[r].data # ports[u].data
      BY <2>1, <3>1 DEF Alone, u
    <3>3. \A r \in DOMAIN ports \ {u} : r \in DOMAIN f \ {n, u} /\ f[r] = ports[r]
      BY <1>1
    <3>4. Bare(ports, u)
      BY <3>2, <3>3 DEF Bare
    <3>5. ports[u].pos = ports[u].from /\ ("output" \in ports[u].made => Bytes(S, u) = << >>)
      BY <1>2, <3>1, <3>4 DEF TextsIn, Untouched
    <3>6. BytesStay(S, t, u)
      <4>1. port.class \notin FileClasses
        BY <3>1 DEF FileClasses
      <4> QED BY <1>4, <3>1, <3>2, <4>1
    <3>7. Bytes(t, u) = Bytes(S, u) /\ Bytes(S, u) \in Seq(Characters)
      BY <1>2, <3>1, <3>2, <3>6, BytesAre DEF BytesStay
    <3>8. ports[u].pos \in Nat
      BY <1>3, <3>1, FieldTypes
    <3>9. "output" \in port.made => "output" \in ports[u].made
      BY <3>2
    <3> QED BY <3>1, <3>5, <3>7, <3>8, <3>9
  <2>2. Under(t, n) = u /\ t.ports[n] = port
    BY <1>1, <1>2 DEF Under
  <2> HIDE DEF u
  <2> QED BY <1>2, <2>1, <2>2, NewLocal
<1>9. Untouched(t, n)
  <2>1. t.ports[n] = port /\ port.pos = port.from
    BY <1>1, <1>2 DEF Newly
  <2>2. ASSUME port.class \in FileClasses \cup {"c-data"}, "output" \in port.made
        PROVE  Bytes(t, n) = << >>
    <3>1. MadeRight(port.class, port.made)
      BY DEF Newborn, Sound
    <3>2. port.class \in FileClasses /\ port.class # "c-data"
      BY <2>2, <3>1 DEF MadeRight, FileClasses
    <3>3. d[port.data] = << >>
      BY <2>2, <3>2 DEF Opened
    <3> QED BY <1>2, <2>1, <3>2, <3>3 DEF Bytes
  <2> QED BY <1>2, <2>1, <2>2 DEF Untouched, Bare
<1>10. TextsIn(t)
  BY <1>1, <1>2, <1>7, <1>8, <1>9 DEF TextsIn
<1> QED BY <1>10 DEF t, f
-----------------------------------------------------------------------------
(* The texts of every program.                                             *)

(* While the process runs, what is known of the texts holds.               *)
TextsInv == reply # Abort => TextsIn(S)

(* It holds at the start, where the devices for output are empty.          *)
LEMMA StartTexts == Init => TextsInv
<1> SUFFICES ASSUME Init PROVE TextsIn(S)
  BY DEF TextsInv
<1> DEFINE F == program.files
           n == Len(ports)
<1>1. program \in Programs /\ ports = program.ports /\ disk = program.disk
  BY DEF Init
<1>2. /\ n \in Nat /\ ports = [p \in 1 .. n |-> ports[p]]
      /\ \A p \in 1 .. n : StartPort(ports, disk, p)
  BY <1>1, ProgramsAssumption
<1>3. Good(F, S) /\ S.ports = ports /\ S.disk = disk
  BY StartInv DEF PortsInv, S
<1> HIDE DEF n
<1>4. DOMAIN ports = 1 .. n
  BY <1>2
<1>5. ASSUME NEW p \in DOMAIN ports
      PROVE  /\ Newly(ports[p])
             /\ ports[p].class \in FileClasses /\ "output" \in ports[p].made =>
                  disk[ports[p].data] = << >>
  <2> DEFINE port == ports[p]
  <2>1. StartPort(ports, disk, p)
    BY <1>2, <1>4
  <2>2. \E class, mode, under, data :
          /\ port = PortCons(class, mode, under, data)
          /\ class # "string-output"
          /\ class \in FileClasses /\ "output" \in mode => disk[data] = << >>
    <3>1. CASE /\ port.class \in FileClasses
               /\ port \in {PortCons(port.class, {"input"}, 0, port.data),
                            PortCons(port.class, {"output"}, 0, port.data)}
               /\ port = PortCons(port.class, {"output"}, 0, port.data) => disk[port.data] = << >>
      <4> DEFINE c == port.class
                 d == port.data
      <4>1. c # "string-output"
        BY <3>1 DEF FileClasses
      <4>2. CASE port = PortCons(c, {"input"}, 0, d)
        <5>1. "output" \notin {"input"}
          OBVIOUS
        <5> HIDE DEF c, d, port
        <5> QED BY <4>1, <4>2, <5>1
      <4>3. CASE port = PortCons(c, {"output"}, 0, d)
        <5>1. disk[d] = << >>
          BY <3>1, <4>3
        <5> HIDE DEF c, d, port
        <5> QED BY <4>1, <4>3, <5>1
      <4> QED BY <3>1, <4>2, <4>3
    <3>2. CASE port.class = "c-data" /\ port = PortCons(port.class, {"input"}, 0, port.data)
      BY <3>2 DEF FileClasses
    <3>3. CASE port \in {PortCons("text", {"input", "text"}, port.under, << >>),
                         PortCons("text", {"output", "text"}, port.under, << >>)}
      <4>1. "text" \notin FileClasses
        BY DEF FileClasses
      <4> HIDE DEF port
      <4> QED BY <3>3, <4>1
    <3> QED BY <2>1, <3>1, <3>2, <3>3 DEF StartPort
  <2>3. PICK class, mode, under, data :
          /\ port = PortCons(class, mode, under, data)
          /\ class # "string-output"
          /\ class \in FileClasses /\ "output" \in mode => disk[data] = << >>
    BY <2>2
  <2> HIDE DEF port
  <2>4. Newly(port) /\ port.class = class /\ port.made = mode /\ port.data = data
    BY <2>3 DEF Newly, PortCons
  <2> QED BY <2>3, <2>4 DEF port
<1>6. ASSUME NEW u \in DOMAIN ports, ports[u].class \in FileClasses \cup {"c-data"}
      PROVE  /\ ports[u].pos = ports[u].from /\ ports[u].pos \in Nat
             /\ Bytes(S, u) \in Seq(Characters)
             /\ "output" \in ports[u].made => Bytes(S, u) = << >>
  <2>1. Sound(F, ports[u]) /\ Newly(ports[u])
    BY <1>3, <1>5, GoodParts
  <2>2. Bytes(S, u) \in Seq(Characters)
    BY <1>3, <1>6, BytesAre
  <2>3. ports[u].pos \in Nat
    BY <2>1, FieldTypes
  <2>4. ASSUME "output" \in ports[u].made
        PROVE  Bytes(S, u) = << >>
    <3>1. ports[u].class \in FileClasses /\ ports[u].class # "c-data"
      BY <1>6, <2>1, <2>4 DEF Sound, MadeRight, FileClasses
    <3> QED BY <1>3, <1>5, <2>4, <3>1 DEF Bytes
  <2> QED BY <2>1, <2>2, <2>3, <2>4 DEF Newly
<1>7. ASSUME NEW p \in DOMAIN ports
      PROVE  Local(S, p) /\ Untouched(S, p)
  <2>1. Untouched(S, p)
    BY <1>3, <1>6 DEF Untouched, Bare
  <2>2. ASSUME Alone(ports, p)
        PROVE  LET u == Under(S, p) IN
               /\ ports[u].pos = ports[u].from /\ ports[u].pos \in Nat
               /\ Bytes(S, u) \in Seq(Characters)
               /\ "output" \in ports[p].made => Bytes(S, u) = << >>
    <3> DEFINE u == Under(S, p)
    <3>1. u \in DOMAIN ports /\ ports[u].class \in FileClasses \cup {"c-data"}
      BY <1>3, <2>2, UnderIs DEF Alone, Under
    <3>2. "output" \in ports[p].made => "output" \in ports[u].made
      BY <1>3, <2>2 DEF Alone, Under
    <3> QED BY <1>6, <3>1, <3>2
  <2>3. Local(S, p)
    BY <1>3, <1>5, <2>2, NewLocal
  <2> QED BY <2>1, <2>3
<1> QED BY <1>3, <1>7 DEF TextsIn

(* A call that leaves them so.                                             *)
LEMMA CallsTexts ==
  ASSUME NEW F, NEW op, NEW p, NEW t, Calls(op, p, t), Good(F, t), t.reply # Abort => TextsIn(t)
  PROVE  TextsInv'
<1> SUFFICES ASSUME reply' # Abort PROVE TextsIn(S')
  BY DEF TextsInv
<1>1. ports' = t.ports /\ disk' = t.disk /\ reply' = t.reply
  BY DEF Calls
<1>2. TextsIn(Reply(t, Done))
  BY <1>1, ReplyTexts
<1>3. S' = Reply(t, Done)
  <2>1. t \in Systems(F)
    BY GoodParts
  <2>2. S' = [ports |-> t.ports, disk |-> t.disk, reply |-> Done]
    BY <1>1 DEF S
  <2> QED BY <2>1, <2>2 DEF Reply, Systems
<1> QED BY <1>2, <1>3

(* A call that first tests its port.                                       *)
LEMMA TestsTexts ==
  ASSUME PortsInv, TextsInv, NEW op, NEW p, NEW test \in BOOLEAN, NEW t,
         On(op, p, Fails(test, t)),
         ~test => Kept(program.files, S, t) /\ (t.reply # Abort => TextsIn(t))
  PROVE  TextsInv'
<1> DEFINE F == program.files
           x == Fails(test, t)
<1>1. Calls(op, p, x) /\ reply # Abort
  BY DEF On, Calls
<1>2. Good(F, S) /\ TextsIn(S)
  BY <1>1 DEF PortsInv, TextsInv
<1>3. CASE test
  <2>1. x = Reply(S, Error)
    BY <1>3 DEF Fails
  <2>2. Good(F, x)
    BY <1>2, <2>1, ReplyKept DEF Replies, Kept
  <2>3. TextsIn(x)
    BY <1>2, <2>1, ReplyTexts
  <2> HIDE DEF x
  <2> QED BY <1>1, <2>2, <2>3, CallsTexts
<1>4. CASE ~test
  <2>1. x = t
    BY <1>4 DEF Fails
  <2>2. Good(F, x) /\ (x.reply # Abort => TextsIn(x))
    BY <1>4, <2>1 DEF Kept
  <2> HIDE DEF x
  <2> QED BY <1>1, <2>2, CallsTexts
<1> QED BY <1>3, <1>4

(* The reading primitives keep the texts.                                  *)
LEMMA InputTexts ==
  PortsInv /\ TextsInv /\ (ReadCharacter \/ PeekCharacter \/ FlushWhitespaces \/ ReadTextLine) =>
    TextsInv'
<1> SUFFICES ASSUME PortsInv, TextsInv,
                    ReadCharacter \/ PeekCharacter \/ FlushWhitespaces \/ ReadTextLine
             PROVE  TextsInv'
  OBVIOUS
<1> DEFINE F == program.files
           wrong(p) == ~TextPort(ports[p])
<1>0. Good(F, S) /\ S.ports = ports
  BY DEF PortsInv, S
<1>1. ASSUME NEW op, NEW p \in held, NEW t, Reads(op, p, t),
             TextPort(ports[p]) /\ TextsIn(S) => Kept(F, S, t) /\ (t.reply # Abort => TextsIn(t))
      PROVE  TextsInv'
  <2>1. On(op, p, Fails(wrong(p), t)) /\ wrong(p) \in BOOLEAN
    BY <1>1 DEF Reads, TextPort
  <2>2. TextsIn(S)
    BY <2>1 DEF TextsInv, On, Calls
  <2>3. ~wrong(p) => Kept(F, S, t) /\ (t.reply # Abort => TextsIn(t))
    BY <1>1, <2>2
  <2> HIDE DEF wrong
  <2> QED BY <2>1, <2>3, TestsTexts
<1>2. CASE ReadCharacter
  <2>1. PICK p \in held : Reads("read-char", p, Take(S, p))
    BY <1>2 DEF ReadCharacter
  <2>2. Kept(F, S, Take(S, p)) /\ (TextsIn(S) => TextsIn(Take(S, p)))
    BY HeldPort, TakeKept, ReadsKept, TakeTexts
  <2> QED BY <1>1, <2>1, <2>2
<1>3. CASE PeekCharacter
  <2>1. PICK p \in held : Reads("peek-char", p, PeekChar(S, p))
    BY <1>3 DEF PeekCharacter
  <2>2. Kept(F, S, PeekChar(S, p)) /\ (TextsIn(S) => TextsIn(PeekChar(S, p)))
    BY HeldPort, PeekKept, ReadsKept, PeekTexts
  <2> QED BY <1>1, <2>1, <2>2
<1>4. ASSUME NEW op, NEW p \in held, NEW x, Reads(op, p, Fails(Output(ports[p]), x)),
             TextPort(ports[p]) /\ TextsIn(S) => Kept(F, S, x) /\ TextsIn(x) /\ x.reply \in Replies
      PROVE  TextsInv'
  <2> DEFINE t == Fails(Output(ports[p]), x)
  <2>1. ASSUME TextPort(ports[p]), TextsIn(S)
        PROVE  Kept(F, S, t) /\ TextsIn(t)
    <3>1. Output(ports[p]) \in BOOLEAN
      BY DEF Output
    <3>2. Kept(F, S, t)
      BY <1>0, <1>4, <2>1, <3>1, FailsKept
    <3>3. TextsIn(Reply(S, Error))
      BY <1>0, <2>1, ReplyTexts
    <3> QED BY <1>4, <2>1, <3>2, <3>3 DEF Fails
  <2>2. Reads(op, p, t)
    BY <1>4
  <2> HIDE DEF t
  <2> QED BY <1>1, <2>1, <2>2
<1>5. CASE FlushWhitespaces
  <2>1. PICK p \in held, comments \in BOOLEAN :
          Reads("flush-whitespace", p, Fails(Output(ports[p]), FlushWhitespace(S, p, comments)))
    BY <1>5 DEF FlushWhitespaces
  <2> DEFINE x == FlushWhitespace(S, p, comments)
  <2>2. TextPort(ports[p]) /\ TextsIn(S) => Kept(F, S, x) /\ TextsIn(x) /\ x.reply \in Replies
    BY HeldPort, FlushWhitespaceKept, ReadsKept, FlushWhitespaceTexts
  <2> HIDE DEF x
  <2> QED BY <1>4, <2>1, <2>2 DEF x
<1>6. CASE ReadTextLine
  <2>1. PICK p \in held : Reads("read-line", p, Fails(Output(ports[p]), ReadLine(S, p)))
    BY <1>6 DEF ReadTextLine
  <2>2. TextPort(ports[p]) /\ TextsIn(S) =>
          Kept(F, S, ReadLine(S, p)) /\ TextsIn(ReadLine(S, p)) /\ ReadLine(S, p).reply \in Replies
    BY HeldPort, ReadLineKept, ReadLineTexts
  <2> QED BY <1>4, <2>1, <2>2
<1> QED BY <1>2, <1>3, <1>5, <1>6

(* The writing primitives keep them.                                       *)
LEMMA OutputTexts ==
  PortsInv /\ TextsInv /\ (WriteCharacter \/ WriteStrings \/ NewLine \/ FreshLine) => TextsInv'
<1> SUFFICES ASSUME PortsInv, TextsInv, WriteCharacter \/ WriteStrings \/ NewLine \/ FreshLine
             PROVE  TextsInv'
  OBVIOUS
<1> DEFINE F == program.files
           wrong(p) == ~TextPort(ports[p]) \/ Input(ports[p])
<1>0. /\ Good(F, S) /\ S.ports = ports
      /\ program.chars \subseteq Characters /\ program.texts \subseteq Seq(Characters)
      /\ LF \in Characters
  BY ProgramsAssumption DEF PortsInv, S, Characters
<1>1. ASSUME NEW op, NEW p \in held, NEW n, NEW t, Writes(op, p, n, t),
             Kept(F, S, t), TextsIn(S) /\ t.reply # Abort => TextsIn(t)
      PROVE  TextsInv'
  <2>1. On(op, p, Fails(wrong(p), t)) /\ wrong(p) \in BOOLEAN
    BY <1>1 DEF Writes
  <2>2. TextsIn(S)
    BY <2>1 DEF TextsInv, On, Calls
  <2> HIDE DEF wrong
  <2> QED BY <1>1, <2>1, <2>2, TestsTexts
<1>2. ASSUME NEW p \in held, NEW c \in Characters
      PROVE  /\ Kept(F, S, WriteChar(S, p, c))
             /\ TextsIn(S) /\ WriteChar(S, p, c).reply # Abort => TextsIn(WriteChar(S, p, c))
  BY HeldPort, WriteCharKept, WriteCharTexts
<1>3. CASE WriteCharacter
  <2>1. PICK p \in held, c \in program.chars : Writes("write-char", p, 1, WriteChar(S, p, c))
    BY <1>3 DEF WriteCharacter
  <2>2. c \in Characters
    BY <1>0
  <2> QED BY <1>1, <1>2, <2>1, <2>2
<1>4. CASE WriteStrings
  <2>1. PICK p \in held, text \in program.texts :
          Writes("write-strings", p, Len(text), WriteText(S, p, text))
    BY <1>4 DEF WriteStrings
  <2>2. text \in Seq(Characters)
    BY <1>0
  <2>3. /\ Kept(F, S, WriteText(S, p, text))
        /\ TextsIn(S) /\ WriteText(S, p, text).reply # Abort => TextsIn(WriteText(S, p, text))
    BY <2>2, HeldPort, WriteTextKept, WriteTextTexts
  <2> QED BY <1>1, <2>1, <2>3
<1>5. CASE NewLine
  <2>1. PICK p \in held : Writes("newline", p, 1, WriteChar(S, p, LF))
    BY <1>5 DEF NewLine
  <2> QED BY <1>0, <1>1, <1>2, <2>1
<1>6. CASE FreshLine
  <2>1. PICK p \in held :
          Writes("fresh-line", p, 1,
                 IF ports[p].col # 0 /\ ~ports[p].needs_lf THEN WriteChar(S, p, LF) ELSE S)
    BY <1>6 DEF FreshLine
  <2> DEFINE t == IF ports[p].col # 0 /\ ~ports[p].needs_lf THEN WriteChar(S, p, LF) ELSE S
  <2>2. Kept(F, S, t) /\ (TextsIn(S) /\ t.reply # Abort => TextsIn(t))
    BY <1>0, <1>2, SameSelf
  <2>3. Writes("fresh-line", p, 1, t)
    BY <2>1
  <2> HIDE DEF t
  <2> QED BY <1>1, <2>2, <2>3
<1> QED BY <1>3, <1>4, <1>5, <1>6

(* The primitives that flush keep them.                                    *)
LEMMA FlushingTexts ==
  PortsInv /\ TextsInv /\ (GetOutputString \/ Flush \/ SetPortTranslateMode) => TextsInv'
<1> SUFFICES ASSUME PortsInv, TextsInv, GetOutputString \/ Flush \/ SetPortTranslateMode
             PROVE  TextsInv'
  OBVIOUS
<1> DEFINE F == program.files
<1>0. Good(F, S) /\ S.ports = ports
  BY DEF PortsInv, S
<1>1. ASSUME NEW op, NEW p \in held, On(op, p, FlushPort(S, p))
      PROVE  TextsInv'
  <2>1. TextsIn(S) /\ Calls(op, p, FlushPort(S, p))
    BY <1>1 DEF TextsInv, On, Calls
  <2>2. Good(F, FlushPort(S, p)) /\ (FlushPort(S, p).reply # Abort => TextsIn(FlushPort(S, p)))
    BY <2>1, HeldPort, FlushPortKept, FlushTexts DEF Kept
  <2> QED BY <2>1, <2>2, CallsTexts
<1>2. CASE GetOutputString
  BY <1>1, <1>2 DEF GetOutputString
<1>3. CASE Flush
  BY <1>1, <1>3 DEF Flush
<1>4. CASE SetPortTranslateMode
  <2>1. PICK p \in held, mode \in BOOLEAN :
          On("set-port-translate-mode!", p, Fails(~TextPort(ports[p]), SetTranslate(p, mode)))
    BY <1>4 DEF SetPortTranslateMode
  <2> DEFINE t == SetTranslate(p, mode)
             test == ~TextPort(ports[p])
  <2>2. TextsIn(S) /\ test \in BOOLEAN
    BY <2>1 DEF TextsInv, On, Calls
  <2>3. Kept(F, S, t)
    BY HeldPort, SetTranslateKept
  <2>4. ~test => (t.reply # Abort => TextsIn(t))
    BY <1>0, <2>2, HeldPort, SetTranslateTexts
  <2> HIDE DEF test, t
  <2> QED BY <2>1, <2>2, <2>3, <2>4, TestsTexts DEF test, t
<1> QED BY <1>2, <1>3, <1>4

(* Binary input and output keep them.                                      *)
LEMMA BinaryTexts ==
  PortsInv /\ TextsInv /\ (ReadBinaryString \/ ReadBinaryNumber \/ WriteBinary) => TextsInv'
<1> SUFFICES ASSUME PortsInv, TextsInv, ReadBinaryString \/ ReadBinaryNumber \/ WriteBinary
             PROVE  TextsInv'
  OBVIOUS
<1> DEFINE F == program.files
<1>0. /\ Good(F, S) /\ Done \in Replies
      /\ program.texts \subseteq Seq(Characters) /\ program.sizes \subseteq Nat \ {0}
  BY ProgramsAssumption DEF PortsInv, S, Replies
<1>1. ASSUME NEW op, NEW p \in held, NEW t, On(op, p, Fails(TextPort(ports[p]), t)),
             Kept(F, S, t), TextsIn(S) /\ t.reply # Abort => TextsIn(t)
      PROVE  TextsInv'
  <2>1. TextPort(ports[p]) \in BOOLEAN /\ TextsIn(S)
    BY <1>1 DEF TextPort, TextsInv, On, Calls
  <2> QED BY <1>1, <2>1, TestsTexts
<1>2. ASSUME NEW p \in held, NEW n \in program.sizes
      PROVE  Kept(F, S, ReadBytes(p, n)) /\ (TextsIn(S) => TextsIn(ReadBytes(p, n)))
  <2>1. n \in Nat
    BY <1>0
  <2> QED BY <1>0, <2>1, HeldPort, ReadBytesKept, ReadBytesTexts
<1>3. CASE ReadBinaryString
  <2>1. PICK p \in held, n \in program.sizes :
          On("read-binary-string", p,
             Fails(TextPort(ports[p]),
                   IF ReadBytes(p, n).reply = Eof /\ ReadBytes(p, n).ports[p].pos # ports[p].pos
                     THEN Reply(ReadBytes(p, n), Done) ELSE ReadBytes(p, n)))
    BY <1>3 DEF ReadBinaryString
  <2> DEFINE r == ReadBytes(p, n)
             t == IF r.reply = Eof /\ r.ports[p].pos # ports[p].pos THEN Reply(r, Done) ELSE r
  <2>2. Kept(F, S, r) /\ (TextsIn(S) => TextsIn(r))
    BY <1>2
  <2> HIDE DEF r
  <2>3. Kept(F, S, Reply(r, Done))
    <3>1. Kept(F, r, Reply(r, Done))
      BY <1>0, <2>2, KeptParts, ReplyKept
    <3> QED BY <1>0, <2>2, <3>1, KeptTwice
  <2>4. TextsIn(S) => TextsIn(Reply(r, Done))
    BY <1>0, <2>2, KeptParts, ReplyTexts
  <2>5. Kept(F, S, t) /\ (TextsIn(S) => TextsIn(t))
    BY <2>2, <2>3, <2>4
  <2>6. On("read-binary-string", p, Fails(TextPort(ports[p]), t))
    BY <2>1 DEF r
  <2> HIDE DEF t
  <2> QED BY <1>1, <2>5, <2>6
<1>4. CASE ReadBinaryNumber
  <2>1. PICK p \in held, n \in program.sizes :
          On("read-binary-fixnum", p, Fails(TextPort(ports[p]), ReadBytes(p, n)))
    BY <1>4 DEF ReadBinaryNumber
  <2> QED BY <1>1, <1>2, <2>1
<1>5. CASE WriteBinary
  <2>1. PICK p \in held, text \in program.texts :
          On("write-binary", p, Fails(TextPort(ports[p]), WriteBytes(p, text)))
    BY <1>5 DEF WriteBinary
  <2>2. text \in Seq(Characters)
    BY <1>0
  <2>3. /\ Kept(F, S, WriteBytes(p, text))
        /\ TextsIn(S) /\ WriteBytes(p, text).reply # Abort => TextsIn(WriteBytes(p, text))
    BY <1>0, <2>2, HeldPort, WriteBytesKept, WriteBytesTexts
  <2> QED BY <1>1, <2>1, <2>3
<1> QED BY <1>3, <1>4, <1>5

(* A primitive that makes a port, or answers with an error, keeps them.    *)
LEMMA MakesTexts ==
  ASSUME PortsInv, TextsInv, NEW op, NEW port, NEW t, Makes(op, t),
         \/ t = Reply(S, Error)
         \/ /\ Newborn(program.files, port) /\ Newly(port)
            /\ t.ports = Append(ports, port) /\ Opened(program.files, port, t.disk)
  PROVE  TextsInv'
<1> DEFINE F == program.files
<1>0. Good(F, S) /\ TextsIn(S) /\ Calls(op, Len(ports) + 1, t)
  BY DEF Makes, Calls, PortsInv, TextsInv
<1>1. CASE t = Reply(S, Error)
  <2>1. Good(F, t) /\ TextsIn(t)
    BY <1>0, <1>1, ReplyKept, ReplyTexts DEF Kept, Replies
  <2> QED BY <1>0, <2>1, CallsTexts
<1>2. CASE /\ Newborn(F, port) /\ Newly(port)
           /\ t.ports = Append(ports, port) /\ Opened(F, port, t.disk)
  <2>1. TextsIn([ports |-> t.ports, disk |-> t.disk, reply |-> Done])
    BY <1>0, <1>2, BornTexts
  <2>2. S' = [ports |-> t.ports, disk |-> t.disk, reply |-> Done]
    BY <1>0 DEF Calls, S
  <2> QED BY <2>1, <2>2 DEF TextsInv
<1> QED BY <1>1, <1>2

(* The primitives that open ports keep them.                               *)
LEMMA OpensTexts == PortsInv /\ TextsInv /\ Opens => TextsInv'
<1> SUFFICES ASSUME PortsInv, TextsInv, Opens PROVE TextsInv'
  OBVIOUS
<1> DEFINE F == program.files
           Empty == << >>
<1>0. /\ Good(F, S) /\ S.ports = ports /\ S.disk = disk /\ disk \in [F -> Seq(Characters)]
      /\ program.texts \subseteq Seq(Characters) /\ Empty \in Seq(Characters) /\ 0 \in Nat
      /\ \A p \in held : p \in DOMAIN ports /\ ~ports[p].freed /\ Sound(F, ports[p])
      /\ \A p \in DOMAIN ports : p \in Nat
  <2>1. Good(F, S) /\ S.ports = ports /\ S.disk = disk /\ held \subseteq {p \in DOMAIN ports : ~ports[p].freed}
    BY DEF PortsInv, S
  <2>2. program.texts \subseteq Seq(Characters)
    BY ProgramsAssumption DEF PortsInv
  <2> QED BY <2>1, <2>2, GoodParts
<1> HIDE DEF Empty
<1>1. ASSUME NEW port
      PROVE  Add(S, port).ports = Append(ports, port) /\ Add(S, port).disk = disk
  BY DEF Add, S
<1>2. ASSUME NEW class, NEW mode, NEW data,
             class \in Classes \ {"text"}, mode \in SUBSET Modes, MadeRight(class, mode),
             IF class \in FileClasses THEN data \in F ELSE data \in Seq(Characters),
             class = "string-output" => data = Empty
      PROVE  /\ Newborn(F, PortCons(class, mode, 0, data)) /\ Newly(PortCons(class, mode, 0, data))
             /\ PortCons(class, mode, 0, data).class = class
             /\ PortCons(class, mode, 0, data).made = mode
             /\ PortCons(class, mode, 0, data).data = data
  <2>1. /\ Sound(F, PortCons(class, mode, 0, data)) /\ ~PortCons(class, mode, 0, data).freed
        /\ PortCons(class, mode, 0, data).class = class
    <3>1. class \in Classes /\ class # "text" /\ 0 \in Nat
      BY <1>2
    <3>2. /\ mode \in SUBSET Modes /\ MadeRight(class, mode)
          /\ IF class \in FileClasses THEN data \in F ELSE data \in Seq(Characters)
      BY <1>2
    <3> QED BY ONLY <3>1, <3>2, ConsSound, SMTT(30)
  <2>2. /\ Newly(PortCons(class, mode, 0, data)) /\ PortCons(class, mode, 0, data).made = mode
        /\ PortCons(class, mode, 0, data).data = data
    BY <1>2 DEF Newly, PortCons, Empty
  <2> QED BY <1>2, <2>1, <2>2 DEF Newborn
<1>3. ASSUME NEW port, port.class \in FileClasses => "output" \notin port.made
      PROVE  Opened(F, port, disk)
  BY <1>0, <1>3 DEF Opened
<1>4. CASE OpenRawInputFile
  <2>1. PICK f \in F : Makes("open-raw-input-file", Add(S, PortCons("file", {"input"}, 0, f)))
    BY <1>4 DEF OpenRawInputFile
  <2> DEFINE port == PortCons("file", {"input"}, 0, f)
  <2>2. /\ Newborn(F, port) /\ Newly(port) /\ port.made = {"input"}
    BY <1>2 DEF Classes, Modes, MadeRight, FileClasses
  <2> HIDE DEF port
  <2>3. Opened(F, port, disk)
    BY <1>3, <2>2
  <2> QED BY <1>1, <2>1, <2>2, <2>3, MakesTexts DEF port
<1>5. CASE OpenRawOutputFile
  <2>1. PICK f \in F :
          Makes("open-raw-output-file", [Add(S, PortCons("file", {"output"}, 0, f)) EXCEPT !.disk[f] = << >>])
    BY <1>5 DEF OpenRawOutputFile
  <2> DEFINE port == PortCons("file", {"output"}, 0, f)
             t == [Add(S, port) EXCEPT !.disk[f] = << >>]
             d == [disk EXCEPT ![f] = Empty]
  <2>2. Newborn(F, port) /\ Newly(port) /\ port.class = "file" /\ port.data = f
    BY <1>2 DEF Classes, Modes, MadeRight, FileClasses
  <2> HIDE DEF port
  <2>3. Opened(F, port, d)
    <3>1. d \in [F -> Seq(Characters)] /\ d[f] = Empty /\ \A g \in F \ {f} : d[g] = disk[g]
      BY <1>0
    <3>2. port.class \in FileClasses
      BY <2>2 DEF FileClasses
    <3> HIDE DEF d
    <3> QED BY <2>2, <3>1, <3>2 DEF Opened, Empty
  <2>4. t.ports = Append(ports, port) /\ t.disk = d
    BY DEF Add, S, Empty
  <2>5. Makes("open-raw-output-file", t)
    BY <2>1 DEF port
  <2> HIDE DEF d, t
  <2> QED BY <2>2, <2>3, <2>4, <2>5, MakesTexts
<1>6. CASE OpenFails
  <2>1. PICK op : Makes(op, Reply(S, Error))
    BY <1>6 DEF OpenFails
  <2> QED BY <2>1, MakesTexts
<1>7. ASSUME NEW op, NEW direction \in {"input", "output"}, OpenText(op, direction)
      PROVE  TextsInv'
  <2>1. PICK u \in held :
          Makes(op, Fails(TextPort(ports[u]), Add(S, PortCons("text", {direction, "text"}, u, << >>))))
    BY <1>7 DEF OpenText
  <2> DEFINE mode == {direction, "text"}
             port == PortCons("text", mode, u, Empty)
             t == Fails(TextPort(ports[u]), Add(S, port))
  <2>2. ASSUME ~TextPort(ports[u])
        PROVE  Newborn(F, port)
    <3>1. /\ "text" \in Classes /\ mode \in SUBSET Modes
          /\ MadeRight("text", mode) /\ "text" \notin FileClasses /\ u \in Nat
      BY <1>0 DEF Classes, Modes, MadeRight, FileClasses
    <3> HIDE DEF mode
    <3>2. Sound(F, port) /\ ~port.freed /\ port.class = "text" /\ port.under = u
      BY <1>0, <3>1, ConsSound, SMTT(30)
    <3> HIDE DEF port
    <3> QED BY <1>0, <2>2, <3>2 DEF Newborn
  <2>3. Makes(op, t)
    BY <2>1 DEF Empty
  <2>4. Newly(port) /\ port.class \notin FileClasses
    BY DEF Newly, PortCons, FileClasses
  <2> HIDE DEF port
  <2>5. Opened(F, port, disk)
    BY <1>3, <2>4
  <2>6. t = Reply(S, Error) \/ (~TextPort(ports[u]) /\ t = Add(S, port))
    BY DEF Fails
  <2> HIDE DEF t
  <2> QED BY <1>1, <2>2, <2>3, <2>4, <2>5, <2>6, MakesTexts
<1>8. CASE OpenTextInputPort
  BY <1>7, <1>8 DEF OpenTextInputPort
<1>9. CASE OpenTextOutputPort
  BY <1>7, <1>9 DEF OpenTextOutputPort
<1>10. ASSUME NEW op, NEW class, NEW mode, NEW data,
              class \in {"string-input", "string-output", "null"}, mode \in SUBSET Modes,
              MadeRight(class, mode), data \in Seq(Characters),
              class = "string-output" => data = Empty,
              Makes(op, Add(S, PortCons(class, mode, 0, data)))
       PROVE  TextsInv'
  <2> DEFINE port == PortCons(class, mode, 0, data)
  <2>1. class \in Classes \ {"text"} /\ class \notin FileClasses
    BY <1>10 DEF Classes, FileClasses
  <2>2. Newborn(F, port) /\ Newly(port) /\ port.class = class
    BY <1>2, <1>10, <2>1
  <2> HIDE DEF port
  <2>3. Opened(F, port, disk)
    BY <1>3, <2>1, <2>2
  <2> QED BY <1>1, <1>10, <2>2, <2>3, MakesTexts DEF port
<1>11. CASE OpenInputString
  <2>1. PICK text \in program.texts :
          Makes("open-input-string", Add(S, PortCons("string-input", {"input", "text"}, 0, text)))
    BY <1>11 DEF OpenInputString
  <2>2. {"input", "text"} \in SUBSET Modes /\ MadeRight("string-input", {"input", "text"})
        /\ text \in Seq(Characters)
    BY <1>0 DEF Modes, MadeRight
  <2> QED BY <1>10, <2>1, <2>2
<1>12. CASE OpenOutputString
  <2>1. Makes("open-output-string", Add(S, PortCons("string-output", {"output", "text"}, 0, Empty)))
    BY <1>12 DEF OpenOutputString, Empty
  <2>2. {"output", "text"} \in SUBSET Modes /\ MadeRight("string-output", {"output", "text"})
    BY DEF Modes, MadeRight
  <2> QED BY <1>0, <1>10, <2>1, <2>2
<1>13. CASE OpenNullPort
  <2>1. Makes("open-null-port", Add(S, PortCons("null", {"input", "output"}, 0, Empty)))
    BY <1>13 DEF OpenNullPort, Empty
  <2>2. {"input", "output"} \in SUBSET Modes /\ MadeRight("null", {"input", "output"})
    BY DEF Modes, MadeRight
  <2> QED BY <1>0, <1>10, <2>1, <2>2
<1>14. CASE CloneCDataPort
  <2>1. PICK p \in held :
          Makes("clone-c-data-port",
                Fails(ports[p].class # "c-data" \/ ~Input(ports[p]),
                      Add(S, [PortCons("c-data", ports[p].mode, 0, ports[p].data)
                                EXCEPT !.pos = ports[p].pos, !.from = ports[p].pos])))
    BY <1>14 DEF CloneCDataPort
  <2> DEFINE test == ports[p].class # "c-data" \/ ~Input(ports[p])
             cons == PortCons("c-data", ports[p].mode, 0, ports[p].data)
             port == [cons EXCEPT !.pos = ports[p].pos, !.from = ports[p].pos]
             t == Fails(test, Add(S, port))
  <2>2. ASSUME ~test
        PROVE  Newborn(F, port) /\ Newly(port) /\ Opened(F, port, disk)
    <3>1. /\ "c-data" \in Classes \ {"text"} /\ ports[p].mode = {"input"} /\ {"input"} \in SUBSET Modes
          /\ MadeRight("c-data", {"input"}) /\ "c-data" \notin FileClasses
          /\ ports[p].data \in Seq(Characters) /\ ports[p].pos \in Nat
      BY <1>0, <2>2, ZenonT(60) DEF Classes, Modes, MadeRight, FileClasses, Sound, Input, PortRecords
    <3>2. Newborn(F, cons) /\ Newly(cons) /\ cons.class = "c-data"
      BY <1>2, <3>1
    <3> HIDE DEF cons
    <3>3. Newborn(F, port)
      BY <3>1, <3>2 DEF Newborn, Sound, PortRecords
    <3>4. cons \in PortRecords(F)
      BY <3>2 DEF Newborn, Sound
    <3>5. Newly(port) /\ port.class = cons.class
      BY <3>2, <3>4 DEF Newly, PortRecords
    <3> HIDE DEF port
    <3>6. Opened(F, port, disk)
      BY <1>3, <3>1, <3>2, <3>5
    <3> QED BY <3>3, <3>5, <3>6
  <2>3. Makes("clone-c-data-port", t)
    BY <2>1
  <2> HIDE DEF port, test
  <2>4. t = Reply(S, Error) \/ (~test /\ t = Add(S, port))
    BY DEF Fails
  <2> HIDE DEF t
  <2> QED BY <1>1, <2>2, <2>3, <2>4, MakesTexts
<1> QED
  BY <1>4, <1>5, <1>6, <1>8, <1>9, <1>11, <1>12, <1>13, <1>14 DEF Opens

(* Closing a port, dropping one and a collection keep them.                *)
LEMMA CloseTexts == PortsInv /\ TextsInv /\ (Close \/ Drop \/ Collect) => TextsInv'
<1> SUFFICES ASSUME PortsInv, TextsInv, Close \/ Drop \/ Collect PROVE TextsInv'
  OBVIOUS
<1> DEFINE F == program.files
<1>0. Good(F, S)
  BY DEF PortsInv
<1>1. CASE Close
  <2>1. PICK p \in held : On("close-port", p, ClosePort(S, p))
    BY <1>1 DEF Close
  <2>2. Calls("close-port", p, ClosePort(S, p)) /\ TextsIn(S)
    BY <2>1 DEF On, Calls, TextsInv
  <2>3. Good(F, ClosePort(S, p)) /\ (ClosePort(S, p).reply # Abort => TextsIn(ClosePort(S, p)))
    BY <2>2, HeldPort, ClosePortClosed, ClosePortTexts DEF Closed
  <2> QED BY <2>2, <2>3, CallsTexts
<1>2. CASE Drop
  <2>1. ports' = ports /\ disk' = disk /\ reply # Abort
    BY <1>2 DEF Drop
  <2>2. S' = S /\ TextsIn(S)
    BY <2>1 DEF S, TextsInv
  <2> QED BY <2>2 DEF TextsInv
<1>3. CASE Collect
  <2>1. PICK order \in Bijection(1 .. Cardinality(Garbage), Garbage) :
          Calls("collect", 0, Sweep(order))
    BY <1>3 DEF Collect
  <2>2. TextsIn(S)
    BY <2>1 DEF Calls, TextsInv
  <2>3. Good(F, Sweep(order)) /\ (Sweep(order).reply # Abort => TextsIn(Sweep(order)))
    BY <1>0, <2>2, SweepFrees, SweepTexts DEF SweptWell, Freed
  <2> QED BY <2>1, <2>3, CallsTexts
<1> QED BY <1>1, <1>2, <1>3

(* Every step keeps them.                                                  *)
LEMMA StepTexts == PortsInv /\ TextsInv /\ [Next]_vars => TextsInv'
<1> SUFFICES ASSUME PortsInv, TextsInv, [Next]_vars PROVE TextsInv'
  OBVIOUS
<1>1. CASE Uses
  <2>1. \/ ReadCharacter \/ PeekCharacter \/ FlushWhitespaces \/ ReadTextLine
        \/ WriteCharacter \/ WriteStrings \/ NewLine \/ FreshLine
        \/ GetOutputString \/ Flush \/ SetPortTranslateMode
        \/ ReadBinaryString \/ ReadBinaryNumber \/ WriteBinary
    BY <1>1 DEF Uses
  <2> QED BY <2>1, InputTexts, OutputTexts, FlushingTexts, BinaryTexts
<1>2. CASE Opens \/ Close \/ Drop \/ Collect
  BY <1>2, OpensTexts, CloseTexts
<1>3. CASE UNCHANGED vars
  <2>1. S' = S /\ reply' = reply
    BY <1>3 DEF vars, S
  <2> QED BY <2>1 DEF TextsInv
<1> QED BY <1>1, <1>2, <1>3 DEF Next

(* In every state of every program, a text port that has the bytes under   *)
(* it for itself and the bytes say the same.                               *)
THEOREM PortsTexts == Spec => [](PortsInv /\ TextsInv)
<1>1. Init => PortsInv /\ TextsInv
  BY StartInv, StartTexts
<1>2. (PortsInv /\ TextsInv) /\ [Next]_vars => (PortsInv /\ TextsInv)'
  BY StepInv, StepTexts
<1> QED BY <1>1, <1>2, PTL DEF Spec

(* What is known of a port alone with its bytes.                           *)
LEMMA LocalTexts ==
  ASSUME PortsInv, TextsInv, reply # Abort, NEW p \in DOMAIN ports
  PROVE  /\ Local(S, p) /\ S.ports = ports /\ S.ports[p] = ports[p]
         /\ Under(S, p) = ports[p].under /\ Bytes(S, Under(S, p)) = UnderBytes(p)
         /\ ports[p].needs_lf \in BOOLEAN /\ ports[p].translate \in BOOLEAN
BY GoodParts, FieldTypes DEF PortsInv, TextsInv, TextsIn, S, Under, UnderBytes

(* So writers keep the lines of what they are given.                       *)
LEMMA InvWriters == PortsInv /\ TextsInv => WritersKeepLines
<1> SUFFICES ASSUME PortsInv, TextsInv, reply # Abort, NEW p \in DOMAIN ports,
                    Alone(ports, p), "output" \in ports[p].made, ~ports[p].toggled
             PROVE  IF ports[p].translate
                      THEN /\ Lines(UnderBytes(p)) = Lines(ports[p].passed)
                           /\ Paired(UnderBytes(p), ports[p].needs_lf)
                           /\ ports[p].mode = {} /\ ~ports[p].freed => ~ports[p].needs_lf
                      ELSE UnderBytes(p) = ports[p].passed
  BY DEF WritersKeepLines
<1>1. WriterSays(ports[p], UnderBytes(p), ports[p].passed) /\ Owing(ports[p])
  BY LocalTexts DEF Local
<1>2. ports[p].class = "text"
  BY DEF Alone
<1> QED BY <1>1, <1>2 DEF WriterSays, Owing

(* Readers find the lines of their bytes.                                  *)
LEMMA InvReaders == PortsInv /\ TextsInv => ReadersKeepLines
<1> SUFFICES ASSUME PortsInv, TextsInv, reply # Abort, NEW p \in DOMAIN ports,
                    Alone(ports, p), "input" \in ports[p].made, ~ports[p].toggled
             PROVE  LET u == ports[ports[p].under]
                        used == SubSeq(UnderBytes(p), u.from + 1, u.pos)
                    IN  ports[p].passed \o ports[p].pbuf = IF Crlf THEN Lines(used) ELSE used
  BY DEF ReadersKeepLines
<1>1. ReaderIs(S, p)
  BY LocalTexts DEF Local
<1> QED BY <1>1, LocalTexts DEF ReaderIs, Hears, ReaderSays, Used, Said

(* And positions are those of the texts.                                   *)
LEMMA InvPositions == PortsInv /\ TextsInv => PositionFollowsText
<1> SUFFICES ASSUME PortsInv, TextsInv, reply # Abort, NEW p \in DOMAIN ports
             PROVE  LET port == ports[p] IN
                    /\ Alone(ports, p) /\ "output" \in port.made =>
                         At(port, Row(UnderBytes(p)), Column(UnderBytes(p), {CR, LF}, {}))
                    /\ port.class = "string-output" =>
                         At(port, Row(port.data), Column(port.data, {LF}, {CR}))
                    /\ Alone(ports, p) /\ "input" \in port.made
                          /\ CR \notin Range(port.passed \o port.pbuf) /\ Readable(S, port.under) =>
                         At(port, Row(port.passed), Column(port.passed, {LF}, {}))
  BY DEF PositionFollowsText
<1> DEFINE port == ports[p]
<1>1. Local(S, p) /\ S.ports = ports /\ Under(S, p) = port.under /\ Bytes(S, Under(S, p)) = UnderBytes(p)
  BY LocalTexts
<1>2. Alone(ports, p) /\ "output" \in port.made =>
        At(port, Row(UnderBytes(p)), Column(UnderBytes(p), {CR, LF}, {}))
  BY <1>1 DEF Local, WriterSays
<1>3. port.class = "string-output" => At(port, Row(port.data), Column(port.data, {LF}, {CR}))
  BY <1>1 DEF Local
<1>4. Alone(ports, p) /\ "input" \in port.made
         /\ CR \notin Range(port.passed \o port.pbuf) /\ Readable(S, port.under) =>
        At(port, Row(port.passed), Column(port.passed, {LF}, {}))
  BY <1>1 DEF Local, ReaderIs, ReaderStands, Said
<1> QED BY <1>2, <1>3, <1>4

(* What a text port wrote comes to its file line by line, for any text,    *)
(* any flush, close and change of port, and however many other ports there *)
(* are: no line is lost, split or doubled by the line feed that is owed,   *)
(* and a port that was closed owes none (text_port_write_chars,            *)
(* text_port_flush and text_port_close).                                   *)
THEOREM PortsWriters == Spec => []WritersKeepLines
BY PortsTexts, InvWriters, PTL

(* What a text port read, with the character that was unread, is what the  *)
(* bytes used for it say, for any text and any mix of reading, peeking and *)
(* skipping (text_port_read_chars, text_port_peek_char, flush_whitespace   *)
(* and lread_line).                                                        *)
THEOREM PortsReaders == Spec => []ReadersKeepLines
BY PortsTexts, InvReaders, PTL

(* The row and the column a port reports are those of its text, also when  *)
(* a line feed that was owed is written late, or a character is unread     *)
(* (text_port_write_chars, read_char, text_port_peek_char).                *)
THEOREM PortsPositions == Spec => []PositionFollowsText
BY PortsTexts, InvPositions, PTL
=============================================================================
