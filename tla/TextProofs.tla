----------------------------- MODULE TextProofs -----------------------------
(***************************************************************************)
(* Proofs about Text, for any parts of a message, translation of the       *)
(* formats, size of the caller's array, width of the terminal and indent.  *)
(*                                                                         *)
(* The operators are recursive functions along a list; Recursion shows     *)
(* that such a function exists, Induction what its values are, both on     *)
(* sets of naturals, so that no theorem takes an operator.                 *)
(*                                                                         *)
(* TInv: the types, and that the message handed to stderr gives way.       *)
(* MessageGivesWay is the reason: of a format that has each part once the  *)
(* length is the sum of the lengths (LongLength), so the explanation gets  *)
(* exactly the room that is left.                                          *)
(*                                                                         *)
(* FInv: while there is text left, the columns that were counted are those *)
(* of the line and the word in the making (InLine, InWord), no character   *)
(* is cut in two (InText), and the lines printed would be filled were the  *)
(* one in the making the last of them.                                     *)
(*                                                                         *)
(* NInv: what is displayed has the letters and the words of what was read  *)
(* so far (AllThere).  For a step to keep that, the word in the making has *)
(* to be what was read last, without a space (InHand), and where one word  *)
(* ends and the next begins there has to be a space in the text, unless    *)
(* the word is one that no array holds (Apart, CutIsOverlong).             *)
(***************************************************************************)
EXTENDS Text, SequenceTheorems, FiniteSetTheorems, WellFoundedInduction, TLAPS

-----------------------------------------------------------------------------
(* Recursion along a list.  What is defined so has a value, and what holds  *)
(* of the start and is kept by each step holds throughout.                  *)

LEMMA Induction ==
    ASSUME NEW S, 0 \in S, \A n \in Nat : n \in S => n + 1 \in S
    PROVE  \A n \in Nat : n \in S
<1> SUFFICES ASSUME NEW m \in Nat, m \notin S PROVE FALSE
  OBVIOUS
<1> DEFINE T == Nat \ S
<1>1. \E least \in T : \A n \in T : ~ (<<n, least>> \in OpToRel(<, Nat))
  <2>1. IsWellFoundedOn(OpToRel(<, Nat), Nat)
    BY NatLessThanWellFounded
  <2>2. T \subseteq Nat /\ T # {}
    OBVIOUS
  <2> HIDE DEF T
  <2> QED
    BY <2>1, <2>2, WFMin
<1>2. PICK least \in T : \A n \in T : ~ (n < least)
  BY <1>1 DEF OpToRel
<1>3. least \in Nat /\ least # 0
  OBVIOUS
<1>4. least - 1 \in Nat /\ least - 1 < least /\ (least - 1) + 1 = least
  BY <1>3
<1>5. least - 1 \in S
  BY <1>2, <1>4
<1> QED
  BY <1>4, <1>5

Recurs(f, N, T, start, step) ==
    /\ f \in [0 .. N -> T]
    /\ f[0] = start
    /\ \A i \in 1 .. N : f[i] = step[i][f[i - 1]]

LEMMA Recursion ==
    ASSUME NEW N \in Nat, NEW T, NEW start \in T, NEW step \in [1 .. N -> [T -> T]]
    PROVE  \E f : Recurs(f, N, T, start, step)
<1> DEFINE Upto(n, f) == \A i \in 0 .. n : f[i] = IF i = 0 THEN start ELSE step[i][f[i - 1]]
           S == {n \in Nat : n <= N => \E f \in [0 .. n -> T] : Upto(n, f)}
<1>1. 0 \in S
  <2>1. PICK f : f = [i \in 0 .. 0 |-> start]
    OBVIOUS
  <2>2. f \in [0 .. 0 -> T] /\ Upto(0, f)
    BY <2>1
  <2> QED
    BY <2>2
<1>2. ASSUME NEW n \in Nat, n \in S
      PROVE  n + 1 \in S
  <2> SUFFICES ASSUME n + 1 <= N
               PROVE  \E f \in [0 .. n + 1 -> T] : Upto(n + 1, f)
    OBVIOUS
  <2>1. PICK f \in [0 .. n -> T] : Upto(n, f)
    BY <1>2
  <2>2. n + 1 \in 1 .. N /\ f[n] \in T /\ step[n + 1] \in [T -> T]
    OBVIOUS
  <2>3. PICK new : new = step[n + 1][f[n]]
    OBVIOUS
  <2>4. new \in T
    BY <2>2, <2>3
  <2>5. PICK g : g = [i \in 0 .. n + 1 |-> IF i = n + 1 THEN new ELSE f[i]]
    OBVIOUS
  <2>6. g \in [0 .. n + 1 -> T]
    BY <2>1, <2>4, <2>5
  <2>7. ASSUME NEW i \in 0 .. n + 1
        PROVE  g[i] = IF i = 0 THEN start ELSE step[i][g[i - 1]]
    <3>1. CASE i = n + 1
      <4>1. i # 0 /\ i - 1 = n /\ n \in 0 .. n + 1 /\ n # n + 1
        BY <3>1
      <4>2. g[i] = new /\ g[n] = f[n]
        BY <3>1, <4>1, <2>5
      <4> QED
        BY <3>1, <4>1, <4>2, <2>3
    <3>2. CASE i # n + 1
      <4>1. i \in 0 .. n /\ g[i] = f[i]
        BY <3>2, <2>5
      <4>2. i # 0 => i - 1 \in 0 .. n + 1 /\ i - 1 # n + 1 /\ g[i - 1] = f[i - 1]
        BY <4>1, <2>5
      <4>3. f[i] = IF i = 0 THEN start ELSE step[i][f[i - 1]]
        BY <2>1, <4>1
      <4> QED
        BY <4>1, <4>2, <4>3
    <3> QED
      BY <3>1, <3>2
  <2> QED
    BY <2>6, <2>7
<1>3. N \in S
  <2> HIDE DEF S
  <2> QED
    BY <1>1, <1>2, Induction
<1>4. PICK f \in [0 .. N -> T] : Upto(N, f)
  BY <1>3
<1>5. f[0] = start
  BY <1>4
<1>6. ASSUME NEW i \in 1 .. N
      PROVE  f[i] = step[i][f[i - 1]]
  BY <1>4
<1> QED
  BY <1>4, <1>5, <1>6 DEF Recurs

-----------------------------------------------------------------------------
(* What a format makes of its parts, piece by piece.                        *)

Items == [part : Parts] \cup [text : Seq(STRING)]

Literal(item) == "text" \in DOMAIN item
Overhead(item) == IF Literal(item) THEN Len(item.text) ELSE 0
Piece(item, call, err, why) ==
    IF Literal(item) THEN item.text
    ELSE CASE item.part = "system_call"   -> call
           [] item.part = "strerror_text" -> err
           [] item.part = "explanation"   -> why

Share(item, part, s) == IF item = [part |-> part] THEN Len(s) ELSE 0

LEMMA ItemIs ==
    ASSUME NEW item \in Items,
           NEW call \in Seq(STRING), NEW err \in Seq(STRING), NEW why \in Seq(STRING)
    PROVE  /\ Overhead(item) \in Nat
           /\ Piece(item, call, err, why) \in Seq(STRING)
           /\ Len(Piece(item, call, err, why))
              = Overhead(item)
                + Share(item, "system_call", call)
                + Share(item, "strerror_text", err)
                + Share(item, "explanation", why)
<1>1. Len(call) \in Nat /\ Len(err) \in Nat /\ Len(why) \in Nat
  BY LenProperties
<1>2. CASE item \in [text : Seq(STRING)]
  <2>1. DOMAIN item = {"text"} /\ item.text \in Seq(STRING)
    BY <1>2
  <2>2. \A x : DOMAIN [part |-> x] = {"part"}
    OBVIOUS
  <2>3. "text" # "part"
    OBVIOUS
  <2>4. \A x, s : Share(item, x, s) = 0
    BY <2>1, <2>2, <2>3 DEF Share
  <2>5. Literal(item)
    BY <2>1 DEF Literal
  <2>6. Len(item.text) \in Nat
    BY <2>1, LenProperties
  <2> QED
    BY <2>1, <2>4, <2>5, <2>6 DEF Overhead, Piece
<1>3. CASE item \in [part : Parts]
  <2>1. DOMAIN item = {"part"} /\ item.part \in Parts
    BY <1>3
  <2>2. ~ Literal(item)
    BY <2>1 DEF Literal
  <2>3. item = [part |-> item.part]
    BY <1>3
  <2>4. \A x, s : Share(item, x, s) = IF item.part = x THEN Len(s) ELSE 0
    BY <2>3 DEF Share
  <2>5. "system_call" # "strerror_text" /\ "system_call" # "explanation"
        /\ "strerror_text" # "explanation"
    OBVIOUS
  <2>6. Piece(item, call, err, why)
        = CASE item.part = "system_call"   -> call
            [] item.part = "strerror_text" -> err
            [] item.part = "explanation"   -> why
    BY <2>2 DEF Piece
  <2>7. Overhead(item) = 0
    BY <2>2 DEF Overhead
  <2>8. CASE item.part = "system_call"
    <3>1. Piece(item, call, err, why) = call
      BY <2>6, <2>8, <2>5
    <3> QED
      BY <1>1, <2>4, <2>5, <2>7, <2>8, <3>1
  <2>9. CASE item.part = "strerror_text"
    <3>1. Piece(item, call, err, why) = err
      BY <2>6, <2>9, <2>5
    <3> QED
      BY <1>1, <2>4, <2>5, <2>7, <2>9, <3>1
  <2>10. CASE item.part = "explanation"
    <3>1. Piece(item, call, err, why) = why
      BY <2>6, <2>10, <2>5
    <3> QED
      BY <1>1, <2>4, <2>5, <2>7, <2>10, <3>1
  <2> QED
    BY <2>1, <2>8, <2>9, <2>10 DEF Parts
<1> QED
  BY <1>2, <1>3 DEF Items

\* The functions that the recursions of count_non_format_bytes and Printed define.
Counts(f, format) ==
    f = [i \in 0 .. Len(format) |->
            IF i = 0 THEN 0
            ELSE f[i - 1] + IF "text" \in DOMAIN format[i] THEN Len(format[i].text) ELSE 0]

Prints(f, format, call, err, why) ==
    f = [i \in 0 .. Len(format) |->
            IF i = 0 THEN <<>> ELSE f[i - 1] \o Piece(format[i], call, err, why)]

LEMMA CountIs ==
    ASSUME NEW format \in Format
    PROVE  \E f : /\ count_non_format_bytes(format) = f[Len(format)]
                  /\ f[0] = 0
                  /\ \A i \in 1 .. Len(format) : f[i] = f[i - 1] + Overhead(format[i])
<1> DEFINE f == CHOOSE g : Counts(g, format)
<1>1. count_non_format_bytes(format) = f[Len(format)]
  BY DEF count_non_format_bytes, Counts
<1>2. Len(format) \in Nat /\ \A i \in 1 .. Len(format) : format[i] \in Items
  BY LenProperties, ElementOfSeq DEF Format, Items
<1>3. \A i \in 1 .. Len(format) : Overhead(format[i]) \in Nat
  <2>1. <<>> \in Seq(STRING)
    BY EmptySeq
  <2> QED
    BY <1>2, <2>1, ItemIs
<1>4. \E g : Counts(g, format)
  <2>0. PICK N \in Nat : N = Len(format)
    BY <1>2
  <2>1. PICK step : step = [i \in 1 .. N |-> [n \in Nat |-> n + Overhead(format[i])]]
    OBVIOUS
  <2>2. step \in [1 .. N -> [Nat -> Nat]]
    BY <1>3, <2>0, <2>1
  <2>3. PICK g \in [0 .. N -> Nat] :
            g[0] = 0 /\ \A i \in 1 .. N : g[i] = step[i][g[i - 1]]
    <3>1. PICK T, start : T = Nat /\ start = 0
      OBVIOUS
    <3>2. start \in T
      BY <3>1
    <3>3. step \in [1 .. N -> [T -> T]]
      BY <2>2, <3>1
    <3>4. \E g : Recurs(g, N, T, start, step)
      BY <2>0, <3>2, <3>3, Recursion
    <3> QED
      BY <3>1, <3>4 DEF Recurs
  <2>4. \A i \in 0 .. N : g[i] = IF i = 0 THEN 0 ELSE g[i - 1] + Overhead(format[i])
    <3> SUFFICES ASSUME NEW i \in 0 .. N, i # 0
                 PROVE  g[i] = g[i - 1] + Overhead(format[i])
      BY <2>3
    <3>1. i \in 1 .. N /\ i - 1 \in 0 .. N /\ g[i - 1] \in Nat
      OBVIOUS
    <3> QED
      BY <2>1, <2>3, <3>1
  <2>5. Counts(g, format)
    BY <2>0, <2>4 DEF Counts, Overhead, Literal
  <2> QED
    BY <2>5
<1>5. Counts(f, format)
  BY <1>4
<1> HIDE DEF f
<1>6. f[0] = 0
  BY <1>2, <1>5 DEF Counts
<1>7. ASSUME NEW i \in 1 .. Len(format)
      PROVE  f[i] = f[i - 1] + Overhead(format[i])
  BY <1>2, <1>5 DEF Counts, Overhead, Literal
<1> QED
  BY <1>1, <1>6, <1>7

LEMMA PrintedIs ==
    ASSUME NEW format \in Format,
           NEW call \in Seq(STRING), NEW err \in Seq(STRING), NEW why \in Seq(STRING)
    PROVE  \E f : /\ Printed(format, call, err, why) = f[Len(format)]
                  /\ f[0] = <<>>
                  /\ \A i \in 1 .. Len(format) :
                        f[i] = f[i - 1] \o Piece(format[i], call, err, why)
<1> DEFINE f == CHOOSE g : Prints(g, format, call, err, why)
<1>1. Printed(format, call, err, why) = f[Len(format)]
  BY DEF Printed, Prints, Piece, Literal
<1>2. Len(format) \in Nat /\ \A i \in 1 .. Len(format) : format[i] \in Items
  BY LenProperties, ElementOfSeq DEF Format, Items
<1>3. \A i \in 1 .. Len(format) : Piece(format[i], call, err, why) \in Seq(STRING)
  BY <1>2, ItemIs
<1>4. \E g : Prints(g, format, call, err, why)
  <2>0. PICK N \in Nat : N = Len(format)
    BY <1>2
  <2>1. PICK step : step = [i \in 1 .. N |->
                              [s \in Seq(STRING) |-> s \o Piece(format[i], call, err, why)]]
    OBVIOUS
  <2>2. step \in [1 .. N -> [Seq(STRING) -> Seq(STRING)]]
    BY <1>3, <2>0, <2>1
  <2>3. PICK g \in [0 .. N -> Seq(STRING)] :
            g[0] = <<>> /\ \A i \in 1 .. N : g[i] = step[i][g[i - 1]]
    <3>1. PICK T, start : T = Seq(STRING) /\ start = <<>>
      OBVIOUS
    <3>2. start \in T
      BY <3>1, EmptySeq
    <3>3. step \in [1 .. N -> [T -> T]]
      BY <2>2, <3>1
    <3>4. \E g : Recurs(g, N, T, start, step)
      BY <2>0, <3>2, <3>3, Recursion
    <3> QED
      BY <3>1, <3>4 DEF Recurs
  <2>4. \A i \in 0 .. N :
            g[i] = IF i = 0 THEN <<>> ELSE g[i - 1] \o Piece(format[i], call, err, why)
    <3> SUFFICES ASSUME NEW i \in 0 .. N, i # 0
                 PROVE  g[i] = g[i - 1] \o Piece(format[i], call, err, why)
      BY <2>3
    <3>1. i \in 1 .. N /\ i - 1 \in 0 .. N /\ g[i - 1] \in Seq(STRING)
      OBVIOUS
    <3> QED
      BY <2>1, <2>3, <3>1
  <2>5. Prints(g, format, call, err, why)
    BY <2>0, <2>4 DEF Prints
  <2> QED
    BY <2>5
<1>5. Prints(f, format, call, err, why)
  BY <1>4
<1> HIDE DEF f
<1>6. f[0] = <<>>
  BY <1>2, <1>5 DEF Prints
<1>7. ASSUME NEW i \in 1 .. Len(format)
      PROVE  f[i] = f[i - 1] \o Piece(format[i], call, err, why)
  <2>1. i \in 0 .. Len(format) /\ i # 0
    BY <1>2
  <2> QED
    BY <2>1, <1>5 DEF Prints
<1> QED
  BY <1>1, <1>6, <1>7

\* What a part that stands at place adds to the first n pieces.
Upto(place, n, s) == IF place <= n THEN Len(s) ELSE 0

LEMMA UptoNext ==
    ASSUME NEW format \in Format, NEW part \in Parts, NEW place \in DOMAIN format,
           {j \in DOMAIN format : format[j] = [part |-> part]} = {place},
           NEW s \in Seq(STRING), NEW n \in Nat, n + 1 <= Len(format)
    PROVE  Upto(place, n + 1, s) = Upto(place, n, s) + Share(format[n + 1], part, s)
<1>1. DOMAIN format = 1 .. Len(format) /\ Len(format) \in Nat /\ Len(s) \in Nat
  BY LenProperties DEF Format
<1>2. n + 1 \in DOMAIN format /\ place \in Nat
  BY <1>1
<1>3. format[n + 1] = [part |-> part] <=> n + 1 = place
  BY <1>2
<1>4. Share(format[n + 1], part, s) = IF n + 1 = place THEN Len(s) ELSE 0
  BY <1>3 DEF Share
<1>5. CASE place <= n
  <2>1. place <= n + 1 /\ n + 1 # place
    BY <1>1, <1>2, <1>5
  <2>2. Upto(place, n, s) = Len(s) /\ Upto(place, n + 1, s) = Len(s) /\ Share(format[n + 1], part, s) = 0
    BY <1>4, <1>5, <2>1 DEF Upto
  <2> QED
    BY <1>1, <2>2
<1>6. CASE place = n + 1
  <2>1. place <= n + 1 /\ ~ (place <= n)
    BY <1>6
  <2>2. Upto(place, n, s) = 0 /\ Upto(place, n + 1, s) = Len(s)
    BY <2>1 DEF Upto
  <2>3. Share(format[n + 1], part, s) = Len(s)
    BY <1>4, <1>6
  <2> QED
    BY <1>1, <2>2, <2>3
<1>7. CASE place > n + 1
  <2>1. ~ (place <= n + 1) /\ ~ (place <= n) /\ n + 1 # place
    BY <1>2, <1>7
  <2>2. Upto(place, n, s) = 0 /\ Upto(place, n + 1, s) = 0 /\ Share(format[n + 1], part, s) = 0
    BY <1>4, <2>1 DEF Upto
  <2> QED
    BY <2>2
<1> QED
  BY <1>2, <1>5, <1>6, <1>7

LEMMA PrintedTyped ==
    ASSUME NEW format \in Format,
           NEW call \in Seq(STRING), NEW err \in Seq(STRING), NEW why \in Seq(STRING)
    PROVE  Printed(format, call, err, why) \in Seq(STRING)
<1>1. PICK p : /\ Printed(format, call, err, why) = p[Len(format)]
               /\ p[0] = <<>>
               /\ \A i \in 1 .. Len(format) : p[i] = p[i - 1] \o Piece(format[i], call, err, why)
  BY PrintedIs
<1>2. Len(format) \in Nat /\ \A i \in 1 .. Len(format) : format[i] \in Items
  BY LenProperties, ElementOfSeq DEF Format, Items
<1> DEFINE S == {n \in Nat : n <= Len(format) => p[n] \in Seq(STRING)}
<1>3. 0 \in S
  BY <1>1, EmptySeq
<1>4. ASSUME NEW n \in Nat, n \in S
      PROVE  n + 1 \in S
  <2> SUFFICES ASSUME n + 1 <= Len(format)
               PROVE  p[n + 1] \in Seq(STRING)
    OBVIOUS
  <2>1. n + 1 \in 1 .. Len(format) /\ p[n] \in Seq(STRING) /\ (n + 1) - 1 = n
    BY <1>2, <1>4
  <2>2. Piece(format[n + 1], call, err, why) \in Seq(STRING)
    BY <1>2, <2>1, ItemIs
  <2>3. p[n + 1] = p[n] \o Piece(format[n + 1], call, err, why)
    BY <1>1, <2>1
  <2> QED
    BY <2>1, <2>2, <2>3, ConcatProperties
<1>5. Len(format) \in S
  <2> HIDE DEF S
  <2> QED
    BY <1>2, <1>3, <1>4, Induction
<1> QED
  BY <1>1, <1>5, <1>2

LEMMA Sums ==
    ASSUME NEW x0 \in Nat, NEW y0 \in Nat, NEW z0 \in Nat, NEW c0 \in Nat,
           NEW dx \in Nat, NEW dy \in Nat, NEW dz \in Nat, NEW dc \in Nat,
           NEW p0 \in Nat, NEW dp \in Nat, p0 = c0 + x0 + y0 + z0, dp = dc + dx + dy + dz
    PROVE  p0 + dp = (c0 + dc) + (x0 + dx) + (y0 + dy) + (z0 + dz)
OBVIOUS

LEMMA LengthIs ==
    ASSUME NEW format \in Format, EachOnce(format),
           NEW call \in Seq(STRING), NEW err \in Seq(STRING), NEW why \in Seq(STRING)
    PROVE  /\ count_non_format_bytes(format) \in Nat
           /\ Len(Printed(format, call, err, why))
              = count_non_format_bytes(format) + Len(call) + Len(err) + Len(why)
<1>1. PICK p : /\ Printed(format, call, err, why) = p[Len(format)]
               /\ p[0] = <<>>
               /\ \A i \in 1 .. Len(format) : p[i] = p[i - 1] \o Piece(format[i], call, err, why)
  BY PrintedIs
<1>2. PICK c : /\ count_non_format_bytes(format) = c[Len(format)]
               /\ c[0] = 0
               /\ \A i \in 1 .. Len(format) : c[i] = c[i - 1] + Overhead(format[i])
  BY CountIs
<1>3. /\ Len(format) \in Nat /\ DOMAIN format = 1 .. Len(format)
      /\ \A i \in 1 .. Len(format) : format[i] \in Items
  BY LenProperties, ElementOfSeq DEF Format, Items
<1>4. PICK x \in DOMAIN format : {j \in DOMAIN format : format[j] = [part |-> "system_call"]} = {x}
  BY DEF EachOnce, Parts
<1>5. PICK y \in DOMAIN format : {j \in DOMAIN format : format[j] = [part |-> "strerror_text"]} = {y}
  BY DEF EachOnce, Parts
<1>6. PICK z \in DOMAIN format : {j \in DOMAIN format : format[j] = [part |-> "explanation"]} = {z}
  BY DEF EachOnce, Parts
<1>7. x \in 1 .. Len(format) /\ y \in 1 .. Len(format) /\ z \in 1 .. Len(format)
  BY <1>3
<1>8. Len(call) \in Nat /\ Len(err) \in Nat /\ Len(why) \in Nat
  BY LenProperties
<1> DEFINE Right(n) ==
        /\ p[n] \in Seq(STRING) /\ c[n] \in Nat
        /\ Len(p[n]) = c[n] + Upto(x, n, call) + Upto(y, n, err) + Upto(z, n, why)
    S == {n \in Nat : n <= Len(format) => Right(n)}
<1>9. 0 \in S
  <2>1. <<>> \in Seq(STRING) /\ Len(<<>>) = 0
    BY EmptySeq
  <2>2. Upto(x, 0, call) = 0 /\ Upto(y, 0, err) = 0 /\ Upto(z, 0, why) = 0
    BY <1>7 DEF Upto
  <2>3. Right(0)
    BY <1>1, <1>2, <2>1, <2>2
  <2> QED
    BY <2>3
<1>10. ASSUME NEW n \in Nat, n \in S
       PROVE  n + 1 \in S
  <2> SUFFICES ASSUME n + 1 <= Len(format)
               PROVE  Right(n + 1)
    OBVIOUS
  <2>1. n + 1 \in 1 .. Len(format) /\ (n + 1) - 1 = n /\ Right(n)
    BY <1>3, <1>10
  <2>2. PICK item \in Items : item = format[n + 1]
    BY <1>3, <2>1
  <2>3. PICK piece : piece = Piece(item, call, err, why)
    OBVIOUS
  <2>4. /\ Overhead(item) \in Nat /\ piece \in Seq(STRING)
        /\ Len(piece) = Overhead(item) + Share(item, "system_call", call)
                        + Share(item, "strerror_text", err) + Share(item, "explanation", why)
    BY <2>3, ItemIs
  <2>5. p[n + 1] = p[n] \o piece /\ c[n + 1] = c[n] + Overhead(item)
    BY <1>1, <1>2, <2>1, <2>2, <2>3
  <2>6. p[n + 1] \in Seq(STRING) /\ Len(p[n + 1]) = Len(p[n]) + Len(piece)
    <3>1. PICK before \in Seq(STRING) : before = p[n]
      BY <2>1
    <3>2. piece \in Seq(STRING)
      BY <2>4
    <3>3. /\ before \o piece \in Seq(STRING)
          /\ Len(before \o piece) = Len(before) + Len(piece)
      BY <3>1, <3>2, ConcatProperties
    <3> QED
      BY <2>5, <3>1, <3>3
  <2>7. Upto(x, n + 1, call) = Upto(x, n, call) + Share(item, "system_call", call)
    <3>1. "system_call" \in Parts
      BY DEF Parts
    <3> QED
      BY <1>4, <2>2, <3>1, UptoNext
  <2>8. Upto(y, n + 1, err) = Upto(y, n, err) + Share(item, "strerror_text", err)
    <3>1. "strerror_text" \in Parts
      BY DEF Parts
    <3> QED
      BY <1>5, <2>2, <3>1, UptoNext
  <2>9. Upto(z, n + 1, why) = Upto(z, n, why) + Share(item, "explanation", why)
    <3>1. "explanation" \in Parts
      BY DEF Parts
    <3> QED
      BY <1>6, <2>2, <3>1, UptoNext
  <2>10. \A place, s : Upto(place, n, s) \in {Len(s), 0}
    BY DEF Upto
  <2>11. \A part, s : Share(item, part, s) \in {Len(s), 0}
    BY DEF Share
  <2>12. c[n + 1] \in Nat
    BY <2>1, <2>4, <2>5, SMTT(60)
  <2>13. Len(p[n + 1])
         = c[n + 1] + Upto(x, n + 1, call) + Upto(y, n + 1, err) + Upto(z, n + 1, why)
    <3>1. /\ Upto(x, n, call) \in Nat /\ Upto(y, n, err) \in Nat /\ Upto(z, n, why) \in Nat
          /\ Share(item, "system_call", call) \in Nat /\ Share(item, "strerror_text", err) \in Nat
          /\ Share(item, "explanation", why) \in Nat
      BY <1>8, <2>10, <2>11
    <3>2. /\ Len(p[n]) = c[n] + Upto(x, n, call) + Upto(y, n, err) + Upto(z, n, why)
          /\ c[n] \in Nat
      BY <2>1
    <3>3. Len(p[n + 1]) = Len(p[n]) + Len(piece)
      BY <2>6
    <3>4. c[n + 1] = c[n] + Overhead(item) /\ Overhead(item) \in Nat
      BY <2>4, <2>5
    <3> DEFINE xx == Upto(x, n + 1, call)
               yy == Upto(y, n + 1, err)
               zz == Upto(z, n + 1, why)
               x0 == Upto(x, n, call)
               y0 == Upto(y, n, err)
               z0 == Upto(z, n, why)
               dx == Share(item, "system_call", call)
               dy == Share(item, "strerror_text", err)
               dz == Share(item, "explanation", why)
    <3>5. /\ xx = x0 + dx /\ yy = y0 + dy /\ zz = z0 + dz
          /\ x0 \in Nat /\ y0 \in Nat /\ z0 \in Nat
          /\ dx \in Nat /\ dy \in Nat /\ dz \in Nat
          /\ Len(p[n]) = c[n] + x0 + y0 + z0
          /\ Len(piece) = Overhead(item) + dx + dy + dz
      BY <2>4, <2>7, <2>8, <2>9, <3>1, <3>2
    <3> HIDE DEF Right, S, xx, yy, zz, x0, y0, z0, dx, dy, dz
    <3>6. Len(p[n]) \in Nat /\ Len(piece) \in Nat
      BY <2>1, <2>4, LenProperties
    <3>7. PICK p0 \in Nat, dp \in Nat, c0 \in Nat, dc \in Nat :
              p0 = Len(p[n]) /\ dp = Len(piece) /\ c0 = c[n] /\ dc = Overhead(item)
      BY <3>2, <3>4, <3>6
    <3>8. p0 + dp = (c0 + dc) + (x0 + dx) + (y0 + dy) + (z0 + dz)
      <4>1. p0 = c0 + x0 + y0 + z0 /\ dp = dc + dx + dy + dz
        BY <3>5, <3>7
      <4>2. /\ x0 \in Nat /\ y0 \in Nat /\ z0 \in Nat
            /\ dx \in Nat /\ dy \in Nat /\ dz \in Nat
        BY <3>5
      <4> QED
        BY <4>1, <4>2, Sums
    <3>9. Len(p[n + 1]) = c[n + 1] + xx + yy + zz
      BY <3>3, <3>4, <3>5, <3>7, <3>8
    <3> QED
      BY <3>9 DEF xx, yy, zz
  <2> QED
    BY <2>6, <2>12, <2>13
<1>11. Len(format) \in S
  <2> HIDE DEF S
  <2> QED
    BY <1>3, <1>9, <1>10, Induction
<1>12. Right(Len(format))
  BY <1>3, <1>11
<1>13. /\ Upto(x, Len(format), call) = Len(call) /\ Upto(y, Len(format), err) = Len(err)
       /\ Upto(z, Len(format), why) = Len(why)
  BY <1>7 DEF Upto
<1> QED
  BY <1>1, <1>2, <1>12, <1>13

LEMMA CountTyped ==
    ASSUME NEW format \in Format
    PROVE  count_non_format_bytes(format) \in Nat
<1>1. PICK c : /\ count_non_format_bytes(format) = c[Len(format)]
               /\ c[0] = 0
               /\ \A i \in 1 .. Len(format) : c[i] = c[i - 1] + Overhead(format[i])
  BY CountIs
<1>2. Len(format) \in Nat /\ \A i \in 1 .. Len(format) : format[i] \in Items
  BY LenProperties, ElementOfSeq DEF Format, Items
<1> DEFINE S == {n \in Nat : n <= Len(format) => c[n] \in Nat}
<1>3. 0 \in S
  BY <1>1
<1>4. ASSUME NEW n \in Nat, n \in S
      PROVE  n + 1 \in S
  <2> SUFFICES ASSUME n + 1 <= Len(format)
               PROVE  c[n + 1] \in Nat
    OBVIOUS
  <2>1. n + 1 \in 1 .. Len(format) /\ c[n] \in Nat /\ (n + 1) - 1 = n
    BY <1>2, <1>4
  <2>2. Overhead(format[n + 1]) \in Nat
    <3>1. <<>> \in Seq(STRING)
      BY EmptySeq
    <3> QED
      BY <1>2, <2>1, <3>1, ItemIs
  <2>3. c[n + 1] = c[n] + Overhead(format[n + 1])
    BY <1>1, <2>1
  <2> QED
    BY <2>1, <2>2, <2>3
<1>5. Len(format) \in S
  <2> HIDE DEF S
  <2> QED
    BY <1>2, <1>3, <1>4, Induction
<1> QED
  BY <1>1, <1>2, <1>5

-----------------------------------------------------------------------------
(* What is cut.                                                             *)

LEMMA CutIs ==
    ASSUME NEW S, NEW s \in Seq(S), NEW n \in Nat
    PROVE  /\ Cut(s, n) \in Seq(S)
           /\ Len(Cut(s, n)) = IF Len(s) < n THEN Len(s) ELSE n
           /\ Len(Cut(s, n)) <= n /\ Len(Cut(s, n)) <= Len(s)
           /\ \A i \in 1 .. Len(Cut(s, n)) : Cut(s, n)[i] = s[i]
           /\ Len(s) <= n => Cut(s, n) = s
<1>1. PICK m \in Nat : m = IF Len(s) < n THEN Len(s) ELSE n
  BY LenProperties
<1>2. m <= Len(s) /\ m <= n /\ Len(s) \in Nat
  BY <1>1, LenProperties
<1>3. Cut(s, n) = SubSeq(s, 1, m)
  BY <1>1 DEF Cut
<1>4. \A i \in 1 .. m : s[i] \in S
  BY <1>2, ElementOfSeq
<1>5. /\ SubSeq(s, 1, m) \in Seq(S)
      /\ Len(SubSeq(s, 1, m)) = IF 1 <= m THEN m - 1 + 1 ELSE 0
      /\ \A i \in 1 .. m - 1 + 1 : SubSeq(s, 1, m)[i] = s[1 + i - 1]
  BY <1>4, SubSeqProperties
<1>6. Len(SubSeq(s, 1, m)) = m
  BY <1>5
<1>7. \A i \in 1 .. m : SubSeq(s, 1, m)[i] = s[i]
  BY <1>5
<1>8. Len(s) <= n => Cut(s, n) = s
  <2> SUFFICES ASSUME Len(s) <= n PROVE Cut(s, n) = s
    OBVIOUS
  <2>1. m = Len(s)
    BY <1>1, <1>2
  <2> QED
    BY <1>3, <1>5, <1>6, <1>7, <2>1, SeqEqual
<1> QED
  BY <1>1, <1>2, <1>3, <1>5, <1>6, <1>7, <1>8

\* To cut before something is put behind is to cut after.
LEMMA CutOfCut ==
    ASSUME NEW S, NEW s \in Seq(S), NEW t \in Seq(S), NEW n \in Nat
    PROVE  Cut(Cut(s, n) \o t, n) = Cut(s \o t, n)
<1>1. CASE Len(s) <= n
  BY <1>1, CutIs
<1>2. CASE Len(s) > n
  <2>1. PICK u \in Seq(S) : u = Cut(s, n)
    BY CutIs
  <2>2. Len(s) \in Nat /\ Len(t) \in Nat
    BY LenProperties
  <2>3. Len(u) = n /\ \A i \in 1 .. n : u[i] = s[i]
    BY <1>2, <2>1, <2>2, CutIs
  <2>4. /\ u \o t \in Seq(S) /\ Len(u \o t) = n + Len(t)
        /\ \A i \in 1 .. n + Len(t) : (u \o t)[i] = IF i <= n THEN u[i] ELSE t[i - n]
    BY <2>3, ConcatProperties
  <2>5. /\ s \o t \in Seq(S) /\ Len(s \o t) = Len(s) + Len(t)
        /\ \A i \in 1 .. Len(s) + Len(t) :
              (s \o t)[i] = IF i <= Len(s) THEN s[i] ELSE t[i - Len(s)]
    BY ConcatProperties
  <2>6. PICK a \in Seq(S), b \in Seq(S) : a = u \o t /\ b = s \o t
    BY <2>4, <2>5
  <2>7. Len(a) >= n /\ Len(b) >= n /\ Len(a) \in Nat /\ Len(b) \in Nat
    BY <1>2, <2>2, <2>4, <2>5, <2>6
  <2>8. \A i \in 1 .. n : a[i] = b[i]
    <3> TAKE i \in 1 .. n
    <3>1. i \in 1 .. n + Len(t) /\ i \in 1 .. Len(s) + Len(t) /\ i <= n /\ i <= Len(s)
      BY <1>2, <2>2
    <3>2. a[i] = u[i] /\ b[i] = s[i]
      BY <2>4, <2>5, <2>6, <3>1
    <3> QED
      BY <2>3, <3>2
  <2>9. /\ Cut(a, n) \in Seq(S) /\ Cut(b, n) \in Seq(S)
        /\ Len(Cut(a, n)) = n /\ Len(Cut(b, n)) = n
        /\ \A i \in 1 .. n : Cut(a, n)[i] = a[i] /\ Cut(b, n)[i] = b[i]
    <3>1. /\ Cut(a, n) \in Seq(S) /\ Len(Cut(a, n)) = n
          /\ \A i \in 1 .. n : Cut(a, n)[i] = a[i]
      BY <2>7, CutIs
    <3>2. /\ Cut(b, n) \in Seq(S) /\ Len(Cut(b, n)) = n
          /\ \A i \in 1 .. n : Cut(b, n)[i] = b[i]
      BY <2>7, CutIs
    <3> QED
      BY <3>1, <3>2
  <2>10. Cut(a, n) = Cut(b, n)
    BY <2>8, <2>9, SeqEqual
  <2> QED
    BY <2>1, <2>6, <2>10
<1> QED
  BY <1>1, <1>2, LenProperties

LEMMA BufferIs ==
    ASSUME NEW b
    PROVE  b \in Buffer <=> /\ b \in [text : Seq(STRING), position : Nat]
                            /\ b.position \in {Len(b.text), Len(b.text) + 1}
                            /\ b.text = <<>> => b.position = 0
BY DEF Buffer

LEMMA TruncateIs ==
    ASSUME NEW b \in Buffer, NEW n \in Int
    PROVE  /\ truncate(b, n) \in Buffer
           /\ n \in Nat => truncate(b, n).text = Cut(b.text, n)
<1>1. /\ b.text \in Seq(STRING) /\ b.position \in Nat /\ Len(b.text) \in Nat
      /\ b.position \in {Len(b.text), Len(b.text) + 1}
  BY BufferIs, LenProperties
<1>2. PICK size \in Nat : size = IF n < 0 THEN 0 ELSE n
  OBVIOUS
<1>3. truncate(b, n) = IF size < b.position
                       THEN [text |-> Cut(b.text, size), position |-> size] ELSE b
  BY <1>2 DEF truncate
<1>4. CASE size < b.position
  <2>1. size <= Len(b.text)
    BY <1>1, <1>4
  <2>2. Cut(b.text, size) \in Seq(STRING) /\ Len(Cut(b.text, size)) = size
    BY <1>1, <2>1, CutIs
  <2>3. truncate(b, n) = [text |-> Cut(b.text, size), position |-> size]
    BY <1>3, <1>4
  <2>4. truncate(b, n) \in Buffer
    BY <2>2, <2>3, BufferIs, EmptySeq
  <2>5. n \in Nat => size = n
    BY <1>2
  <2> QED
    BY <2>3, <2>4, <2>5
<1>5. CASE ~ (size < b.position)
  <2>1. truncate(b, n) = b
    BY <1>3, <1>5
  <2>2. ASSUME n \in Nat
        PROVE  Len(b.text) <= n
    BY <1>1, <1>2, <1>5, <2>2
  <2>3. n \in Nat => Cut(b.text, n) = b.text
    BY <1>1, <2>2, CutIs
  <2> QED
    BY <2>1, <2>3
<1> QED
  BY <1>4, <1>5

-----------------------------------------------------------------------------
(* The message.                                                             *)

InputsTyped ==
    /\ system_call \in Buffer /\ explanation \in Buffer
    /\ footnotes \in Seq(STRING) /\ strerror_text \in Seq(STRING) /\ given \in Seq(STRING)
    /\ translation \in Translations
    /\ maximum \in Nat \ {0}

LEMMA PartsTyped ==
    ASSUME InputsTyped
    PROVE  /\ \A b \in {system_call, explanation} :
                 /\ b.text \in Seq(STRING) /\ Len(b.text) \in Nat
                 /\ b.position \in Nat /\ b.position \in {Len(b.text), Len(b.text) + 1}
           /\ prob_len \in Nat /\ err_len \in Nat /\ Room \in Nat /\ Room = maximum - 1
           /\ {translation.success, translation.short, translation.long} \subseteq Format
           /\ EachOnce(translation.long)
<1>1. \A b \in {system_call, explanation} :
          /\ b.text \in Seq(STRING) /\ b.position \in Nat
          /\ b.position \in {Len(b.text), Len(b.text) + 1}
  BY BufferIs DEF InputsTyped
<1>2. \A b \in {system_call, explanation} : Len(b.text) \in Nat
  BY <1>1, LenProperties
<1>3. Len(strerror_text) \in Nat
  BY LenProperties DEF InputsTyped
<1>4. maximum - 1 \in Nat
  BY DEF InputsTyped
<1>5. translation \in [success : Format, short : Format, long : Format] /\ EachOnce(translation.long)
  BY ExplanationAssumption DEF InputsTyped
<1> QED
  BY <1>1, <1>2, <1>3, <1>4, <1>5 DEF prob_len, err_len, Room

LEMMA JoinsTyped ==
    ASSUME InputsTyped, NEW format \in Format, NEW why \in Seq(STRING), Joins(format, why)
    PROVE  /\ result' \in Seq(STRING) /\ Len(result') < maximum
           /\ result' = Cut(Printed(format, system_call.text, strerror_text, why) \o footnotes, Room)
<1>1. /\ system_call.text \in Seq(STRING) /\ strerror_text \in Seq(STRING)
      /\ footnotes \in Seq(STRING) /\ Room \in Nat /\ Room = maximum - 1
  BY PartsTyped DEF InputsTyped
<1>2. PICK printing \in Seq(STRING) :
          printing = Printed(format, system_call.text, strerror_text, why)
  BY <1>1, PrintedTyped
<1>3. result' = Cut(Cut(printing, Room) \o footnotes, Room)
  BY <1>2 DEF Joins
<1>4. result' = Cut(printing \o footnotes, Room)
  BY <1>1, <1>3, CutOfCut
<1>5. printing \o footnotes \in Seq(STRING)
  BY <1>1, ConcatProperties
<1>6. Cut(printing \o footnotes, Room) \in Seq(STRING) /\ Len(Cut(printing \o footnotes, Room)) <= Room
  BY <1>1, <1>5, CutIs
<1>7. Len(result') < maximum
  <2>1. Len(result') \in Nat
    BY <1>4, <1>6, LenProperties
  <2>2. Len(result') <= Room
    BY <1>4, <1>6
  <2> QED
    BY <1>1, <2>1, <2>2 DEF InputsTyped
<1> QED
  BY <1>2, <1>4, <1>6, <1>7

LEMMA AssembleTyped ==
    ASSUME InputsTyped, Assemble
    PROVE  /\ InputsTyped' /\ result' \in Seq(STRING) /\ Len(result') < maximum
<1>1. UNCHANGED <<errnum, system_call, footnotes, strerror_text, translation, maximum, given>>
  BY DEF Assemble, inputs
<1>2. CASE Success
  <2>1. Joins(translation.success, <<>>) /\ UNCHANGED explanation
    BY <1>2 DEF Success
  <2>2. <<>> \in Seq(STRING)
    BY EmptySeq
  <2>3. result' \in Seq(STRING) /\ Len(result') < maximum
    BY <2>1, <2>2, PartsTyped, JoinsTyped
  <2> QED
    BY <1>1, <2>1, <2>3 DEF InputsTyped
<1>3. CASE ShortForm
  <2>1. PICK n : n = maximum - (prob_len + count_non_format_bytes(translation.short))
    OBVIOUS
  <2>2. count_non_format_bytes(translation.short) \in Nat
    BY PartsTyped, CountTyped
  <2>3. n \in Int
    BY <2>1, <2>2, PartsTyped DEF InputsTyped
  <2>4. explanation' \in {truncate(explanation, n), explanation}
    BY <1>3, <2>1 DEF ShortForm
  <2>5. explanation' \in Buffer
    BY <2>3, <2>4, TruncateIs DEF InputsTyped
  <2>6. <<>> \in Seq(STRING)
    BY EmptySeq
  <2>7. Joins(translation.short, <<>>)
    BY <1>3 DEF ShortForm
  <2>8. result' \in Seq(STRING) /\ Len(result') < maximum
    BY <2>6, <2>7, PartsTyped, JoinsTyped
  <2> QED
    BY <1>1, <2>5, <2>8 DEF InputsTyped
<1>4. CASE LongForm
  <2>1. PICK n : n = new_exp_len
    OBVIOUS
  <2>2. count_non_format_bytes(translation.long) \in Nat
    BY PartsTyped, CountTyped
  <2>3. n \in Int
    BY <2>1, <2>2, PartsTyped DEF InputsTyped, new_exp_len
  <2>4. explanation' \in {truncate(explanation, n), explanation}
    BY <1>4, <2>1 DEF LongForm
  <2>5. explanation' \in Buffer
    BY <2>3, <2>4, TruncateIs DEF InputsTyped
  <2>6. explanation'.text \in Seq(STRING)
    BY <2>5, BufferIs
  <2>7. Joins(translation.long, explanation'.text)
    BY <1>4 DEF LongForm
  <2>8. result' \in Seq(STRING) /\ Len(result') < maximum
    BY <2>6, <2>7, PartsTyped, JoinsTyped
  <2> QED
    BY <1>1, <2>5, <2>8 DEF InputsTyped
<1> QED
  BY <1>2, <1>3, <1>4 DEF Assemble

\* As much of the explanation is joined as there is room for.
LEMMA LongLength ==
    ASSUME InputsTyped, NEW k \in Nat
    PROVE  /\ Len(LongWith(k)) = Len(system_call.text) + err_len
                  + count_non_format_bytes(translation.long)
                  + (IF Len(given) < k THEN Len(given) ELSE k)
           /\ LongWith(k) \in Seq(STRING)
<1>1. PICK format \in Format : format = translation.long /\ EachOnce(format)
  BY PartsTyped
<1>2. PICK why \in Seq(STRING) : /\ why = Cut(given, k)
                                 /\ Len(why) = IF Len(given) < k THEN Len(given) ELSE k
  BY CutIs DEF InputsTyped
<1>3. PICK call \in Seq(STRING), err \in Seq(STRING) :
          call = system_call.text /\ err = strerror_text
  BY PartsTyped DEF InputsTyped
<1>4. Len(Printed(format, call, err, why))
      = count_non_format_bytes(format) + Len(call) + Len(err) + Len(why)
  BY <1>1, LengthIs
<1>5. count_non_format_bytes(format) \in Nat /\ Len(call) \in Nat /\ Len(err) \in Nat /\ Len(why) \in Nat
  BY CountTyped, LenProperties
<1>6. Len(Printed(format, call, err, why))
      = Len(call) + Len(err) + count_non_format_bytes(format) + Len(why)
  BY <1>4, <1>5
<1>7. Printed(format, call, err, why) \in Seq(STRING)
  BY PrintedTyped
<1> QED
  BY <1>1, <1>2, <1>3, <1>6, <1>7 DEF LongWith, err_len

LEMMA MessageGivesWay ==
    ASSUME InputsTyped, Assemble, errnum # 0, explanation.text = given
    PROVE  GivesWay(result')
<1>1. /\ given \in Seq(STRING) /\ Len(given) \in Nat
      /\ explanation.position \in {Len(given), Len(given) + 1}
      /\ explanation.position \in Nat
      /\ given = <<>> <=> explanation.position = 0
      /\ given = <<>> <=> Len(given) = 0
  <2>1. /\ given \in Seq(STRING) /\ Len(given) \in Nat
        /\ given = <<>> <=> Len(given) = 0
    BY EmptySeq, LenProperties DEF InputsTyped
  <2>2. explanation \in Buffer
    BY DEF InputsTyped
  <2>3. /\ explanation.position \in {Len(given), Len(given) + 1}
        /\ given = <<>> => explanation.position = 0
    BY <2>2, BufferIs
  <2> QED
    BY <2>1, <2>3
<1>2. PICK c \in Nat, e \in Nat, o \in Nat, m \in Nat, p \in Nat, g \in Nat :
          /\ c = Len(system_call.text) /\ e = err_len
          /\ o = count_non_format_bytes(translation.long) /\ m = maximum
          /\ p = prob_len /\ p \in {c, c + 1}
          /\ g = Len(given)
  <2>1. count_non_format_bytes(translation.long) \in Nat
    BY PartsTyped, CountTyped
  <2> QED
    BY <1>1, <2>1, PartsTyped DEF InputsTyped, prob_len
<1>3. \A k \in Nat : Len(LongWith(k)) = c + e + o + (IF g < k THEN g ELSE k)
  BY <1>2, LongLength
<1>4. PICK n \in Int : n = new_exp_len /\ n = m - (p + e + o)
  BY <1>2 DEF new_exp_len
\* What fits is what is left for the explanation.
<1>5. ASSUME NEW k \in 1 .. g
      PROVE  Fits(k) <=> k <= n
  <2>1. Len(LongWith(k)) = c + e + o + k
    <3>1. k \in Nat /\ ~ (g < k)
      BY <1>5
    <3>2. Len(LongWith(k)) = c + e + o + (IF g < k THEN g ELSE k)
      BY <1>3, <3>1
    <3> QED
      BY <3>1, <3>2
  <2>2. Fits(k) <=> c + e + o + k + (p - c) <= m
    BY <1>2, <2>1 DEF Fits, prob_len
  <2> QED
    BY <1>2, <1>4, <2>2, SMTT(60)
<1>6. PICK q \in Nat : q = explanation.position /\ q \in {g, g + 1} /\ (q = 0 <=> g = 0)
  BY <1>1, <1>2
<1>7. too_long <=> q > n
  BY <1>4, <1>6 DEF too_long
\* It is the long form, with the first k bytes of the explanation.
<1>8. ASSUME n > 0, NEW k \in 1 .. g, k = IF g < n THEN g ELSE n
      PROVE  result' = Cut(LongWith(k) \o footnotes, Room)
  <2>1. ~use_short_form
    BY <1>4, <1>6, <1>8 DEF use_short_form
  <2>2. LongForm
    BY <2>1 DEF Assemble, ShortForm
  <2>3. explanation'.text = Cut(given, k)
    <3>1. CASE too_long
      <4>1. explanation' = truncate(explanation, n)
        BY <1>4, <2>2, <3>1 DEF LongForm
      <4>2. n \in Nat /\ explanation \in Buffer
        BY <1>8 DEF InputsTyped
      <4>3. explanation'.text = Cut(given, n)
        BY <4>1, <4>2, TruncateIs
      <4>4. CASE g < n
        <5>1. k = g /\ Len(given) <= n /\ Len(given) <= k
          BY <1>2, <1>8, <4>4
        <5> QED
          BY <1>1, <4>2, <4>3, <5>1, CutIs
      <4>5. CASE ~ (g < n)
        BY <1>8, <4>3, <4>5
      <4> QED
        BY <4>4, <4>5
    <3>2. CASE ~too_long
      <4>1. explanation' = explanation
        BY <2>2, <3>2 DEF LongForm
      <4>2. k \in Nat /\ Len(given) <= k
        BY <1>2, <1>6, <1>7, <1>8, <3>2
      <4> QED
        BY <1>1, <4>1, <4>2, CutIs
    <3> QED
      BY <3>1, <3>2
  <2>4. Cut(given, k) \in Seq(STRING)
    BY <1>1, CutIs
  <2>5. result' = Cut(Printed(translation.long, system_call.text, strerror_text, Cut(given, k))
                      \o footnotes, Room)
    BY <2>2, <2>3, <2>4, PartsTyped, JoinsTyped DEF LongForm
  <2> QED
    BY <2>5 DEF LongWith
<1>9. ASSUME given # <<>>, Fits(1)
      PROVE  \E k \in 1 .. Len(given) :
                /\ Fits(k) /\ (\A more \in 1 .. Len(given) : Fits(more) => more <= k)
                /\ result' = Cut(LongWith(k) \o footnotes, Room)
  <2>1. g > 0 /\ n > 0
    BY <1>1, <1>2, <1>5, <1>9
  <2>2. PICK k \in 1 .. g : k = IF g < n THEN g ELSE n
    BY <2>1
  <2>3. result' = Cut(LongWith(k) \o footnotes, Room)
    BY <1>8, <2>1, <2>2
  <2>4. Fits(k) /\ \A more \in 1 .. g : Fits(more) => more <= k
    BY <1>5, <2>2
  <2> QED
    BY <1>2, <2>3, <2>4
<1>10. ASSUME given = <<>> \/ ~Fits(1)
       PROVE  result' = Cut(Short \o footnotes, Room)
  <2>1. g = 0 \/ n <= 0
    BY <1>1, <1>2, <1>5, <1>10
  <2>2. q = 0 \/ (q > n /\ n <= 0)
    BY <1>6, <2>1
  <2>3. use_short_form
    BY <1>4, <1>6, <1>7, <2>2 DEF use_short_form
  <2>4. Joins(translation.short, <<>>)
    BY <2>3 DEF Assemble, ShortForm, LongForm
  <2>5. <<>> \in Seq(STRING)
    BY EmptySeq
  <2> QED
    BY <2>4, <2>5, PartsTyped, JoinsTyped DEF Short
<1> QED
  BY <1>9, <1>10 DEF GivesWay

-----------------------------------------------------------------------------
(* Lines and words in their arrays.                                         *)

Byte == STRING \cup {Space, NUL}

Line == {b \in [text : Seq(Byte), position : Nat] :
            /\ Len(b.text) <= MAX_LINE_LENGTH
            /\ b.position \in {Len(b.text), MAX_LINE_LENGTH + 1}}

Word == {s \in Seq(STRING) : Len(s) <= MAX_LINE_LENGTH}

WrapTyped ==
    /\ result \in Seq(STRING) /\ Len(result) < maximum
    /\ text \in Seq(STRING)
    /\ cp \in 1 .. Len(text) + 1
    /\ width \in 1 .. MAX_LINE_LENGTH
    /\ hanging_indent \in 0 .. width
    /\ line_buf \in Line
    /\ word_buf \in Word
    /\ width_of_line \in Int /\ width_of_word \in Int
    /\ first_line \in BOOLEAN
    /\ printed \in Seq(Seq(Byte))
    /\ pc \in {"message", "outer", "word", "place", "returned"}

LEMMA LineIs ==
    ASSUME NEW b
    PROVE  b \in Line <=> /\ b \in [text : Seq(Byte), position : Nat]
                          /\ Len(b.text) <= MAX_LINE_LENGTH
                          /\ b.position \in {Len(b.text), MAX_LINE_LENGTH + 1}
BY DEF Line

LEMMA NewLine ==
    ASSUME NEW t \in Seq(Byte), NEW p \in Nat, Len(t) <= MAX_LINE_LENGTH,
           p = Len(t) \/ p = MAX_LINE_LENGTH + 1,
           NEW b, b = [text |-> t, position |-> p]
    PROVE  b \in Line /\ b.text = t /\ b.position = p
<1>1. b \in [text : Seq(Byte), position : Nat] /\ b.text = t /\ b.position = p
  OBVIOUS
<1> QED
  BY <1>1, LineIs

LEMMA FittingIs ==
    ASSUME NEW S, NEW s \in Seq(S)
    PROVE  /\ Fitting(s) \in Seq(S) /\ Len(Fitting(s)) <= MAX_LINE_LENGTH
           /\ Len(s) > MAX_LINE_LENGTH => Len(Fitting(s)) = MAX_LINE_LENGTH
           /\ Len(s) <= MAX_LINE_LENGTH => Fitting(s) = s
<1>1. MAX_LINE_LENGTH \in Nat /\ Len(s) \in Nat
  BY WrapAssumption, LenProperties
<1>2. Fitting(s) = Cut(s, MAX_LINE_LENGTH)
  BY DEF Fitting, Cut
<1> QED
  BY <1>1, <1>2, CutIs

LEMMA PutsIs ==
    ASSUME NEW b \in Line, NEW s \in Seq(Byte)
    PROVE  /\ puts(b, s) \in Line
           /\ b.position = Len(b.text) /\ Len(b.text \o s) <= MAX_LINE_LENGTH =>
                 /\ puts(b, s).text = b.text \o s
                 /\ puts(b, s).position = Len(b.text \o s)
<1>1. /\ b.text \in Seq(Byte) /\ Len(b.text) \in Nat /\ Len(b.text) <= MAX_LINE_LENGTH
      /\ MAX_LINE_LENGTH \in Nat
  BY LineIs, WrapAssumption, LenProperties
<1>2. PICK t \in Seq(Byte) : t = b.text \o s /\ Len(t) \in Nat
  BY <1>1, ConcatProperties, LenProperties
<1>3. CASE b.position > MAX_LINE_LENGTH
  <2>1. puts(b, s) = b
    BY <1>3 DEF puts
  <2> QED
    BY <1>1, <1>3, <2>1
<1>4. CASE ~ (b.position > MAX_LINE_LENGTH)
  <2>1. puts(b, s) = [text |-> Fitting(t),
                      position |-> IF Len(t) > MAX_LINE_LENGTH THEN MAX_LINE_LENGTH + 1 ELSE Len(t)]
    BY <1>2, <1>4 DEF puts
  <2>2. /\ Fitting(t) \in Seq(Byte) /\ Len(Fitting(t)) <= MAX_LINE_LENGTH
        /\ Len(t) <= MAX_LINE_LENGTH => Fitting(t) = t
    BY FittingIs
  <2>3. puts(b, s).text = Fitting(t)
    BY <2>1
  <2>4. CASE Len(t) > MAX_LINE_LENGTH
    <3>1. puts(b, s).position = MAX_LINE_LENGTH + 1
      BY <2>1, <2>4
    <3>2. puts(b, s) \in Line
      BY <1>1, <2>1, <2>2, <2>4, LineIs
    <3> QED
      BY <1>1, <1>2, <2>4, <3>2
  <2>5. CASE Len(t) <= MAX_LINE_LENGTH
    <3>1. ~ (Len(t) > MAX_LINE_LENGTH)
      BY <1>1, <1>2, <2>5
    <3>2. puts(b, s) = [text |-> t, position |-> Len(t)]
      BY <2>1, <2>2, <2>5, <3>1
    <3>3. PICK r, p : r = puts(b, s) /\ p = Len(t)
      OBVIOUS
    <3>4. r = [text |-> t, position |-> p] /\ p \in Nat /\ Len(t) <= MAX_LINE_LENGTH
      BY <1>2, <2>5, <3>2, <3>3
    <3>5. r \in Line /\ r.text = t /\ r.position = p
      BY <3>3, <3>4, NewLine
    <3> QED
      BY <1>2, <3>3, <3>5
  <2> QED
    BY <1>1, <1>2, <2>4, <2>5
<1> QED
  BY <1>3, <1>4

LEMMA PutcIs ==
    ASSUME NEW b \in Line, NEW c \in Byte
    PROVE  /\ putc(b, c) \in Line
           /\ b.position < MAX_LINE_LENGTH =>
                 /\ putc(b, c).text = Append(b.text, c)
                 /\ putc(b, c).position = b.position + 1
           /\ b.position >= MAX_LINE_LENGTH => putc(b, c) = b
<1>1. /\ b.text \in Seq(Byte) /\ Len(b.text) \in Nat /\ Len(b.text) <= MAX_LINE_LENGTH
      /\ MAX_LINE_LENGTH \in Nat /\ b.position \in Nat
      /\ b.position \in {Len(b.text), MAX_LINE_LENGTH + 1}
  BY LineIs, WrapAssumption, LenProperties
<1>2. CASE b.position < MAX_LINE_LENGTH
  <2>1. putc(b, c) = [text |-> Append(b.text, c), position |-> b.position + 1]
    BY <1>2 DEF putc
  <2>2. Append(b.text, c) \in Seq(Byte) /\ Len(Append(b.text, c)) = Len(b.text) + 1
    BY <1>1, AppendProperties
  <2>3. b.position = Len(b.text)
    BY <1>1, <1>2
  <2>4. /\ b.position + 1 \in Nat /\ b.position + 1 = Len(Append(b.text, c))
        /\ Len(Append(b.text, c)) <= MAX_LINE_LENGTH
    BY <1>1, <1>2, <2>2, <2>3
  <2>5. /\ putc(b, c) \in Line /\ putc(b, c).text = Append(b.text, c)
        /\ putc(b, c).position = b.position + 1
    <3>1. PICK r, t, p : r = putc(b, c) /\ t = Append(b.text, c) /\ p = b.position + 1
      OBVIOUS
    <3>2. /\ r = [text |-> t, position |-> p] /\ t \in Seq(Byte) /\ p \in Nat
          /\ p = Len(t) /\ Len(t) <= MAX_LINE_LENGTH
      BY <2>1, <2>2, <2>4, <3>1
    <3>3. r \in Line /\ r.text = t /\ r.position = p
      BY <3>2, NewLine
    <3> QED
      BY <3>1, <3>3
  <2> QED
    BY <1>1, <1>2, <2>5
<1>3. CASE b.position >= MAX_LINE_LENGTH
  <2>1. putc(b, c) = b
    BY <1>1, <1>3 DEF putc
  <2> QED
    BY <1>1, <1>3, <2>1
<1> QED
  BY <1>1, <1>2, <1>3

LEMMA BytesAre ==
    ASSUME NEW b \in Line
    PROVE  /\ Bytes(b) \in Seq(Byte)
           /\ b.position = Len(b.text) => Bytes(b) = b.text
<1>1. b.text \in Seq(Byte) /\ Len(b.text) \in Nat
  BY LineIs, LenProperties
<1>2. Append(b.text, NUL) \in Seq(Byte)
  BY <1>1, AppendProperties DEF Byte
<1> QED
  BY <1>1, <1>2 DEF Bytes

LEMMA IndentedIs ==
    ASSUME WrapTyped, NEW first \in BOOLEAN
    PROVE  /\ Indented(first) \in Line
           /\ Indented(first).position = Len(Indented(first).text)
           /\ Len(Indented(first).text) = IF first THEN 0 ELSE hanging_indent
           /\ \A i \in 1 .. Len(Indented(first).text) : Indented(first).text[i] = Space
<1>1. hanging_indent \in Nat /\ hanging_indent <= MAX_LINE_LENGTH /\ MAX_LINE_LENGTH \in Nat
  BY WrapAssumption DEF WrapTyped
<1>2. CASE first
  <2>1. Indented(first) = [text |-> <<>>, position |-> 0]
    BY <1>2 DEF Indented, EmptyLine
  <2>2. <<>> \in Seq(Byte) /\ Len(<<>>) = 0
    BY EmptySeq
  <2>3. PICK t \in Seq(Byte) : t = <<>> /\ Len(t) = 0
    BY <2>2
  <2>4. Indented(first) \in Line /\ Indented(first).text = t /\ Indented(first).position = 0
    <3>1. PICK r, p : r = Indented(first) /\ p = 0 /\ p \in Nat
      BY <2>1, <2>3
    <3>2. /\ r = [text |-> t, position |-> p] /\ t \in Seq(Byte) /\ p \in Nat
          /\ p = Len(t) /\ Len(t) <= MAX_LINE_LENGTH
      BY <1>1, <2>1, <2>3, <3>1
    <3>3. r \in Line /\ r.text = t /\ r.position = p
      BY <3>2, NewLine
    <3> QED
      BY <3>1, <3>3
  <2>5. 1 .. 0 = {}
    OBVIOUS
  <2> QED
    BY <1>2, <2>3, <2>4, <2>5
<1>3. CASE ~first
  <2>1. PICK s : s = [i \in 1 .. hanging_indent |-> Space]
    OBVIOUS
  <2>2. s \in Seq(Byte) /\ Len(s) = hanging_indent
    BY <1>1, <2>1 DEF Byte
  <2>3. Indented(first) = [text |-> s, position |-> hanging_indent]
    BY <1>3, <2>1 DEF Indented
  <2>4. /\ Indented(first) \in Line /\ Indented(first).text = s
        /\ Indented(first).position = hanging_indent
    BY <1>1, <2>2, <2>3, NewLine
  <2>5. \A i \in 1 .. hanging_indent : s[i] = Space
    BY <2>1
  <2> QED
    BY <1>3, <2>2, <2>4, <2>5
<1> QED
  BY <1>2, <1>3

LEMMA LettersAre ==
    ASSUME WrapTyped, ~AtEnd
    PROVE  /\ mbrtowc(text, cp) \in {1, 2} /\ cp \in Nat
           /\ cp + mbrtowc(text, cp) \in 1 .. Len(text) + 1
           /\ SubSeq(text, cp, cp + mbrtowc(text, cp) - 1) \in Seq(STRING)
           /\ Len(SubSeq(text, cp, cp + mbrtowc(text, cp) - 1)) = mbrtowc(text, cp)
           /\ \A i \in 1 .. mbrtowc(text, cp) :
                 SubSeq(text, cp, cp + mbrtowc(text, cp) - 1)[i] = text[cp + i - 1]
           /\ wcwidth(text, cp) \in Int
<1>1. Len(text) \in Nat /\ cp \in 1 .. Len(text) /\ text \in Seq(STRING)
  BY LenProperties DEF WrapTyped, AtEnd
<1>2. PICK n \in Nat : n = mbrtowc(text, cp) /\ n \in {1, 2} /\ cp + n - 1 <= Len(text)
  BY <1>1 DEF mbrtowc, IsLetter
<1>3. \A i \in cp .. cp + n - 1 : text[i] \in STRING
  <2>1. \A i \in cp .. cp + n - 1 : i \in 1 .. Len(text)
    BY <1>1, <1>2
  <2> QED
    BY <1>1, <2>1, ElementOfSeq
<1>4. PICK m \in Int : m = cp + n - 1
  BY <1>1, <1>2
<1>5. /\ SubSeq(text, cp, m) \in Seq(STRING)
      /\ Len(SubSeq(text, cp, m)) = IF cp <= m THEN m - cp + 1 ELSE 0
      /\ \A i \in 1 .. m - cp + 1 : SubSeq(text, cp, m)[i] = text[cp + i - 1]
  BY <1>1, <1>3, <1>4, SubSeqProperties
<1>6. m - cp + 1 = n /\ cp <= m
  BY <1>1, <1>2, <1>4
<1>7. wcwidth(text, cp) \in {-1, 1}
  BY DEF wcwidth
<1>8. wcwidth(text, cp) \in Int
  BY <1>7
<1>9. PICK piece : piece = SubSeq(text, cp, cp + mbrtowc(text, cp) - 1)
  OBVIOUS
<1>10. piece = SubSeq(text, cp, m)
  BY <1>2, <1>4, <1>9
<1>11. piece \in Seq(STRING) /\ Len(piece) = n /\ \A i \in 1 .. n : piece[i] = text[cp + i - 1]
  BY <1>5, <1>6, <1>10
<1>12. cp + n \in 1 .. Len(text) + 1 /\ cp \in Nat
  BY <1>1, <1>2
<1> QED
  BY <1>2, <1>8, <1>9, <1>11, <1>12

-----------------------------------------------------------------------------
(* The steps keep the types.                                                *)

LEMMA IndentInWidth ==
    ASSUME NEW w \in Nat \ {0}, NEW n \in Int
    PROVE  option_hanging_indent(w, n) \in 0 .. w
<1>1. PICK most \in Int : most = (w + 5) \div 10
  OBVIOUS
<1>2. most \in Nat /\ most <= w
  BY <1>1
<1>3. option_hanging_indent(w, n) = IF n <= 0 THEN 0 ELSE IF n > most THEN most ELSE n
  BY <1>1 DEF option_hanging_indent
<1> QED
  BY <1>2, <1>3

LEMMA EmptyTyped == EmptyLine \in Line /\ <<>> \in Word
<1>1. /\ <<>> \in Seq(Byte) /\ Len(<<>>) = 0 /\ <<>> \in Seq(STRING)
      /\ MAX_LINE_LENGTH \in Nat
  BY EmptySeq, WrapAssumption
<1>2. PICK t, p : t = <<>> /\ p = 0
  OBVIOUS
<1>3. /\ t \in Seq(Byte) /\ p \in Nat /\ p = Len(t) /\ Len(t) <= MAX_LINE_LENGTH
      /\ EmptyLine = [text |-> t, position |-> p]
  BY <1>1, <1>2 DEF EmptyLine
<1>4. EmptyLine \in Line
  BY <1>3, NewLine
<1> QED
  BY <1>1, <1>4 DEF Word

LEMMA StartTyped ==
    ASSUME WrapTyped, StartWrap(result'), result' \in Seq(STRING), Len(result') < maximum'
    PROVE  WrapTyped' /\ pc' = "outer" /\ text' = result'
<1>1. PICK w \in Widths, n \in Indents :
          /\ width' = IF w > MAX_LINE_LENGTH THEN MAX_LINE_LENGTH ELSE w
          /\ hanging_indent' = option_hanging_indent(width', n)
  BY DEF StartWrap
<1>2. width' \in 1 .. MAX_LINE_LENGTH /\ width' \in Nat \ {0}
  BY <1>1, WrapAssumption
<1>3. hanging_indent' \in 0 .. width'
  BY <1>1, <1>2, IndentInWidth, WrapAssumption
<1>4. text' = result' /\ cp' = 1 /\ pc' = "outer" /\ word_buf' = <<>> /\ line_buf' = EmptyLine
  BY DEF StartWrap
<1>5. EmptyLine \in Line /\ <<>> \in Word
  BY EmptyTyped
<1>6. width_of_line' = 0 /\ width_of_word' = 0 /\ first_line' = TRUE /\ printed' = printed
  BY DEF StartWrap
<1>7. Len(text') \in Nat
  BY <1>4, LenProperties
<1>8. cp' \in 1 .. Len(text') + 1
  BY <1>4, <1>7
<1> QED
  BY <1>2, <1>3, <1>4, <1>5, <1>6, <1>8 DEF WrapTyped

\* What all of the steps leave alone.
LEMMA Goals ==
    ASSUME WrapTyped, NEW where, Goes(where), UNCHANGED <<result, maximum>>,
           where \in {"outer", "word", "place", "returned"},
           cp' \in 1 .. Len(text) + 1, line_buf' \in Line, word_buf' \in Word,
           width_of_line' \in Int, width_of_word' \in Int, first_line' \in BOOLEAN,
           printed' \in Seq(Seq(Byte))
    PROVE  WrapTyped'
BY DEF WrapTyped, Goes

LEMMA PrintedMore ==
    ASSUME WrapTyped
    PROVE  Append(printed, Bytes(line_buf)) \in Seq(Seq(Byte))
<1>1. PICK line \in Seq(Byte) : line = Bytes(line_buf)
  BY BytesAre DEF WrapTyped
<1>2. Append(printed, line) \in Seq(Seq(Byte))
  BY AppendProperties DEF WrapTyped
<1> QED
  BY <1>1, <1>2

LEMMA GrabTyped ==
    ASSUME WrapTyped, UNCHANGED <<result, maximum>>, ~AtEnd,
           NEW w \in Word, NEW w_width \in Int, Grab(w, w_width)
    PROVE  WrapTyped'
<1>1. PICK n, b : /\ n = mbrtowc(text, cp) /\ b = SubSeq(text, cp, cp + n - 1)
                  /\ word_buf' = write(w, b)
                  /\ width_of_word' = w_width + wcwidth(text, cp)
                  /\ cp' = cp + n
                  /\ Goes(IF full(word_buf') THEN "place" ELSE "word")
                  /\ UNCHANGED <<line_buf, width_of_line, first_line, printed>>
  BY DEF Grab
<1>2. b \in Seq(STRING) /\ cp' \in 1 .. Len(text) + 1 /\ wcwidth(text, cp) \in Int
  BY <1>1, LettersAre
<1>3. word_buf' \in Word
  <2>1. w \o b \in Seq(STRING)
    BY <1>2, ConcatProperties DEF Word
  <2> QED
    BY <1>1, <2>1, FittingIs DEF write, Word
<1>4. width_of_word' \in Int
  BY <1>1, <1>2
<1>5. PICK where \in {"place", "word"} : Goes(where)
  BY <1>1
<1>6. /\ line_buf' \in Line /\ width_of_line' \in Int /\ first_line' \in BOOLEAN
      /\ printed' \in Seq(Seq(Byte))
  BY <1>1 DEF WrapTyped
<1> QED
  BY <1>2, <1>3, <1>4, <1>5, <1>6, Goals

LEMMA PlaceTyped ==
    ASSUME WrapTyped, UNCHANGED <<result, maximum>>,
           NEW b \in Line, NEW w \in Int, Place(b, w),
           first_line' \in BOOLEAN, printed' \in Seq(Seq(Byte))
    PROVE  WrapTyped'
<1>1. /\ line_buf' = puts(b, word_buf) /\ width_of_line' = w + width_of_word
      /\ Goes("outer") /\ UNCHANGED <<cp, word_buf, width_of_word>>
  BY DEF Place
<1>2. word_buf \in Seq(Byte)
  <2>1. STRING \subseteq Byte
    BY DEF Byte
  <2> QED
    BY <2>1, SeqMonotonic DEF WrapTyped, Word
<1>3. line_buf' \in Line
  BY <1>1, <1>2, PutsIs
<1> QED
  BY <1>1, <1>3, Goals DEF WrapTyped

LEMMA WrapKeepsTypes ==
    ASSUME WrapTyped, UNCHANGED <<result, maximum>>, Wrap
    PROVE  WrapTyped' /\ text' = text /\ pc' # "message" /\ pc # "message"
<1>1. text' = text /\ pc' # "message" /\ pc # "message"
  <2> USE DEF Goes
  <2>1. CASE Finish \/ SkipSpace \/ EndWord
    BY <2>1 DEF Finish, SkipSpace, EndWord
  <2>2. CASE BeginWord \/ GrabMore
    BY <2>2 DEF BeginWord, GrabMore, Grab
  <2>3. CASE PlaceFirst \/ PlaceBehind
    BY <2>3 DEF PlaceFirst, PlaceBehind, Place
  <2>4. CASE PlaceBelow \/ WriteFails
    BY <2>4 DEF PlaceBelow, WriteFails, Place
  <2> QED
    BY <2>1, <2>2, <2>3, <2>4 DEF Wrap
<1>2. Len(text) \in Nat
  BY LenProperties DEF WrapTyped
<1>3. CASE Finish
  <2>1. printed' \in {printed, Append(printed, Bytes(line_buf))}
    BY <1>3 DEF Finish, Emits
  <2>2. printed' \in Seq(Seq(Byte))
    BY <2>1, PrintedMore DEF WrapTyped
  <2>3. /\ UNCHANGED <<cp, line_buf, word_buf, width_of_line, width_of_word, first_line>>
        /\ Goes("returned")
    BY <1>3 DEF Finish
  <2>4. WrapTyped'
    BY <2>2, <2>3, Goals DEF WrapTyped
  <2> QED
    BY <1>1, <2>4
<1>4. CASE SkipSpace
  <2>1. /\ cp' = cp + 1 /\ ~ (cp > Len(text)) /\ Goes("outer")
        /\ UNCHANGED <<line_buf, word_buf, width_of_line, width_of_word, first_line, printed>>
    BY <1>4 DEF SkipSpace, AtSpace, AtEnd
  <2>2. cp' \in 1 .. Len(text) + 1
    BY <1>2, <2>1 DEF WrapTyped
  <2>3. WrapTyped'
    BY <2>1, <2>2, Goals DEF WrapTyped
  <2> QED
    BY <1>1, <2>3
<1>5. CASE BeginWord
  <2>1. <<>> \in Word
    BY EmptySeq, WrapAssumption DEF Word
  <2>2. ~AtEnd /\ Grab(<<>>, 0)
    BY <1>5 DEF BeginWord
  <2>3. WrapTyped'
    BY <2>1, <2>2, GrabTyped
  <2> QED
    BY <1>1, <2>3
<1>6. CASE GrabMore
  <2>1. ~AtEnd /\ Grab(word_buf, width_of_word) /\ word_buf \in Word /\ width_of_word \in Int
    BY <1>6 DEF GrabMore, WrapTyped
  <2>2. WrapTyped'
    BY <2>1, GrabTyped
  <2> QED
    BY <1>1, <2>2
<1>7. CASE EndWord \/ WriteFails
  <2>1. /\ UNCHANGED <<cp, line_buf, word_buf, width_of_line, width_of_word, first_line, printed>>
        /\ \E where \in {"place", "returned"} : Goes(where)
    BY <1>7 DEF EndWord, WriteFails
  <2>2. WrapTyped'
    BY <2>1, Goals DEF WrapTyped
  <2> QED
    BY <1>1, <2>2
<1>8. CASE PlaceFirst
  <2>1. /\ Place(Indented(first_line), width_of_line) /\ UNCHANGED <<first_line, printed>>
        /\ Indented(first_line) \in Line /\ width_of_line \in Int
    BY <1>8, IndentedIs DEF PlaceFirst, WrapTyped
  <2>2. WrapTyped'
    BY <2>1, PlaceTyped DEF WrapTyped
  <2> QED
    BY <1>1, <2>2
<1>9. CASE PlaceBehind
  <2>1. Space \in Byte
    BY DEF Byte
  <2>2. /\ Place(putc(line_buf, Space), width_of_line + 1) /\ UNCHANGED <<first_line, printed>>
        /\ putc(line_buf, Space) \in Line /\ width_of_line + 1 \in Int
    BY <1>9, <2>1, PutcIs DEF PlaceBehind, WrapTyped
  <2>3. WrapTyped'
    BY <2>2, PlaceTyped DEF WrapTyped
  <2> QED
    BY <1>1, <2>3
<1>10. CASE PlaceBelow
  <2>1. /\ Place(Indented(FALSE), 0) /\ first_line' \in BOOLEAN
        /\ printed' = Append(printed, Bytes(line_buf))
    BY <1>10 DEF PlaceBelow
  <2>2. PICK b \in Line : b = Indented(FALSE)
    <3>1. FALSE \in BOOLEAN
      OBVIOUS
    <3>2. Indented(FALSE) \in Line
      BY <3>1, IndentedIs
    <3> QED
      BY <3>2
  <2>3. printed' \in Seq(Seq(Byte))
    BY <2>1, PrintedMore
  <2>4. Place(b, 0)
    BY <2>1, <2>2
  <2>5. WrapTyped'
    BY <2>1, <2>3, <2>4, PlaceTyped
  <2> QED
    BY <1>1, <2>5
<1> QED
  BY <1>3, <1>4, <1>5, <1>6, <1>7, <1>8, <1>9, <1>10 DEF Wrap

-----------------------------------------------------------------------------
(* The specification.                                                       *)

\* The message that stderr is handed gives way as promised.
Handed ==
    /\ pc = "message" => given = explanation.text
    /\ pc # "message" /\ errnum # 0 => GivesWay(text)

TInv == InputsTyped /\ WrapTyped /\ Handed

LEMMA TInvInit == Init => TInv
<1> SUFFICES ASSUME Init PROVE TInv
  OBVIOUS
<1> USE DEF Init
<1>1. InputsTyped
  <2>1. <<>> \in Seq(STRING) /\ Len(<<>>) = 0
    BY EmptySeq
  <2>2. Empty \in Buffer
    <3>1. PICK t \in Seq(STRING), p \in Nat : t = <<>> /\ p = 0
      BY <2>1
    <3>2. Empty = [text |-> t, position |-> p] /\ p = Len(t)
      BY <2>1, <3>1 DEF Empty
    <3>3. [text |-> t, position |-> p] \in [text : Seq(STRING), position : Nat]
      OBVIOUS
    <3> QED
      BY <3>2, <3>3, BufferIs
  <2>3. system_call \in Buffer /\ explanation \in Buffer
    BY <2>2, ExplanationAssumption DEF InitExplanation
  <2>4. explanation.text \in Seq(STRING)
    BY <2>3, BufferIs
  <2>5. footnotes \in Seq(STRING) /\ strerror_text \in Seq(STRING)
    BY <2>1, ExplanationAssumption DEF InitExplanation
  <2>6. maximum \in Nat \ {0} /\ translation \in Translations /\ given = explanation.text
    BY ExplanationAssumption DEF InitExplanation
  <2> QED
    BY <2>3, <2>4, <2>5, <2>6 DEF InputsTyped
<1>2. WrapTyped
  <2>1. /\ result = <<>> /\ text = <<>> /\ cp = 1 /\ width = 1 /\ hanging_indent = 0
        /\ line_buf = EmptyLine /\ word_buf = <<>> /\ width_of_line = 0 /\ width_of_word = 0
        /\ first_line = TRUE /\ pc = "message" /\ printed = <<>>
    BY DEF InitExplanation, InitWrap
  <2>2. <<>> \in Seq(STRING) /\ <<>> \in Seq(Seq(Byte)) /\ Len(<<>>) = 0
    BY EmptySeq
  <2>3. Len(result) < maximum /\ cp \in 1 .. Len(text) + 1
    BY <1>1, <2>1, <2>2 DEF InputsTyped
  <2>4. width \in 1 .. MAX_LINE_LENGTH /\ hanging_indent \in 0 .. width
    BY <2>1, WrapAssumption
  <2> HIDE DEF Init
  <2> QED
    BY <2>1, <2>2, <2>3, <2>4, EmptyTyped DEF WrapTyped
<1>3. Handed
  BY DEF Handed, InitExplanation, InitWrap
<1> QED
  BY <1>1, <1>2, <1>3 DEF TInv

LEMMA TInvNext == TInv /\ [Next]_vars => TInv'
<1> SUFFICES ASSUME TInv, [Next]_vars PROVE TInv'
  OBVIOUS
<1> USE DEF TInv
<1>1. CASE MakeMessage
  <2>1. pc = "message" /\ Assemble /\ StartWrap(result') /\ UNCHANGED inputs
    BY <1>1 DEF MakeMessage, Assemble
  <2>2. UNCHANGED <<errnum, given, maximum>>
    BY <2>1 DEF inputs
  <2>3. InputsTyped' /\ result' \in Seq(STRING) /\ Len(result') < maximum
    BY <2>1, AssembleTyped
  <2>4. WrapTyped' /\ pc' = "outer" /\ text' = result'
    BY <2>1, <2>2, <2>3, StartTyped
  <2>5. ASSUME errnum' # 0
        PROVE  GivesWay(text)'
    <3>1. GivesWay(result')
      BY <2>1, <2>2, <2>5, MessageGivesWay DEF Handed
    <3> QED
      BY <2>1, <2>4, <3>1 DEF GivesWay, Fits, Short, LongWith, Room, inputs
  <2> QED
    BY <2>3, <2>4, <2>5 DEF Handed
<1>2. CASE PrintMessage
  <2>1. Wrap /\ UNCHANGED <<inputs, explanation, result>>
    BY <1>2 DEF PrintMessage
  <2>2. UNCHANGED <<errnum, system_call, footnotes, strerror_text, translation, maximum, given,
                    explanation, result>>
    BY <2>1 DEF inputs
  <2>3. WrapTyped' /\ text' = text /\ pc' # "message" /\ pc # "message"
    BY <2>1, <2>2, WrapKeepsTypes
  <2>4. InputsTyped'
    BY <2>2 DEF InputsTyped
  <2>5. GivesWay(text) => GivesWay(text)'
    BY <2>2, <2>3 DEF GivesWay, Fits, Short, LongWith, Room
  <2> QED
    BY <2>2, <2>3, <2>4, <2>5 DEF Handed
<1>3. CASE Returned \/ UNCHANGED vars
  <2>1. UNCHANGED <<inputs, explanation, result, wrapVars>>
    BY <1>3 DEF Returned, vars
  <2>2. UNCHANGED <<errnum, system_call, footnotes, strerror_text, translation, maximum, given,
                    explanation, result>>
    BY <2>1 DEF inputs
  <2>3. InputsTyped' /\ WrapTyped'
    BY <2>1, <2>2 DEF wrapVars, InputsTyped, WrapTyped
  <2>4. UNCHANGED <<text, pc>>
    BY <2>1 DEF wrapVars
  <2>5. GivesWay(text) => GivesWay(text)'
    BY <2>2, <2>4 DEF GivesWay, Fits, Short, LongWith, Room
  <2> QED
    BY <2>2, <2>3, <2>4, <2>5 DEF Handed
<1> QED
  BY <1>1, <1>2, <1>3 DEF Next

LEMMA TInvAlways == Spec => []TInv
BY TInvInit, TInvNext, PTL DEF Spec

(* The message fits the caller's array, whatever the parts and their        *)
(* translation; and no position leaves the arrays for the line and the      *)
(* word, but for the one behind the end (assemble_common.c, wrap_and_print.c). *)
THEOREM TypeCorrect == Spec => []TypeOK
<1>1. TInv => TypeOK
  <2> SUFFICES ASSUME TInv PROVE TypeOK
    OBVIOUS
  <2>1. line_buf.position \in {Len(line_buf.text), MAX_LINE_LENGTH + 1}
        /\ Len(line_buf.text) <= MAX_LINE_LENGTH
    BY LineIs DEF TInv, WrapTyped
  <2> QED
    BY <2>1 DEF TypeOK, TInv, InputsTyped, WrapTyped, Word
<1> QED
  BY <1>1, TInvAlways, PTL

(* Whatever order a translation gives the three parts, and however small    *)
(* the array: it is the explanation that gives way                          *)
(* (explanation/assemble_common.c:222-234).                                 *)
THEOREM ExplanationGivesWayAlways == Spec => []ExplanationGivesWay
<1>1. TInv => ExplanationGivesWay
  BY DEF TInv, Handed, ExplanationGivesWay
<1> QED
  BY <1>1, TInvAlways, PTL

-----------------------------------------------------------------------------
(* Columns, and the first word of a line.                                   *)

Shown(s) == {i \in DOMAIN s : s[i] # Trail}

LEMMA ShownIs ==
    ASSUME NEW s \in Seq(Byte)
    PROVE  /\ IsFiniteSet(Shown(s)) /\ Columns(s) = Cardinality(Shown(s)) /\ Columns(s) \in Nat
           /\ Shown(s) = {i \in 1 .. Len(s) : s[i] # Trail}
<1>1. DOMAIN s = 1 .. Len(s) /\ Len(s) \in Nat
  BY LenProperties
<1>2. PICK n \in Nat : n = Len(s)
  BY <1>1
<1>3. IsFiniteSet(1 .. n)
  BY FS_Interval
<1>4. PICK D : D = 1 .. n /\ IsFiniteSet(D)
  BY <1>3
<1>5. Shown(s) \in SUBSET D
  BY <1>1, <1>2, <1>4 DEF Shown
<1>6. IsFiniteSet(Shown(s))
  BY <1>4, <1>5, FS_Subset
<1>7. Cardinality(Shown(s)) \in Nat
  BY <1>6, FS_CardinalityType
<1>8. Columns(s) = Cardinality(Shown(s))
  BY DEF Columns, Shown
<1> QED
  BY <1>1, <1>6, <1>7, <1>8 DEF Shown

LEMMA ColumnsAdd ==
    ASSUME NEW s \in Seq(Byte), NEW t \in Seq(Byte)
    PROVE  s \o t \in Seq(Byte) /\ Columns(s \o t) = Columns(s) + Columns(t)
<1>1. PICK u \in Seq(Byte) :
          /\ u = s \o t /\ Len(u) = Len(s) + Len(t) /\ Len(s) \in Nat /\ Len(t) \in Nat
          /\ \A i \in 1 .. Len(u) : u[i] = IF i <= Len(s) THEN s[i] ELSE t[i - Len(s)]
  <2>1. s \o t \in Seq(Byte) /\ Len(s) \in Nat /\ Len(t) \in Nat
    BY ConcatProperties, LenProperties
  <2>2. Len(s \o t) = Len(s) + Len(t)
    BY ConcatProperties
  <2>3. \A i \in 1 .. Len(s) + Len(t) :
            (s \o t)[i] = IF i <= Len(s) THEN s[i] ELSE t[i - Len(s)]
    BY ConcatProperties
  <2> QED
    BY <2>1, <2>2, <2>3
<1>2. PICK n \in Nat, m \in Nat : n = Len(s) /\ m = Len(t)
  BY <1>1
<1> DEFINE S == Shown(s)
           T == Shown(t)
           U == Shown(u)
<1>3. /\ S = {i \in 1 .. n : s[i] # Trail} /\ T = {i \in 1 .. m : t[i] # Trail}
      /\ U = {i \in 1 .. n + m : u[i] # Trail}
      /\ IsFiniteSet(S) /\ IsFiniteSet(T) /\ IsFiniteSet(U)
      /\ Columns(s) = Cardinality(S) /\ Columns(t) = Cardinality(T) /\ Columns(u) = Cardinality(U)
      /\ Columns(s) \in Nat /\ Columns(t) \in Nat
  BY <1>1, <1>2, ShownIs
<1> HIDE DEF S, T, U
<1>4. \A i \in 1 .. n + m : u[i] = IF i <= n THEN s[i] ELSE t[i - n]
  BY <1>1, <1>2
<1>5. PICK V : V = {i \in U : i > n}
  OBVIOUS
<1>6. PICK f : f = [i \in T |-> i + n]
  OBVIOUS
<1>7. f \in [T -> V]
  <2>1. ASSUME NEW i \in T
        PROVE  i + n \in V
    <3>1. i \in 1 .. m /\ t[i] # Trail
      BY <1>3
    <3>2. i + n \in 1 .. n + m /\ ~ (i + n <= n) /\ (i + n) - n = i
      BY <3>1
    <3>3. u[i + n] = t[i]
      BY <1>4, <3>2
    <3>4. PICK j : j = i + n
      OBVIOUS
    <3>5. j \in 1 .. n + m /\ j > n /\ u[j] # Trail
      BY <3>1, <3>2, <3>3, <3>4
    <3>6. j \in V
      BY <1>3, <1>5, <3>5
    <3> QED
      BY <3>4, <3>6
  <2> QED
    BY <1>6, <2>1
<1>8. \A i, j \in T : f[i] = f[j] => i = j
  <2>1. T \subseteq Nat
    BY <1>3
  <2> QED
    BY <1>6, <2>1
<1>9. \A j \in V : \E i \in T : f[i] = j
  <2> SUFFICES ASSUME NEW j \in V PROVE \E i \in T : f[i] = j
    OBVIOUS
  <2>1. j \in 1 .. n + m /\ j > n /\ u[j] # Trail
    BY <1>3, <1>5
  <2>2. PICK i \in 1 .. m : i = j - n /\ i + n = j
    BY <2>1
  <2>3. u[j] = t[i]
    BY <1>4, <2>1, <2>2
  <2>4. i \in T
    BY <1>3, <2>1, <2>2, <2>3
  <2> QED
    BY <1>6, <2>2, <2>4
<1>10. ExistsBijection(T, V)
  BY <1>7, <1>8, <1>9 DEF ExistsBijection, Bijection, Injection, Surjection, IsInjective
<1>11. IsFiniteSet(V) /\ Cardinality(V) = Cardinality(T)
  BY <1>3, <1>10, FS_Bijection
<1>12. S \cap V = {}
  BY <1>3, <1>5
<1>13. U = S \cup V
  <2>1. \A i \in U : i \in S \cup V
    BY <1>3, <1>4, <1>5
  <2>2. \A i \in S : i \in U
    <3> SUFFICES ASSUME NEW i \in S PROVE i \in U
      OBVIOUS
    <3>1. i \in 1 .. n /\ s[i] # Trail
      BY <1>3
    <3>2. i \in 1 .. n + m /\ i <= n
      BY <3>1
    <3> QED
      BY <1>3, <1>4, <3>1, <3>2
  <2> QED
    BY <1>5, <2>1, <2>2
<1>14. Cardinality(S \cup V) = Cardinality(S) + Cardinality(V) - Cardinality(S \cap V)
  BY <1>3, <1>11, FS_Union
<1>15. Cardinality(S \cap V) = 0
  BY <1>12, FS_EmptySet
<1>16. Columns(u) = Columns(s) + Columns(t)
  <2>1. PICK a \in Nat, b \in Nat : a = Columns(s) /\ b = Columns(t)
    BY <1>3
  <2>2. Cardinality(S) = a /\ Cardinality(V) = b
    BY <1>3, <1>11, <2>1
  <2>3. Cardinality(U) = a + b - 0
    BY <1>13, <1>14, <1>15, <2>2
  <2> QED
    BY <1>3, <2>1, <2>3
<1> QED
  BY <1>1, <1>16

LEMMA ColumnsOfSpaces ==
    ASSUME NEW s \in Seq(Byte), \A i \in 1 .. Len(s) : s[i] = Space
    PROVE  Columns(s) = Len(s)
<1>1. PICK n \in Nat : n = Len(s)
  BY LenProperties
<1>2. Shown(s) = 1 .. n
  BY <1>1, ShownIs, WrapAssumption
<1>3. Cardinality(1 .. n) = n
  BY FS_Interval
<1> QED
  BY <1>1, <1>2, <1>3, ShownIs

LEMMA ColumnsOfOne ==
    ASSUME NEW s \in Seq(Byte), Len(s) \in {1, 2}, s[1] # Trail, Len(s) = 2 => s[2] = Trail
    PROVE  Columns(s) = 1
<1>1. Shown(s) = {1}
  <2>1. PICK n \in {1, 2} : n = Len(s)
    OBVIOUS
  <2>2. \A i \in 1 .. n : i = 1 \/ (i = 2 /\ n = 2)
    BY <2>1
  <2>3. 1 \in 1 .. n
    BY <2>1
  <2>4. Shown(s) = {i \in 1 .. n : s[i] # Trail}
    BY <2>1, ShownIs
  <2>5. \A i \in 1 .. n : i # 1 => s[i] = Trail
    BY <2>1, <2>2
  <2> QED
    BY <2>3, <2>4, <2>5
<1>2. Cardinality({1}) = 1
  BY FS_Singleton
<1> QED
  BY <1>1, <1>2, ShownIs

LEMMA ColumnsOfNone == Columns(<<>>) = 0
<1>1. Shown(<<>>) = {}
  <2>1. DOMAIN <<>> = {}
    OBVIOUS
  <2> QED
    BY <2>1 DEF Shown
<1>2. Columns(<<>>) = Cardinality(Shown(<<>>))
  BY DEF Columns, Shown
<1> QED
  BY <1>1, <1>2, FS_EmptySet

\* s is n spaces, the word w, and then nothing or a space.
Starts(s, n, w) ==
    /\ n \in Nat /\ w \in Seq(Byte) /\ Len(w) > 0
    /\ n + Len(w) <= Len(s)
    /\ \A i \in 1 .. n : s[i] = Space
    /\ \A i \in 1 .. Len(w) : s[n + i] = w[i] /\ w[i] # Space
    /\ n + Len(w) < Len(s) => s[n + Len(w) + 1] = Space

LEMMA StartIs ==
    ASSUME NEW s \in Seq(Byte), NEW n, NEW w, Starts(s, n, w)
    PROVE  Indent(s) = n /\ FirstWord(s) = w
<1>1. PICK l \in Nat, k \in Nat : l = Len(s) /\ k = Len(w)
  BY LenProperties DEF Starts
<1>2. /\ n \in Nat /\ w \in Seq(Byte) /\ k > 0 /\ n + k <= l
      /\ \A i \in 1 .. n : s[i] = Space
      /\ \A i \in 1 .. k : s[n + i] = w[i] /\ w[i] # Space
      /\ n + k < l => s[n + k + 1] = Space
  BY <1>1 DEF Starts
<1>3. s[n + 1] # Space
  <2>1. 1 \in 1 .. k
    BY <1>1, <1>2
  <2> QED
    BY <1>2, <2>1
<1>4. \A j \in 0 .. l : (/\ \A i \in 1 .. j : s[i] = Space
                         /\ j = l \/ s[j + 1] # Space) <=> j = n
  <2> SUFFICES ASSUME NEW j \in 0 .. l
               PROVE  (/\ \A i \in 1 .. j : s[i] = Space
                       /\ j = l \/ s[j + 1] # Space) <=> j = n
    OBVIOUS
  <2>1. CASE j < n
    <3>1. j + 1 \in 1 .. n /\ j # l
      BY <1>1, <1>2, <2>1
    <3> QED
      BY <1>2, <2>1, <3>1
  <2>2. CASE j > n
    <3>1. n + 1 \in 1 .. j
      BY <1>2, <2>2
    <3> QED
      BY <1>2, <1>3, <2>2, <3>1
  <2>3. CASE j = n
    BY <1>2, <1>3, <2>3
  <2> QED
    BY <1>2, <2>1, <2>2, <2>3
<1>5. n \in 0 .. l
  BY <1>1, <1>2
<1>6. Indent(s) = CHOOSE j \in 0 .. l : j = n
  <2>1. Indent(s) = CHOOSE j \in 0 .. l : /\ \A i \in 1 .. j : s[i] = Space
                                          /\ j = l \/ s[j + 1] # Space
    BY <1>1 DEF Indent
  <2> QED
    BY <1>4, <2>1
<1>7. Indent(s) = n
  BY <1>5, <1>6
<1>8. \A j \in n .. l : (/\ \A i \in n + 1 .. j : s[i] # Space
                         /\ j = l \/ s[j + 1] = Space) <=> j = n + k
  <2> SUFFICES ASSUME NEW j \in n .. l
               PROVE  (/\ \A i \in n + 1 .. j : s[i] # Space
                       /\ j = l \/ s[j + 1] = Space) <=> j = n + k
    OBVIOUS
  <2>0. \A i \in n + 1 .. n + k : s[i] # Space
    <3> SUFFICES ASSUME NEW i \in n + 1 .. n + k PROVE s[i] # Space
      OBVIOUS
    <3>1. PICK m \in Nat : m = n
      BY <1>2
    <3>2. i \in m + 1 .. m + k
      BY <3>1
    <3>3. i - m \in 1 .. k /\ m + (i - m) = i
      BY <3>2
    <3>4. PICK h \in 1 .. k : n + h = i
      BY <3>1, <3>3
    <3> QED
      BY <1>2, <3>4
  <2>1. CASE j < n + k
    <3>1. j + 1 \in n + 1 .. n + k /\ j # l
      BY <1>1, <1>2, <2>1
    <3> QED
      BY <2>0, <2>1, <3>1
  <2>2. CASE j > n + k
    <3>1. n + k + 1 \in n + 1 .. j /\ n + k < l
      BY <1>1, <1>2, <2>2
    <3> QED
      BY <1>2, <2>2, <3>1
  <2>3. CASE j = n + k
    BY <1>1, <1>2, <2>0, <2>3
  <2> QED
    BY <1>1, <1>2, <2>1, <2>2, <2>3
<1>9. n + k \in n .. l
  BY <1>1, <1>2
<1>10. FirstWord(s) = SubSeq(s, n + 1, CHOOSE j \in n .. l : j = n + k)
  <2>1. FirstWord(s) = SubSeq(s, n + 1,
                              CHOOSE j \in n .. l : /\ \A i \in n + 1 .. j : s[i] # Space
                                                    /\ j = l \/ s[j + 1] = Space)
    BY <1>1, <1>7 DEF FirstWord
  <2> QED
    BY <1>8, <2>1
<1>11. FirstWord(s) = SubSeq(s, n + 1, n + k)
  BY <1>9, <1>10
<1>12. SubSeq(s, n + 1, n + k) = w
  <2>1. PICK a \in Int, b \in Int : a = n + 1 /\ b = n + k
    BY <1>1, <1>2
  <2>2. \A i \in a .. b : s[i] \in Byte
    <3>1. \A i \in a .. b : i \in 1 .. Len(s)
      BY <1>1, <1>2, <2>1
    <3> QED
      BY <3>1, ElementOfSeq
  <2>3. PICK v \in Seq(Byte) :
            /\ v = SubSeq(s, a, b)
            /\ Len(v) = IF a <= b THEN b - a + 1 ELSE 0
            /\ \A i \in 1 .. b - a + 1 : v[i] = s[a + i - 1]
    <3>1. SubSeq(s, a, b) \in Seq(Byte)
      BY <2>2, SubSeqProperties
    <3>2. Len(SubSeq(s, a, b)) = IF a <= b THEN b - a + 1 ELSE 0
      BY <2>2, SubSeqProperties
    <3>3. \A i \in 1 .. b - a + 1 : SubSeq(s, a, b)[i] = s[a + i - 1]
      BY <2>2, SubSeqProperties
    <3> QED
      BY <3>1, <3>2, <3>3
  <2>4. b - a + 1 = k /\ a <= b /\ \A i \in 1 .. k : a + i - 1 = n + i
    BY <1>1, <1>2, <2>1
  <2>5. Len(v) = Len(w) /\ \A i \in 1 .. k : v[i] = w[i]
    BY <1>1, <1>2, <2>3, <2>4
  <2>6. v = w
    BY <1>1, <1>2, <2>5, SeqEqual
  <2> QED
    BY <2>1, <2>3, <2>6
<1> QED
  BY <1>7, <1>11, <1>12

-----------------------------------------------------------------------------
(* Lines that are filled.                                                   *)

LineFilled(s) == Columns(s) <= width \/ Indent(s) + Len(FirstWord(s)) = Len(s)

Filled(lines) ==
    \A i \in DOMAIN lines :
        /\ LineFilled(lines[i])
        /\ i < Len(lines) => Columns(lines[i]) + 1 + Columns(FirstWord(lines[i + 1])) > width

LEMMA FilledIs ==
    ASSUME NEW lines \in Seq(Seq(Byte)), NEW s \in Seq(Byte)
    PROVE  Filled(Append(lines, s)) <=>
               /\ Filled(lines) /\ LineFilled(s)
               /\ Len(lines) > 0 =>
                     Columns(lines[Len(lines)]) + 1 + Columns(FirstWord(s)) > width
<1>1. PICK n \in Nat, more \in Seq(Seq(Byte)) :
          n = Len(lines) /\ more = Append(lines, s)
  BY AppendProperties, LenProperties
<1>2. /\ Len(more) = n + 1 /\ DOMAIN lines = 1 .. n /\ DOMAIN more = 1 .. n + 1
      /\ \A i \in 1 .. n : more[i] = lines[i]
      /\ more[n + 1] = s
  BY <1>1, AppendProperties, LenProperties
<1>3. Filled(more) <=>
        \A i \in 1 .. n + 1 :
            /\ LineFilled(more[i])
            /\ i < n + 1 => Columns(more[i]) + 1 + Columns(FirstWord(more[i + 1])) > width
  BY <1>2 DEF Filled
<1>4. Filled(lines) <=>
        \A i \in 1 .. n :
            /\ LineFilled(lines[i])
            /\ i < n => Columns(lines[i]) + 1 + Columns(FirstWord(lines[i + 1])) > width
  BY <1>1, <1>2 DEF Filled
<1>5. ASSUME Filled(more)
      PROVE  /\ Filled(lines) /\ LineFilled(s)
             /\ n > 0 => Columns(lines[n]) + 1 + Columns(FirstWord(s)) > width
  <2>1. ASSUME NEW i \in 1 .. n
        PROVE  /\ LineFilled(lines[i])
               /\ i < n => Columns(lines[i]) + 1 + Columns(FirstWord(lines[i + 1])) > width
    <3>1. i \in 1 .. n + 1 /\ i < n + 1 /\ more[i] = lines[i]
      BY <1>2
    <3>2. i < n => i + 1 \in 1 .. n /\ more[i + 1] = lines[i + 1]
      BY <1>2
    <3> QED
      BY <1>3, <1>5, <3>1, <3>2
  <2>2. LineFilled(s)
    <3>1. n + 1 \in 1 .. n + 1
      OBVIOUS
    <3> QED
      BY <1>2, <1>3, <1>5, <3>1
  <2>3. ASSUME n > 0
        PROVE  Columns(lines[n]) + 1 + Columns(FirstWord(s)) > width
    <3>1. n \in 1 .. n + 1 /\ n \in 1 .. n /\ n < n + 1
      BY <2>3
    <3> QED
      BY <1>2, <1>3, <1>5, <3>1
  <2> QED
    BY <1>4, <2>1, <2>2, <2>3
<1>6. ASSUME Filled(lines), LineFilled(s),
             n > 0 => Columns(lines[n]) + 1 + Columns(FirstWord(s)) > width
      PROVE  Filled(more)
  <2>1. ASSUME NEW i \in 1 .. n + 1
        PROVE  /\ LineFilled(more[i])
               /\ i < n + 1 => Columns(more[i]) + 1 + Columns(FirstWord(more[i + 1])) > width
    <3>1. CASE i < n
      <4>1. i \in 1 .. n /\ i + 1 \in 1 .. n
        BY <3>1
      <4> QED
        BY <1>2, <1>4, <1>6, <3>1, <4>1
    <3>2. CASE i = n
      <4>1. i \in 1 .. n /\ n > 0
        BY <3>2
      <4> QED
        BY <1>2, <1>4, <1>6, <3>2, <4>1
    <3>3. CASE i = n + 1
      BY <1>2, <1>6, <3>3
    <3> QED
      BY <3>1, <3>2, <3>3
  <2> QED
    BY <1>3, <2>1
<1> QED
  BY <1>1, <1>5, <1>6

LEMMA FilledNone == Filled(<<>>)
<1>1. DOMAIN <<>> = {}
  OBVIOUS
<1> QED
  BY <1>1 DEF Filled

-----------------------------------------------------------------------------
(* The text that is left, the word and the line in the making.              *)

Solid(w) == Len(w) > 0 /\ \A i \in 1 .. Len(w) : w[i] # Space

InText == ~IsLetter(text, cp - 1)

InWord ==
    pc \in {"word", "place"} => Solid(word_buf) /\ width_of_word = Columns(word_buf)

Started(s) == \E n, w : Starts(s, n, w)

InLine ==
    /\ line_buf.position = Len(line_buf.text)
    /\ IF line_buf.position = 0 THEN first_line /\ width_of_line = 0 /\ printed = <<>>
       ELSE /\ Columns(line_buf.text)
                  = (IF first_line THEN 0 ELSE hanging_indent) + width_of_line
            /\ Started(line_buf.text)
            /\ Filled(Append(printed, line_buf.text))

Flowing == IF pc = "returned" THEN Filled(printed) ELSE InText /\ InWord /\ InLine

LEMMA CharacterIs ==
    ASSUME WrapTyped, ~Broken(text), InText, ~AtEnd, ~AtSpace,
           NEW n, n = mbrtowc(text, cp)
    PROVE  \E b \in Seq(Byte) :
               /\ b = SubSeq(text, cp, cp + n - 1)
               /\ Solid(b) /\ Columns(b) = 1 /\ wcwidth(text, cp) = 1
               /\ ~IsLetter(text, cp + n - 1)
<1>0. PICK b : b = SubSeq(text, cp, cp + n - 1)
  OBVIOUS
<1>1. /\ n \in {1, 2} /\ b \in Seq(STRING) /\ Len(b) = n
      /\ \A i \in 1 .. n : b[i] = text[cp + i - 1]
  BY <1>0, LettersAre
<1>2. b \in Seq(Byte)
  <2>1. STRING \subseteq Byte
    BY DEF Byte
  <2> QED
    BY <1>1, <2>1, SeqMonotonic
<1>3. /\ Len(text) \in Nat /\ cp \in 1 .. Len(text) /\ DOMAIN text = 1 .. Len(text)
      /\ text[cp] # Space
  BY LenProperties DEF WrapTyped, AtEnd, AtSpace
<1>4. ~ (text[cp] = Lead /\ ~IsLetter(text, cp)) /\ ~ (text[cp] = Trail /\ ~IsLetter(text, cp - 1))
  BY <1>3 DEF Broken
<1>5. b[1] = text[cp] /\ (n = 2 => b[2] = text[cp + 1])
  <2>1. 1 \in 1 .. n /\ cp + 1 - 1 = cp
    BY <1>1, <1>3
  <2>2. b[1] = text[cp]
    BY <1>1, <2>1
  <2>3. n = 2 => 2 \in 1 .. n /\ cp + 2 - 1 = cp + 1
    BY <1>3
  <2>4. n = 2 => b[2] = text[cp + 1]
    BY <1>1, <2>3
  <2> QED
    BY <2>2, <2>4
<1>6. CASE IsLetter(text, cp)
  <2>1. n = 2 /\ text[cp] = Lead /\ text[cp + 1] = Trail
    BY <1>6 DEF mbrtowc, IsLetter
  <2>2. \A i \in 1 .. 2 : i = 1 \/ i = 2
    OBVIOUS
  <2>3. Solid(b)
    <3>1. Len(b) = 2 /\ b[1] = Lead /\ b[2] = Trail
      BY <1>1, <1>5, <2>1
    <3>2. b[1] # Space /\ b[2] # Space
      BY <3>1, WrapAssumption
    <3>3. \A i \in 1 .. 2 : b[i] # Space
      BY <2>2, <3>2
    <3>4. \A i \in 1 .. Len(b) : b[i] # Space
      BY <3>1, <3>3
    <3>5. Len(b) > 0
      BY <3>1
    <3> QED
      BY <3>4, <3>5 DEF Solid
  <2>4. Columns(b) = 1
    BY <1>1, <1>2, <1>5, <2>1, ColumnsOfOne, WrapAssumption
  <2>5. wcwidth(text, cp) = 1
    BY <1>6 DEF wcwidth
  <2>6. cp + n - 1 = cp + 1
    BY <1>3, <2>1
  <2>7. ~IsLetter(text, cp + 1)
    BY <2>1, WrapAssumption DEF IsLetter
  <2> QED
    BY <1>0, <1>2, <2>3, <2>4, <2>5, <2>6, <2>7
<1>7. CASE ~IsLetter(text, cp)
  <2>1. n = 1
    BY <1>7 DEF mbrtowc
  <2>2. text[cp] # Lead /\ text[cp] # Trail
    BY <1>4, <1>7 DEF InText
  <2>3. \A i \in 1 .. 1 : i = 1
    OBVIOUS
  <2>4. Solid(b)
    BY <1>1, <1>3, <1>5, <2>1, <2>3 DEF Solid
  <2>5. Columns(b) = 1
    <3>1. Len(b) = 1 /\ b[1] # Trail /\ ~ (Len(b) = 2)
      BY <1>1, <1>5, <2>1, <2>2
    <3> QED
      BY <1>2, <3>1, ColumnsOfOne
  <2>6. wcwidth(text, cp) = 1
    BY <2>2 DEF wcwidth
  <2>7. cp + n - 1 = cp
    BY <1>3, <2>1
  <2> QED
    BY <1>0, <1>2, <1>7, <2>4, <2>5, <2>6, <2>7
<1> QED
  BY <1>0, <1>2, <1>6, <1>7

LEMMA SolidMore ==
    ASSUME NEW w \in Seq(Byte), w = <<>> \/ Solid(w), NEW b \in Seq(Byte), Solid(b)
    PROVE  Solid(w \o b)
<1>1. PICK n \in Nat, m \in Nat : n = Len(w) /\ m = Len(b)
  BY LenProperties
<1>2. Len(w \o b) = n + m
  BY <1>1, ConcatProperties
<1>3. \A i \in 1 .. n + m : (w \o b)[i] = IF i <= n THEN w[i] ELSE b[i - n]
  BY <1>1, ConcatProperties
<1>4. \A i \in 1 .. n : w[i] # Space
  <2>1. CASE w = <<>>
    <3>1. n = 0 /\ 1 .. 0 = {}
      BY <1>1, <2>1
    <3> QED
      BY <3>1
  <2>2. CASE Solid(w)
    BY <1>1, <2>2 DEF Solid
  <2> QED
    BY <2>1, <2>2
<1>5. m > 0 /\ \A i \in 1 .. m : b[i] # Space
  BY <1>1 DEF Solid
<1>6. \A i \in 1 .. n + m : (w \o b)[i] # Space
  <2> SUFFICES ASSUME NEW i \in 1 .. n + m PROVE (w \o b)[i] # Space
    OBVIOUS
  <2>1. CASE i <= n
    <3>1. i \in 1 .. n
      BY <2>1
    <3> QED
      BY <1>3, <1>4, <2>1, <3>1
  <2>2. CASE ~ (i <= n)
    <3>1. i - n \in 1 .. m
      BY <2>2
    <3> QED
      BY <1>3, <1>5, <2>2, <3>1
  <2> QED
    BY <2>1, <2>2
<1> QED
  BY <1>2, <1>5, <1>6 DEF Solid

-----------------------------------------------------------------------------
(* The steps keep the lines filled.                                         *)

\* What Flowing says while something is left of the text.
LEMMA FlowingIs ==
    /\ pc # "returned" => (Flowing <=> InText /\ InWord /\ InLine)
    /\ pc = "returned" => (Flowing <=> Filled(printed))
BY DEF Flowing

LEMMA SoFarFilled == ASSUME WrapTyped, InLine PROVE Filled(printed)
<1>1. CASE line_buf.position = 0
  BY <1>1, FilledNone DEF InLine
<1>2. CASE line_buf.position # 0
  <2>1. PICK s \in Seq(Byte) : s = line_buf.text
    BY LineIs DEF WrapTyped
  <2>2. Filled(Append(printed, s))
    BY <1>2, <2>1 DEF InLine
  <2> QED
    BY <2>2, FilledIs DEF WrapTyped
<1> QED
  BY <1>1, <1>2

\* The line in the making does not change.
LEMMA SameLine ==
    ASSUME InLine,
           UNCHANGED <<width, hanging_indent, line_buf, first_line, width_of_line, printed>>
    PROVE  InLine'
BY DEF InLine, Filled, LineFilled

LEMMA GrabFlows ==
    ASSUME WrapTyped, ~Broken(text), Flowing, pc \in {"outer", "word"}, ~AtEnd, ~AtSpace,
           NEW w \in Word, NEW w_width \in Int, w_width = Columns(w), w = <<>> \/ Solid(w),
           Grab(w, w_width), ~lost'
    PROVE  Flowing'
<1>1. PICK n : /\ n = mbrtowc(text, cp)
               /\ LET b == SubSeq(text, cp, cp + n - 1)
                  IN  /\ word_buf' = write(w, b)
                      /\ ~ (Len(w \o b) > MAX_LINE_LENGTH)
               /\ width_of_word' = w_width + wcwidth(text, cp)
               /\ cp' = cp + n
               /\ Goes(IF full(word_buf') THEN "place" ELSE "word")
               /\ UNCHANGED <<line_buf, width_of_line, first_line, printed>>
  BY DEF Grab
<1>2. InText /\ InLine
  BY FlowingIs
<1>3. PICK b \in Seq(Byte) :
          /\ b = SubSeq(text, cp, cp + n - 1)
          /\ Solid(b) /\ Columns(b) = 1 /\ wcwidth(text, cp) = 1
          /\ ~IsLetter(text, cp + n - 1)
  BY <1>1, <1>2, CharacterIs
<1>4. word_buf' = write(w, b) /\ ~ (Len(w \o b) > MAX_LINE_LENGTH)
  BY <1>1, <1>3
<1>5. w \in Seq(Byte)
  <2>1. STRING \subseteq Byte
    BY DEF Byte
  <2> QED
    BY <2>1, SeqMonotonic DEF Word
<1>6. w \o b \in Seq(Byte) /\ Columns(w \o b) = Columns(w) + 1 /\ Solid(w \o b)
  BY <1>3, <1>5, ColumnsAdd, SolidMore
<1>7. word_buf' = w \o b
  <2>1. PICK u \in Seq(Byte) : u = w \o b
    BY <1>6
  <2>2. Len(u) <= MAX_LINE_LENGTH
    BY <1>4, <2>1, LenProperties, WrapAssumption
  <2>3. Fitting(u) = u
    BY <2>2, FittingIs
  <2> QED
    BY <1>4, <2>1, <2>3 DEF write
<1>8. width_of_word' = Columns(word_buf') /\ Solid(word_buf')
  BY <1>1, <1>3, <1>6, <1>7
<1>9. ~IsLetter(text', cp' - 1) /\ pc' # "returned"
  <2>1. text' = text /\ cp' - 1 = cp + n - 1 /\ pc' \in {"place", "word"}
    <3>1. n \in {1, 2} /\ cp \in Nat
      BY <1>1, LettersAre
    <3>2. text' = text /\ cp' = cp + n
      BY <1>1 DEF Goes
    <3>3. cp' - 1 = cp + n - 1
      BY <3>1, <3>2
    <3>4. pc' \in {"place", "word"}
      BY <1>1 DEF Goes
    <3> QED
      BY <3>2, <3>3, <3>4
  <2>2. ~IsLetter(text', cp' - 1)
    BY <1>3, <2>1
  <2> QED
    BY <2>1, <2>2
<1>10. InText' /\ InWord'
  BY <1>8, <1>9 DEF InText, InWord
<1>11. InLine'
  BY <1>1, <1>2, SameLine DEF Goes
<1> QED
  BY <1>9, <1>10, <1>11 DEF Flowing

LEMMA OneSpace ==
    /\ <<Space>> \in Seq(Byte) /\ Len(<<Space>>) = 1 /\ <<Space>>[1] = Space
    /\ Columns(<<Space>>) = 1
<1>1. PICK s : s = <<Space>>
  OBVIOUS
<1>2. s \in Seq(Byte) /\ Len(s) = 1 /\ s[1] = Space
  BY <1>1 DEF Byte
<1>3. Columns(s) = 1
  BY <1>2, ColumnsOfOne, WrapAssumption
<1> QED
  BY <1>1, <1>2, <1>3

\* The word goes behind the bytes of b.
LEMMA PlaceIs ==
    ASSUME WrapTyped, pc = "place", InWord, NEW b \in Line, b.position = Len(b.text),
           NEW w \in Int, Place(b, w), ~lost'
    PROVE  \E s \in Seq(Byte) :
               /\ s = b.text \o word_buf /\ line_buf'.text = s /\ line_buf'.position = Len(s)
               /\ Len(s) > 0 /\ Columns(s) = Columns(b.text) + width_of_word
               /\ width_of_line' = w + width_of_word
<1>1. /\ line_buf' = puts(b, word_buf) /\ width_of_line' = w + width_of_word
      /\ ~ (Len(b.text \o word_buf) > MAX_LINE_LENGTH)
  BY DEF Place
<1>2. word_buf \in Seq(Byte)
  <2>1. STRING \subseteq Byte
    BY DEF Byte
  <2> QED
    BY <2>1, SeqMonotonic DEF WrapTyped, Word
<1>3. b.text \in Seq(Byte)
  BY LineIs
<1>4. PICK s \in Seq(Byte) : s = b.text \o word_buf /\ Columns(s) = Columns(b.text) + Columns(word_buf)
  BY <1>2, <1>3, ColumnsAdd
<1>5. Len(s) = Len(b.text) + Len(word_buf) /\ Len(b.text) \in Nat /\ Len(word_buf) \in Nat
  BY <1>2, <1>3, <1>4, ConcatProperties, LenProperties
<1>6. Solid(word_buf) /\ width_of_word = Columns(word_buf)
  BY DEF InWord
<1>7. Len(s) > 0 /\ Len(s) <= MAX_LINE_LENGTH
  <2>1. ~ (Len(s) > MAX_LINE_LENGTH) /\ Len(word_buf) > 0
    BY <1>1, <1>4, <1>6 DEF Solid
  <2> QED
    BY <1>5, <2>1, WrapAssumption
<1>8. Len(b.text \o word_buf) <= MAX_LINE_LENGTH
  BY <1>4, <1>7
<1>9. puts(b, word_buf).text = b.text \o word_buf /\ puts(b, word_buf).position = Len(b.text \o word_buf)
  BY <1>2, <1>8, PutsIs
<1> QED
  BY <1>1, <1>4, <1>6, <1>7, <1>9

\* A word behind spaces is the first of its line.
LEMMA FirstOfLine ==
    ASSUME NEW t \in Seq(Byte), \A i \in 1 .. Len(t) : t[i] = Space,
           NEW w \in Seq(Byte), Solid(w), NEW s, s = t \o w
    PROVE  Starts(s, Len(t), w) /\ Len(s) = Len(t) + Len(w)
<1>1. PICK n \in Nat, m \in Nat : n = Len(t) /\ m = Len(w)
  BY LenProperties
<1>2. Len(s) = n + m
  BY <1>1, ConcatProperties
<1>3. \A i \in 1 .. n + m : s[i] = IF i <= n THEN t[i] ELSE w[i - n]
  BY <1>1, ConcatProperties
<1>4. m > 0 /\ \A i \in 1 .. m : w[i] # Space
  BY <1>1 DEF Solid
<1>5. ASSUME NEW i \in 1 .. n PROVE s[i] = Space
  <2>1. i \in 1 .. n + m /\ i <= n
    OBVIOUS
  <2> QED
    BY <1>1, <1>3, <2>1
<1>6. ASSUME NEW i \in 1 .. m PROVE s[n + i] = w[i]
  <2>1. n + i \in 1 .. n + m /\ ~ (n + i <= n) /\ (n + i) - n = i
    OBVIOUS
  <2> QED
    BY <1>3, <2>1
<1>7. ~ (n + m < n + m) /\ n + m <= n + m
  OBVIOUS
<1> QED
  BY <1>1, <1>2, <1>4, <1>5, <1>6, <1>7 DEF Starts

\* And stays it when more follows behind a space.
LEMMA StillFirst ==
    ASSUME NEW t \in Seq(Byte), NEW n, NEW w, Starts(t, n, w),
           NEW v \in Seq(Byte), Len(v) > 0, v[1] = Space, NEW s, s = t \o v
    PROVE  Starts(s, n, w)
<1>1. PICK l \in Nat, k \in Nat, m \in Nat : l = Len(t) /\ k = Len(w) /\ m = Len(v)
  BY LenProperties DEF Starts
<1>2. Len(s) = l + m
  BY <1>1, ConcatProperties
<1>3. \A i \in 1 .. l + m : s[i] = IF i <= l THEN t[i] ELSE v[i - l]
  BY <1>1, ConcatProperties
<1>4. /\ n \in Nat /\ w \in Seq(Byte) /\ k > 0 /\ n + k <= l
      /\ \A i \in 1 .. n : t[i] = Space
      /\ \A i \in 1 .. k : t[n + i] = w[i] /\ w[i] # Space
      /\ n + k < l => t[n + k + 1] = Space
  BY <1>1 DEF Starts
<1>5. \A i \in 1 .. l : s[i] = t[i]
  <2>1. \A i \in 1 .. l : i \in 1 .. l + m /\ i <= l
    OBVIOUS
  <2> QED
    BY <1>3, <2>1
<1>6. \A i \in 1 .. n : s[i] = Space
  <2>1. \A i \in 1 .. n : i \in 1 .. l
    BY <1>4
  <2> QED
    BY <1>4, <1>5, <2>1
<1>7. \A i \in 1 .. k : s[n + i] = w[i] /\ w[i] # Space
  <2>1. \A i \in 1 .. k : n + i \in 1 .. l
    BY <1>4
  <2> QED
    BY <1>4, <1>5, <2>1
<1>8. s[n + k + 1] = Space
  <2>0. PICK j \in Nat : j = n + k /\ j <= l
    BY <1>4
  <2>1. CASE j < l
    <3>1. j + 1 \in 1 .. l
      BY <2>1
    <3>2. t[j + 1] = Space
      BY <1>4, <2>0, <2>1
    <3> QED
      BY <1>5, <2>0, <3>1, <3>2
  <2>2. CASE j = l
    <3>1. l + 1 \in 1 .. l + m /\ ~ (l + 1 <= l) /\ (l + 1) - l = 1
      BY <1>1
    <3>2. s[l + 1] = Space
      BY <1>3, <3>1
    <3> QED
      BY <2>0, <2>2, <3>2
  <2>3. j < l \/ j = l
    BY <2>0
  <2> QED
    BY <2>1, <2>2, <2>3
<1>9. n + k <= l + m
  BY <1>4
<1> QED
  BY <1>1, <1>2, <1>4, <1>6, <1>7, <1>8, <1>9 DEF Starts

\* Between two words.
LEMMA BetweenWords ==
    ASSUME InText, pc' = "outer", UNCHANGED <<text, cp>>
    PROVE  InText' /\ InWord'
BY DEF InText, InWord

LEMMA WordTyped ==
    ASSUME WrapTyped
    PROVE  word_buf \in Seq(Byte)
<1>1. STRING \subseteq Byte
  BY DEF Byte
<1> QED
  BY <1>1, SeqMonotonic DEF WrapTyped, Word

LEMMA FilledKept ==
    ASSUME NEW lines, UNCHANGED width
    PROVE  Filled(lines)' <=> Filled(lines)
BY DEF Filled, LineFilled

LEMMA LineFlows ==
    ASSUME InText, Goes("outer"), UNCHANGED cp,
           NEW s, line_buf'.text = s, line_buf'.position = Len(s), Len(s) > 0,
           Columns(s) = (IF first_line' THEN 0 ELSE hanging_indent') + width_of_line',
           NEW n, NEW w, Starts(s, n, w), Filled(Append(printed', s))
    PROVE  Flowing'
<1>1. pc' = "outer" /\ UNCHANGED <<text, width, cp>>
  BY DEF Goes
<1>2. InText' /\ InWord'
  BY <1>1, BetweenWords
<1>3. PICK more : more = Append(printed', s)
  OBVIOUS
<1>4. Filled(more)'
  BY <1>1, <1>3, FilledKept
<1>5. Filled(Append(printed, line_buf.text))'
  <2>1. Append(printed, line_buf.text)' = more
    BY <1>3
  <2> QED
    BY <1>4, <2>1 DEF Filled
<1>6. Started(line_buf.text)'
  BY DEF Started
<1>7. InLine'
  <2>1. line_buf'.position # 0
    OBVIOUS
  <2> QED
    BY <1>5, <1>6, <2>1 DEF InLine
<1> QED
  BY <1>1, <1>2, <1>7 DEF Flowing

LEMMA PlaceFirstFlows ==
    ASSUME WrapTyped, Flowing, PlaceFirst, ~lost'
    PROVE  Flowing'
<1>1. /\ pc = "place" /\ line_buf.position = 0 /\ Place(Indented(first_line), width_of_line)
      /\ UNCHANGED <<first_line, printed>>
  BY DEF PlaceFirst
<1>2. InText /\ InWord /\ InLine
  BY <1>1, FlowingIs
<1>3. first_line /\ width_of_line = 0 /\ printed = <<>>
  BY <1>1, <1>2 DEF InLine
<1>4. PICK b \in Line : /\ b = Indented(first_line) /\ b.position = Len(b.text)
                        /\ Len(b.text) = IF first_line THEN 0 ELSE hanging_indent
  BY IndentedIs DEF WrapTyped
<1>5. b.text \in Seq(Byte) /\ Len(b.text) = 0
  BY <1>3, <1>4, LineIs
<1>6. b.text = <<>>
  BY <1>5, EmptySeq
<1>7. PICK s \in Seq(Byte) :
          /\ s = b.text \o word_buf /\ line_buf'.text = s /\ line_buf'.position = Len(s)
          /\ Len(s) > 0 /\ Columns(s) = Columns(b.text) + width_of_word
          /\ width_of_line' = width_of_line + width_of_word
  <2>1. Place(b, width_of_line) /\ width_of_line \in Int
    BY <1>1, <1>4 DEF WrapTyped
  <2> QED
    BY <1>1, <1>2, <1>4, <2>1, PlaceIs
<1>8. Columns(b.text) = 0
  BY <1>6, ColumnsOfNone
<1>9. width_of_word \in Int
  BY DEF WrapTyped
<1>10. Columns(s) = 0 + width_of_line'
  BY <1>3, <1>7, <1>8, <1>9
<1>11. Solid(word_buf) /\ word_buf \in Seq(Byte)
  BY <1>1, <1>2, WordTyped DEF InWord
<1>12. \A i \in 1 .. Len(b.text) : b.text[i] = Space
  <2>1. 1 .. 0 = {}
    OBVIOUS
  <2> QED
    BY <1>5, <2>1
<1>13. Starts(s, Len(b.text), word_buf) /\ Len(s) = Len(b.text) + Len(word_buf)
  BY <1>5, <1>7, <1>11, <1>12, FirstOfLine
<1>14. LineFilled(s)
  <2>1. Indent(s) = Len(b.text) /\ FirstWord(s) = word_buf
    BY <1>13, StartIs
  <2>2. Indent(s) + Len(FirstWord(s)) = Len(s)
    BY <1>13, <2>1
  <2> QED
    BY <2>2 DEF LineFilled
<1>15. Filled(Append(printed', s))
  <2>1. printed' = <<>> /\ printed = <<>> /\ printed \in Seq(Seq(Byte)) /\ Len(<<>>) = 0
    BY <1>1, <1>3, EmptySeq DEF WrapTyped
  <2>2. ~ (Len(printed) > 0) /\ Filled(printed)
    BY <2>1, FilledNone
  <2>3. Filled(Append(printed, s))
    BY <1>14, <2>1, <2>2, FilledIs
  <2> QED
    BY <2>1, <2>3
<1>16. Goes("outer") /\ UNCHANGED cp
  BY <1>1 DEF Place
<1>17. Columns(s) = (IF first_line' THEN 0 ELSE hanging_indent') + width_of_line'
  BY <1>1, <1>3, <1>10
<1> QED
  BY <1>2, <1>7, <1>13, <1>15, <1>16, <1>17, LineFlows

LEMMA PlaceBehindFlows ==
    ASSUME WrapTyped, Flowing, PlaceBehind, ~lost'
    PROVE  Flowing'
<1>1. /\ pc = "place" /\ line_buf.position # 0 /\ fits
      /\ Place(putc(line_buf, Space), width_of_line + 1) /\ UNCHANGED <<first_line, printed>>
  BY DEF PlaceBehind
<1>2. InText /\ InWord /\ InLine
  BY <1>1, FlowingIs
<1>3. PICK t \in Seq(Byte) : t = line_buf.text
  BY LineIs DEF WrapTyped
<1>4. /\ line_buf.position = Len(t) /\ Len(t) \in Nat /\ Len(t) > 0
      /\ Columns(t) = (IF first_line THEN 0 ELSE hanging_indent) + width_of_line
      /\ Started(t) /\ Filled(Append(printed, t))
  BY <1>1, <1>2, <1>3, LenProperties DEF InLine
<1>5. Space \in Byte
  BY DEF Byte
<1>6. Solid(word_buf) /\ word_buf \in Seq(Byte) /\ width_of_word = Columns(word_buf)
  BY <1>1, <1>2, WordTyped DEF InWord
<1>7. Len(t) < MAX_LINE_LENGTH
  <2> SUFFICES ASSUME ~ (Len(t) < MAX_LINE_LENGTH) PROVE FALSE
    OBVIOUS
  <2>1. line_buf \in Line /\ MAX_LINE_LENGTH \in Nat /\ line_buf.position >= MAX_LINE_LENGTH
    BY <1>4, WrapAssumption DEF WrapTyped
  <2>2. putc(line_buf, Space) = line_buf
    BY <1>5, <2>1, PutcIs
  <2>3. Place(line_buf, width_of_line + 1)
    BY <1>1, <2>2
  <2>4. ~ (Len(t \o word_buf) > MAX_LINE_LENGTH)
    BY <1>3, <2>3 DEF Place
  <2>5. Len(t \o word_buf) = Len(t) + Len(word_buf) /\ Len(word_buf) \in Nat
    BY <1>3, <1>6, ConcatProperties, LenProperties
  <2>6. Len(word_buf) > 0
    BY <1>6 DEF Solid
  <2> QED
    BY <1>4, <2>1, <2>4, <2>5, <2>6
<1>8. PICK b \in Line :
          /\ b = putc(line_buf, Space) /\ b.text = Append(t, Space) /\ b.position = Len(t) + 1
  BY <1>3, <1>4, <1>5, <1>7, PutcIs DEF WrapTyped
<1>9. /\ Append(t, Space) = t \o <<Space>> /\ Len(Append(t, Space)) = Len(t) + 1
      /\ Append(t, Space) \in Seq(Byte)
  BY <1>5, AppendProperties, AppendIsConcat
<1>10. PICK tt \in Seq(Byte) : tt = Append(t, Space) /\ Columns(tt) = Columns(t) + 1
  BY <1>9, ColumnsAdd, OneSpace
<1>11. b.position = Len(b.text)
  BY <1>8, <1>9
<1>12. PICK s \in Seq(Byte) :
           /\ s = b.text \o word_buf /\ line_buf'.text = s /\ line_buf'.position = Len(s)
           /\ Len(s) > 0 /\ Columns(s) = Columns(b.text) + width_of_word
           /\ width_of_line' = width_of_line + 1 + width_of_word
  <2>1. Place(b, width_of_line + 1) /\ width_of_line + 1 \in Int
    BY <1>1, <1>8 DEF WrapTyped
  <2> QED
    BY <1>1, <1>2, <1>11, <2>1, PlaceIs
<1>13. PICK indent \in Nat :
          /\ indent = (IF first_line THEN 0 ELSE hanging_indent)
          /\ width_of_line + 1 + width_of_word <= width - indent
  <2>1. (IF first_line THEN 0 ELSE hanging_indent) \in Nat
    BY DEF WrapTyped
  <2> QED
    BY <1>1, <2>1 DEF fits
<1>14. width_of_line \in Int /\ width_of_word \in Int /\ width \in Nat
  BY WrapAssumption DEF WrapTyped
<1>15. Columns(s) = indent + width_of_line' /\ Columns(s) <= width
  <2>1. Columns(t) = indent + width_of_line
    BY <1>4, <1>13
  <2>2. Columns(s) = ((indent + width_of_line) + 1) + width_of_word
    BY <1>8, <1>10, <1>12, <2>1
  <2> QED
    BY <1>12, <1>13, <1>14, <2>2, SMTT(60)
<1>16. PICK n, w : Starts(t, n, w)
  BY <1>4 DEF Started
<1>17. PICK v \in Seq(Byte) : v = <<Space>> \o word_buf
  BY <1>6, ConcatProperties, OneSpace
<1>18. Len(v) > 0 /\ v[1] = Space
  <2>1. Len(v) = 1 + Len(word_buf) /\ Len(word_buf) \in Nat
    BY <1>6, <1>17, ConcatProperties, OneSpace, LenProperties
  <2>2. \A i \in 1 .. Len(<<Space>>) + Len(word_buf) :
            (<<Space>> \o word_buf)[i] = IF i <= Len(<<Space>>) THEN <<Space>>[i]
                                         ELSE word_buf[i - Len(<<Space>>)]
    BY <1>6, OneSpace, ConcatProperties
  <2>3. 1 \in 1 .. Len(<<Space>>) + Len(word_buf) /\ 1 <= Len(<<Space>>)
    BY <2>1, OneSpace
  <2>4. v[1] = <<Space>>[1]
    BY <1>17, <2>2, <2>3
  <2> QED
    BY <2>1, <2>4, OneSpace
<1>19. s = t \o v
  <2>1. s = (t \o <<Space>>) \o word_buf
    BY <1>8, <1>9, <1>12
  <2> QED
    BY <1>6, <1>17, <2>1, OneSpace, ConcatAssociative
<1>20. Starts(s, n, w)
  BY <1>16, <1>18, <1>19, StillFirst
<1>21. FirstWord(s) = FirstWord(t)
  BY <1>16, <1>20, StartIs
<1>22. Filled(Append(printed', s))
  <2>1. printed' = printed /\ printed \in Seq(Seq(Byte))
    BY <1>1 DEF WrapTyped
  <2>2. LineFilled(s)
    BY <1>15 DEF LineFilled
  <2>3. /\ Filled(printed)
        /\ Len(printed) > 0 =>
              Columns(printed[Len(printed)]) + 1 + Columns(FirstWord(t)) > width
    BY <1>4, <2>1, FilledIs
  <2>4. Filled(Append(printed, s))
    BY <1>21, <2>1, <2>2, <2>3, FilledIs
  <2> QED
    BY <2>1, <2>4
<1>23. Goes("outer") /\ UNCHANGED cp
  BY <1>1 DEF Place
<1>24. Columns(s) = (IF first_line' THEN 0 ELSE hanging_indent') + width_of_line'
  <2>1. UNCHANGED <<first_line, hanging_indent>>
    BY <1>1, <1>23 DEF Goes
  <2> QED
    BY <1>13, <1>15, <2>1
<1> QED
  BY <1>2, <1>12, <1>20, <1>22, <1>23, <1>24, LineFlows

LEMMA PlaceBelowFlows ==
    ASSUME WrapTyped, Flowing, PlaceBelow, ~lost'
    PROVE  Flowing'
<1>1. /\ pc = "place" /\ line_buf.position # 0 /\ ~fits
      /\ printed' = Append(printed, Bytes(line_buf))
      /\ Place(Indented(FALSE), 0) /\ first_line' = FALSE
  BY DEF PlaceBelow
<1>2. InText /\ InWord /\ InLine
  BY <1>1, FlowingIs
<1>3. PICK t \in Seq(Byte) : t = line_buf.text
  BY LineIs DEF WrapTyped
<1>4. /\ line_buf.position = Len(line_buf.text)
      /\ Columns(t) = (IF first_line THEN 0 ELSE hanging_indent) + width_of_line
      /\ Filled(Append(printed, t))
  BY <1>1, <1>2, <1>3 DEF InLine
<1>5. Bytes(line_buf) = t
  BY <1>3, <1>4, BytesAre DEF WrapTyped
<1>6. Solid(word_buf) /\ word_buf \in Seq(Byte) /\ width_of_word = Columns(word_buf)
  BY <1>1, <1>2, WordTyped DEF InWord
<1>7. PICK b \in Line :
          /\ b = Indented(FALSE) /\ b.position = Len(b.text) /\ Len(b.text) = hanging_indent
          /\ \A i \in 1 .. Len(b.text) : b.text[i] = Space
  <2>1. FALSE \in BOOLEAN
    OBVIOUS
  <2>2. PICK first \in BOOLEAN : first = FALSE
    BY <2>1
  <2>3. Len(Indented(first).text) = hanging_indent
    BY <2>2, IndentedIs
  <2> QED
    BY <2>2, <2>3, IndentedIs
<1>8. b.text \in Seq(Byte) /\ Columns(b.text) = hanging_indent
  BY <1>7, LineIs, ColumnsOfSpaces
<1>9. PICK s \in Seq(Byte) :
          /\ s = b.text \o word_buf /\ line_buf'.text = s /\ line_buf'.position = Len(s)
          /\ Len(s) > 0 /\ Columns(s) = Columns(b.text) + width_of_word
          /\ width_of_line' = 0 + width_of_word
  <2>1. PICK none \in Int : none = 0
    OBVIOUS
  <2>2. Place(b, none) /\ b.position = Len(b.text)
    BY <1>1, <1>7, <2>1
  <2>3. \E s \in Seq(Byte) :
            /\ s = b.text \o word_buf /\ line_buf'.text = s /\ line_buf'.position = Len(s)
            /\ Len(s) > 0 /\ Columns(s) = Columns(b.text) + width_of_word
            /\ width_of_line' = none + width_of_word
    BY <1>1, <1>2, <2>2, PlaceIs
  <2> QED
    BY <2>1, <2>3
<1>10. /\ width_of_line \in Int /\ width_of_word \in Int /\ width \in Nat
       /\ hanging_indent \in Nat
  BY WrapAssumption DEF WrapTyped
<1>11. Goes("outer") /\ UNCHANGED cp
  BY <1>1 DEF Place
<1>12. Columns(s) = (IF first_line' THEN 0 ELSE hanging_indent') + width_of_line'
  <2>1. hanging_indent' = hanging_indent /\ ~first_line'
    BY <1>1, <1>11 DEF Goes
  <2> QED
    BY <1>8, <1>9, <1>10, <2>1
<1>13. Starts(s, Len(b.text), word_buf) /\ Len(s) = Len(b.text) + Len(word_buf)
  BY <1>6, <1>7, <1>8, <1>9, FirstOfLine
<1>14. Indent(s) = Len(b.text) /\ FirstWord(s) = word_buf
  BY <1>13, StartIs
<1>15. LineFilled(s)
  <2>1. Indent(s) + Len(FirstWord(s)) = Len(s)
    BY <1>13, <1>14
  <2> QED
    BY <2>1 DEF LineFilled
<1>16. Columns(t) + 1 + Columns(word_buf) > width
  <2>1. PICK indent \in Nat :
            /\ indent = (IF first_line THEN 0 ELSE hanging_indent)
            /\ ~ (width_of_line + 1 + width_of_word <= width - indent)
    <3>1. (IF first_line THEN 0 ELSE hanging_indent) \in Nat
      BY <1>10
    <3> QED
      BY <1>1, <3>1 DEF fits
  <2>2. Columns(t) = indent + width_of_line /\ Columns(word_buf) = width_of_word
    BY <1>4, <1>6, <2>1
  <2> QED
    BY <1>10, <2>1, <2>2
<1>17. Filled(Append(printed', s))
  <2>1. PICK lines \in Seq(Seq(Byte)) : lines = Append(printed, t)
    BY AppendProperties DEF WrapTyped
  <2>2. /\ Len(lines) = Len(printed) + 1 /\ lines[Len(printed) + 1] = t
    BY <2>1, AppendProperties DEF WrapTyped
  <2>3. lines[Len(lines)] = t
    BY <2>2
  <2>4. Filled(lines)
    BY <1>4, <2>1
  <2>5. Columns(lines[Len(lines)]) + 1 + Columns(FirstWord(s)) > width
    BY <1>14, <1>16, <2>3
  <2>6. Filled(Append(lines, s))
    BY <1>15, <2>4, <2>5, FilledIs
  <2> QED
    BY <1>1, <1>5, <2>1, <2>6
<1> QED
  BY <1>2, <1>9, <1>11, <1>12, <1>13, <1>17, LineFlows

\* A text of characters only, of which nothing was lost so far.
Sound == ~Broken(text) /\ ~lost

FInv ==
    /\ pc = "message" => printed = <<>> /\ Filled(printed)
    /\ pc # "message" /\ Sound => Flowing

LEMMA WrapFlows ==
    ASSUME WrapTyped, pc # "message", Sound => Flowing, Wrap, text' = text
    PROVE  Sound' => Flowing'
<1> SUFFICES ASSUME Sound' PROVE Flowing'
  OBVIOUS
<1>1. ~Broken(text) /\ ~lost'
  BY DEF Sound, Broken, IsLetter
<1>2. ASSUME lost PROVE FALSE
  <2>1. CASE Finish \/ SkipSpace \/ EndWord \/ WriteFails
    BY <1>1, <1>2, <2>1 DEF Finish, SkipSpace, EndWord, WriteFails
  <2>2. CASE BeginWord \/ GrabMore
    BY <1>1, <1>2, <2>2 DEF BeginWord, GrabMore, Grab
  <2>3. CASE PlaceFirst \/ PlaceBehind \/ PlaceBelow
    BY <1>1, <1>2, <2>3 DEF PlaceFirst, PlaceBehind, PlaceBelow, Place
  <2> QED
    BY <2>1, <2>2, <2>3 DEF Wrap
<1>3. Flowing
  BY <1>1, <1>2 DEF Sound
<1>4. CASE Finish
  <2>1. /\ pc = "outer" /\ pc' = "returned" /\ width' = width
        /\ IF line_buf.position # 0 THEN Emits ELSE printed' = printed
    BY <1>4 DEF Finish, Goes
  <2>2. InLine
    BY <1>3, <2>1, FlowingIs
  <2>3. PICK lines : lines = printed'
    OBVIOUS
  <2>4. Filled(lines)
    <3>1. CASE printed' = printed
      BY <2>2, <2>3, <3>1, SoFarFilled
    <3>2. CASE line_buf.position # 0 /\ printed' = Append(printed, Bytes(line_buf))
      <4>1. Bytes(line_buf) = line_buf.text
        BY <2>2, BytesAre DEF InLine, WrapTyped
      <4> QED
        BY <2>2, <2>3, <3>2, <4>1 DEF InLine
    <3> QED
      BY <2>1, <3>1, <3>2 DEF Emits
  <2>5. Filled(lines)'
    BY <2>1, <2>4, FilledKept
  <2>6. Filled(printed)'
    BY <2>3, <2>5 DEF Filled
  <2> QED
    BY <2>1, <2>6 DEF Flowing
<1>5. CASE SkipSpace
  <2>1. /\ pc = "outer" /\ AtSpace /\ cp' = cp + 1 /\ Goes("outer")
        /\ UNCHANGED <<line_buf, width_of_line, first_line, printed>>
    BY <1>5 DEF SkipSpace
  <2>2. InLine
    BY <1>3, <2>1, FlowingIs
  <2>3. UNCHANGED <<text, width, hanging_indent>> /\ pc' = "outer"
    BY <2>1 DEF Goes
  <2>4. InLine'
    BY <2>1, <2>2, <2>3, SameLine
  <2>5. InText'
    <3>1. cp' - 1 = cp /\ text[cp] = Space
      BY <2>1 DEF WrapTyped, AtSpace
    <3>2. ~IsLetter(text, cp)
      BY <3>1, WrapAssumption DEF IsLetter
    <3>3. ~IsLetter(text', cp' - 1)
      BY <2>3, <3>1, <3>2
    <3> QED
      BY <3>3 DEF InText
  <2>6. InWord'
    BY <2>3 DEF InWord
  <2> QED
    BY <2>3, <2>4, <2>5, <2>6 DEF Flowing
<1>6. CASE BeginWord
  <2>1. pc = "outer" /\ ~AtEnd /\ ~AtSpace /\ Grab(<<>>, 0)
    BY <1>6 DEF BeginWord
  <2>2. PICK w \in Word, none \in Int : w = <<>> /\ none = 0
    BY EmptyTyped
  <2>3. none = Columns(w)
    BY <2>2, ColumnsOfNone
  <2>4. Grab(w, none)
    BY <2>1, <2>2
  <2> QED
    BY <1>1, <1>3, <2>1, <2>2, <2>3, <2>4, GrabFlows
<1>7. CASE GrabMore
  <2>1. pc = "word" /\ ~AtEnd /\ ~AtSpace /\ Grab(word_buf, width_of_word)
    BY <1>7 DEF GrabMore
  <2>2. InWord
    BY <1>3, <2>1, FlowingIs
  <2>3. Solid(word_buf) /\ width_of_word = Columns(word_buf)
    BY <2>1, <2>2 DEF InWord
  <2>4. word_buf \in Word /\ width_of_word \in Int
    BY DEF WrapTyped
  <2> QED
    BY <1>1, <1>3, <2>1, <2>3, <2>4, GrabFlows
<1>8. CASE EndWord
  <2>1. /\ pc = "word" /\ pc' = "place"
        /\ UNCHANGED <<text, width, hanging_indent, cp, line_buf, word_buf, width_of_line,
                       width_of_word, first_line, printed>>
    BY <1>8 DEF EndWord, Goes
  <2>2. InText /\ InWord /\ InLine
    BY <1>3, <2>1, FlowingIs
  <2>3. InLine'
    BY <2>1, <2>2, SameLine
  <2>4. InText'
    BY <2>1, <2>2 DEF InText
  <2>5. InWord'
    BY <2>1, <2>2 DEF InWord
  <2> QED
    BY <2>1, <2>3, <2>4, <2>5 DEF Flowing
<1>9. CASE WriteFails
  <2>1. pc = "place" /\ pc' = "returned" /\ UNCHANGED <<width, printed>>
    BY <1>9 DEF WriteFails, Goes
  <2>2. Filled(printed)
    BY <1>3, <2>1, FlowingIs, SoFarFilled
  <2>3. Filled(printed)'
    BY <2>1, <2>2 DEF Filled, LineFilled
  <2> QED
    BY <2>1, <2>3 DEF Flowing
<1>10. CASE PlaceFirst
  BY <1>1, <1>3, <1>10, PlaceFirstFlows
<1>11. CASE PlaceBehind
  BY <1>1, <1>3, <1>11, PlaceBehindFlows
<1>12. CASE PlaceBelow
  BY <1>1, <1>3, <1>12, PlaceBelowFlows
<1> QED
  BY <1>4, <1>5, <1>6, <1>7, <1>8, <1>9, <1>10, <1>11, <1>12 DEF Wrap

LEMMA FInvInit == Init => FInv
<1>1. Init => pc = "message" /\ printed = <<>>
  BY DEF Init, InitWrap
<1>2. printed = <<>> => Filled(printed)
  BY FilledNone
<1> QED
  BY <1>1, <1>2 DEF FInv

LEMMA FInvNext == TInv /\ FInv /\ [Next]_vars => FInv'
<1> SUFFICES ASSUME TInv, FInv, [Next]_vars PROVE FInv'
  OBVIOUS
<1>1. WrapTyped
  BY DEF TInv
<1>2. CASE MakeMessage
  <2>1. pc = "message" /\ StartWrap(result')
    BY <1>2 DEF MakeMessage
  <2>2. /\ pc' = "outer" /\ printed' = printed /\ cp' = 1 /\ line_buf' = EmptyLine
        /\ width_of_line' = 0 /\ first_line' = TRUE
    BY <2>1 DEF StartWrap
  <2>3. printed' = <<>>
    BY <2>1, <2>2 DEF FInv
  <2>4. InText'
    <3>1. cp' - 1 = 0
      BY <2>2
    <3>2. ~IsLetter(text', 0)
      BY DEF IsLetter
    <3> QED
      BY <3>1, <3>2 DEF InText
  <2>5. InWord'
    BY <2>2 DEF InWord
  <2>6. InLine'
    <3>1. line_buf'.position = 0 /\ line_buf'.text = <<>> /\ Len(<<>>) = 0
      BY <2>2, EmptySeq DEF EmptyLine
    <3> QED
      BY <2>2, <2>3, <3>1 DEF InLine
  <2>7. Flowing'
    BY <2>2, <2>4, <2>5, <2>6 DEF Flowing
  <2> QED
    BY <2>2, <2>7 DEF FInv
<1>3. CASE PrintMessage
  <2>1. Wrap /\ UNCHANGED <<result, maximum>>
    BY <1>3 DEF PrintMessage, inputs
  <2>2. text' = text /\ pc' # "message" /\ pc # "message"
    BY <1>1, <2>1, WrapKeepsTypes
  <2>3. Sound' => Flowing'
    BY <1>1, <2>1, <2>2, WrapFlows DEF FInv
  <2> QED
    BY <2>2, <2>3 DEF FInv
<1>4. CASE Returned \/ UNCHANGED vars
  <2>1. UNCHANGED wrapVars
    BY <1>4 DEF Returned, vars
  <2>2. UNCHANGED <<text, cp, width, hanging_indent, line_buf, word_buf, width_of_line,
                    width_of_word, first_line, pc, printed, lost>>
    BY <2>1 DEF wrapVars
  <2>3. Filled(printed)' <=> Filled(printed)
    BY <2>2 DEF Filled, LineFilled
  <2>4. Sound' <=> Sound
    BY <2>2 DEF Sound, Broken, IsLetter
  <2>5. Flowing => Flowing'
    <3>1. InText' <=> InText
      BY <2>2 DEF InText
    <3>2. InWord' <=> InWord
      BY <2>2 DEF InWord
    <3>3. InLine => InLine'
      BY <2>2, SameLine
    <3> QED
      BY <2>2, <2>3, <3>1, <3>2, <3>3 DEF Flowing
  <2> QED
    BY <2>2, <2>3, <2>4, <2>5 DEF FInv
<1> QED
  BY <1>2, <1>3, <1>4 DEF Next

(* No line is wider than the terminal, but for a single word that is, and   *)
(* none ends before the next word would not have fitted; for every text of  *)
(* characters, every width and every hanging indent                         *)
(* (wrap_and_print.c:152-178).                                              *)
THEOREM LinesFilledAlways == Spec => []LinesFilled
<1>1. TInv /\ FInv => LinesFilled
  <2> SUFFICES ASSUME TInv, FInv, Sound PROVE Filled(printed)
    BY DEF LinesFilled, Filled, LineFilled, Sound
  <2>1. WrapTyped
    BY DEF TInv
  <2>2. CASE pc = "message" \/ pc = "returned"
    BY <2>2 DEF FInv, Flowing
  <2>3. CASE pc # "message" /\ pc # "returned"
    BY <2>1, <2>3, SoFarFilled DEF FInv, Flowing
  <2> QED
    BY <2>2, <2>3
<1>2. Spec => []FInv
  BY FInvInit, FInvNext, TInvAlways, PTL DEF Spec
<1> QED
  BY <1>1, <1>2, TInvAlways, PTL

-----------------------------------------------------------------------------
(* The letters and the words of a text, and lines as one text, along it.    *)

\* A function along a list goes on along a longer one.
LEMMA GoesOn ==
    ASSUME NEW N \in Nat, NEW T, NEW start \in T,
           NEW less \in [1 .. N -> [T -> T]], NEW more \in [1 .. N + 1 -> [T -> T]],
           \A i \in 1 .. N : less[i] = more[i],
           NEW f, Recurs(f, N, T, start, less), NEW g, Recurs(g, N + 1, T, start, more)
    PROVE  g[N + 1] = more[N + 1][f[N]] /\ f[N] \in T
<1>1. /\ f \in [0 .. N -> T] /\ f[0] = start
      /\ \A i \in 1 .. N : f[i] = less[i][f[i - 1]]
  BY DEF Recurs
<1>2. /\ g \in [0 .. N + 1 -> T] /\ g[0] = start
      /\ \A i \in 1 .. N + 1 : g[i] = more[i][g[i - 1]]
  BY DEF Recurs
<1> DEFINE S == {i \in Nat : i <= N => f[i] = g[i]}
<1>3. 0 \in S
  BY <1>1, <1>2
<1>4. ASSUME NEW n \in Nat, n \in S PROVE n + 1 \in S
  <2> SUFFICES ASSUME n + 1 <= N PROVE f[n + 1] = g[n + 1]
    OBVIOUS
  <2>1. n + 1 \in 1 .. N /\ n + 1 \in 1 .. N + 1 /\ (n + 1) - 1 = n /\ f[n] = g[n]
    BY <1>4
  <2>2. f[n + 1] = less[n + 1][f[n]] /\ g[n + 1] = more[n + 1][g[n]]
    BY <1>1, <1>2, <2>1
  <2> QED
    BY <2>1, <2>2
<1>5. \A n \in Nat : n \in S
  <2> HIDE DEF S
  <2> QED
    BY <1>3, <1>4, Induction
<1>6. f[N] = g[N]
  BY <1>5
<1>7. N + 1 \in 1 .. N + 1 /\ (N + 1) - 1 = N
  OBVIOUS
<1>8. g[N + 1] = more[N + 1][g[N]]
  BY <1>2, <1>7
<1>9. f[N] \in T
  BY <1>1
<1> QED
  BY <1>6, <1>8, <1>9

\* The functions that the recursions of Letters, Words and OneText define.
LetteredAlong(f, s) ==
    f = [i \in 0 .. Len(s) |-> IF i = 0 THEN <<>> ELSE Lettered(f[i - 1], s[i])]

WordedAlong(f, s) ==
    f = [i \in 0 .. Len(s) |-> IF i = 0 THEN <<>> ELSE Worded(f[i - 1], s, i)]

JoinedAlong(f, lines) ==
    f = [i \in 0 .. Len(lines) |->
            IF i = 0 THEN <<>> ELSE f[i - 1] \o <<Space>> \o lines[i]]

\* The steps of the three, as functions of what was made before.
LetterSteps(s, T) == [i \in 1 .. Len(s) |-> [x \in T |-> Lettered(x, s[i])]]
WordSteps(s, T)   == [i \in 1 .. Len(s) |-> [x \in T |-> Worded(x, s, i)]]
LineSteps(s, T)   == [i \in 1 .. Len(s) |-> [x \in T |-> x \o <<Space>> \o s[i]]]

LEMMA SpaceIsByte == Space \in Byte /\ <<Space>> \in Seq(Byte) /\ <<>> \in Seq(Byte)
BY OneSpace, EmptySeq DEF Byte

LEMMA LetterStepsAre ==
    ASSUME NEW s \in Seq(Byte)
    PROVE  LetterSteps(s, Seq(Byte)) \in [1 .. Len(s) -> [Seq(Byte) -> Seq(Byte)]]
<1>1. ASSUME NEW i \in 1 .. Len(s), NEW x \in Seq(Byte)
      PROVE  Lettered(x, s[i]) \in Seq(Byte)
  <2>1. PICK c \in Byte : c = s[i]
    BY ElementOfSeq
  <2>2. Append(x, c) \in Seq(Byte)
    BY AppendProperties
  <2> QED
    BY <2>1, <2>2 DEF Lettered
<1> QED
  BY <1>1 DEF LetterSteps

LEMMA WordStepsAre ==
    ASSUME NEW s \in Seq(Byte)
    PROVE  WordSteps(s, Seq(Byte)) \in [1 .. Len(s) -> [Seq(Byte) -> Seq(Byte)]]
<1>1. ASSUME NEW i \in 1 .. Len(s), NEW x \in Seq(Byte)
      PROVE  Worded(x, s, i) \in Seq(Byte)
  <2>1. PICK c \in Byte : c = s[i]
    BY ElementOfSeq
  <2>2. Append(x, c) \in Seq(Byte)
    BY AppendProperties
  <2>3. PICK two : two = <<Space, c>>
    OBVIOUS
  <2>4. two \in Seq(Byte)
    BY <2>3, SpaceIsByte
  <2>5. x \o two \in Seq(Byte)
    BY <2>4, ConcatProperties
  <2> QED
    BY <2>1, <2>2, <2>3, <2>5 DEF Worded
<1> QED
  BY <1>1 DEF WordSteps

LEMMA LineStepsAre ==
    ASSUME NEW s \in Seq(Seq(Byte))
    PROVE  LineSteps(s, Seq(Byte)) \in [1 .. Len(s) -> [Seq(Byte) -> Seq(Byte)]]
<1>1. ASSUME NEW i \in 1 .. Len(s), NEW x \in Seq(Byte)
      PROVE  x \o <<Space>> \o s[i] \in Seq(Byte)
  <2>1. PICK l \in Seq(Byte) : l = s[i]
    BY ElementOfSeq
  <2>2. PICK b \in Seq(Byte) : b = <<Space>>
    BY SpaceIsByte
  <2>3. x \o b \in Seq(Byte)
    BY ConcatProperties
  <2>4. (x \o b) \o l \in Seq(Byte)
    BY <2>3, ConcatProperties
  <2> QED
    BY <2>1, <2>2, <2>4
<1> QED
  BY <1>1 DEF LineSteps

\* The start and the set of a recursion that makes texts.
LEMMA TextRecursion ==
    ASSUME NEW N \in Nat, NEW step \in [1 .. N -> [Seq(Byte) -> Seq(Byte)]]
    PROVE  \E f : Recurs(f, N, Seq(Byte), <<>>, step)
<1>1. PICK T, start : T = Seq(Byte) /\ start = <<>>
  OBVIOUS
<1>2. start \in T /\ step \in [1 .. N -> [T -> T]]
  BY <1>1, EmptySeq
<1>3. \E f : Recurs(f, N, T, start, step)
  BY <1>2, Recursion
<1> QED
  BY <1>1, <1>3

LEMMA LettersRecur ==
    ASSUME NEW s \in Seq(Byte)
    PROVE  \E f : /\ Letters(s) = f[Len(s)]
                  /\ Recurs(f, Len(s), Seq(Byte), <<>>, LetterSteps(s, Seq(Byte)))
<1> DEFINE f == CHOOSE g : LetteredAlong(g, s)
<1>1. Letters(s) = f[Len(s)]
  BY DEF Letters, LetteredAlong
<1>2. PICK N \in Nat : N = Len(s)
  BY LenProperties
<1>3. PICK step : step = LetterSteps(s, Seq(Byte))
  OBVIOUS
<1>4. step \in [1 .. N -> [Seq(Byte) -> Seq(Byte)]]
  BY <1>2, <1>3, LetterStepsAre
<1>5. PICK g : Recurs(g, N, Seq(Byte), <<>>, step)
  BY <1>4, TextRecursion
<1>6. /\ g \in [0 .. N -> Seq(Byte)] /\ g[0] = <<>>
      /\ \A i \in 1 .. N : g[i] = step[i][g[i - 1]]
  BY <1>5 DEF Recurs
<1>7. \A i \in 1 .. N : \A x \in Seq(Byte) : step[i][x] = Lettered(x, s[i])
  BY <1>2, <1>3 DEF LetterSteps
<1>8. \A i \in 0 .. N : g[i] = IF i = 0 THEN <<>> ELSE Lettered(g[i - 1], s[i])
  <2> SUFFICES ASSUME NEW i \in 0 .. N, i # 0
               PROVE  g[i] = Lettered(g[i - 1], s[i])
    BY <1>6
  <2>1. i \in 1 .. N /\ i - 1 \in 0 .. N
    OBVIOUS
  <2>2. PICK x \in Seq(Byte) : x = g[i - 1]
    BY <1>6, <2>1
  <2>3. g[i] = step[i][x] /\ step[i][x] = Lettered(x, s[i])
    BY <1>6, <1>7, <2>1, <2>2
  <2> QED
    BY <2>2, <2>3
<1>9. LetteredAlong(g, s)
  BY <1>2, <1>6, <1>8 DEF LetteredAlong
<1>10. LetteredAlong(f, s)
  BY <1>9
<1> HIDE DEF f
<1>11. PICK h : h = f
  OBVIOUS
<1>12. h = [i \in 0 .. N |-> IF i = 0 THEN <<>> ELSE Lettered(h[i - 1], s[i])]
  BY <1>2, <1>10, <1>11 DEF LetteredAlong
<1> DEFINE S == {i \in Nat : i <= N => h[i] = g[i]}
<1>13. 0 \in S
  BY <1>6, <1>12
<1>14. ASSUME NEW n \in Nat, n \in S PROVE n + 1 \in S
  <2> SUFFICES ASSUME n + 1 <= N PROVE h[n + 1] = g[n + 1]
    OBVIOUS
  <2>1. n + 1 \in 0 .. N /\ n + 1 # 0 /\ (n + 1) - 1 = n /\ h[n] = g[n]
    BY <1>14
  <2>2. PICK i : i = n + 1 /\ i \in 0 .. N /\ i # 0 /\ h[i - 1] = g[i - 1]
    BY <2>1
  <2>3. h[i] = Lettered(h[i - 1], s[i]) /\ g[i] = Lettered(g[i - 1], s[i])
    BY <1>8, <1>12, <2>2
  <2> QED
    BY <2>2, <2>3
<1>15. \A n \in Nat : n \in S
  <2> HIDE DEF S
  <2> QED
    BY <1>13, <1>14, Induction
<1>16. h[N] = g[N]
  BY <1>15
<1> QED
  BY <1>1, <1>2, <1>3, <1>5, <1>11, <1>16

LEMMA WordsRecur ==
    ASSUME NEW s \in Seq(Byte)
    PROVE  \E f : /\ Words(s) = f[Len(s)]
                  /\ Recurs(f, Len(s), Seq(Byte), <<>>, WordSteps(s, Seq(Byte)))
<1> DEFINE f == CHOOSE g : WordedAlong(g, s)
<1>1. Words(s) = f[Len(s)]
  BY DEF Words, WordedAlong
<1>2. PICK N \in Nat : N = Len(s)
  BY LenProperties
<1>3. PICK step : step = WordSteps(s, Seq(Byte))
  OBVIOUS
<1>4. step \in [1 .. N -> [Seq(Byte) -> Seq(Byte)]]
  BY <1>2, <1>3, WordStepsAre
<1>5. PICK g : Recurs(g, N, Seq(Byte), <<>>, step)
  BY <1>4, TextRecursion
<1>6. /\ g \in [0 .. N -> Seq(Byte)] /\ g[0] = <<>>
      /\ \A i \in 1 .. N : g[i] = step[i][g[i - 1]]
  BY <1>5 DEF Recurs
<1>7. \A i \in 1 .. N : \A x \in Seq(Byte) : step[i][x] = Worded(x, s, i)
  BY <1>2, <1>3 DEF WordSteps
<1>8. \A i \in 0 .. N : g[i] = IF i = 0 THEN <<>> ELSE Worded(g[i - 1], s, i)
  <2> SUFFICES ASSUME NEW i \in 0 .. N, i # 0
               PROVE  g[i] = Worded(g[i - 1], s, i)
    BY <1>6
  <2>1. i \in 1 .. N /\ i - 1 \in 0 .. N
    OBVIOUS
  <2>2. PICK x \in Seq(Byte) : x = g[i - 1]
    BY <1>6, <2>1
  <2>3. g[i] = step[i][x] /\ step[i][x] = Worded(x, s, i)
    BY <1>6, <1>7, <2>1, <2>2
  <2> QED
    BY <2>2, <2>3
<1>9. WordedAlong(g, s)
  BY <1>2, <1>6, <1>8 DEF WordedAlong
<1>10. WordedAlong(f, s)
  BY <1>9
<1> HIDE DEF f
<1>11. PICK h : h = f
  OBVIOUS
<1>12. h = [i \in 0 .. N |-> IF i = 0 THEN <<>> ELSE Worded(h[i - 1], s, i)]
  BY <1>2, <1>10, <1>11 DEF WordedAlong
<1> DEFINE S == {i \in Nat : i <= N => h[i] = g[i]}
<1>13. 0 \in S
  BY <1>6, <1>12
<1>14. ASSUME NEW n \in Nat, n \in S PROVE n + 1 \in S
  <2> SUFFICES ASSUME n + 1 <= N PROVE h[n + 1] = g[n + 1]
    OBVIOUS
  <2>1. n + 1 \in 0 .. N /\ n + 1 # 0 /\ (n + 1) - 1 = n /\ h[n] = g[n]
    BY <1>14
  <2>2. PICK i : i = n + 1 /\ i \in 0 .. N /\ i # 0 /\ h[i - 1] = g[i - 1]
    BY <2>1
  <2>3. h[i] = Worded(h[i - 1], s, i) /\ g[i] = Worded(g[i - 1], s, i)
    BY <1>8, <1>12, <2>2
  <2> QED
    BY <2>2, <2>3
<1>15. \A n \in Nat : n \in S
  <2> HIDE DEF S
  <2> QED
    BY <1>13, <1>14, Induction
<1>16. h[N] = g[N]
  BY <1>15
<1> QED
  BY <1>1, <1>2, <1>3, <1>5, <1>11, <1>16

LEMMA OneTextRecurs ==
    ASSUME NEW s \in Seq(Seq(Byte))
    PROVE  \E f : /\ OneText(s) = f[Len(s)]
                  /\ Recurs(f, Len(s), Seq(Byte), <<>>, LineSteps(s, Seq(Byte)))
<1> DEFINE f == CHOOSE g : JoinedAlong(g, s)
<1>1. OneText(s) = f[Len(s)]
  BY DEF OneText, JoinedAlong
<1>2. PICK N \in Nat : N = Len(s)
  BY LenProperties
<1>3. PICK step : step = LineSteps(s, Seq(Byte))
  OBVIOUS
<1>4. step \in [1 .. N -> [Seq(Byte) -> Seq(Byte)]]
  BY <1>2, <1>3, LineStepsAre
<1>5. PICK g : Recurs(g, N, Seq(Byte), <<>>, step)
  BY <1>4, TextRecursion
<1>6. /\ g \in [0 .. N -> Seq(Byte)] /\ g[0] = <<>>
      /\ \A i \in 1 .. N : g[i] = step[i][g[i - 1]]
  BY <1>5 DEF Recurs
<1>7. \A i \in 1 .. N : \A x \in Seq(Byte) : step[i][x] = x \o <<Space>> \o s[i]
  BY <1>2, <1>3 DEF LineSteps
<1>8. \A i \in 0 .. N : g[i] = IF i = 0 THEN <<>> ELSE g[i - 1] \o <<Space>> \o s[i]
  <2> SUFFICES ASSUME NEW i \in 0 .. N, i # 0
               PROVE  g[i] = g[i - 1] \o <<Space>> \o s[i]
    BY <1>6
  <2>1. i \in 1 .. N /\ i - 1 \in 0 .. N
    OBVIOUS
  <2>2. PICK x \in Seq(Byte) : x = g[i - 1]
    BY <1>6, <2>1
  <2>3. g[i] = step[i][x] /\ step[i][x] = x \o <<Space>> \o s[i]
    BY <1>6, <1>7, <2>1, <2>2
  <2> QED
    BY <2>2, <2>3
<1>9. JoinedAlong(g, s)
  BY <1>2, <1>6, <1>8 DEF JoinedAlong
<1>10. JoinedAlong(f, s)
  BY <1>9
<1> HIDE DEF f
<1>11. PICK h : h = f
  OBVIOUS
<1>12. h = [i \in 0 .. N |-> IF i = 0 THEN <<>> ELSE h[i - 1] \o <<Space>> \o s[i]]
  BY <1>2, <1>10, <1>11 DEF JoinedAlong
<1> DEFINE S == {i \in Nat : i <= N => h[i] = g[i]}
<1>13. 0 \in S
  BY <1>6, <1>12
<1>14. ASSUME NEW n \in Nat, n \in S PROVE n + 1 \in S
  <2> SUFFICES ASSUME n + 1 <= N PROVE h[n + 1] = g[n + 1]
    OBVIOUS
  <2>1. n + 1 \in 0 .. N /\ n + 1 # 0 /\ (n + 1) - 1 = n /\ h[n] = g[n]
    BY <1>14
  <2>2. PICK i : i = n + 1 /\ i \in 0 .. N /\ i # 0 /\ h[i - 1] = g[i - 1]
    BY <2>1
  <2>3. h[i] = h[i - 1] \o <<Space>> \o s[i] /\ g[i] = g[i - 1] \o <<Space>> \o s[i]
    BY <1>8, <1>12, <2>2
  <2> QED
    BY <2>2, <2>3
<1>15. \A n \in Nat : n \in S
  <2> HIDE DEF S
  <2> QED
    BY <1>13, <1>14, Induction
<1>16. h[N] = g[N]
  BY <1>15
<1> QED
  BY <1>1, <1>2, <1>3, <1>5, <1>11, <1>16

LEMMA LongerIs ==
    ASSUME NEW T, NEW s \in Seq(T), NEW c \in T, NEW t, t = Append(s, c)
    PROVE  /\ t \in Seq(T) /\ Len(t) = Len(s) + 1 /\ t[Len(s) + 1] = c
           /\ \A i \in 1 .. Len(s) : t[i] = s[i]
BY AppendProperties

LEMMA NothingYet == Letters(<<>>) = <<>> /\ Words(<<>>) = <<>> /\ OneText(<<>>) = <<>>
<1>1. PICK s, lines : s = <<>> /\ lines = <<>> /\ Len(s) = 0
  OBVIOUS
<1>2. s \in Seq(Byte) /\ lines \in Seq(Seq(Byte)) /\ Len(lines) = 0
  BY <1>1, EmptySeq
<1>3. Letters(s) = <<>>
  BY <1>1, <1>2, LettersRecur DEF Recurs
<1>4. Words(s) = <<>>
  BY <1>1, <1>2, WordsRecur DEF Recurs
<1>5. OneText(lines) = <<>>
  BY <1>2, OneTextRecurs DEF Recurs
<1> QED
  BY <1>1, <1>3, <1>4, <1>5

LEMMA LettersMore ==
    ASSUME NEW s \in Seq(Byte), NEW c \in Byte
    PROVE  Letters(Append(s, c)) = Lettered(Letters(s), c) /\ Letters(s) \in Seq(Byte)
<1>0. PICK t : t = Append(s, c)
  OBVIOUS
<1>1. /\ t \in Seq(Byte) /\ t = Append(s, c)
      /\ Len(t) = Len(s) + 1 /\ t[Len(s) + 1] = c
      /\ \A i \in 1 .. Len(s) : t[i] = s[i]
  BY <1>0, LongerIs
<1>2. PICK N \in Nat : N = Len(s)
  BY LenProperties
<1>3. PICK less, more : less = LetterSteps(s, Seq(Byte)) /\ more = LetterSteps(t, Seq(Byte))
  OBVIOUS
<1>4. /\ less \in [1 .. N -> [Seq(Byte) -> Seq(Byte)]]
      /\ more \in [1 .. N + 1 -> [Seq(Byte) -> Seq(Byte)]]
  BY <1>1, <1>2, <1>3, LetterStepsAre
<1>5. PICK f : Letters(s) = f[N] /\ Recurs(f, N, Seq(Byte), <<>>, less)
  BY <1>2, <1>3, LettersRecur
<1>6. PICK g : Letters(t) = g[N + 1] /\ Recurs(g, N + 1, Seq(Byte), <<>>, more)
  BY <1>1, <1>2, <1>3, LettersRecur
<1>7. \A i \in 1 .. N : less[i] = more[i]
  <2> SUFFICES ASSUME NEW i \in 1 .. N PROVE less[i] = more[i]
    OBVIOUS
  <2>1. t[i] = s[i] /\ i \in 1 .. Len(s) /\ i \in 1 .. Len(t)
    BY <1>1, <1>2
  <2> QED
    BY <1>3, <2>1 DEF LetterSteps
<1>8. g[N + 1] = more[N + 1][f[N]] /\ f[N] \in Seq(Byte)
  <2>1. PICK T, start : T = Seq(Byte) /\ start = <<>>
    OBVIOUS
  <2>2. start \in T
    BY <2>1, EmptySeq
  <2>3. /\ less \in [1 .. N -> [T -> T]] /\ more \in [1 .. N + 1 -> [T -> T]]
        /\ Recurs(f, N, T, start, less) /\ Recurs(g, N + 1, T, start, more)
    BY <1>4, <1>5, <1>6, <2>1
  <2>4. g[N + 1] = more[N + 1][f[N]] /\ f[N] \in T
    BY <1>7, <2>2, <2>3, GoesOn
  <2> QED
    BY <2>1, <2>4
<1>9. PICK x \in Seq(Byte) : x = f[N]
  BY <1>8
<1>10. N + 1 \in 1 .. Len(t)
  BY <1>1, <1>2
<1>11. more[N + 1][x] = Lettered(x, t[N + 1])
  BY <1>3, <1>10 DEF LetterSteps
<1> QED
  BY <1>1, <1>2, <1>5, <1>6, <1>8, <1>9, <1>11

\* The last of a text that has one is a space.
Blank(s) == s # <<>> /\ s[Len(s)] = Space

LEMMA WordsMore ==
    ASSUME NEW s \in Seq(Byte), NEW c \in Byte
    PROVE  /\ Words(Append(s, c)) = IF c = Space THEN Words(s)
                                    ELSE IF Words(s) # <<>> /\ Blank(s)
                                         THEN Words(s) \o <<Space, c>>
                                         ELSE Append(Words(s), c)
           /\ Words(s) \in Seq(Byte)
           /\ Words(s) # <<>> => s # <<>>
           /\ Blank(Append(s, c)) <=> c = Space
<1>0. PICK t : t = Append(s, c)
  OBVIOUS
<1>1. /\ t \in Seq(Byte) /\ t = Append(s, c)
      /\ Len(t) = Len(s) + 1 /\ t[Len(s) + 1] = c
      /\ \A i \in 1 .. Len(s) : t[i] = s[i]
  BY <1>0, LongerIs
<1>2. PICK N \in Nat : N = Len(s)
  BY LenProperties
<1>3. PICK less, more : less = WordSteps(s, Seq(Byte)) /\ more = WordSteps(t, Seq(Byte))
  OBVIOUS
<1>4. /\ less \in [1 .. N -> [Seq(Byte) -> Seq(Byte)]]
      /\ more \in [1 .. N + 1 -> [Seq(Byte) -> Seq(Byte)]]
  BY <1>1, <1>2, <1>3, WordStepsAre
<1>5. PICK f : Words(s) = f[N] /\ Recurs(f, N, Seq(Byte), <<>>, less)
  BY <1>2, <1>3, WordsRecur
<1>6. PICK g : Words(t) = g[N + 1] /\ Recurs(g, N + 1, Seq(Byte), <<>>, more)
  BY <1>1, <1>2, <1>3, WordsRecur
<1>t. <<>> \in Seq(Byte)
  BY EmptySeq
<1>n. s = <<>> => Words(s) = <<>>
  BY NothingYet
<1> USE <1>t
<1>7. \A i \in 2 .. N : less[i] = more[i]
  <2> SUFFICES ASSUME NEW i \in 2 .. N PROVE less[i] = more[i]
    OBVIOUS
  <2>1. /\ t[i] = s[i] /\ t[i - 1] = s[i - 1] /\ i \in 1 .. Len(s) /\ i \in 1 .. Len(t)
    <3>1. i \in 1 .. N /\ i - 1 \in 1 .. N
      OBVIOUS
    <3> QED
      BY <1>1, <1>2, <3>1
  <2>2. \A x : Worded(x, s, i) = Worded(x, t, i)
    BY <2>1 DEF Worded
  <2> QED
    BY <1>3, <2>1, <2>2 DEF WordSteps
<1>8. N # 0 => less[1][<<>>] = more[1][<<>>]
  <2> SUFFICES ASSUME N # 0 PROVE less[1][<<>>] = more[1][<<>>]
    OBVIOUS
  <2>1. 1 \in 1 .. Len(s) /\ 1 \in 1 .. Len(t) /\ t[1] = s[1]
    BY <1>1, <1>2
  <2>2. Worded(<<>>, s, 1) = Worded(<<>>, t, 1)
    BY <2>1 DEF Worded
  <2> QED
    BY <1>3, <2>1, <2>2 DEF WordSteps
<1>9. g[N + 1] = more[N + 1][f[N]] /\ f[N] \in Seq(Byte)
  <2>1. /\ f \in [0 .. N -> Seq(Byte)] /\ f[0] = <<>>
        /\ \A i \in 1 .. N : f[i] = less[i][f[i - 1]]
    BY <1>5 DEF Recurs
  <2>2. /\ g \in [0 .. N + 1 -> Seq(Byte)] /\ g[0] = <<>>
        /\ \A i \in 1 .. N + 1 : g[i] = more[i][g[i - 1]]
    BY <1>6 DEF Recurs
  <2> DEFINE S == {i \in Nat : i <= N => f[i] = g[i]}
  <2>3. 0 \in S
    BY <2>1, <2>2
  <2>4. ASSUME NEW n \in Nat, n \in S PROVE n + 1 \in S
    <3> SUFFICES ASSUME n + 1 <= N PROVE f[n + 1] = g[n + 1]
      OBVIOUS
    <3>1. n + 1 \in 1 .. N /\ n + 1 \in 1 .. N + 1 /\ (n + 1) - 1 = n /\ f[n] = g[n]
      BY <2>4
    <3>2. f[n + 1] = less[n + 1][f[n]] /\ g[n + 1] = more[n + 1][g[n]]
      BY <2>1, <2>2, <3>1
    <3>3. CASE n = 0
      <4>1. n + 1 = 1 /\ N # 0 /\ f[n] = <<>> /\ g[n] = <<>>
        BY <2>1, <2>2, <3>3
      <4> QED
        BY <1>8, <3>2, <4>1
    <3>4. CASE n # 0
      <4>1. n + 1 \in 2 .. N
        BY <3>4
      <4> QED
        BY <1>7, <3>1, <3>2, <4>1
    <3> QED
      BY <3>3, <3>4
  <2>5. \A n \in Nat : n \in S
    <3> HIDE DEF S
    <3> QED
      BY <2>3, <2>4, Induction
  <2>6. f[N] = g[N] /\ N + 1 \in 1 .. N + 1 /\ (N + 1) - 1 = N
    BY <2>5
  <2>7. g[N + 1] = more[N + 1][g[N]]
    BY <2>2, <2>6
  <2>8. f[N] \in Seq(Byte)
    BY <2>1
  <2> QED
    BY <2>6, <2>7, <2>8
<1>10. PICK x \in Seq(Byte) : x = f[N]
  BY <1>9
<1>11. N + 1 \in 1 .. Len(t) /\ (N + 1) - 1 = N
  BY <1>1, <1>2
<1>12. more[N + 1][x] = Worded(x, t, N + 1)
  BY <1>3, <1>11 DEF WordSteps
<1>13. x # <<>> => s # <<>> /\ N # 0
  <2>1. s # <<>> => N # 0
    BY <1>2, EmptySeq
  <2> QED
    BY <1>2, <1>5, <1>10, <1>n, <2>1
<1>14. x # <<>> => (t[N] = Space <=> Blank(s))
  <2>1. x # <<>> => N \in 1 .. Len(s)
    BY <1>2, <1>13
  <2> QED
    BY <1>1, <1>2, <1>13, <2>1 DEF Blank
<1>15. Worded(x, t, N + 1) = IF c = Space THEN x
                             ELSE IF x # <<>> /\ Blank(s) THEN x \o <<Space, c>>
                             ELSE Append(x, c)
  BY <1>1, <1>2, <1>11, <1>14 DEF Worded
<1>16. Blank(t) <=> c = Space
  <2>1. t # <<>>
    BY <1>1, <1>2, EmptySeq
  <2> QED
    BY <1>1, <2>1 DEF Blank
<1> QED
  BY <1>1, <1>2, <1>5, <1>6, <1>9, <1>10, <1>12, <1>13, <1>15, <1>16

LEMMA OneTextMore ==
    ASSUME NEW lines \in Seq(Seq(Byte)), NEW l \in Seq(Byte)
    PROVE  /\ OneText(Append(lines, l)) = (OneText(lines) \o <<Space>>) \o l
           /\ OneText(lines) \in Seq(Byte)
<1>0. PICK t : t = Append(lines, l)
  OBVIOUS
<1>1. /\ t \in Seq(Seq(Byte)) /\ t = Append(lines, l)
      /\ Len(t) = Len(lines) + 1 /\ t[Len(lines) + 1] = l
      /\ \A i \in 1 .. Len(lines) : t[i] = lines[i]
  BY <1>0, LongerIs
<1>2. PICK N \in Nat : N = Len(lines)
  BY LenProperties
<1>3. PICK less, more : less = LineSteps(lines, Seq(Byte)) /\ more = LineSteps(t, Seq(Byte))
  OBVIOUS
<1>4. /\ less \in [1 .. N -> [Seq(Byte) -> Seq(Byte)]]
      /\ more \in [1 .. N + 1 -> [Seq(Byte) -> Seq(Byte)]]
  BY <1>1, <1>2, <1>3, LineStepsAre
<1>5. PICK f : OneText(lines) = f[N] /\ Recurs(f, N, Seq(Byte), <<>>, less)
  BY <1>2, <1>3, OneTextRecurs
<1>6. PICK g : OneText(t) = g[N + 1] /\ Recurs(g, N + 1, Seq(Byte), <<>>, more)
  BY <1>1, <1>2, <1>3, OneTextRecurs
<1>7. \A i \in 1 .. N : less[i] = more[i]
  <2> SUFFICES ASSUME NEW i \in 1 .. N PROVE less[i] = more[i]
    OBVIOUS
  <2>1. t[i] = lines[i] /\ i \in 1 .. Len(lines) /\ i \in 1 .. Len(t)
    BY <1>1, <1>2
  <2> QED
    BY <1>3, <2>1 DEF LineSteps
<1>8. g[N + 1] = more[N + 1][f[N]] /\ f[N] \in Seq(Byte)
  <2>1. PICK T, start : T = Seq(Byte) /\ start = <<>>
    OBVIOUS
  <2>2. start \in T
    BY <2>1, EmptySeq
  <2>3. /\ less \in [1 .. N -> [T -> T]] /\ more \in [1 .. N + 1 -> [T -> T]]
        /\ Recurs(f, N, T, start, less) /\ Recurs(g, N + 1, T, start, more)
    BY <1>4, <1>5, <1>6, <2>1
  <2>4. g[N + 1] = more[N + 1][f[N]] /\ f[N] \in T
    BY <1>7, <2>2, <2>3, GoesOn
  <2> QED
    BY <2>1, <2>4
<1>9. PICK x \in Seq(Byte) : x = f[N]
  BY <1>8
<1>10. N + 1 \in 1 .. Len(t)
  BY <1>1, <1>2
<1>11. more[N + 1][x] = x \o <<Space>> \o t[N + 1]
  BY <1>3, <1>10 DEF LineSteps
<1> QED
  BY <1>1, <1>2, <1>5, <1>6, <1>8, <1>9, <1>11

-----------------------------------------------------------------------------
(* Texts behind texts.                                                      *)

LEMMA AppendOut ==
    ASSUME NEW x \in Seq(Byte), NEW y \in Seq(Byte), NEW c \in Byte
    PROVE  /\ x \o Append(y, c) = Append(x \o y, c)
           /\ x \o y \in Seq(Byte) /\ Append(y, c) \in Seq(Byte)
<1>1. PICK one : one = <<c>>
  OBVIOUS
<1>2. one \in Seq(Byte)
  BY <1>1
<1>3. x \o y \in Seq(Byte) /\ Append(y, c) \in Seq(Byte)
  BY ConcatProperties, AppendProperties
<1>4. Append(y, c) = y \o one
  BY <1>1, AppendIsConcat
<1>5. PICK z \in Seq(Byte) : z = x \o y
  BY <1>3
<1>6. Append(z, c) = z \o one
  BY <1>1, AppendIsConcat
<1>7. (x \o y) \o one = x \o (y \o one)
  BY <1>2, ConcatAssociative
<1> QED
  BY <1>3, <1>4, <1>5, <1>6, <1>7

Until(u, n) == SubSeq(u, 1, n)

LEMMA UntilIs ==
    ASSUME NEW s \in Seq(Byte), NEW u \in Seq(Byte)
    PROVE  /\ Until(u, 0) = <<>> /\ Until(u, Len(u)) = u /\ s \o <<>> = s
           /\ \A n \in 0 .. Len(u) : Until(u, n) \in Seq(Byte) /\ s \o Until(u, n) \in Seq(Byte)
<1>1. PICK N \in Nat : N = Len(u) /\ \A i \in 1 .. N : u[i] \in Byte
  BY LenProperties, ElementOfSeq
<1>2. SubSeq(u, 1, 0) = <<>>
  BY SubSeqEmpty
<1>3. ASSUME NEW n \in 0 .. N PROVE Until(u, n) \in Seq(Byte) /\ s \o Until(u, n) \in Seq(Byte)
  <2>1. \A i \in 1 .. n : u[i] \in Byte
    BY <1>1
  <2>2. PICK v : v = SubSeq(u, 1, n)
    OBVIOUS
  <2>3. v \in Seq(Byte)
    BY <2>1, <2>2, SubSeqProperties
  <2>4. s \o v \in Seq(Byte)
    BY <2>3, ConcatProperties
  <2> QED
    BY <2>2, <2>3, <2>4 DEF Until
<1> QED
  BY <1>1, <1>2, <1>3, SubSeqFull, ConcatEmptySeq DEF Until

\* One byte more of u behind s.
LEMMA UntilNext ==
    ASSUME NEW s \in Seq(Byte), NEW u \in Seq(Byte), NEW n \in Nat, n + 1 <= Len(u)
    PROVE  \E v \in Seq(Byte), c \in Byte, sv \in Seq(Byte) :
               /\ v = Until(u, n) /\ c = u[n + 1] /\ sv = s \o Until(u, n)
               /\ Until(u, n + 1) = Append(v, c)
               /\ s \o Until(u, n + 1) = Append(sv, c)
<1>1. PICK N \in Nat : N = Len(u)
  BY LenProperties
<1>2. n \in 0 .. N /\ n + 1 \in 1 .. N /\ (n + 1) - 1 = n /\ 1 \in 1 .. N /\ n + 1 \in 1 .. n + 1
  BY <1>1
<1>3. PICK v \in Seq(Byte), sv \in Seq(Byte) : v = Until(u, n) /\ sv = s \o Until(u, n)
  BY <1>1, <1>2, UntilIs
<1>4. PICK c \in Byte : c = u[n + 1]
  BY <1>1, <1>2, ElementOfSeq
<1>5. SubSeq(u, 1, n + 1) = SubSeq(u, 1, n) \o <<u[n + 1]>>
  <2>1. PICK m : m = n + 1 /\ m \in 1 .. Len(u) /\ m - 1 = n
    BY <1>1, <1>2
  <2>2. SubSeq(u, 1, m) = SubSeq(u, 1, m - 1) \o <<u[m]>>
    BY <1>1, <1>2, <2>1, SubSeqRecursiveSecond
  <2> QED
    BY <2>1, <2>2
<1>6. Until(u, n + 1) = Append(v, c)
  BY <1>3, <1>4, <1>5, AppendIsConcat DEF Until
<1>7. s \o Append(v, c) = Append(s \o v, c)
  BY AppendOut
<1> QED
  BY <1>3, <1>4, <1>6, <1>7

LEMMA LettersAdd ==
    ASSUME NEW s \in Seq(Byte), NEW u \in Seq(Byte)
    PROVE  Letters(s \o u) = Letters(s) \o Letters(u)
<1> DEFINE S == {n \in Nat : n <= Len(u) =>
                    Letters(s \o Until(u, n)) = Letters(s) \o Letters(Until(u, n))}
<1>1. 0 \in S
  <2>1. Letters(s) \in Seq(Byte) /\ Letters(<<>>) = <<>>
    BY SpaceIsByte, LettersMore, NothingYet
  <2>2. Letters(s) \o <<>> = Letters(s)
    BY <2>1, ConcatEmptySeq
  <2> QED
    BY <2>1, <2>2, UntilIs
<1>2. ASSUME NEW n \in Nat, n \in S PROVE n + 1 \in S
  <2> SUFFICES ASSUME n + 1 <= Len(u)
               PROVE  Letters(s \o Until(u, n + 1)) = Letters(s) \o Letters(Until(u, n + 1))
    OBVIOUS
  <2>1. PICK v \in Seq(Byte), c \in Byte, sv \in Seq(Byte) :
               /\ v = Until(u, n) /\ c = u[n + 1] /\ sv = s \o Until(u, n)
               /\ Until(u, n + 1) = Append(v, c)
               /\ s \o Until(u, n + 1) = Append(sv, c)
    BY UntilNext
  <2>2. PICK x \in Seq(Byte), y \in Seq(Byte) : x = Letters(s) /\ y = Letters(v)
    BY SpaceIsByte, LettersMore
  <2>3. n <= Len(u)
    BY LenProperties
  <2>4. Letters(sv) = x \o y
    BY <1>2, <2>1, <2>2, <2>3
  <2>5. Letters(Append(sv, c)) = Lettered(x \o y, c) /\ Letters(Append(v, c)) = Lettered(y, c)
    BY <2>2, <2>4, LettersMore
  <2>6. x \o Lettered(y, c) = Lettered(x \o y, c)
    BY AppendOut DEF Lettered
  <2> QED
    BY <2>1, <2>2, <2>5, <2>6
<1>3. \A n \in Nat : n \in S
  <2> HIDE DEF S
  <2> QED
    BY <1>1, <1>2, Induction
<1>4. Letters(s \o Until(u, Len(u))) = Letters(s) \o Letters(Until(u, Len(u)))
  <2>1. PICK N \in Nat : N = Len(u)
    BY LenProperties
  <2>2. Letters(s \o Until(u, N)) = Letters(s) \o Letters(Until(u, N))
    BY <1>3, <2>1
  <2> QED
    BY <2>1, <2>2
<1> QED
  BY <1>4, UntilIs

\* What is put behind two texts makes the same of both.
Alike(s, t) ==
    /\ Words(s) = Words(t)
    /\ Words(s) # <<>> => (Blank(s) <=> Blank(t))

LEMMA AlikeMore ==
    ASSUME NEW s \in Seq(Byte), NEW t \in Seq(Byte), Alike(s, t), NEW c \in Byte
    PROVE  Alike(Append(s, c), Append(t, c))
<1>1. PICK x, two : x = Words(s) /\ x = Words(t) /\ two = <<Space, c>>
  BY DEF Alike
<1>2. /\ Words(Append(s, c)) = IF c = Space THEN x
                                ELSE IF x # <<>> /\ Blank(s) THEN x \o two ELSE Append(x, c)
      /\ Blank(Append(s, c)) <=> c = Space
  BY <1>1, WordsMore, ZenonT(60)
<1>3. /\ Words(Append(t, c)) = IF c = Space THEN x
                                ELSE IF x # <<>> /\ Blank(t) THEN x \o two ELSE Append(x, c)
      /\ Blank(Append(t, c)) <=> c = Space
  BY <1>1, WordsMore
<1>4. x # <<>> => (Blank(s) <=> Blank(t))
  BY <1>1 DEF Alike
<1>5. Words(Append(s, c)) = Words(Append(t, c))
  <2>1. CASE c = Space
    BY <1>2, <1>3, <2>1
  <2>2. CASE c # Space /\ x # <<>> /\ Blank(s)
    BY <1>2, <1>3, <1>4, <2>2
  <2>3. CASE c # Space /\ ~ (x # <<>> /\ Blank(s))
    BY <1>2, <1>3, <1>4, <2>3
  <2> QED
    BY <2>1, <2>2, <2>3
<1>6. Blank(Append(s, c)) <=> Blank(Append(t, c))
  BY <1>2, <1>3
<1> QED
  BY <1>5, <1>6 DEF Alike

LEMMA AlikeAdd ==
    ASSUME NEW s \in Seq(Byte), NEW t \in Seq(Byte), Alike(s, t), NEW u \in Seq(Byte)
    PROVE  Alike(s \o u, t \o u)
<1> DEFINE S == {n \in Nat : n <= Len(u) => Alike(s \o Until(u, n), t \o Until(u, n))}
<1>1. 0 \in S
  BY UntilIs
<1>2. ASSUME NEW n \in Nat, n \in S PROVE n + 1 \in S
  <2> SUFFICES ASSUME n + 1 <= Len(u)
               PROVE  Alike(s \o Until(u, n + 1), t \o Until(u, n + 1))
    OBVIOUS
  <2>1. PICK v \in Seq(Byte), c \in Byte, sv \in Seq(Byte) :
               /\ v = Until(u, n) /\ c = u[n + 1] /\ sv = s \o Until(u, n)
               /\ Until(u, n + 1) = Append(v, c)
               /\ s \o Until(u, n + 1) = Append(sv, c)
    BY UntilNext
  <2>2. PICK w \in Seq(Byte), d \in Byte, tv \in Seq(Byte) :
               /\ w = Until(u, n) /\ d = u[n + 1] /\ tv = t \o Until(u, n)
               /\ Until(u, n + 1) = Append(w, d)
               /\ t \o Until(u, n + 1) = Append(tv, d)
    BY UntilNext, ZenonT(60)
  <2>3. n <= Len(u)
    BY LenProperties
  <2>4. Alike(sv, tv) /\ c = d
    BY <1>2, <2>1, <2>2, <2>3
  <2>5. Alike(Append(sv, c), Append(tv, c))
    BY <2>4, AlikeMore
  <2> QED
    BY <2>1, <2>2, <2>4, <2>5
<1>3. \A n \in Nat : n \in S
  <2> HIDE DEF S
  <2> QED
    BY <1>1, <1>2, Induction
<1>4. PICK N \in Nat : N = Len(u)
  BY LenProperties
<1>5. Alike(s \o Until(u, N), t \o Until(u, N))
  BY <1>3, <1>4
<1> QED
  BY <1>4, <1>5, UntilIs

Spaces(u) == \A i \in 1 .. Len(u) : u[i] = Space

LEMMA SpacesAdd ==
    ASSUME NEW s \in Seq(Byte), NEW u \in Seq(Byte), Spaces(u)
    PROVE  /\ Letters(s \o u) = Letters(s) /\ Words(s \o u) = Words(s)
           /\ u # <<>> => Blank(s \o u)
<1> DEFINE S == {n \in Nat : n <= Len(u) =>
                    /\ Letters(s \o Until(u, n)) = Letters(s) /\ Words(s \o Until(u, n)) = Words(s)
                    /\ n # 0 => Blank(s \o Until(u, n))}
<1>1. 0 \in S
  BY UntilIs
<1>2. ASSUME NEW n \in Nat, n \in S PROVE n + 1 \in S
  <2> SUFFICES ASSUME n + 1 <= Len(u)
               PROVE  /\ Letters(s \o Until(u, n + 1)) = Letters(s)
                      /\ Words(s \o Until(u, n + 1)) = Words(s)
                      /\ Blank(s \o Until(u, n + 1))
    OBVIOUS
  <2>1. PICK v \in Seq(Byte), c \in Byte, sv \in Seq(Byte) :
               /\ v = Until(u, n) /\ c = u[n + 1] /\ sv = s \o Until(u, n)
               /\ Until(u, n + 1) = Append(v, c)
               /\ s \o Until(u, n + 1) = Append(sv, c)
    BY UntilNext
  <2>2. n <= Len(u) /\ n + 1 \in 1 .. Len(u)
    BY LenProperties
  <2>3. c = Space
    BY <2>1, <2>2 DEF Spaces
  <2>4. Letters(sv) = Letters(s) /\ Words(sv) = Words(s)
    BY <1>2, <2>1, <2>2
  <2>5. Letters(Append(sv, c)) = Letters(s)
    BY <2>3, <2>4, LettersMore DEF Lettered
  <2>6. Words(Append(sv, c)) = Words(s) /\ Blank(Append(sv, c))
    BY <2>3, <2>4, WordsMore
  <2> QED
    BY <2>1, <2>5, <2>6
<1>3. \A n \in Nat : n \in S
  <2> HIDE DEF S
  <2> QED
    BY <1>1, <1>2, Induction
<1>4. PICK N \in Nat : N = Len(u) /\ (u # <<>> => N # 0)
  BY LenProperties, EmptySeq
<1>5. /\ Letters(s \o Until(u, N)) = Letters(s) /\ Words(s \o Until(u, N)) = Words(s)
      /\ N # 0 => Blank(s \o Until(u, N))
  BY <1>3, <1>4
<1> QED
  BY <1>4, <1>5, UntilIs

\* It does not matter how many spaces there are in front of a word.
LEMMA AnySpaces ==
    ASSUME NEW s \in Seq(Byte), NEW u \in Seq(Byte), Spaces(u), u # <<>>,
           NEW v \in Seq(Byte), Spaces(v), v # <<>>, NEW w \in Seq(Byte)
    PROVE  /\ Letters((s \o u) \o w) = Letters((s \o v) \o w)
           /\ Words((s \o u) \o w) = Words((s \o v) \o w)
<1>1. PICK su \in Seq(Byte), sv \in Seq(Byte) : su = s \o u /\ sv = s \o v
  BY ConcatProperties
<1>2. /\ Letters(su) = Letters(s) /\ Words(su) = Words(s) /\ Blank(su)
      /\ Letters(sv) = Letters(s) /\ Words(sv) = Words(s) /\ Blank(sv)
  BY <1>1, SpacesAdd
<1>3. Alike(su, sv)
  BY <1>2 DEF Alike
<1>4. Alike(su \o w, sv \o w)
  BY <1>3, AlikeAdd
<1>5. Letters(su \o w) = Letters(sv \o w)
  <2>1. Letters(su \o w) = Letters(su) \o Letters(w)
    BY LettersAdd
  <2>2. Letters(sv \o w) = Letters(sv) \o Letters(w)
    BY LettersAdd
  <2> QED
    BY <1>2, <2>1, <2>2
<1> QED
  BY <1>1, <1>4, <1>5 DEF Alike

LEMMA Assoc ==
    ASSUME NEW x \in Seq(Byte), NEW y \in Seq(Byte), NEW z \in Seq(Byte)
    PROVE  (x \o y) \o z = x \o (y \o z)
BY ConcatAssociative

LEMMA JoinedTwice ==
    ASSUME NEW x \in Seq(Byte), NEW y \in Seq(Byte), NEW z \in Seq(Byte),
           NEW a, a = x \o y, NEW b, b = y \o z
    PROVE  a \o z = x \o b
BY Assoc

\* A space of its own, as a text.
LEMMA Gap == \E gap \in Seq(Byte) : gap = <<Space>> /\ Spaces(gap) /\ gap # <<>> /\ Len(gap) = 1
<1>1. PICK gap \in Seq(Byte) : gap = <<Space>> /\ Len(gap) = 1 /\ gap[1] = Space
  BY OneSpace
<1>2. \A i \in 1 .. 1 : gap[i] = Space
  BY <1>1
<1>3. Spaces(gap) /\ gap # <<>>
  BY <1>1, <1>2 DEF Spaces
<1> QED
  BY <1>1, <1>3

LEMMA SpacesBehind ==
    ASSUME NEW u \in Seq(Byte), Spaces(u), u # <<>>, NEW v \in Seq(Byte), Spaces(v)
    PROVE  u \o v \in Seq(Byte) /\ Spaces(u \o v) /\ u \o v # <<>>
<1>1. PICK w \in Seq(Byte) : w = u \o v
  BY ConcatProperties
<1>2. PICK n \in Nat, m \in Nat : n = Len(u) /\ m = Len(v)
  BY LenProperties
<1>3. Len(w) = n + m /\ \A i \in 1 .. n + m : w[i] = IF i <= n THEN u[i] ELSE v[i - n]
  BY <1>1, <1>2, ConcatProperties
<1>4. ASSUME NEW i \in 1 .. n + m PROVE w[i] = Space
  <2>1. CASE i <= n
    <3>1. i \in 1 .. n
      BY <2>1
    <3> QED
      BY <1>2, <1>3, <2>1, <3>1 DEF Spaces
  <2>2. CASE ~ (i <= n)
    <3>1. i - n \in 1 .. m
      BY <2>2
    <3> QED
      BY <1>2, <1>3, <2>2, <3>1 DEF Spaces
  <2> QED
    BY <2>1, <2>2
<1>5. w # <<>>
  BY <1>1, ConcatEqualIffEmpty
<1> QED
  BY <1>1, <1>3, <1>4, <1>5 DEF Spaces

LEMMA NotBlank ==
    ASSUME NEW x \in Seq(Byte), NEW w \in Seq(Byte), Solid(w)
    PROVE  ~Blank(x \o w) /\ x \o w # <<>> /\ x \o w \in Seq(Byte)
<1>1. PICK z \in Seq(Byte) : z = x \o w
  BY ConcatProperties
<1>2. PICK n \in Nat, m \in Nat : n = Len(x) /\ m = Len(w)
  BY LenProperties
<1>3. Len(z) = n + m /\ \A i \in 1 .. n + m : z[i] = IF i <= n THEN x[i] ELSE w[i - n]
  BY <1>1, <1>2, ConcatProperties
<1>4. m > 0 /\ m \in 1 .. m /\ w[m] # Space
  BY <1>2 DEF Solid
<1>5. n + m \in 1 .. n + m /\ ~ (n + m <= n) /\ (n + m) - n = m /\ n + m # 0
  BY <1>4
<1>6. z[n + m] = w[m]
  BY <1>3, <1>5
<1>7. z # <<>>
  BY <1>3, <1>5
<1> QED
  BY <1>1, <1>3, <1>4, <1>6, <1>7 DEF Blank

\* D is shown and R was read; the bytes b begin a word.
LEMMA WordBegins ==
    ASSUME NEW D \in Seq(Byte), NEW R \in Seq(Byte), NEW b \in Seq(Byte),
           Letters(D) = Letters(R)
    PROVE  /\ Letters((D \o <<Space>>) \o b) = Letters(R \o b)
           /\ Words(D) = Words(R) /\ (R = <<>> \/ Blank(R)) =>
                 Words((D \o <<Space>>) \o b) = Words(R \o b)
<1>1. PICK gap \in Seq(Byte) : gap = <<Space>> /\ Spaces(gap) /\ gap # <<>>
  BY Gap
<1>2. PICK X \in Seq(Byte) : X = D \o gap
  BY ConcatProperties
<1>3. Letters(X) = Letters(D) /\ Words(X) = Words(D) /\ Blank(X)
  BY <1>1, <1>2, SpacesAdd
<1>4. Letters(X \o b) = Letters(R \o b)
  <2>1. Letters(X \o b) = Letters(X) \o Letters(b)
    BY LettersAdd
  <2>2. Letters(R \o b) = Letters(R) \o Letters(b)
    BY LettersAdd
  <2> QED
    BY <1>3, <2>1, <2>2
<1>5. ASSUME Words(D) = Words(R), R = <<>> \/ Blank(R) PROVE Words(X \o b) = Words(R \o b)
  <2>1. R = <<>> => Words(R) = <<>>
    BY NothingYet
  <2>2. Alike(X, R)
    BY <1>3, <1>5, <2>1 DEF Alike
  <2>3. Alike(X \o b, R \o b)
    BY <2>2, AlikeAdd
  <2> QED
    BY <2>3 DEF Alike
<1> QED
  BY <1>1, <1>2, <1>4, <1>5

\* The bytes b go behind the word w.
LEMMA WordGrows ==
    ASSUME NEW D \in Seq(Byte), NEW R \in Seq(Byte), NEW w \in Seq(Byte), NEW b \in Seq(Byte),
           Letters((D \o <<Space>>) \o w) = Letters(R)
    PROVE  /\ Letters((D \o <<Space>>) \o (w \o b)) = Letters(R \o b)
           /\ Words((D \o <<Space>>) \o w) = Words(R) /\ Solid(w) /\ R # <<>> /\ ~Blank(R) =>
                 Words((D \o <<Space>>) \o (w \o b)) = Words(R \o b)
<1>1. PICK gap \in Seq(Byte) : gap = <<Space>>
  BY Gap
<1>2. PICK X \in Seq(Byte) : X = D \o gap
  BY ConcatProperties
<1>3. PICK Y \in Seq(Byte) : Y = X \o w
  BY ConcatProperties
<1>4. Y \o b = X \o (w \o b)
  <2>1. PICK all : all = w \o b
    OBVIOUS
  <2>2. Y \o b = X \o all
    BY <1>3, <2>1, JoinedTwice, SMTT(60)
  <2> QED
    BY <2>1, <2>2
<1>5. Letters(Y \o b) = Letters(R \o b)
  <2>1. Letters(Y \o b) = Letters(Y) \o Letters(b)
    BY LettersAdd
  <2>2. Letters(R \o b) = Letters(R) \o Letters(b)
    BY LettersAdd
  <2>3. Letters(Y) = Letters(R)
    BY <1>1, <1>2, <1>3
  <2> QED
    BY <2>1, <2>2, <2>3
<1>6. ASSUME Words(Y) = Words(R), Solid(w), R # <<>>, ~Blank(R)
      PROVE  Words(Y \o b) = Words(R \o b)
  <2>1. ~Blank(Y)
    BY <1>3, <1>6, NotBlank
  <2>2. Alike(Y, R)
    BY <1>6, <2>1 DEF Alike
  <2>3. Alike(Y \o b, R \o b)
    BY <2>2, AlikeAdd
  <2> QED
    BY <2>3 DEF Alike
<1> QED
  BY <1>1, <1>2, <1>3, <1>4, <1>5, <1>6

\* The word w that was to follow X begins a line, behind the indent.
LEMMA WordBelow ==
    ASSUME NEW X \in Seq(Byte), NEW w \in Seq(Byte), NEW indent \in Seq(Byte), Spaces(indent)
    PROVE  /\ Letters((X \o <<Space>>) \o (indent \o w)) = Letters((X \o <<Space>>) \o w)
           /\ Words((X \o <<Space>>) \o (indent \o w)) = Words((X \o <<Space>>) \o w)
<1>1. PICK gap \in Seq(Byte) : gap = <<Space>> /\ Spaces(gap) /\ gap # <<>>
  BY Gap
<1>2. PICK both \in Seq(Byte) : both = gap \o indent /\ Spaces(both) /\ both # <<>>
  BY <1>1, SpacesBehind
<1>3. PICK Y \in Seq(Byte) : Y = X \o gap
  BY ConcatProperties
<1>g. Spaces(gap) /\ gap # <<>>
  BY <1>1
<1>b. Spaces(both) /\ both # <<>>
  BY <1>2
<1>4. (Y \o indent) \o w = Y \o (indent \o w)
  BY Assoc
<1>5. Y \o indent = X \o both
  BY <1>2, <1>3, JoinedTwice
<1>6. /\ Letters((X \o both) \o w) = Letters((X \o gap) \o w)
      /\ Words((X \o both) \o w) = Words((X \o gap) \o w)
  BY <1>g, <1>b, AnySpaces
<1> QED
  BY <1>1, <1>3, <1>4, <1>5, <1>6

\* So it does when the line is empty.
LEMMA WordFirst ==
    ASSUME NEW X \in Seq(Byte), NEW w \in Seq(Byte), NEW indent \in Seq(Byte), Spaces(indent)
    PROVE  /\ Letters((X \o <<Space>>) \o (indent \o w))
                 = Letters((((X \o <<Space>>) \o <<>>) \o <<Space>>) \o w)
           /\ Words((X \o <<Space>>) \o (indent \o w))
                 = Words((((X \o <<Space>>) \o <<>>) \o <<Space>>) \o w)
<1>1. PICK gap \in Seq(Byte) : gap = <<Space>> /\ Spaces(gap) /\ gap # <<>>
  BY Gap
<1>2. PICK two \in Seq(Byte) : two = gap \o gap /\ Spaces(two) /\ two # <<>>
  BY <1>1, SpacesBehind
<1>3. PICK Y \in Seq(Byte) : Y = X \o gap
  BY ConcatProperties
<1>g. Spaces(gap) /\ gap # <<>>
  BY <1>1
<1>b. Spaces(two) /\ two # <<>>
  BY <1>2
<1>4. Y \o <<>> = Y
  BY ConcatEmptySeq
<1>5. Y \o gap = X \o two
  BY <1>2, <1>3, JoinedTwice
<1>6. /\ Letters((X \o two) \o w) = Letters((X \o gap) \o w)
      /\ Words((X \o two) \o w) = Words((X \o gap) \o w)
  BY <1>g, <1>b, AnySpaces
<1>7. /\ Letters((X \o gap) \o (indent \o w)) = Letters((X \o gap) \o w)
      /\ Words((X \o gap) \o (indent \o w)) = Words((X \o gap) \o w)
  BY <1>1, WordBelow
<1> QED
  BY <1>1, <1>3, <1>4, <1>5, <1>6, <1>7

\* It does not matter how four texts are joined.
Join(x, y, z, w) == ((x \o y) \o z) \o w = x \o ((y \o z) \o w)

LEMMA FourJoined ==
    ASSUME NEW x \in Seq(Byte), NEW y \in Seq(Byte), NEW z \in Seq(Byte), NEW w \in Seq(Byte)
    PROVE  Join(x, y, z, w)
<1>1. (x \o y) \o z = x \o (y \o z)
  BY Assoc, SMTT(60)
<1>2. y \o z \in Seq(Byte)
  BY ConcatProperties
<1>3. (x \o (y \o z)) \o w = x \o ((y \o z) \o w)
  <2> SUFFICES ASSUME NEW yz \in Seq(Byte) PROVE (x \o yz) \o w = x \o (yz \o w)
    BY <1>2
  <2> QED
    BY Assoc, SMTT(60)
<1> QED
  BY <1>1, <1>3 DEF Join

\* A word that follows on the line.
LEMMA WordOnLine ==
    ASSUME NEW Y \in Seq(Byte), NEW line \in Seq(Byte), NEW w \in Seq(Byte)
    PROVE  Y \o (Append(line, Space) \o w) = ((Y \o line) \o <<Space>>) \o w
<1>1. PICK gap \in Seq(Byte) : gap = <<Space>>
  BY Gap
<1>2. Append(line, Space) = line \o gap
  BY <1>1, SpaceIsByte, AppendIsConcat
<1>3. Join(Y, line, gap, w)
  BY FourJoined
<1> QED
  BY <1>1, <1>2, <1>3 DEF Join

LEMMA WordBehind ==
    ASSUME NEW X \in Seq(Byte), NEW line \in Seq(Byte), NEW w \in Seq(Byte)
    PROVE  (X \o <<Space>>) \o (Append(line, Space) \o w)
               = (((X \o <<Space>>) \o line) \o <<Space>>) \o w
<1>1. X \o <<Space>> \in Seq(Byte)
  BY SpaceIsByte, ConcatProperties
<1> QED
  BY <1>1, WordOnLine

-----------------------------------------------------------------------------
(* What was read, and what is shown of it.                                  *)

SoFar == SubSeq(text, 1, cp - 1)

LEMMA SoFarIs ==
    ASSUME WrapTyped
    PROVE  /\ SoFar \in Seq(Byte) /\ (cp = 1 => SoFar = <<>>)
           /\ cp # 1 => SoFar # <<>> /\ (Blank(SoFar) <=> text[cp - 1] = Space)
           /\ \A n \in Nat : cp + n - 1 <= Len(text) =>
                 SubSeq(text, 1, (cp + n) - 1) = SoFar \o SubSeq(text, cp, cp + n - 1)
<1>1. PICK N \in Nat : N = Len(text) /\ cp \in 1 .. N + 1 /\ text \in Seq(Byte)
  <2>1. STRING \subseteq Byte
    BY DEF Byte
  <2>2. text \in Seq(Byte)
    BY <2>1, SeqMonotonic DEF WrapTyped
  <2> QED
    BY <2>2, LenProperties DEF WrapTyped
<1>2. \A i \in 1 .. N : text[i] \in Byte
  BY <1>1, ElementOfSeq
<1>3. PICK m \in Int : m = cp - 1 /\ m \in 0 .. N
  BY <1>1
<1>4. \A i \in 1 .. m : text[i] \in Byte
  BY <1>2, <1>3
<1>5. PICK r : r = SubSeq(text, 1, m)
  OBVIOUS
<1>6. /\ r \in Seq(Byte) /\ Len(r) = (IF 1 <= m THEN m - 1 + 1 ELSE 0)
      /\ \A i \in 1 .. m - 1 + 1 : r[i] = text[1 + i - 1]
  BY <1>4, <1>5, SubSeqProperties
<1>7. cp = 1 => r = <<>>
  <2>1. cp = 1 => m < 1
    BY <1>3
  <2> QED
    BY <1>5, <2>1, SubSeqEmpty
<1>8. cp # 1 => r # <<>> /\ (Blank(r) <=> text[cp - 1] = Space)
  <2> SUFFICES ASSUME cp # 1 PROVE r # <<>> /\ (Blank(r) <=> text[cp - 1] = Space)
    OBVIOUS
  <2>1. m \in 1 .. m - 1 + 1 /\ Len(r) = m /\ m # 0 /\ 1 + m - 1 = m
    BY <1>1, <1>3, <1>6
  <2>2. r # <<>>
    BY <2>1
  <2>3. r[m] = text[m]
    BY <1>6, <2>1
  <2> QED
    BY <1>3, <2>1, <2>2, <2>3 DEF Blank
<1>9. ASSUME NEW n \in Nat, cp + n - 1 <= N
      PROVE  SubSeq(text, 1, (cp + n) - 1) = r \o SubSeq(text, cp, cp + n - 1)
  <2>1. PICK k : k = (cp + n) - 1 /\ k = cp + n - 1 /\ k \in m .. N /\ m + 1 = cp
    BY <1>1, <1>3, <1>9
  <2>2. SubSeq(text, 1, m) \o SubSeq(text, m + 1, k) = SubSeq(text, 1, k)
    <3>1. 1 \in 1 .. Len(text) + 1 /\ m \in 1 - 1 .. Len(text) /\ k \in m .. Len(text)
      BY <1>1, <1>3, <2>1
    <3> QED
      BY <1>1, <3>1, ConcatAdjacentSubSeq
  <2> QED
    BY <1>5, <2>1, <2>2
<1>10. r = SoFar
  BY <1>3, <1>5 DEF SoFar
<1> QED
  BY <1>1, <1>6, <1>7, <1>8, <1>9, <1>10

LinesShown ==
    IF pc = "returned" THEN OneText(printed) ELSE OneText(Append(printed, line_buf.text))

Displayed ==
    IF pc \in {"word", "place"} THEN (LinesShown \o <<Space>>) \o word_buf ELSE LinesShown

InPlace == line_buf.position = Len(line_buf.text)

\* The word in the making is what was read last.
InHand ==
    pc \in {"word", "place"} =>
        /\ Solid(word_buf) /\ Len(word_buf) <= cp - 1
        /\ \A j \in cp - Len(word_buf) .. cp - 1 : text[j] # Space

\* A word ends where one does in the text, but for one that is cut.
Apart ==
    /\ pc = "place" => AtEnd \/ AtSpace \/ full(word_buf)
    /\ pc = "outer" => cp = 1 \/ text[cp - 1] = Space \/ AtEnd \/ AtSpace \/ Overlong(text)

AllThere ==
    /\ Letters(Displayed) = Letters(SoFar)
    /\ ~Overlong(text) => Words(Displayed) = Words(SoFar)

Kept == (pc # "returned" => InPlace /\ InHand /\ Apart) /\ AllThere

Intact == ~lost /\ ~failed

NInv ==
    /\ pc = "message" => printed = <<>> /\ line_buf = EmptyLine /\ cp = 1
    /\ pc # "message" /\ Intact => Kept

-----------------------------------------------------------------------------
LEMMA LinesShownIs ==
    ASSUME WrapTyped
    PROVE  \E X \in Seq(Byte), l \in Seq(Byte), D \in Seq(Byte) :
               /\ X = OneText(printed) /\ l = line_buf.text /\ D = LinesShown
               /\ D = IF pc = "returned" THEN X ELSE (X \o <<Space>>) \o l
<1>1. PICK lines \in Seq(Seq(Byte)) : lines = printed
  BY DEF WrapTyped
<1>2. PICK l \in Seq(Byte) : l = line_buf.text
  BY LineIs DEF WrapTyped
<1>3. PICK X \in Seq(Byte) : X = OneText(lines) /\ OneText(Append(lines, l)) = (X \o <<Space>>) \o l
  BY OneTextMore
<1>4. (X \o <<Space>>) \o l \in Seq(Byte)
  BY SpaceIsByte, ConcatProperties
<1>5. LinesShown = IF pc = "returned" THEN X ELSE (X \o <<Space>>) \o l
  BY <1>1, <1>2, <1>3 DEF LinesShown
<1> QED
  BY <1>1, <1>2, <1>3, <1>4, <1>5

LEMMA KeptNow ==
    ASSUME NEW D, D = Displayed', NEW R, R = SoFar', NEW S, S = text',
           Letters(D) = Letters(R), ~Overlong(S) => Words(D) = Words(R)
    PROVE  AllThere'
BY DEF AllThere

LEMMA NothingShown ==
    ASSUME NEW D, D = OneText(Append(<<>>, <<>>))
    PROVE  Letters(D) = Letters(<<>>) /\ Words(D) = Words(<<>>)
<1>1. PICK gap \in Seq(Byte) : gap = <<Space>> /\ Spaces(gap)
  BY Gap
<1>2. PICK e \in Seq(Byte) : e = <<>>
  BY SpaceIsByte
<1>3. PICK lines \in Seq(Seq(Byte)) : lines = <<>>
  BY EmptySeq
<1>4. OneText(Append(lines, e)) = (OneText(lines) \o <<Space>>) \o e /\ OneText(lines) = e
  BY <1>2, <1>3, OneTextMore, NothingYet
<1>5. D = (e \o gap) \o e
  BY <1>1, <1>2, <1>3, <1>4
<1>6. e \o gap \in Seq(Byte) /\ Letters(e \o gap) = Letters(e) /\ Words(e \o gap) = Words(e)
  BY <1>1, SpacesAdd, ConcatProperties
<1>7. (e \o gap) \o e = e \o gap
  BY <1>2, <1>6, ConcatEmptySeq
<1> QED
  BY <1>2, <1>5, <1>6, <1>7

-----------------------------------------------------------------------------
\* The first byte to be read.
LEMMA SoFarNone ==
    ASSUME NEW c, c = 1, NEW s
    PROVE  SubSeq(s, 1, c - 1) = <<>>
BY SubSeqEmpty

LEMMA StartKeeps ==
    ASSUME WrapTyped, printed = <<>>, NEW message, StartWrap(message)
    PROVE  Kept'
<1>1. /\ cp' = 1 /\ line_buf' = EmptyLine /\ pc' = "outer" /\ printed' = <<>>
  BY DEF StartWrap
<1>2. line_buf'.text = <<>> /\ line_buf'.position = 0 /\ Len(<<>>) = 0
  BY <1>1, EmptySeq DEF EmptyLine
<1>3. PICK D, R, S : D = Displayed' /\ R = SoFar' /\ S = text'
  OBVIOUS
<1>4. D = OneText(Append(<<>>, <<>>))
  BY <1>1, <1>2, <1>3 DEF Displayed, LinesShown
<1>5. R = <<>>
  BY <1>1, <1>3, SoFarNone DEF SoFar
<1>6. AllThere'
  BY <1>3, <1>4, <1>5, NothingShown, KeptNow
<1> QED
  BY <1>1, <1>2, <1>6 DEF Kept, InPlace, InHand, Apart

LEMMA FinishKeeps ==
    ASSUME WrapTyped, Kept, Finish, Intact'
    PROVE  Kept'
<1>1. /\ pc = "outer" /\ pc' = "returned" /\ UNCHANGED <<text, cp, line_buf>>
      /\ IF line_buf.position # 0 THEN Emits ELSE printed' = printed
  BY DEF Finish, Goes
<1>2. AllThere /\ InPlace
  BY <1>1 DEF Kept
<1>3. PICK X \in Seq(Byte), l \in Seq(Byte), D \in Seq(Byte) :
          /\ X = OneText(printed) /\ l = line_buf.text /\ D = LinesShown
          /\ D = (X \o <<Space>>) \o l
  BY <1>1, LinesShownIs
<1>4. PICK E, R, S : E = Displayed' /\ R = SoFar' /\ S = text'
  OBVIOUS
<1>5. R = SoFar /\ S = text /\ D = Displayed
  BY <1>1, <1>3, <1>4 DEF SoFar, Displayed
<1>6. Letters(E) = Letters(D) /\ Words(E) = Words(D)
  <2>1. CASE line_buf.position # 0
    <3>1. printed' = Append(printed, Bytes(line_buf))
      BY <1>1, <2>1 DEF Emits, Intact
    <3>2. Bytes(line_buf) = l
      BY <1>2, <1>3, BytesAre DEF InPlace, WrapTyped
    <3>3. E = OneText(Append(printed, l))
      BY <1>1, <1>4, <3>1, <3>2 DEF Displayed, LinesShown
    <3>4. D = OneText(Append(printed, l))
      BY <1>1, <1>3 DEF LinesShown
    <3> QED
      BY <3>3, <3>4
  <2>2. CASE line_buf.position = 0
    <3>1. E = X
      BY <1>1, <1>3, <1>4, <2>2 DEF Displayed, LinesShown
    <3>2. l = <<>>
      BY <1>2, <1>3, <2>2, EmptySeq DEF InPlace
    <3>3. PICK gap \in Seq(Byte) : gap = <<Space>> /\ Spaces(gap)
      BY Gap
    <3>4. X \o gap \in Seq(Byte) /\ Letters(X \o gap) = Letters(X) /\ Words(X \o gap) = Words(X)
      BY <3>3, SpacesAdd, ConcatProperties
    <3>5. D = X \o gap
      BY <1>3, <3>2, <3>3, <3>4, ConcatEmptySeq
    <3> QED
      BY <3>1, <3>4, <3>5
  <2> QED
    BY <2>1, <2>2
<1>7. AllThere'
  BY <1>2, <1>4, <1>5, <1>6, KeptNow DEF AllThere
<1> QED
  BY <1>1, <1>7 DEF Kept

LEMMA SkipKeeps ==
    ASSUME WrapTyped, Kept, SkipSpace
    PROVE  Kept'
<1>1. /\ pc = "outer" /\ pc' = "outer" /\ UNCHANGED <<text, printed, line_buf, word_buf>>
      /\ cp' = cp + 1 /\ ~AtEnd /\ text[cp] = Space
  BY DEF SkipSpace, Goes, AtSpace
<1>2. AllThere /\ InPlace
  BY <1>1 DEF Kept
<1>3. PICK N \in Nat : N = Len(text) /\ cp \in 1 .. N /\ text \in Seq(STRING)
  BY <1>1, LenProperties DEF WrapTyped, AtEnd
<1>4. PICK D \in Seq(Byte) : D = LinesShown
  BY LinesShownIs
<1>5. PICK E, R, S : E = Displayed' /\ R = SoFar' /\ S = text'
  OBVIOUS
<1>6. E = D /\ D = Displayed /\ S = text
  BY <1>1, <1>4, <1>5 DEF Displayed, LinesShown
<1>7. PICK Q \in Seq(Byte) : Q = SoFar
  BY SoFarIs
<1>8. R = Q \o SubSeq(text, cp, cp)
  <2>1. PICK one \in Nat : one = 1
    OBVIOUS
  <2>2. cp + one - 1 <= Len(text) /\ (cp + one) - 1 = cp' - 1 /\ cp + one - 1 = cp
    BY <1>1, <1>3, <2>1
  <2>3. SubSeq(text, 1, (cp + one) - 1) = SoFar \o SubSeq(text, cp, cp + one - 1)
    BY <2>2, SoFarIs
  <2>4. R = SubSeq(text, 1, cp' - 1)
    BY <1>1, <1>5 DEF SoFar
  <2> QED
    BY <1>7, <2>2, <2>3, <2>4
<1>9. PICK u \in Seq(Byte) : u = SubSeq(text, cp, cp) /\ Spaces(u)
  <2>1. text[cp] \in STRING /\ cp \in Int
    BY <1>3, ElementOfSeq
  <2>2. \A i \in cp .. cp : text[i] \in Byte
    BY <2>1 DEF Byte
  <2>3. PICK v : v = SubSeq(text, cp, cp)
    OBVIOUS
  <2>4. /\ v \in Seq(Byte) /\ Len(v) = (IF cp <= cp THEN cp - cp + 1 ELSE 0)
        /\ \A i \in 1 .. cp - cp + 1 : v[i] = text[cp + i - 1]
    BY <2>1, <2>2, <2>3, SubSeqProperties
  <2>5. Len(v) = 1 /\ \A i \in 1 .. 1 : v[i] = text[cp + i - 1]
    BY <2>1, <2>4
  <2>6. \A i \in 1 .. 1 : cp + i - 1 = cp
    BY <2>1
  <2>7. \A i \in 1 .. 1 : v[i] = Space
    BY <1>1, <2>5, <2>6
  <2> QED
    BY <2>3, <2>4, <2>5, <2>7 DEF Spaces
<1>10. Letters(R) = Letters(Q) /\ Words(R) = Words(Q)
  BY <1>8, <1>9, SpacesAdd
<1>11. AllThere'
  BY <1>2, <1>5, <1>6, <1>7, <1>10, KeptNow DEF AllThere
<1>12. cp' - 1 = cp
  BY <1>1, <1>3
<1> QED
  BY <1>1, <1>2, <1>11, <1>12 DEF Kept, InPlace, InHand, Apart

\* The bytes of the character at cp.
LEMMA PieceIs ==
    ASSUME WrapTyped, ~AtEnd, ~AtSpace, NEW n, n = mbrtowc(text, cp)
    PROVE  \E b \in Seq(Byte), Q \in Seq(Byte) :
               /\ b = SubSeq(text, cp, cp + n - 1) /\ Solid(b) /\ Len(b) = n /\ n \in {1, 2}
               /\ \A j \in cp .. (cp + n) - 1 : text[j] # Space
               /\ Q = SoFar /\ SubSeq(text, 1, (cp + n) - 1) = Q \o b
<1>0. PICK b : b = SubSeq(text, cp, cp + n - 1)
  OBVIOUS
<1>1. /\ n \in {1, 2} /\ b \in Seq(STRING) /\ Len(b) = n
      /\ \A i \in 1 .. n : b[i] = text[cp + i - 1]
      /\ cp + n \in 1 .. Len(text) + 1
  BY <1>0, LettersAre
<1>2. b \in Seq(Byte)
  <2>1. STRING \subseteq Byte
    BY DEF Byte
  <2> QED
    BY <1>1, <2>1, SeqMonotonic
<1>3. Len(text) \in Nat /\ cp \in 1 .. Len(text) /\ text[cp] # Space
  BY LenProperties DEF WrapTyped, AtEnd, AtSpace
<1>4. n = 2 => text[cp + 1] # Space
  BY <1>3, WrapAssumption DEF mbrtowc, IsLetter
<1>5. \A j \in cp .. (cp + n) - 1 : text[j] # Space
  <2>1. \A j \in cp .. (cp + n) - 1 : j = cp \/ (n = 2 /\ j = cp + 1)
    BY <1>1, <1>3
  <2> QED
    BY <1>3, <1>4, <2>1
<1>6. Solid(b)
  <2>1. \A i \in 1 .. n : cp + i - 1 \in cp .. (cp + n) - 1
    BY <1>1, <1>3
  <2>2. \A i \in 1 .. n : b[i] # Space
    BY <1>1, <1>5, <2>1
  <2> QED
    BY <1>1, <2>2 DEF Solid
<1>7. PICK Q \in Seq(Byte) : Q = SoFar
  BY SoFarIs
<1>8. n \in Nat /\ cp + n - 1 <= Len(text)
  BY <1>1, <1>3
<1>9. SubSeq(text, 1, (cp + n) - 1) = SoFar \o SubSeq(text, cp, cp + n - 1)
  BY <1>8, SoFarIs
<1> QED
  BY <1>0, <1>1, <1>2, <1>5, <1>6, <1>7, <1>9

\* A word that was not cut has the character at its end, and is read up to cp.
LEMMA GrabKeeps ==
    ASSUME WrapTyped, pc \in {"outer", "word"}, InPlace, ~AtEnd, ~AtSpace,
           NEW w \in Word, NEW w_width, Grab(w, w_width), ~lost',
           w = <<>> \/ Solid(w), Len(w) <= cp - 1,
           \A j \in cp - Len(w) .. cp - 1 : text[j] # Space
    PROVE  \E b \in Seq(Byte), Q \in Seq(Byte), D \in Seq(Byte) :
               /\ Solid(b) /\ D = LinesShown /\ Q = SoFar
               /\ SoFar' = Q \o b /\ Displayed' = (D \o <<Space>>) \o (w \o b)
               /\ InPlace' /\ InHand' /\ Apart' /\ text' = text /\ pc' # "returned"
<1>1. PICK n : /\ n = mbrtowc(text, cp)
               /\ LET b == SubSeq(text, cp, cp + n - 1)
                  IN  /\ word_buf' = write(w, b)
                      /\ ~ (Len(w \o b) > MAX_LINE_LENGTH)
               /\ cp' = cp + n
               /\ Goes(IF full(word_buf') THEN "place" ELSE "word")
               /\ UNCHANGED <<line_buf, printed>>
  BY DEF Grab
<1>2. PICK b \in Seq(Byte), Q \in Seq(Byte) :
          /\ b = SubSeq(text, cp, cp + n - 1) /\ Solid(b) /\ Len(b) = n /\ n \in {1, 2}
          /\ \A j \in cp .. (cp + n) - 1 : text[j] # Space
          /\ Q = SoFar /\ SubSeq(text, 1, (cp + n) - 1) = Q \o b
  BY <1>1, PieceIs
<1>3. w \in Seq(Byte)
  <2>1. STRING \subseteq Byte
    BY DEF Byte
  <2> QED
    BY <2>1, SeqMonotonic DEF Word
<1>4. PICK u \in Seq(Byte) : u = w \o b /\ Len(u) = Len(w) + Len(b)
  BY <1>3, ConcatProperties
<1>5. PICK k \in Nat, N \in Nat : k = Len(w) /\ N = Len(text) /\ cp \in 1 .. N + 1
  BY <1>3, LenProperties DEF WrapTyped
<1>6. word_buf' = u
  <2>1. Len(u) <= MAX_LINE_LENGTH
    <3>1. ~ (Len(u) > MAX_LINE_LENGTH)
      BY <1>1, <1>2, <1>4
    <3> QED
      BY <3>1, LenProperties, WrapAssumption
  <2>2. Fitting(u) = u
    BY <2>1, FittingIs
  <2> QED
    BY <1>1, <1>2, <1>4, <2>2 DEF write
<1>7. /\ text' = text /\ pc' = (IF full(u) THEN "place" ELSE "word")
      /\ pc' \in {"word", "place"} /\ pc' # "returned"
  BY <1>1, <1>6 DEF Goes
<1>8. PICK D \in Seq(Byte) : D = LinesShown
  BY LinesShownIs
<1>9. SoFar' = Q \o b
  BY <1>1, <1>2, <1>7 DEF SoFar
<1>10. Displayed' = (D \o <<Space>>) \o (w \o b)
  <2>1. LinesShown' = LinesShown
    BY <1>1, <1>7 DEF LinesShown
  <2> QED
    BY <1>4, <1>6, <1>7, <1>8, <2>1 DEF Displayed
<1>11. InHand'
  <2>1. Solid(u)
    BY <1>2, <1>3, <1>4, SolidMore
  <2>2. Len(u) = k + n /\ Len(u) <= cp' - 1
    <3>1. PICK m \in Nat : m = n
      BY <1>2
    <3>2. k <= cp - 1 /\ cp \in Nat
      BY <1>5
    <3>3. Len(u) = k + m
      BY <1>2, <1>4, <1>5, <3>1
    <3>4. cp' = cp + m
      BY <1>1, <3>1
    <3> QED
      BY <3>1, <3>2, <3>3, <3>4
  <2>3. \A j \in cp' - Len(u) .. cp' - 1 : j \in cp - k .. cp - 1 \/ j \in cp .. (cp + n) - 1
    <3>1. PICK m \in Nat, c \in Nat : m = n /\ c = cp
      BY <1>2, <1>5
    <3>2. cp' = c + m /\ Len(u) = k + m
      BY <1>1, <2>2, <3>1
    <3>3. ASSUME NEW j \in c - k .. (c + m) - 1
          PROVE  j \in c - k .. c - 1 \/ j \in c .. (c + m) - 1
      OBVIOUS
    <3>4. cp' - Len(u) = c - k /\ cp' - 1 = (c + m) - 1
      BY <3>2
    <3> QED
      BY <3>1, <3>3, <3>4
  <2>4. \A j \in cp' - Len(u) .. cp' - 1 : text[j] # Space
    BY <1>2, <1>5, <2>3
  <2> QED
    BY <1>6, <1>7, <2>1, <2>2, <2>4 DEF InHand
<1>12. InPlace'
  BY <1>1 DEF InPlace
<1>13. Apart'
  <2>1. pc' # "outer"
    BY <1>7
  <2>2. pc' = "place" => full(word_buf')
    BY <1>6, <1>7
  <2> QED
    BY <2>1, <2>2 DEF Apart
<1> QED
  BY <1>2, <1>7, <1>8, <1>9, <1>10, <1>11, <1>12, <1>13

LEMMA BeginKeeps ==
    ASSUME WrapTyped, Kept, BeginWord, ~lost'
    PROVE  Kept'
<1>1. pc = "outer" /\ ~AtEnd /\ ~AtSpace /\ Grab(<<>>, 0)
  BY DEF BeginWord
<1>2. AllThere /\ InPlace /\ Apart
  BY <1>1 DEF Kept
<1>3. PICK w \in Word, none \in Int : w = <<>> /\ none = 0 /\ Len(w) = 0
  BY EmptyTyped, EmptySeq
<1>4. cp \in Nat /\ cp > 0
  BY DEF WrapTyped
<1>5. /\ Grab(w, none) /\ Len(w) <= cp - 1 /\ \A j \in cp - Len(w) .. cp - 1 : text[j] # Space
  <2>1. cp - 0 .. cp - 1 = {}
    BY <1>4
  <2>2. 0 <= cp - 1
    BY <1>4
  <2> QED
    BY <1>1, <1>3, <2>1, <2>2
<1>6. PICK b \in Seq(Byte), Q \in Seq(Byte), D \in Seq(Byte) :
          /\ Solid(b) /\ D = LinesShown /\ Q = SoFar
          /\ SoFar' = Q \o b /\ Displayed' = (D \o <<Space>>) \o (w \o b)
          /\ InPlace' /\ InHand' /\ Apart' /\ text' = text /\ pc' # "returned"
  BY <1>1, <1>2, <1>3, <1>5, GrabKeeps
<1>7. w \o b = b
  BY <1>3, <1>6, ConcatEmptySeq
<1>8. D = Displayed
  BY <1>1, <1>6 DEF Displayed
<1>9. Letters(D) = Letters(Q) /\ (~Overlong(text) => Words(D) = Words(Q))
  BY <1>2, <1>6, <1>8 DEF AllThere
<1>10. ~Overlong(text) => Q = <<>> \/ Blank(Q)
  <2>1. cp = 1 => Q = <<>>
    BY <1>6, SoFarIs
  <2>2. cp # 1 /\ text[cp - 1] = Space => Blank(Q)
    BY <1>6, SoFarIs
  <2> QED
    BY <1>1, <1>2, <2>1, <2>2 DEF Apart
<1>11. PICK E, R, S : E = Displayed' /\ R = SoFar' /\ S = text'
  OBVIOUS
<1>12. E = (D \o <<Space>>) \o b /\ R = Q \o b /\ S = text
  BY <1>6, <1>7, <1>11
<1>13. /\ Letters((D \o <<Space>>) \o b) = Letters(Q \o b)
       /\ Words(D) = Words(Q) /\ (Q = <<>> \/ Blank(Q)) =>
             Words((D \o <<Space>>) \o b) = Words(Q \o b)
  BY <1>9, WordBegins
<1>14. Letters(E) = Letters(R) /\ (~Overlong(S) => Words(E) = Words(R))
  BY <1>9, <1>10, <1>12, <1>13
<1>15. AllThere'
  BY <1>11, <1>14, KeptNow
<1> QED
  BY <1>6, <1>15 DEF Kept

LEMMA GrabMoreKeeps ==
    ASSUME WrapTyped, Kept, GrabMore, ~lost'
    PROVE  Kept'
<1>1. pc = "word" /\ ~AtEnd /\ ~AtSpace /\ Grab(word_buf, width_of_word)
  BY DEF GrabMore
<1>2. AllThere /\ InPlace /\ InHand
  BY <1>1 DEF Kept
<1>3. PICK w \in Word : w = word_buf /\ w \in Seq(Byte)
  BY WordTyped DEF WrapTyped
<1>4. /\ Solid(w) /\ Len(w) <= cp - 1 /\ \A j \in cp - Len(w) .. cp - 1 : text[j] # Space
  BY <1>1, <1>2, <1>3 DEF InHand
<1>5. PICK b \in Seq(Byte), Q \in Seq(Byte), D \in Seq(Byte) :
          /\ Solid(b) /\ D = LinesShown /\ Q = SoFar
          /\ SoFar' = Q \o b /\ Displayed' = (D \o <<Space>>) \o (w \o b)
          /\ InPlace' /\ InHand' /\ Apart' /\ text' = text /\ pc' # "returned"
  BY <1>1, <1>2, <1>3, <1>4, GrabKeeps
<1>6. (D \o <<Space>>) \o w = Displayed
  BY <1>1, <1>3, <1>5 DEF Displayed
<1>7. /\ Letters((D \o <<Space>>) \o w) = Letters(Q)
      /\ ~Overlong(text) => Words((D \o <<Space>>) \o w) = Words(Q)
  BY <1>2, <1>5, <1>6 DEF AllThere
<1>8. Q # <<>> /\ ~Blank(Q)
  <2>1. PICK k \in Nat : k = Len(w) /\ k > 0
    BY <1>3, <1>4, LenProperties DEF Solid
  <2>2. cp # 1 /\ cp - 1 \in cp - Len(w) .. cp - 1
    BY <1>4, <2>1 DEF WrapTyped
  <2>3. text[cp - 1] # Space
    BY <1>4, <2>2
  <2> QED
    BY <1>5, <2>2, <2>3, SoFarIs
<1>9. PICK E, R, S : E = Displayed' /\ R = SoFar' /\ S = text'
  OBVIOUS
<1>10. E = (D \o <<Space>>) \o (w \o b) /\ R = Q \o b /\ S = text
  BY <1>5, <1>9
<1>11. /\ Letters((D \o <<Space>>) \o (w \o b)) = Letters(Q \o b)
       /\ Words((D \o <<Space>>) \o w) = Words(Q) /\ Solid(w) /\ Q # <<>> /\ ~Blank(Q) =>
             Words((D \o <<Space>>) \o (w \o b)) = Words(Q \o b)
  BY <1>3, <1>5, <1>7, WordGrows
<1>12. Letters(E) = Letters(R) /\ (~Overlong(S) => Words(E) = Words(R))
  BY <1>4, <1>7, <1>8, <1>10, <1>11
<1>13. AllThere'
  BY <1>9, <1>12, KeptNow
<1> QED
  BY <1>5, <1>13 DEF Kept

LEMMA EndKeeps ==
    ASSUME WrapTyped, Kept, EndWord
    PROVE  Kept'
<1>1. /\ pc = "word" /\ pc' = "place" /\ (AtEnd \/ AtSpace)
      /\ UNCHANGED <<text, cp, line_buf, word_buf, printed>>
  BY DEF EndWord, Goes
<1>2. AllThere /\ InPlace /\ InHand
  BY <1>1 DEF Kept
<1>3. AllThere'
  <2>1. Displayed' = Displayed /\ SoFar' = SoFar
    BY <1>1 DEF Displayed, LinesShown, SoFar
  <2>2. PICK E, R, S : E = Displayed' /\ R = SoFar' /\ S = text'
    OBVIOUS
  <2>3. Letters(E) = Letters(R) /\ (~Overlong(S) => Words(E) = Words(R))
    BY <1>1, <1>2, <2>1, <2>2 DEF AllThere
  <2> QED
    BY <2>2, <2>3, KeptNow
<1>4. InPlace' /\ InHand'
  BY <1>1, <1>2 DEF InPlace, InHand
<1>5. Apart'
  BY <1>1 DEF Apart, AtEnd, AtSpace
<1> QED
  BY <1>3, <1>4, <1>5 DEF Kept

\* A word is cut in two only when no array holds it.
LEMMA CutIsOverlong ==
    ASSUME WrapTyped, pc = "place", InHand, Apart
    PROVE  AtEnd \/ AtSpace \/ Overlong(text)
<1> SUFFICES ASSUME ~AtEnd, ~AtSpace PROVE Overlong(text)
  OBVIOUS
<1>1. PICK N \in Nat, k \in Nat, M \in Nat :
          N = Len(text) /\ k = Len(word_buf) /\ M = MAX_LINE_LENGTH
  BY WordTyped, LenProperties, WrapAssumption DEF WrapTyped
<1>2. cp \in 1 .. N /\ text[cp] # Space
  BY <1>1 DEF WrapTyped, AtEnd, AtSpace
<1>3. k = M
  <2>1. k >= M
    BY <1>1 DEF Apart, full
  <2>2. k <= M
    BY <1>1 DEF WrapTyped, Word
  <2> QED
    BY <2>1, <2>2
<1>4. k <= cp - 1 /\ \A j \in cp - k .. cp - 1 : text[j] # Space
  BY <1>1 DEF InHand
<1>5. PICK i \in Int : i = cp - M
  BY <1>2
<1>6. i \in 1 .. N - M /\ i + M = cp
  BY <1>2, <1>3, <1>4, <1>5
<1>7. \A j \in i .. i + M : text[j] # Space
  <2>1. \A j \in i .. i + M : j = cp \/ j \in cp - k .. cp - 1
    BY <1>2, <1>3, <1>5, <1>6
  <2> QED
    BY <1>2, <1>4, <2>1
<1> QED
  BY <1>1, <1>6, <1>7 DEF Overlong

\* The word goes behind the bytes of b, and the rest is as it was.
LEMMA PlaceKeeps ==
    ASSUME WrapTyped, pc = "place", Kept, NEW b \in Line, b.position = Len(b.text),
           NEW w, Place(b, w), ~lost'
    PROVE  \E t \in Seq(Byte), word \in Seq(Byte) :
               /\ t = b.text /\ word = word_buf /\ Solid(word) /\ line_buf'.text = t \o word
               /\ Len(t \o word) <= MAX_LINE_LENGTH
               /\ InPlace' /\ InHand' /\ Apart' /\ SoFar' = SoFar /\ text' = text /\ pc' = "outer"
<1>1. /\ line_buf' = puts(b, word_buf) /\ ~ (Len(b.text \o word_buf) > MAX_LINE_LENGTH)
      /\ pc' = "outer" /\ UNCHANGED <<text, cp>>
  BY DEF Place, Goes
<1>2. PICK word \in Seq(Byte) : word = word_buf
  BY WordTyped
<1>3. PICK t \in Seq(Byte) : t = b.text
  BY LineIs
<1>4. InHand /\ Apart
  BY DEF Kept
<1>5. Solid(word)
  BY <1>2, <1>4 DEF InHand
<1>6. PICK s \in Seq(Byte) : s = t \o word /\ Len(s) \in Nat
  BY ConcatProperties, LenProperties
<1>7. Len(b.text \o word) <= MAX_LINE_LENGTH
  <2>1. ~ (Len(s) > MAX_LINE_LENGTH)
    BY <1>1, <1>2, <1>3, <1>6
  <2>2. Len(s) <= MAX_LINE_LENGTH
    BY <1>6, <2>1, WrapAssumption
  <2> QED
    BY <1>3, <1>6, <2>2
<1>8. puts(b, word).text = b.text \o word /\ puts(b, word).position = Len(b.text \o word)
  BY <1>2, <1>7, PutsIs
<1>9. line_buf'.text = t \o word /\ line_buf'.position = Len(line_buf'.text)
  BY <1>1, <1>2, <1>3, <1>8
<1>10. InHand' /\ InPlace' /\ SoFar' = SoFar
  BY <1>1, <1>9 DEF InHand, InPlace, SoFar
<1>11. Apart'
  <2>1. AtEnd \/ AtSpace \/ Overlong(text)
    BY <1>4, CutIsOverlong
  <2> QED
    BY <1>1, <2>1 DEF Apart, AtEnd, AtSpace, Overlong
<1> QED
  BY <1>1, <1>2, <1>3, <1>5, <1>7, <1>9, <1>10, <1>11

\* What is displayed while there is a word in hand.
LEMMA DisplayedIs ==
    ASSUME WrapTyped, pc = "place", Kept
    PROVE  \E X \in Seq(Byte), l \in Seq(Byte), word \in Seq(Byte), D \in Seq(Byte) :
               /\ X = OneText(printed) /\ l = line_buf.text /\ word = word_buf
               /\ D = (((X \o <<Space>>) \o l) \o <<Space>>) \o word
               /\ Letters(D) = Letters(SoFar) /\ (~Overlong(text) => Words(D) = Words(SoFar))
<1>1. PICK X \in Seq(Byte), l \in Seq(Byte), L \in Seq(Byte) :
          /\ X = OneText(printed) /\ l = line_buf.text /\ L = LinesShown
          /\ L = (X \o <<Space>>) \o l
  BY LinesShownIs
<1>2. PICK word \in Seq(Byte) : word = word_buf
  BY WordTyped
<1>3. PICK D \in Seq(Byte) : D = (((X \o <<Space>>) \o l) \o <<Space>>) \o word
  <2>1. L \o <<Space>> \in Seq(Byte)
    BY SpaceIsByte, ConcatProperties
  <2>2. (L \o <<Space>>) \o word \in Seq(Byte)
    BY <2>1, ConcatProperties
  <2> QED
    BY <1>1, <2>2
<1>4. D = Displayed
  BY <1>1, <1>2, <1>3 DEF Displayed
<1> QED
  BY <1>1, <1>2, <1>3, <1>4 DEF Kept, AllThere

LEMMA PlaceFirstKeeps ==
    ASSUME WrapTyped, Kept, PlaceFirst, ~lost'
    PROVE  Kept'
<1>1. /\ pc = "place" /\ line_buf.position = 0 /\ Place(Indented(first_line), width_of_line)
      /\ UNCHANGED printed
  BY DEF PlaceFirst
<1>2. PICK X \in Seq(Byte), l \in Seq(Byte), word \in Seq(Byte), D \in Seq(Byte) :
          /\ X = OneText(printed) /\ l = line_buf.text /\ word = word_buf
          /\ D = (((X \o <<Space>>) \o l) \o <<Space>>) \o word
          /\ Letters(D) = Letters(SoFar) /\ (~Overlong(text) => Words(D) = Words(SoFar))
  BY <1>1, DisplayedIs
<1>3. l = <<>>
  BY <1>1, <1>2, EmptySeq DEF Kept, InPlace
<1>4. PICK b \in Line : /\ b = Indented(first_line) /\ b.position = Len(b.text)
                        /\ \A i \in 1 .. Len(b.text) : b.text[i] = Space
  BY IndentedIs DEF WrapTyped
<1>5. PICK t \in Seq(Byte) :
          /\ t = b.text /\ line_buf'.text = t \o word
          /\ InPlace' /\ InHand' /\ Apart' /\ SoFar' = SoFar /\ text' = text /\ pc' = "outer"
  <2>1. Place(b, width_of_line) /\ b.position = Len(b.text)
    BY <1>1, <1>4
  <2> QED
    BY <1>1, <1>2, <2>1, PlaceKeeps
<1>6. Spaces(t)
  BY <1>4, <1>5 DEF Spaces
<1>7. PICK E, R, S : E = Displayed' /\ R = SoFar' /\ S = text'
  OBVIOUS
<1>8. E = (X \o <<Space>>) \o (t \o word)
  <2>1. PICK lines \in Seq(Seq(Byte)) : lines = printed
    BY DEF WrapTyped
  <2>2. PICK m \in Seq(Byte) : m = t \o word
    BY <1>2, <1>5, ConcatProperties
  <2>3. OneText(Append(lines, m)) = (OneText(lines) \o <<Space>>) \o m
    BY OneTextMore
  <2>4. E = OneText(Append(lines, m))
    BY <1>1, <1>5, <1>7, <2>1, <2>2 DEF Displayed, LinesShown
  <2> QED
    BY <1>2, <2>1, <2>2, <2>3, <2>4
<1>9. /\ Letters((X \o <<Space>>) \o (t \o word))
             = Letters((((X \o <<Space>>) \o <<>>) \o <<Space>>) \o word)
      /\ Words((X \o <<Space>>) \o (t \o word))
             = Words((((X \o <<Space>>) \o <<>>) \o <<Space>>) \o word)
  BY <1>6, WordFirst
<1>10. Letters(E) = Letters(D) /\ Words(E) = Words(D)
  BY <1>2, <1>3, <1>8, <1>9
<1>11. R = SoFar /\ S = text
  BY <1>5, <1>7
<1>12. AllThere'
  BY <1>2, <1>7, <1>10, <1>11, KeptNow
<1> QED
  BY <1>5, <1>12 DEF Kept

LEMMA PlaceBelowKeeps ==
    ASSUME WrapTyped, Kept, PlaceBelow, ~lost'
    PROVE  Kept'
<1>1. /\ pc = "place" /\ printed' = Append(printed, Bytes(line_buf)) /\ Place(Indented(FALSE), 0)
  BY DEF PlaceBelow
<1>2. PICK X \in Seq(Byte), l \in Seq(Byte), word \in Seq(Byte), D \in Seq(Byte) :
          /\ X = OneText(printed) /\ l = line_buf.text /\ word = word_buf
          /\ D = (((X \o <<Space>>) \o l) \o <<Space>>) \o word
          /\ Letters(D) = Letters(SoFar) /\ (~Overlong(text) => Words(D) = Words(SoFar))
  BY <1>1, DisplayedIs
<1>3. Bytes(line_buf) = l
  BY <1>1, <1>2, BytesAre DEF Kept, InPlace, WrapTyped
<1>4. PICK b \in Line : /\ b = Indented(FALSE) /\ b.position = Len(b.text)
                        /\ \A i \in 1 .. Len(b.text) : b.text[i] = Space
  <2>1. PICK first \in BOOLEAN : first = FALSE
    OBVIOUS
  <2> QED
    BY <2>1, IndentedIs
<1>5. PICK none : none = 0
  OBVIOUS
<1>6. PICK t \in Seq(Byte) :
          /\ t = b.text /\ line_buf'.text = t \o word
          /\ InPlace' /\ InHand' /\ Apart' /\ SoFar' = SoFar /\ text' = text /\ pc' = "outer"
  <2>1. Place(b, none) /\ b.position = Len(b.text)
    BY <1>1, <1>4, <1>5
  <2> QED
    BY <1>1, <1>2, <2>1, PlaceKeeps
<1>7. Spaces(t)
  BY <1>4, <1>6 DEF Spaces
<1>8. PICK E, R, S : E = Displayed' /\ R = SoFar' /\ S = text'
  OBVIOUS
<1>9. PICK Y \in Seq(Byte) : Y = (X \o <<Space>>) \o l
  BY <1>2, SpaceIsByte, ConcatProperties
<1>10. E = (Y \o <<Space>>) \o (t \o word)
  <2>1. PICK lines \in Seq(Seq(Byte)) : lines = printed
    BY DEF WrapTyped
  <2>2. PICK m \in Seq(Byte) : m = t \o word
    BY <1>2, <1>6, ConcatProperties
  <2>3. OneText(Append(lines, l)) = (OneText(lines) \o <<Space>>) \o l
    BY <1>2, OneTextMore
  <2>4. PICK more \in Seq(Seq(Byte)) : more = Append(lines, l)
    BY <1>2, AppendProperties
  <2>5. OneText(Append(more, m)) = (OneText(more) \o <<Space>>) \o m
    BY OneTextMore
  <2>6. printed' = more
    BY <1>1, <1>3, <2>1, <2>4
  <2>7. E = OneText(Append(more, m))
    BY <1>6, <1>8, <2>2, <2>6 DEF Displayed, LinesShown
  <2>8. OneText(more) = Y
    BY <1>2, <1>9, <2>1, <2>3, <2>4
  <2> QED
    BY <2>2, <2>5, <2>7, <2>8
<1>11. /\ Letters((Y \o <<Space>>) \o (t \o word)) = Letters((Y \o <<Space>>) \o word)
       /\ Words((Y \o <<Space>>) \o (t \o word)) = Words((Y \o <<Space>>) \o word)
  BY <1>7, WordBelow
<1>12. Letters(E) = Letters(D) /\ Words(E) = Words(D)
  BY <1>2, <1>9, <1>10, <1>11
<1>13. R = SoFar /\ S = text
  BY <1>6, <1>8
<1>14. AllThere'
  BY <1>2, <1>8, <1>12, <1>13, KeptNow
<1> QED
  BY <1>6, <1>14 DEF Kept

LEMMA PlaceBehindKeeps ==
    ASSUME WrapTyped, Kept, PlaceBehind, ~lost'
    PROVE  Kept'
<1>1. /\ pc = "place" /\ line_buf.position # 0
      /\ Place(putc(line_buf, Space), width_of_line + 1) /\ UNCHANGED printed
  BY DEF PlaceBehind
<1>2. PICK X \in Seq(Byte), l \in Seq(Byte), word \in Seq(Byte), D \in Seq(Byte) :
          /\ X = OneText(printed) /\ l = line_buf.text /\ word = word_buf
          /\ D = (((X \o <<Space>>) \o l) \o <<Space>>) \o word
          /\ Letters(D) = Letters(SoFar) /\ (~Overlong(text) => Words(D) = Words(SoFar))
  BY <1>1, DisplayedIs
<1>3. line_buf \in Line /\ line_buf.position = Len(l) /\ Len(l) \in Nat
  BY <1>1, <1>2, LenProperties DEF Kept, InPlace, WrapTyped
<1>4. PICK b \in Line : b = putc(line_buf, Space)
  BY <1>3, SpaceIsByte, PutcIs
<1>5. PICK more : more = width_of_line + 1
  OBVIOUS
<1>6. Place(b, more)
  BY <1>1, <1>4, <1>5
<1>7. line_buf.position < MAX_LINE_LENGTH
  <2> SUFFICES ASSUME ~ (line_buf.position < MAX_LINE_LENGTH) PROVE FALSE
    OBVIOUS
  <2>1. PICK M \in Nat : M = MAX_LINE_LENGTH /\ line_buf.position >= M
    BY <1>3, WrapAssumption
  <2>2. b = line_buf
    BY <1>3, <1>4, <2>1, SpaceIsByte, PutcIs
  <2>3. Len(l \o word) <= M /\ Solid(word)
    BY <1>1, <1>2, <1>3, <1>6, <2>1, <2>2, PlaceKeeps
  <2>4. Len(l \o word) = Len(l) + Len(word) /\ Len(word) \in Nat
    BY ConcatProperties, LenProperties
  <2>5. Len(word) > 0
    BY <2>3 DEF Solid
  <2> QED
    BY <1>3, <2>1, <2>3, <2>4, <2>5
<1>8. b.text = Append(l, Space) /\ b.position = Len(b.text)
  <2>1. b.text = Append(line_buf.text, Space) /\ b.position = line_buf.position + 1
    BY <1>3, <1>4, <1>7, SpaceIsByte, PutcIs
  <2>2. Len(Append(l, Space)) = Len(l) + 1
    BY SpaceIsByte, AppendProperties
  <2> QED
    BY <1>2, <1>3, <2>1, <2>2
<1>9. PICK t \in Seq(Byte) :
          /\ t = b.text /\ line_buf'.text = t \o word
          /\ InPlace' /\ InHand' /\ Apart' /\ SoFar' = SoFar /\ text' = text /\ pc' = "outer"
  BY <1>1, <1>2, <1>6, <1>8, PlaceKeeps
<1>10. PICK E, R, S : E = Displayed' /\ R = SoFar' /\ S = text'
  OBVIOUS
<1>11. E = (X \o <<Space>>) \o (t \o word)
  <2>1. PICK lines \in Seq(Seq(Byte)) : lines = printed
    BY DEF WrapTyped
  <2>2. PICK m \in Seq(Byte) : m = t \o word
    BY ConcatProperties
  <2>3. OneText(Append(lines, m)) = (OneText(lines) \o <<Space>>) \o m
    BY OneTextMore
  <2>4. E = OneText(Append(lines, m))
    BY <1>1, <1>9, <1>10, <2>1, <2>2 DEF Displayed, LinesShown
  <2> QED
    BY <1>2, <2>1, <2>2, <2>3, <2>4
<1>12. (X \o <<Space>>) \o (Append(l, Space) \o word)
           = (((X \o <<Space>>) \o l) \o <<Space>>) \o word
  BY WordBehind, ZenonT(60)
<1>13. E = D
  BY <1>2, <1>8, <1>9, <1>11, <1>12
<1>14. R = SoFar /\ S = text
  BY <1>9, <1>10
<1>15. AllThere'
  BY <1>2, <1>10, <1>13, <1>14, KeptNow
<1> QED
  BY <1>9, <1>15 DEF Kept

LEMMA WrapKeeps ==
    ASSUME WrapTyped, Intact => Kept, Wrap, Intact'
    PROVE  Kept'
<1>1. ~lost' /\ ~failed'
  BY DEF Intact
<1>2. ASSUME lost \/ failed PROVE FALSE
  <2>1. CASE Finish \/ SkipSpace \/ EndWord \/ WriteFails
    BY <1>1, <1>2, <2>1 DEF Finish, Emits, SkipSpace, EndWord, WriteFails
  <2>2. CASE BeginWord \/ GrabMore
    BY <1>1, <1>2, <2>2 DEF BeginWord, GrabMore, Grab
  <2>3. CASE PlaceFirst \/ PlaceBehind \/ PlaceBelow
    BY <1>1, <1>2, <2>3 DEF PlaceFirst, PlaceBehind, PlaceBelow, Place
  <2> QED
    BY <2>1, <2>2, <2>3 DEF Wrap
<1>3. Kept
  BY <1>2 DEF Intact
<1>4. CASE Finish
  BY <1>3, <1>4, FinishKeeps
<1>5. CASE SkipSpace
  BY <1>3, <1>5, SkipKeeps
<1>6. CASE BeginWord
  BY <1>1, <1>3, <1>6, BeginKeeps
<1>7. CASE GrabMore
  BY <1>1, <1>3, <1>7, GrabMoreKeeps
<1>8. CASE EndWord
  BY <1>3, <1>8, EndKeeps
<1>9. CASE PlaceFirst
  BY <1>1, <1>3, <1>9, PlaceFirstKeeps
<1>10. CASE PlaceBehind
  BY <1>1, <1>3, <1>10, PlaceBehindKeeps
<1>11. CASE PlaceBelow
  BY <1>1, <1>3, <1>11, PlaceBelowKeeps
<1>12. CASE WriteFails
  BY <1>1, <1>12 DEF WriteFails
<1> QED
  BY <1>4, <1>5, <1>6, <1>7, <1>8, <1>9, <1>10, <1>11, <1>12 DEF Wrap

LEMMA NInvInit == Init => NInv
BY DEF Init, InitWrap, NInv

LEMMA NInvNext == TInv /\ NInv /\ [Next]_vars => NInv'
<1> SUFFICES ASSUME TInv, NInv, [Next]_vars PROVE NInv'
  OBVIOUS
<1>1. WrapTyped
  BY DEF TInv
<1>2. CASE MakeMessage
  <2>1. PICK message : pc = "message" /\ StartWrap(message)
    BY <1>2 DEF MakeMessage
  <2>2. printed = <<>>
    BY <2>1 DEF NInv
  <2>3. Kept' /\ pc' = "outer"
    BY <1>1, <2>1, <2>2, StartKeeps DEF StartWrap
  <2> QED
    BY <2>3 DEF NInv
<1>3. CASE PrintMessage
  <2>1. Wrap /\ UNCHANGED <<result, maximum>>
    BY <1>3 DEF PrintMessage, inputs
  <2>2. pc' # "message" /\ pc # "message"
    BY <1>1, <2>1, WrapKeepsTypes
  <2>3. Intact' => Kept'
    BY <1>1, <2>1, <2>2, WrapKeeps DEF NInv
  <2> QED
    BY <2>2, <2>3 DEF NInv
<1>4. CASE Returned \/ UNCHANGED vars
  <2>1. UNCHANGED wrapVars
    BY <1>4 DEF Returned, vars
  <2>2. UNCHANGED <<text, cp, line_buf, word_buf, pc, printed, failed, lost>>
    BY <2>1 DEF wrapVars
  <2>3. Intact' <=> Intact
    BY <2>2 DEF Intact
  <2>4. ASSUME Kept PROVE Kept'
    <3>1. (InPlace' <=> InPlace) /\ (InHand' <=> InHand)
      BY <2>2 DEF InPlace, InHand
    <3>2. Apart' <=> Apart
      BY <2>2 DEF Apart, AtEnd, AtSpace
    <3>3. PICK E, R, S : E = Displayed' /\ R = SoFar' /\ S = text'
      OBVIOUS
    <3>4. E = Displayed /\ R = SoFar /\ S = text
      BY <2>2, <3>3 DEF Displayed, LinesShown, SoFar
    <3>5. AllThere'
      BY <2>4, <3>3, <3>4, KeptNow DEF Kept, AllThere
    <3> QED
      BY <2>2, <2>4, <3>1, <3>2, <3>5 DEF Kept
  <2> QED
    BY <2>2, <2>3, <2>4 DEF NInv
<1> QED
  BY <1>2, <1>3, <1>4 DEF Next

LEMMA OneMore ==
    ASSUME NEW S, NEW s \in Seq(S), NEW x \in S
    PROVE  s \o <<x>> = Append(s, x) /\ s \o <<>> = s /\ Append(s, x) \in Seq(S)
BY AppendIsConcat, AppendProperties, ConcatEmptySeq

(* What is printed, with the line and the word in the making, is what was   *)
(* read of the text, word for word and in order, until an array is too      *)
(* small for a line or a word, or a write fails (wrap_and_print.c:115-180). *)
THEOREM NothingIsLost == Spec => []NothingLost
<1>1. TInv /\ NInv => NothingLost
  <2> SUFFICES ASSUME TInv, NInv, Intact,
                      NEW line, line = IF pc = "returned" THEN <<>> ELSE <<line_buf.text>>,
                      NEW word, word = IF pc \in {"word", "place"} THEN <<word_buf>> ELSE <<>>,
                      NEW D, D = OneText(printed \o line \o word)
               PROVE  /\ Letters(D) = Letters(SoFar)
                      /\ ~Overlong(text) => Words(D) = Words(SoFar)
    BY DEF NothingLost, SoFar, Intact
  <2>1. WrapTyped
    BY DEF TInv
  <2>2. PICK lines \in Seq(Seq(Byte)), l \in Seq(Byte), w \in Seq(Byte) :
            lines = printed /\ l = line_buf.text /\ w = word_buf
    BY <2>1, LineIs, WordTyped DEF WrapTyped
  <2>3. PICK more \in Seq(Seq(Byte)) : /\ more = Append(lines, l) /\ lines \o <<l>> = more
                                       /\ lines \o <<>> = lines /\ more \o <<>> = more
                                       /\ more \o <<w>> = Append(more, w)
    <3>1. PICK T : T = Seq(Byte)
      OBVIOUS
    <3>2. lines \in Seq(T) /\ l \in T /\ w \in T
      BY <2>2, <3>1
    <3>3. lines \o <<l>> = Append(lines, l) /\ lines \o <<>> = lines /\ Append(lines, l) \in Seq(T)
      BY <3>2, OneMore
    <3>4. PICK more \in Seq(T) : more = Append(lines, l)
      BY <3>3
    <3>5. more \o <<w>> = Append(more, w) /\ more \o <<>> = more
      BY <3>2, OneMore
    <3> QED
      BY <3>1, <3>3, <3>4, <3>5
  <2>4. CASE pc = "message"
    <3>1. lines = <<>> /\ l = <<>> /\ SoFar = <<>>
      BY <2>1, <2>2, <2>4, SoFarIs DEF NInv, EmptyLine
    <3>2. D = OneText(more)
      BY <2>2, <2>3, <2>4
    <3>3. D = OneText(Append(<<>>, <<>>))
      BY <2>3, <3>1, <3>2
    <3> QED
      BY <3>1, <3>3, NothingShown
  <2>5. CASE pc # "message"
    <3>1. D = Displayed
      <4>1. CASE pc = "returned"
        BY <2>2, <2>3, <4>1 DEF Displayed, LinesShown
      <4>2. CASE pc \in {"word", "place"}
        <5>1. D = OneText(Append(more, w))
          BY <2>2, <2>3, <4>2
        <5>2. OneText(Append(more, w)) = (OneText(more) \o <<Space>>) \o w
          BY OneTextMore
        <5> QED
          BY <2>2, <2>3, <4>2, <5>1, <5>2 DEF Displayed, LinesShown
      <4>3. CASE pc \notin {"returned", "word", "place"}
        BY <2>2, <2>3, <4>3 DEF Displayed, LinesShown
      <4> QED
        BY <4>1, <4>2, <4>3
    <3> QED
      BY <2>5, <3>1 DEF NInv, Kept, AllThere
  <2> QED
    BY <2>4, <2>5
<1>2. Spec => []NInv
  BY NInvInit, NInvNext, TInvAlways, PTL DEF Spec
<1> QED
  BY <1>1, <1>2, TInvAlways, PTL
=============================================================================
