---------------------------- MODULE StringBuffer ----------------------------
(***************************************************************************)
(* explain_string_buffer_t: every message, path and name of the library is *)
(* built in a fixed array through it (string_buffer.c, string_buffer/).    *)
(*                                                                         *)
(* "sb" is the structure of the code without "maximum", which never        *)
(* changes after init: "message" maps the indexes of the array to          *)
(* characters or NUL.  "asked" is a history of what the clients asked the  *)
(* buffer to hold, "stray" remembers whether memory past the array was     *)
(* read or written: printf can do that, once puts has cut a text short     *)
(* and left "position" one past the last index.                            *)
(***************************************************************************)
EXTENDS Integers, Sequences, FiniteSets

CONSTANTS
    Char, Dot, Slash,   \* the characters; '.' and '/' among them
    NUL,                \* the terminator
    Sizes,              \* the message_size arguments of init
    Texts,              \* the strings that clients pass
    MaxAsked,           \* bound: clients ask for at most this many characters
    MaxStray            \* bound: strlen finds a zero byte this far past the array

ASSUME CharAssumption ==
    /\ {Dot, Slash} \subseteq Char
    /\ Dot # Slash
    /\ NUL \notin Char

ASSUME SizesAssumption ==
    /\ Sizes \subseteq Int
    /\ Texts \subseteq Seq(Char)
    /\ MaxAsked \in Nat
    /\ MaxStray \in Nat

VARIABLES
    maximum,        \* sb->maximum
    sb,             \* [message, position]
    asked,          \* history: what the buffer was asked to hold
    stray           \* history: "none", "read" or "written" past the array

vars == <<maximum, sb, asked, stray>>

\* How many times "./" stands at the front of s, and what follows.
Dots(s) == Cardinality({j \in 1 .. Len(s) : \A i \in 1 .. j :
                            /\ 2 * i <= Len(s)
                            /\ s[2 * i - 1] = Dot
                            /\ s[2 * i] = Slash})
Skipped(s) == SubSeq(s, 2 * Dots(s) + 1, Len(s))

\* The text that a reader of the array sees.
Shown == LET n == IF sb.position < maximum - 1 THEN sb.position ELSE maximum - 1
         IN  [i \in 1 .. n |-> sb.message[i - 1]]

BT == INSTANCE BoundedText WITH
        Strings <- Texts \cup {Skipped(s) : s \in Texts} \cup {<<c>> : c \in Char},
        room <- maximum - 1,
        text <- Shown

-----------------------------------------------------------------------------
(***************************************************************************)
(* The operations, as functions of the structure b.                        *)
(***************************************************************************)
Least(m, n) == IF m < n THEN m ELSE n

\* Mutant: no NUL behind it.
Stored_open(m, at, s) ==
    [i \in DOMAIN m |-> IF at <= i /\ i < at + Len(s) THEN s[i - at + 1] ELSE m[i]]

\* memcpy of s to message + at, and a NUL behind it.
Stored(m, at, s) ==
    [i \in DOMAIN m |->
        IF at <= i /\ i < at + Len(s) THEN s[i - at + 1]
        ELSE IF i = at + Len(s) THEN NUL
        ELSE m[i]]

\* What is left for characters behind the position.
Available(b) == maximum - 1 - b.position

\* Store as much of s as fits.
Filled(b, s) ==
    LET cut == BT!Prefix(s, Available(b))
    IN  [message  |-> Stored(b.message, b.position, cut),
         position |-> b.position + Len(cut)]

putc(b, c) ==
    IF b.position < maximum - 1 THEN Filled(b, <<c>>) ELSE b

\* Mutants: what does not fit is left out; the position counts what was lost.
puts_whole(b, s) == IF Len(s) > Available(b) THEN b ELSE Filled(b, s)
puts_counting(b, s) == [Filled(b, s) EXCEPT !.position = b.position + Len(s)]

\* strendcpy returns the end of the array when it cut the string short.
puts(b, s) ==
    IF b.position >= maximum THEN b
    ELSE IF Len(s) > Available(b)
    THEN [Filled(b, s) EXCEPT !.position = maximum]
    ELSE Filled(b, s)

write(b, s) ==
    IF b.position + 1 < maximum THEN Filled(b, s) ELSE b

\* vsnprintf in front of the end of the array.
vprintf(b, s) == Filled(b, s)

full(b) == b.position >= maximum - 1

\* Mutant: no slash goes in between.
path_join_blind(b, t) == puts(b, t)

\* A path of "." is replaced, a slash goes in between unless one is there.
path_join(b, t) ==
    IF b.position = 1 /\ b.message[0] = Dot
    THEN puts([b EXCEPT !.position = 0], t)
    ELSE IF b.position > 0 /\ b.message[b.position - 1] # Slash
    THEN puts(putc(b, Slash), t)
    ELSE puts(b, t)

-----------------------------------------------------------------------------
Init ==
    /\ \E size \in Sizes : maximum = IF size <= 0 THEN 1 ELSE size
    /\ \E junk \in Char \cup {NUL} :
          sb = [message |-> [i \in 0 .. maximum - 1 |->
                                IF i = 0 THEN NUL ELSE junk],
                position |-> 0]
    /\ asked = <<>>
    /\ stray = "none"

\* A call that leaves b behind; the buffer is now asked to hold a.
Becomes(b, a) ==
    /\ Len(a) <= MaxAsked
    /\ sb' = b
    /\ asked' = a
    /\ UNCHANGED <<maximum, stray>>

Putc(c)  == Becomes(putc(sb, c), Append(asked, c))
Puts(s)  == Becomes(puts(sb, s), asked \o s)
Write(s) == Becomes(write(sb, s), asked \o s)
Copy(s)  == Becomes(puts([sb EXCEPT !.position = 0], s), s)

Rewind ==
    Becomes([message |-> [sb.message EXCEPT ![0] = NUL], position |-> 0], <<>>)

\* Paths are built in arrays of PATH_MAX + 1 characters, none of 2, and
\* without printf.
PathJoin(s) ==
    LET t == Skipped(s)
    IN  /\ maximum # 2
        /\ t \notin {<<>>, <<Dot>>}
        /\ sb.position <= maximum
        /\ Becomes(path_join(sb, t), BT!Joined(asked, t))

Printf(s) ==
    /\ sb.position < maximum
    /\ Becomes(vprintf(sb, s), asked \o s)

\* vsnprintf has no room or, when its size argument has wrapped, any amount
\* of it; strlen then reads on behind the array.
PrintfPastEnd(s) ==
    /\ sb.position >= maximum
    /\ Len(asked \o s) <= MaxAsked
    /\ \E n \in (IF sb.position = maximum THEN 0 .. MaxStray ELSE {Len(s)}) :
          /\ sb.position + n <= maximum + MaxStray
          /\ sb' = [sb EXCEPT !.position = @ + n]
    /\ asked' = asked \o s
    /\ stray' = IF sb.position > maximum THEN "written"
                ELSE IF stray = "none" THEN "read" ELSE stray
    /\ UNCHANGED maximum

\* Mutant: a long that is negative stays so.
new_size_signed(n) == n

new_size(n) == IF n < 0 THEN 0 ELSE n

\* What does not shorten the text changes nothing.
Truncate(n) ==
    LET size == new_size(n)
        m    == sb.message
    IN  /\ size < sb.position
        /\ sb' = [message  |-> [i \in DOMAIN m |-> IF i = size THEN NUL ELSE m[i]],
                  position |-> size]
        /\ asked' = IF size < maximum - 1 THEN BT!Prefix(asked, size) ELSE asked
        /\ stray' = IF size >= maximum THEN "written" ELSE stray
        /\ UNCHANGED maximum

Next ==
    \/ \E c \in Char : Putc(c)
    \/ \E s \in Texts : \/ Puts(s)
                        \/ Write(s)
                        \/ Copy(s)
                        \/ PathJoin(s)
                        \/ Printf(s)
                        \/ PrintfPastEnd(s)
    \/ Rewind
    \/ \E n \in -1 .. maximum + MaxStray : Truncate(n)

Spec == Init /\ [][Next]_vars

-----------------------------------------------------------------------------
(***************************************************************************)
(* Types.                                                                  *)
(***************************************************************************)
TypeOK ==
    /\ maximum \in Nat \ {0}
    /\ sb \in [message : [0 .. maximum - 1 -> Char \cup {NUL}], position : Nat]
    /\ asked \in Seq(Char)
    /\ stray \in {"none", "read", "written"}

(***************************************************************************)
(* A reader of the array finds a terminator in it, and in front of it the  *)
(* longest prefix of what was asked that there is room for: no call, in    *)
(* whatever order they come, lets text follow a hole                       *)
(* (string_buffer/puts.c, putc.c, write.c, vprintf.c, path_join.c).        *)
(***************************************************************************)
Carries(b, a) ==
    \A i \in 1 .. Least(Len(a), maximum - 1) : b.message[i - 1] = a[i]
Shows(b, a) ==
    /\ b.message[Least(Len(a), maximum - 1)] = NUL
    /\ Carries(b, a)
ShowsPrefix == Shows(sb, asked)

(***************************************************************************)
(* A client that asks full() learns of every loss: the position of a       *)
(* buffer that dropped something, by whichever call, is never in front of  *)
(* the last index; and as long as nothing is lost the position is the      *)
(* length of the text (string_buffer/full.c).                              *)
(***************************************************************************)
Tells(b, a) ==
    IF Len(a) <= maximum - 1 THEN b.position = Len(a) ELSE full(b)
LossTells == Tells(sb, asked)

(***************************************************************************)
(* Memory behind the array is touched only through a printf that follows a *)
(* puts which cut its string, never through the other calls alone: as long *)
(* as no printf did, the position stays in the array or one past it        *)
(* (string_buffer/vprintf.c:30-33).                                        *)
(***************************************************************************)
StrayIsPrintf ==
    stray = "none" => sb.position <= maximum

(***************************************************************************)
(* The buffer is a BoundedText.                                            *)
(***************************************************************************)
IsBoundedText == BT!BTSpec
===============================================================================
