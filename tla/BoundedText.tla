----------------------------- MODULE BoundedText -----------------------------
(***************************************************************************)
(* What a string buffer promises its clients: of everything they asked it  *)
(* to hold, in the order they asked, it shows the longest prefix there is  *)
(* room for.  Text that follows something that did not fit is never shown. *)
(* StringBuffer implements this.                                           *)
(***************************************************************************)
EXTENDS Integers, Sequences

CONSTANTS
    Strings,        \* the texts that clients pass
    Dot, Slash      \* the characters '.' and '/'

VARIABLES
    room,           \* how many characters the buffer can show
    asked,          \* what the clients asked it to hold
    text            \* what it shows

btVars == <<room, asked, text>>

\* The first n elements of s, or s when it has no more than n.
Prefix(s, n) == SubSeq(s, 1, IF Len(s) < n THEN Len(s) ELSE n)

(***************************************************************************)
(* The path that "path/s" names, where a path of "." is left out and a     *)
(* slash is not doubled.                                                   *)
(***************************************************************************)
Joined(path, s) ==
    IF path = <<Dot>> THEN s
    ELSE IF path = <<>> \/ path[Len(path)] = Slash THEN path \o s
    ELSE Append(path, Slash) \o s

Show(a) ==
    /\ asked' = a
    /\ text' = Prefix(a, room)
    /\ UNCHANGED room

BTInit ==
    /\ room \in Nat
    /\ asked = <<>>
    /\ text = <<>>

Add(s)    == Show(asked \o s)
Join(s)   == Show(Joined(asked, s))
Replace(s) == Show(s)
Forget    == Show(<<>>)

\* Keep at most n characters.  What did not fit is forgotten only when something of
\* what did fit goes too.
Keep(n) == Show(IF n < room THEN Prefix(asked, n) ELSE asked)

BTNext ==
    \/ \E s \in Strings : Add(s) \/ Join(s) \/ Replace(s)
    \/ \E n \in 0 .. room : Keep(n)
    \/ Forget

BTSpec == BTInit /\ [][BTNext]_btVars
===============================================================================
