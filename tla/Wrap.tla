-------------------------------- MODULE Wrap --------------------------------
(***************************************************************************)
(* explain_wrap_and_print_width: every message that goes to stderr is      *)
(* broken into lines between words (wrap_and_print.c, as it is compiled    *)
(* where mbrtowc and wcwidth exist).                                       *)
(*                                                                         *)
(* A text is a sequence of bytes.  Lead and Trail are the two bytes of a   *)
(* letter like "é", one column wide; either of them alone is no character. *)
(* line_buf is its text and its position, as in Explanation.               *)
(***************************************************************************)
EXTENDS Integers, Sequences, FiniteSets

CONSTANTS
    Space, Lead, Trail, NUL,    \* bytes
    Widths, Indents,            \* of the terminal, of the option
    MAX_LINE_LENGTH

ASSUME WrapAssumption ==
    /\ MAX_LINE_LENGTH \in Nat \ {0}
    /\ Widths \subseteq Nat \ {0}
    /\ Indents \subseteq Int
    /\ Space # Lead /\ Space # Trail /\ Lead # Trail

VARIABLES
    text, cp,           \* what is printed, and how far it was read
    width, hanging_indent,
    line_buf, word_buf, width_of_line, width_of_word, first_line,
    pc,                 \* "message", "outer", "word", "place", "returned"
    printed,            \* the lines that fwrite was given
    failed,             \* history: fwrite has failed
    lost                \* history: a line or a word was longer than its array

wrapVars == <<text, cp, width, hanging_indent, line_buf, word_buf, width_of_line,
              width_of_word, first_line, pc, printed, failed, lost>>

-----------------------------------------------------------------------------
(***************************************************************************)
(* External: mbrtowc, wcwidth.  A byte that begins no character is taken   *)
(* for one, whose width is -1.                                             *)
(***************************************************************************)
IsLetter(s, i) == i \in 1 .. Len(s) - 1 /\ s[i] = Lead /\ s[i + 1] = Trail

mbrtowc(s, i) == IF IsLetter(s, i) THEN 2 ELSE 1

wcwidth(s, i) == IF ~IsLetter(s, i) /\ s[i] \in {Lead, Trail} THEN -1 ELSE 1

-----------------------------------------------------------------------------
EmptyLine == [text |-> <<>>, position |-> 0]

\* explain_string_buffer_write, _putc and _puts for arrays of
\* MAX_LINE_LENGTH + 1 bytes.
Fitting(s) == SubSeq(s, 1, IF Len(s) < MAX_LINE_LENGTH THEN Len(s) ELSE MAX_LINE_LENGTH)

write(s, bytes) == Fitting(s \o bytes)

putc(b, c) ==
    IF b.position < MAX_LINE_LENGTH
    THEN [text |-> Append(b.text, c), position |-> b.position + 1] ELSE b

puts(b, s) ==
    IF b.position > MAX_LINE_LENGTH THEN b
    ELSE [text     |-> Fitting(b.text \o s),
          position |-> IF Len(b.text \o s) > MAX_LINE_LENGTH
                       THEN MAX_LINE_LENGTH + 1 ELSE Len(b.text \o s)]

\* What fwrite is given: a NUL too, when puts has cut the line.
Bytes(b) == IF b.position > Len(b.text) THEN Append(b.text, NUL) ELSE b.text

full(s) == Len(s) >= MAX_LINE_LENGTH

-----------------------------------------------------------------------------
\* Mutant: as the option says.
option_hanging_indent_any(w, n) == IF n <= 0 THEN 0 ELSE n

\* explain_option_hanging_indent.
option_hanging_indent(w, n) ==
    LET most == (w + 5) \div 10
    IN  IF n <= 0 THEN 0 ELSE IF n > most THEN most ELSE n

StartWrap(message) ==
    \E w \in Widths, n \in Indents :
        /\ text' = message
        /\ cp' = 1
        /\ width' = IF w > MAX_LINE_LENGTH THEN MAX_LINE_LENGTH ELSE w
        /\ hanging_indent' = option_hanging_indent(width', n)
        /\ line_buf' = EmptyLine
        /\ word_buf' = <<>>
        /\ width_of_line' = 0
        /\ width_of_word' = 0
        /\ first_line' = TRUE
        /\ pc' = "outer"
        /\ UNCHANGED <<printed, failed, lost>>

Goes(where) ==
    pc' = where /\ UNCHANGED <<text, width, hanging_indent>>

AtEnd == cp > Len(text)
AtSpace == ~AtEnd /\ text[cp] = Space

\* The line goes out, or fwrite fails and the rest is not printed.
Emits ==
    \/ /\ printed' = Append(printed, Bytes(line_buf))
       /\ UNCHANGED failed
    \/ failed' = TRUE /\ UNCHANGED printed

Finish ==
    /\ pc = "outer"
    /\ AtEnd
    /\ IF line_buf.position # 0 THEN Emits ELSE UNCHANGED <<printed, failed>>
    /\ Goes("returned")
    /\ UNCHANGED <<cp, line_buf, word_buf, width_of_line, width_of_word,
                   first_line, lost>>

SkipSpace ==
    /\ pc = "outer"
    /\ AtSpace
    /\ cp' = cp + 1
    /\ Goes("outer")
    /\ UNCHANGED <<line_buf, word_buf, width_of_line, width_of_word, first_line,
                   printed, failed, lost>>

\* Mutant: its first byte does.
Grab_byte(w, w_width) ==
    /\ word_buf' = write(w, <<text[cp]>>)
    /\ width_of_word' = w_width + wcwidth(text, cp)
    /\ cp' = cp + mbrtowc(text, cp)
    /\ Goes(IF full(word_buf') THEN "place" ELSE "word")
    /\ UNCHANGED <<line_buf, width_of_line, first_line, printed, failed, lost>>

\* The character at cp goes to the end of w, which is w_width wide so far.
Grab(w, w_width) ==
    LET n == mbrtowc(text, cp)
        b == SubSeq(text, cp, cp + n - 1)
    IN  /\ word_buf' = write(w, b)
        /\ width_of_word' = w_width + wcwidth(text, cp)
        /\ lost' = (lost \/ Len(w \o b) > MAX_LINE_LENGTH)
        /\ cp' = cp + n
        /\ Goes(IF full(word_buf') THEN "place" ELSE "word")
        /\ UNCHANGED <<line_buf, width_of_line, first_line, printed, failed>>

BeginWord ==
    /\ pc = "outer"
    /\ ~AtEnd /\ ~AtSpace
    /\ Grab(<<>>, 0)

GrabMore ==
    /\ pc = "word"
    /\ ~AtEnd /\ ~AtSpace
    /\ Grab(word_buf, width_of_word)

EndWord ==
    /\ pc = "word"
    /\ AtEnd \/ AtSpace
    /\ Goes("place")
    /\ UNCHANGED <<cp, line_buf, word_buf, width_of_line, width_of_word,
                   first_line, printed, failed, lost>>

-----------------------------------------------------------------------------
\* Mutant: the indent is counted twice.
fits_from_position ==
    line_buf.position + 1 + width_of_word
        <= width - (IF first_line THEN 0 ELSE hanging_indent)

fits ==
    width_of_line + 1 + width_of_word
        <= width - (IF first_line THEN 0 ELSE hanging_indent)

\* A new line begins with the indent, but for the first.
Indented(first) ==
    IF first THEN EmptyLine
    ELSE [text |-> [i \in 1 .. hanging_indent |-> Space], position |-> hanging_indent]

\* The word goes behind what b holds; w columns are taken.
Place(b, w) ==
    /\ line_buf' = puts(b, word_buf)
    /\ width_of_line' = w + width_of_word
    /\ lost' = (lost \/ Len(b.text \o word_buf) > MAX_LINE_LENGTH)
    /\ Goes("outer")
    /\ UNCHANGED <<cp, word_buf, width_of_word>>

PlaceFirst ==
    /\ pc = "place"
    /\ line_buf.position = 0
    /\ Place(Indented(first_line), width_of_line)
    /\ UNCHANGED <<first_line, printed, failed>>

PlaceBehind ==
    /\ pc = "place"
    /\ line_buf.position # 0
    /\ fits
    /\ Place(putc(line_buf, Space), width_of_line + 1)
    /\ UNCHANGED <<first_line, printed, failed>>

PlaceBelow ==
    /\ pc = "place"
    /\ line_buf.position # 0
    /\ ~fits
    /\ printed' = Append(printed, Bytes(line_buf))
    /\ Place(Indented(FALSE), 0)
    /\ first_line' = FALSE
    /\ UNCHANGED failed

WriteFails ==
    /\ pc = "place"
    /\ line_buf.position # 0
    /\ ~fits
    /\ failed' = TRUE
    /\ Goes("returned")
    /\ UNCHANGED <<cp, line_buf, word_buf, width_of_line, width_of_word,
                   first_line, printed, lost>>

Wrap ==
    \/ Finish \/ SkipSpace \/ BeginWord \/ GrabMore \/ EndWord
    \/ PlaceFirst \/ PlaceBehind \/ PlaceBelow \/ WriteFails

InitWrap ==
    /\ text = <<>> /\ cp = 1 /\ width = 1 /\ hanging_indent = 0
    /\ line_buf = EmptyLine /\ word_buf = <<>>
    /\ width_of_line = 0 /\ width_of_word = 0 /\ first_line = TRUE
    /\ pc = "message"
    /\ printed = <<>> /\ failed = FALSE /\ lost = FALSE

-----------------------------------------------------------------------------
\* A byte that is not part of a character.
Broken(s) ==
    \E i \in DOMAIN s : \/ s[i] = Lead /\ ~IsLetter(s, i)
                        \/ s[i] = Trail /\ ~IsLetter(s, i - 1)

\* A word that no array holds.
Overlong(s) ==
    \E i \in 1 .. Len(s) - MAX_LINE_LENGTH :
        \A j \in i .. i + MAX_LINE_LENGTH : s[j] # Space

\* The letters of s, and its words with one space between them: each byte is put
\* behind what those before it have made.
Lettered(before, c) == IF c = Space THEN before ELSE Append(before, c)

Letters(s) ==
    LET upto[i \in 0 .. Len(s)] ==
            IF i = 0 THEN <<>> ELSE Lettered(upto[i - 1], s[i])
    IN  upto[Len(s)]

Worded(before, s, i) ==
    IF s[i] = Space THEN before
    ELSE IF before # <<>> /\ s[i - 1] = Space THEN before \o <<Space, s[i]>>
    ELSE Append(before, s[i])

Words(s) ==
    LET upto[i \in 0 .. Len(s)] ==
            IF i = 0 THEN <<>> ELSE Worded(upto[i - 1], s, i)
    IN  upto[Len(s)]

\* Lines, as one text.
OneText(lines) ==
    LET upto[i \in 0 .. Len(lines)] ==
            IF i = 0 THEN <<>> ELSE upto[i - 1] \o <<Space>> \o lines[i]
    IN  upto[Len(lines)]

Columns(s) == Cardinality({i \in DOMAIN s : s[i] # Trail})

Indent(s) ==
    CHOOSE n \in 0 .. Len(s) : /\ \A i \in 1 .. n : s[i] = Space
                               /\ n = Len(s) \/ s[n + 1] # Space

FirstWord(s) ==
    LET n == Indent(s)
        m == CHOOSE m \in n .. Len(s) : /\ \A i \in n + 1 .. m : s[i] # Space
                                        /\ m = Len(s) \/ s[m + 1] = Space
    IN  SubSeq(s, n + 1, m)

(***************************************************************************)
(* What is printed, with the line and the word in the making, is what was  *)
(* read of the text, word for word and in order.  Excepted are a line that *)
(* the array cannot hold, which loses its end, and a word that no array    *)
(* can hold, which is printed in pieces (wrap_and_print.c:115-180).        *)
(***************************************************************************)
NothingLost ==
    LET seen  == SubSeq(text, 1, cp - 1)
        line  == IF pc = "returned" THEN <<>> ELSE <<line_buf.text>>
        word  == IF pc \in {"word", "place"} THEN <<word_buf>> ELSE <<>>
        shown == OneText(printed \o line \o word)
    IN  ~lost /\ ~failed =>
            /\ Letters(shown) = Letters(seen)
            /\ ~Overlong(text) => Words(shown) = Words(seen)

(***************************************************************************)
(* No line is wider than the terminal, but for a single word that is, and  *)
(* none ends before it must: the next word would not have fitted.  So for  *)
(* letters of two bytes and with a hanging indent too, which counts        *)
(* (wrap_and_print.c:152-178).                                             *)
(***************************************************************************)
LinesFilled ==
    ~Broken(text) /\ ~lost =>
        \A i \in DOMAIN printed :
            /\ \/ Columns(printed[i]) <= width
               \/ Indent(printed[i]) + Len(FirstWord(printed[i])) = Len(printed[i])
            /\ i < Len(printed) =>
                  Columns(printed[i]) + 1 + Columns(FirstWord(printed[i + 1])) > width
=============================================================================
