----------------------------- MODULE Explanation -----------------------------
(***************************************************************************)
(* explain_explanation_assemble: the system call, the text of the error,   *)
(* the explanation and the footnotes become one message, in the array that *)
(* the caller supplies (explanation.h, explanation/assemble_common.c).     *)
(*                                                                         *)
(* A translation may put the parts in any order, so what does not fit must *)
(* go before they are joined: what vsnprintf cuts off is whatever comes    *)
(* last.  A text is a sequence of bytes.  The buffers are those of         *)
(* BoundedText, which StringBuffer implements; a buffer of the structure   *)
(* is its text and its position, which is one more than the length after   *)
(* puts has cut the text.  (Their arrays hold thousands of bytes: what is  *)
(* left of a cut text is not empty.)                                       *)
(***************************************************************************)
EXTENDS Integers, Sequences

CONSTANTS
    SystemCalls, Explanations, Footnotes,   \* what the buffers may hold
    Errors,             \* the texts of strerror
    Translations,       \* of the three formats, see below
    Sizes               \* of the caller's array

(***************************************************************************)
(* A format is a sequence of parts, by name, and of texts.                 *)
(***************************************************************************)
Parts  == {"system_call", "strerror_text", "explanation"}
Format == Seq([part : Parts] \cup [text : Seq(STRING)])
Buffer == {b \in [text : Seq(STRING), position : Nat] :
              /\ b.position \in {Len(b.text), Len(b.text) + 1}
              /\ b.text = <<>> => b.position = 0}
Empty  == [text |-> <<>>, position |-> 0]

(***************************************************************************)
(* A translation rearranges the arguments of the long form, none of which  *)
(* it leaves out or repeats (explanation/assemble_common.c:246-267).       *)
(***************************************************************************)
EachOnce(format) ==
    \A part \in Parts : \E i \in DOMAIN format :
        {j \in DOMAIN format : format[j] = [part |-> part]} = {i}

ASSUME ExplanationAssumption ==
    /\ SystemCalls \cup Explanations \subseteq Buffer
    /\ Footnotes \cup Errors \subseteq Seq(STRING)
    /\ Translations \subseteq [success : Format, short : Format, long : Format]
    /\ \A t \in Translations : EachOnce(t.long)
    /\ Sizes \subseteq Nat \ {0}

VARIABLES
    errnum,                     \* 0, or any errno
    system_call, explanation,   \* two buffers of explain_explanation_t
    footnotes, strerror_text,   \* texts
    translation, maximum,       \* what the caller brings
    result,                     \* the text in the caller's array
    given                       \* history: the explanation before it is cut

inputs == <<errnum, system_call, footnotes, strerror_text, translation, maximum,
            given>>

\* What a reader finds of s in an array of that size.
Cut(s, n) == SubSeq(s, 1, IF Len(s) < n THEN Len(s) ELSE n)
Room == maximum - 1

\* The bytes that format specifications do not stand for.
count_non_format_bytes(format) ==
    LET upto[i \in 0 .. Len(format)] ==
            IF i = 0 THEN 0
            ELSE upto[i - 1]
                 + IF "text" \in DOMAIN format[i] THEN Len(format[i].text) ELSE 0
    IN  upto[Len(format)]

\* explain_string_buffer_truncate.
truncate(b, n) ==
    LET size == IF n < 0 THEN 0 ELSE n
    IN  IF size < b.position
        THEN [text |-> Cut(b.text, size), position |-> size] ELSE b

\* What the format makes of the parts.
Printed(format, call, err, why) ==
    LET piece(item) ==
            IF "text" \in DOMAIN item THEN item.text
            ELSE CASE item.part = "system_call"   -> call
                   [] item.part = "strerror_text" -> err
                   [] item.part = "explanation"   -> why
        upto[i \in 0 .. Len(format)] ==
            IF i = 0 THEN <<>> ELSE upto[i - 1] \o piece(format[i])
    IN  upto[Len(format)]

-----------------------------------------------------------------------------
prob_len == system_call.position
err_len  == Len(strerror_text)

\* Mutant: the three "%s" are counted as well.
new_exp_len_of_whole_format ==
    maximum - (prob_len + err_len + count_non_format_bytes(translation.long) + 6)

\* What is left for the explanation.
new_exp_len ==
    maximum - (prob_len + err_len + count_non_format_bytes(translation.long))

too_long == explanation.position > new_exp_len

use_short_form == explanation.position = 0 \/ (too_long /\ new_exp_len <= 0)

\* vprintf to the empty array, and the footnotes behind it.
Joins(format, why) ==
    result' = Cut(Cut(Printed(format, system_call.text, strerror_text, why), Room)
                  \o footnotes, Room)

\* What is truncated here is not printed; what is printed vsnprintf cuts off.
ShortForm ==
    LET overhead == count_non_format_bytes(translation.short)
    IN  /\ use_short_form
        /\ explanation' = IF prob_len + err_len + overhead > maximum
                          THEN truncate(explanation, maximum - (prob_len + overhead))
                          ELSE explanation
        /\ Joins(translation.short, <<>>)

LongForm ==
    /\ ~use_short_form
    /\ explanation' = IF too_long THEN truncate(explanation, new_exp_len)
                      ELSE explanation
    /\ Joins(translation.long, explanation'.text)

\* errno is 0: there was no error.
Success == Joins(translation.success, <<>>) /\ UNCHANGED explanation

Assemble ==
    /\ IF errnum = 0 THEN Success ELSE ShortForm \/ LongForm
    /\ UNCHANGED inputs

-----------------------------------------------------------------------------
InitExplanation ==
    /\ errnum \in {0, 1}
    /\ system_call \in SystemCalls
    /\ explanation \in IF errnum = 0 THEN {Empty} ELSE Explanations
    /\ footnotes \in Footnotes
    /\ strerror_text \in IF errnum = 0 THEN {<<>>} ELSE Errors
    /\ translation \in Translations
    /\ maximum \in Sizes
    /\ result = <<>>
    /\ given = explanation.text

-----------------------------------------------------------------------------
LongWith(k) ==
    Printed(translation.long, system_call.text, strerror_text, Cut(given, k))

Short == Printed(translation.short, system_call.text, strerror_text, <<>>)

(* The first k bytes of the explanation fit.  A call that was cut is       *)
(* counted one byte too long, and the array's NUL is not counted: of a     *)
(* message that fits exactly vsnprintf cuts off the last byte.             *)
Fits(k) ==
    Len(LongWith(k)) + (system_call.position - Len(system_call.text)) <= maximum

(***************************************************************************)
(* Whatever the order a translation puts the parts in, it is the           *)
(* explanation that gives way when the array is too small: the message is  *)
(* the long form with as much of the explanation as there is room for,     *)
(* the longest beginning of it that fits, and nothing else goes missing    *)
(* but the last byte, and footnotes.  When there is room for all of it,    *)
(* all of it is there; when there is no explanation, or not even one byte  *)
(* of it fits, the message is the short form, without a "because"          *)
(* (explanation/assemble_common.c:222-234).                                *)
(***************************************************************************)
GivesWay(message) ==
    /\ given # <<>> /\ Fits(1) =>
          \E k \in 1 .. Len(given) :
              /\ Fits(k) /\ (\A more \in 1 .. Len(given) : Fits(more) => more <= k)
              /\ message = Cut(LongWith(k) \o footnotes, Room)
    /\ given = <<>> \/ ~Fits(1) => message = Cut(Short \o footnotes, Room)
=============================================================================
