------------------------------- MODULE MCText -------------------------------
(***************************************************************************)
(* Messages of a few words, some with a letter of two bytes at which a cut *)
(* may fall, in English and in a language that begins with the             *)
(* explanation; arrays from one byte to more than enough; lines of six     *)
(* bytes, terminals narrower and wider than that.                          *)
(***************************************************************************)
EXTENDS Text

sp == " "

\* Buffers: one that holds all of s, and one that was cut behind it.
Whole(s) == [text |-> s, position |-> Len(s)]
CutOff(s) == [text |-> s, position |-> Len(s) + 1]

Both(s) == {Whole(s), CutOff(s)}

MCSystemCalls == {Whole(<<"c">>)} \cup Both(<<"c", "c", sp, "c">>)

MCExplanations ==
    {Empty, Whole(<<"x", sp, "<", ">", "x">>)}
    \cup Both(<<"x", "x", "<", ">", "x", "x", "x", sp, sp, "x">>)

MCErrors == {<<"e">>, <<"e", sp, "e", "e">>}

MCFootnotes == {<<>>, <<";", sp, "n">>}

Call == [part |-> "system_call"]
Err  == [part |-> "strerror_text"]
Why  == [part |-> "explanation"]
T(s) == [text |-> s]

English == [success |-> <<Call, T(<<":", sp, "s">>)>>,
            short   |-> <<Call, T(<<sp, "f", sp>>), Err>>,
            long    |-> <<Call, T(<<sp, "f", sp>>), Err, T(<<sp, "b", sp>>), Why>>]
Other   == [English EXCEPT
               !.long = <<Why, T(<<sp, "d", sp>>), Err, T(<<sp, "b", "y", sp>>), Call>>]
MCTranslations == {English, Other}

MCIndents == {-1, 8}
=============================================================================
