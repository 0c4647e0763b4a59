-------------------------------- MODULE Text --------------------------------
(***************************************************************************)
(* A message on its way to the terminal: explain_explanation_assemble      *)
(* makes it, in an array that may be too small for it, and                 *)
(* explain_wrap_and_print breaks what became of it into lines              *)
(* (output/stderr.c).  The name of the program is left out.                *)
(***************************************************************************)
EXTENDS Explanation, Wrap

vars == <<inputs, explanation, result, wrapVars>>

Init == InitExplanation /\ InitWrap

MakeMessage ==
    /\ pc = "message"
    /\ Assemble
    /\ StartWrap(result')

PrintMessage == Wrap /\ UNCHANGED <<inputs, explanation, result>>

Returned == pc = "returned" /\ UNCHANGED vars

Next == MakeMessage \/ PrintMessage \/ Returned

Spec == Init /\ [][Next]_vars

-----------------------------------------------------------------------------
(***************************************************************************)
(* Types.  No position leaves its array by more than the one that puts     *)
(* leaves behind when it cuts.                                             *)
(***************************************************************************)
TypeOK ==
    /\ result \in Seq(STRING) /\ Len(result) < maximum
    /\ explanation \in Buffer
    /\ text \in Seq(STRING)
    /\ cp \in 1 .. Len(text) + 1
    /\ width \in 1 .. MAX_LINE_LENGTH
    /\ hanging_indent \in 0 .. width
    /\ Len(line_buf.text) <= MAX_LINE_LENGTH
    /\ line_buf.position \in {Len(line_buf.text), MAX_LINE_LENGTH + 1}
    /\ Len(word_buf) <= MAX_LINE_LENGTH
    /\ width_of_line \in Int /\ width_of_word \in Int
    /\ pc \in {"message", "outer", "word", "place", "returned"}

(***************************************************************************)
(* GivesWay of the message that stderr is handed about an error: whatever  *)
(* the array, the parts and the translation, the explanation gives way     *)
(* first, and by no more than it has to.                                   *)
(***************************************************************************)
ExplanationGivesWay ==
    pc = "outer" /\ cp = 1 /\ errnum # 0 => GivesWay(text)
=============================================================================
