------------------------------ MODULE MCOptions ------------------------------
(***************************************************************************)
(* Two threads; environments of up to three items with repetitions,        *)
(* negations, an alias, a value beyond a char, one that the name search    *)
(* has to find, and debug before and after it.                             *)
(***************************************************************************)
EXTENDS Options

item(name, no, eq) == [name |-> name, no |-> no, eq |-> eq]

MCEnvironments == {
    <<item("program_name", TRUE, <<>>), item("assemble_program_name", FALSE, <<2>>)>>,
    <<item("debug", FALSE, <<>>), item("hanging-indnet", FALSE, <<4>>),
      item("nonsense", FALSE, <<>>)>>,
    <<item("hanging-indnet", FALSE, <<9>>), item("hanging_indent", FALSE, <<200>>),
      item("debug", FALSE, <<>>)>>}

MCColumns == {30}

MCSimilar == [n \in {"hanging-indnet"} |-> {"hanging_indent"}]
=============================================================================
