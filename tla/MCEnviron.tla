------------------------------ MODULE MCEnviron ------------------------------
(***************************************************************************)
(* Environments of two names and two values, inherited with none, one or   *)
(* two entries too many: side by side, apart, at the end, three in a row,  *)
(* and with an entry that binds nothing.                                   *)
(***************************************************************************)
EXTENDS Environ

E(n, v) == [name |-> n, value |-> v]

MCInherited ==
    {<<>>,
     <<E("B", "1"), E("A", "1")>>,
     <<E("A", "1"), E("A", "2"), E("B", "1")>>,
     <<E("A", "1"), E("B", "1"), E("A", "2")>>,
     <<E("A", "1"), E("A", "1"), E("A", "2")>>,
     <<E("no =", "1"), E("B", "1")>>}
===============================================================================
