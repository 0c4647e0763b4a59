------------------------------ MODULE MCMessages ------------------------------
(***************************************************************************)
(* Two threads, two owners, two errors, with and without a footnote, and   *)
(* an output of two parts, of which the first uses the library.            *)
(***************************************************************************)
EXTENDS Messages, TLC

Threads == Permutations(Thread)

MCCall ==
    {[form |-> "on_error", uid |-> "joe", err |-> "EBADF"],
     [form |-> "message", uid |-> "ann", err |-> "EPERM"],
     [form |-> "explain", uid |-> "ann", err |-> "EPERM"]}

MCOutputs == {<<"client", "plain">>}
=============================================================================
