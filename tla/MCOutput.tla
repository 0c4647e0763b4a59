------------------------------ MODULE MCOutput ------------------------------
(***************************************************************************)
(* Three clients: one makes trees of outputs, one asks for the exit status *)
(* and has functions called at exit, one does some of both.                *)
(***************************************************************************)
EXTENDS Output

ClientsMC ==
    {[classes |-> {"stderr", "syslog", "file", "custom"}, objects |-> 3,
      messages |-> 1, atexit |-> 0, actions |-> {}],
     [classes |-> {"syslog"}, objects |-> 5,
      messages |-> 1, atexit |-> 0, actions |-> {}],
     [classes |-> {"custom"}, objects |-> 1,
      messages |-> 2, atexit |-> 1, actions |-> {"always"}],
     [classes |-> {}, objects |-> 0, messages |-> 2, atexit |-> 2,
      actions |-> {"never", "error", "always"}]}
=============================================================================
