------------------------------- MODULE EnvMap -------------------------------
(***************************************************************************)
(* What setenv(3) and unsetenv(3) promise: the environment is a function   *)
(* from names to values, a call that fails changes nothing but errno, and  *)
(* a call that succeeds does what was asked for and does not even change   *)
(* errno.                                                                  *)
(*                                                                         *)
(* One exception is named: setenv(name, NULL) may uncover another value of *)
(* a name that the process inherited more than once.                       *)
(***************************************************************************)
EXTENDS Integers

CONSTANTS
    Name, Value,
    Unset,          \* no value; unsetenv asks for it
    NULL            \* what setenv is given for it

VARIABLES
    value,      \* name -> value, or Unset
    double,     \* the names inherited more than once
    errno,
    result,     \* of the last call
    busy,       \* a call is under way
    call        \* [name, value, overwrite] of the last call

emVars == <<value, double, errno, result, busy, call>>

EMInit ==
    /\ value \in [Name -> Value \cup {Unset}]
    /\ double \subseteq Name
    /\ errno = "client"
    /\ result = 0
    /\ busy = FALSE

Begin ==
    /\ ~busy
    /\ busy' = TRUE
    /\ UNCHANGED <<value, double, errno, result>>

Ends ==
    /\ busy
    /\ busy' = FALSE
    /\ UNCHANGED <<double, call>>

Succeeds == Ends /\ result' = 0 /\ UNCHANGED errno

Set ==
    /\ call.name \in Name
    /\ call.value \in Value
    /\ value' = IF call.overwrite \/ value[call.name] = Unset
                THEN [value EXCEPT ![call.name] = call.value] ELSE value
    /\ Succeeds

Remove ==
    /\ call.name \in Name
    /\ call.value \in {Unset, NULL}
    /\ value' = [value EXCEPT ![call.name] = Unset]
    /\ Succeeds

Uncover ==
    /\ call.name \in double
    /\ call.value = NULL
    /\ \E v \in Value : value' = [value EXCEPT ![call.name] = v]
    /\ Succeeds

Fail ==
    /\ Ends
    /\ result' = -1
    /\ errno' \in {"EINVAL", "EFAULT", "ENOMEM"}
    /\ UNCHANGED value

\* Between two calls the client may set errno.
ClientErrno ==
    /\ ~busy
    /\ errno' = "client"
    /\ UNCHANGED <<value, double, result, busy, call>>

EMNext == Begin \/ Set \/ Remove \/ Uncover \/ Fail \/ ClientErrno

EMSpec == EMInit /\ [][EMNext]_emVars
===============================================================================
