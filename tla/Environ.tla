------------------------------- MODULE Environ -------------------------------
(***************************************************************************)
(* The library's own setenv and unsetenv, for systems that have none, and  *)
(* explain_setenv_on_error and explain_unsetenv_on_error around them       *)
(* (setenv_on_error.c, unsetenv_on_error.c).                               *)
(*                                                                         *)
(* "environ" is the array of the process: entries, then NULL pointers, one *)
(* of them at least.  Its loops take one step for each entry they look at. *)
(* An entry is its name and its value; an entry without "=" binds no name. *)
(* An array that execve made may bind a name more than once; getenv finds  *)
(* the first.                                                              *)
(***************************************************************************)
EXTENDS Integers, Sequences

CONSTANTS
    Name, Value,
    Unset,          \* no value: what getenv returns, what unsetenv sets
    NULL,           \* a null pointer
    Inherited,      \* the arrays a process may start with
    MaxEntries      \* bound: the array grows no longer than this

Entry == [name : Name \cup {"no ="}, value : Value]

\* Arguments that are refused.
BadNames  == {"null", "bad pointer", "empty", "has ="}
BadValues == {"bad pointer"}

ASSUME NameAssumption ==
    /\ Name \cap (BadNames \cup {"no ="}) = {}
    /\ Value \cap (BadValues \cup {NULL, Unset}) = {}
    /\ NULL \notin Entry \cup BadValues
    /\ Unset \notin BadValues \cup {NULL}
    /\ MaxEntries \in Nat

ASSUME InheritedAssumption ==
    /\ Inherited \subseteq Seq(Entry)
    /\ Inherited # {}

VARIABLES
    environ,        \* the array
    exists,         \* environ is not a null pointer itself
    errno,
    save_errno,     \* setenv's, and hold_errno of the function around it
    result,         \* of the last call
    pc,             \* "idle", "setenv", "unsetenv", "failed"
    ep,             \* the index of the entry the loop looks at
    args,           \* [name, value, overwrite] of the call
    was,            \* history: the environment when the call began
    double          \* history: the names inherited more than once

vars == <<environ, exists, errno, save_errno, result, pc, ep, args, was, double>>

Binds(a, i, n) == i \in DOMAIN a /\ a[i] # NULL /\ a[i].name = n

\* What getenv finds: the value of the first entry for n.
Finds(a, n, v) ==
    \/ v = Unset /\ \A i \in DOMAIN a : ~Binds(a, i, n)
    \/ \E i \in DOMAIN a : /\ Binds(a, i, n)
                           /\ a[i].value = v
                           /\ \A j \in 1 .. i - 1 : ~Binds(a, j, n)
Lookup(a, n) == CHOOSE v \in Value \cup {Unset} : Finds(a, n, v)
Environment == [n \in Name |-> Lookup(environ, n)]

EM == INSTANCE EnvMap WITH
        value <- IF pc = "idle" THEN Environment ELSE was,
        errno <- IF pc = "idle" THEN errno ELSE save_errno,
        busy  <- pc # "idle",
        call  <- args

Twice(a, n) == \E i, j \in DOMAIN a : i # j /\ Binds(a, i, n) /\ Binds(a, j, n)

Init ==
    /\ \E a \in Inherited, e \in BOOLEAN :
          /\ exists = e
          /\ environ = IF e THEN Append(a, NULL) ELSE <<NULL>>
    /\ errno = "client"
    /\ save_errno = "client"
    /\ result = 0
    /\ pc = "idle"
    /\ ep = 1
    /\ args = [name |-> "empty", value |-> NULL, overwrite |-> FALSE]
    /\ was = Environment
    /\ double = {n \in Name : Twice(environ, n)}

-----------------------------------------------------------------------------
\* setenv has saved errno; the test of the pointers may have changed it.
Returns ==
    /\ pc' = "idle"
    /\ result' = 0
    /\ errno' = save_errno
    /\ UNCHANGED save_errno

\* The function around it reports the error and holds errno meanwhile.
Fails(e) ==
    /\ pc' = "failed"
    /\ errno' = e
    /\ UNCHANGED <<save_errno, result>>

Report ==
    /\ pc = "failed"
    /\ pc' = "idle"
    /\ result' = -1
    /\ UNCHANGED <<environ, exists, errno, save_errno, ep, args, was, double>>

Calls(n, v, o) ==
    /\ pc = "idle"
    /\ args' = [name |-> n, value |-> v, overwrite |-> o]
    /\ was' = Environment
    /\ save_errno' = errno

Setenv(n, v, o) ==
    /\ Calls(n, v, o)
    /\ errno' \in {errno, "disturbed"}
    /\ pc' = "setenv"
    /\ ep' = 1
    /\ UNCHANGED <<environ, exists, result, double>>

\* Mutant: the value's pointer is not tested.
refusal_of_name(n, v) ==
    IF n = "null" THEN "EINVAL" ELSE IF n = "bad pointer" THEN "EFAULT"
    ELSE IF n \in {"empty", "has ="} THEN "EINVAL" ELSE "none"

\* setenv_on_error.c:64-83, in that order.
refusal(n, v) ==
    IF n = "null" THEN "EINVAL"
    ELSE IF n = "bad pointer" \/ v \in BadValues THEN "EFAULT"
    ELSE IF n \in {"empty", "has ="} THEN "EINVAL"
    ELSE "none"

SetenvRefuses ==
    /\ pc = "setenv"
    /\ refusal(args.name, args.value) # "none"
    /\ Fails(refusal(args.name, args.value))
    /\ UNCHANGED <<environ, exists, ep, args, was, double>>

Looking ==
    /\ pc = "setenv"
    /\ refusal(args.name, args.value) = "none"
    /\ UNCHANGED <<args, was, double>>

\* No array yet: it is made with room for one entry, unless memory runs out,
\* for the array or for the entry.
SetenvFirst ==
    /\ Looking
    /\ ~exists
    /\ IF args.value = NULL
       THEN Returns /\ UNCHANGED <<environ, exists>>
       ELSE \/ Fails("ENOMEM") /\ UNCHANGED environ /\ exists' \in BOOLEAN
            \/ /\ Returns
               /\ exists' = TRUE
               /\ environ' = <<[name |-> args.name, value |-> args.value], NULL>>
    /\ UNCHANGED ep

Here == Binds(environ, ep, args.name)

SetenvSkip ==
    /\ Looking /\ exists
    /\ environ[ep] # NULL
    /\ ~Here
    /\ ep' = ep + 1
    /\ UNCHANGED <<environ, exists, errno, save_errno, result, pc>>

\* The entries behind, and the first NULL, move one slot to the front.
Closed(a, at) ==
    [i \in DOMAIN a |-> IF i >= at /\ a[i] # NULL THEN a[i + 1] ELSE a[i]]

\* The loop goes on with the next slot.
SetenvDelete ==
    /\ Looking /\ exists
    /\ Here
    /\ args.value = NULL
    /\ environ' = Closed(environ, ep)
    /\ ep' = ep + 1
    /\ UNCHANGED <<exists, errno, save_errno, result, pc>>

\* Mutant: overwrite is not asked for.
must_change_regardless == environ[ep].value # args.value

must_change == args.overwrite /\ environ[ep].value # args.value

SetenvReplace ==
    /\ Looking /\ exists
    /\ Here
    /\ args.value # NULL
    /\ \/ ~must_change /\ Returns /\ UNCHANGED environ
       \/ must_change /\ Fails("ENOMEM") /\ UNCHANGED environ
       \/ /\ must_change
          /\ Returns
          /\ environ' = [environ EXCEPT ![ep] =
                            [name |-> args.name, value |-> args.value]]
    /\ UNCHANGED <<exists, ep>>

\* Mutant: no room for the NULL.
Extended_open(a, size, e) ==
    [i \in 1 .. size + 1 |-> IF i <= size THEN a[i] ELSE e]

\* The new array ends with the new entry and a NULL.
Extended(a, size, e) ==
    [i \in 1 .. size + 2 |-> IF i <= size THEN a[i]
                             ELSE IF i = size + 1 THEN e ELSE NULL]

SetenvAtEnd ==
    /\ Looking /\ exists
    /\ environ[ep] = NULL
    /\ IF args.value = NULL
       THEN Returns /\ UNCHANGED environ
       ELSE \/ Fails("ENOMEM") /\ UNCHANGED environ
            \/ /\ ep <= MaxEntries
               /\ Returns
               /\ environ' = Extended(environ, ep - 1,
                                [name |-> args.name, value |-> args.value])
    /\ UNCHANGED <<exists, ep>>

-----------------------------------------------------------------------------
Unsetenv(n) ==
    /\ n # "bad pointer"
    /\ Calls(n, Unset, FALSE)
    /\ pc' = "unsetenv"
    /\ ep' = 1
    /\ UNCHANGED <<environ, exists, errno, result, double>>

UnsetenvRefuses ==
    /\ pc = "unsetenv"
    /\ args.name \in BadNames
    /\ Fails("EINVAL")
    /\ UNCHANGED <<environ, exists, ep, args, was, double>>

Unsetting ==
    /\ pc = "unsetenv"
    /\ args.name \notin BadNames
    /\ UNCHANGED <<exists, save_errno, errno, args, was, double>>

\* Mutant: the loop does not move on.
UnsetenvSkip_stays ==
    /\ Unsetting /\ exists
    /\ environ[ep] # NULL /\ ~Here
    /\ UNCHANGED <<environ, result, pc, ep>>

UnsetenvSkip ==
    /\ Unsetting /\ exists
    /\ environ[ep] # NULL
    /\ ~Here
    /\ ep' = ep + 1
    /\ UNCHANGED <<environ, result, pc>>

\* The loop stays at the slot.
UnsetenvDelete ==
    /\ Unsetting /\ exists
    /\ Here
    /\ environ' = Closed(environ, ep)
    /\ UNCHANGED <<ep, result, pc>>

UnsetenvAtEnd ==
    /\ Unsetting
    /\ ~exists \/ environ[ep] = NULL
    /\ pc' = "idle"
    /\ result' = 0
    /\ UNCHANGED <<environ, ep>>

ClientErrno ==
    /\ pc = "idle"
    /\ errno' = "client"
    /\ UNCHANGED <<environ, exists, save_errno, result, pc, ep, args, was, double>>

-----------------------------------------------------------------------------
Call ==
    \/ \E n \in Name \cup BadNames :
          \/ \E v \in Value \cup BadValues \cup {NULL}, o \in BOOLEAN : Setenv(n, v, o)
          \/ Unsetenv(n)
    \/ ClientErrno

Work ==
    \/ SetenvRefuses \/ SetenvFirst \/ SetenvSkip
    \/ SetenvDelete \/ SetenvReplace \/ SetenvAtEnd
    \/ UnsetenvRefuses \/ UnsetenvSkip \/ UnsetenvDelete \/ UnsetenvAtEnd
    \/ Report

Next == Call \/ Work

\* A call that has begun is carried out.
Spec == Init /\ [][Next]_vars /\ WF_vars(Work)

-----------------------------------------------------------------------------
(***************************************************************************)
(* Types.                                                                  *)
(***************************************************************************)
TypeOK ==
    /\ environ \in Seq(Entry \cup {NULL})
    /\ exists \in BOOLEAN
    /\ errno \in {"client", "disturbed", "EINVAL", "EFAULT", "ENOMEM"}
    /\ save_errno \in {"client", "EINVAL", "EFAULT", "ENOMEM"}
    /\ result \in {0, -1}
    /\ pc \in {"idle", "setenv", "unsetenv", "failed"}
    /\ ep \in Nat \ {0}
    /\ args \in [name : Name \cup BadNames,
                 value : Value \cup BadValues \cup {NULL, Unset},
                 overwrite : BOOLEAN]
    /\ was \in [Name -> Value \cup {Unset}]
    /\ double \subseteq Name

(***************************************************************************)
(* However entries are deleted, replaced and added, the array ends with a  *)
(* NULL, nothing stands behind the first NULL, and no loop looks at a slot *)
(* behind the array: after the last entry was deleted in place setenv goes *)
(* on with the slot behind the new end (setenv_on_error.c:113-130).        *)
(***************************************************************************)
Terminated(a) ==
    /\ a # <<>>
    /\ a[Len(a)] = NULL
    /\ \A i, j \in DOMAIN a : i <= j /\ a[i] = NULL => a[j] = NULL
InArray ==
    /\ Terminated(environ)
    /\ pc \in {"setenv", "unsetenv"} => ep \in DOMAIN environ

(***************************************************************************)
(* The array is a map, as EnvMap says: what a call binds or removes is     *)
(* what getenv finds or does not find afterwards, whatever duplicates      *)
(* there are; other names keep their values; a call that fails, for memory *)
(* too, has changed nothing; errno is kept by a call that succeeds         *)
(* (setenv_on_error.c, unsetenv_on_error.c).                               *)
(***************************************************************************)
IsEnvMap == EM!EMSpec

(***************************************************************************)
(* A call returns: deleting an entry without moving on does not keep       *)
(* unsetenv in its loop (unsetenv_on_error.c:57-77).                       *)
(***************************************************************************)
CallReturns == (pc # "idle") ~> (pc = "idle")
===============================================================================
