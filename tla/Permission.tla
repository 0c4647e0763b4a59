---------------------------- MODULE Permission ----------------------------
(***************************************************************************)
(* The two halves of have_permission.c side by side: callers first ask     *)
(* explain_have_*_permission, and when it says no they have                *)
(* explain_explain_*_permission tell the user which bits and capabilities  *)
(* decided.  Every object and every process is tried, with the option      *)
(* dialect-specific on and off.                                            *)
(***************************************************************************)
EXTENDS HavePermission

CONSTANTS
    Uid, Gid,       \* user and group numbers
    Type,           \* file types
    Mode            \* what a class may be granted

Object  == [type : Type, uid : Uid, gid : Gid, mode : [Class -> Mode]]
Process == [uid : Uid, gid : Gid, groups : SUBSET Gid,
            caps : SUBSET {"dac_override", "dac_read_search"}]

Permissions == {"read", "write", "execute", "search"}
bit_of == [read |-> "r", write |-> "w", execute |-> "x", search |-> "x"]

VARIABLES
    st, p, permission,  \* the question
    dialect_specific,   \* explain_option_dialect_specific()
    answer,             \* "unasked", "yes", "no", then "explained"
    said                \* what was written

vars == <<st, p, permission, dialect_specific, answer, said>>

Init ==
    /\ st \in Object /\ p \in Process
    /\ permission \in Permissions
    /\ dialect_specific \in BOOLEAN
    /\ answer = "unasked"
    /\ said = NothingSaid

have_permission(perm) ==
    \/ perm = "read"    /\ explain_have_read_permission(st, p)
    \/ perm = "write"   /\ explain_have_write_permission(st, p)
    \/ perm = "execute" /\ explain_have_execute_permission(st, p)
    \/ perm = "search"  /\ explain_have_search_permission(st, p)

explain_permission(perm) ==
    IF perm = "read" THEN explain_explain_read_permission(st, p, dialect_specific)
    ELSE IF perm = "write" THEN explain_explain_write_permission(st, p, dialect_specific)
    ELSE IF perm = "execute" THEN explain_explain_execute_permission(st, p, dialect_specific)
    ELSE explain_explain_search_permission(st, p, dialect_specific)

(* A caller of path_resolution.c, an errno given: look, and explain. *)
Ask ==
    /\ answer = "unasked"
    /\ answer' = IF have_permission(permission) THEN "yes" ELSE "no"
    /\ UNCHANGED <<st, p, permission, dialect_specific, said>>

Explain ==
    /\ answer = "no"
    /\ answer' = "explained"
    /\ said' = explain_permission(permission)
    /\ UNCHANGED <<st, p, permission, dialect_specific>>

Next == Ask \/ Explain

Spec == Init /\ [][Next]_vars

-----------------------------------------------------------------------------
TypeOK ==
    /\ st \in Object /\ p \in Process /\ permission \in Permissions
    /\ dialect_specific \in BOOLEAN
    /\ answer \in {"unasked", "yes", "no", "explained"}
    /\ said \in [used : Class \cup {"none"}, ignored : SUBSET Class,
                 privilege : {"none", "dac_override", "dac_read_search"}]

(* Execute is asked of files, search of directories. *)
Fits == /\ permission = "execute" => st.type = "reg"
        /\ permission = "search" => st.type = "dir"

(* CAP_DAC_OVERRIDE alone lets the kernel read and search; here it does    *)
(* not.                                                                    *)
OverrideAlone ==
    /\ permission \in {"read", "search"}
    /\ "dac_override" \in p.caps /\ "dac_read_search" \notin p.caps

(* The library and the kernel agree on who may do what. *)
AgreesWithKernel ==
    answer # "unasked" /\ Fits /\ ~OverrideAlone
    => (answer = "yes" <=> KernelMay(st, p, bit_of[permission]))

(* The exception to the next: with dialect-specific off the user is told   *)
(* neither the class, nor the classes passed over, nor the capability.     *)
Undetailed == ~dialect_specific

(* When permission is denied the explanation names the class whose bits    *)
(* deny it and a capability that the process lacks, if one would help; and *)
(* no class that would have granted it, and that the process is in, is     *)
(* passed over in silence.  Without the option dialect-specific none of    *)
(* this is written, not even that the process is not privileged.           *)
SaysWhyNot ==
    answer = "explained" /\ Fits =>
        IF Undetailed THEN said = NothingSaid ELSE
        LET wanted == bit_of[permission] IN
        /\ said.used # "none" /\ wanted \notin st.mode[said.used]
        /\ said.privilege \notin p.caps
        /\ said.privilege = "none" => permission = "execute" /\ "dac_override" \in p.caps
        /\ \A c \in Class \ said.ignored :
              wanted \in st.mode[c] =>
                 /\ said.used = "u" /\ c = "g"
                 /\ st.gid \notin p.groups \cup {p.gid}
============================================================================
