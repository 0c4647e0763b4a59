-------------------------- MODULE HavePermission --------------------------
(***************************************************************************)
(* have_permission.c: does the process have read, write, execute or search *)
(* permission on an object, and which of the permission bits say so.       *)
(*                                                                         *)
(* A process is [uid, gid, groups, caps]; what stat(2) tells of an object  *)
(* is [type, uid, gid, mode, ...] where mode gives what each class of user *)
(* is granted: "u" the owner, "g" the group, "o" the others.               *)
(***************************************************************************)
EXTENDS Integers

Class == {"u", "g", "o"}
Access == {"r", "w", "x"}

explain_capability(p, cap) == cap \in p.caps

(* Mutant: the supplementary groups are forgotten. *)
group_of_process_only(gid, p) == gid = p.gid

explain_group_in_groups(gid, p) == gid = p.gid \/ gid \in p.groups

class_of(st, p) ==
    IF st.uid = p.uid THEN "u"
    ELSE IF explain_group_in_groups(st.gid, p) THEN "g"
    ELSE "o"

explain_have_permission(st, p, wanted) == wanted \in st.mode[class_of(st, p)]

explain_have_read_permission(st, p) ==
    explain_capability(p, "dac_read_search") \/ explain_have_permission(st, p, "r")

explain_have_write_permission(st, p) ==
    explain_capability(p, "dac_override") \/ explain_have_permission(st, p, "w")

explain_have_execute_permission(st, p) ==
    /\ st.type = "reg"
    /\ \/ /\ explain_capability(p, "dac_override")
          /\ \E c \in Class : "x" \in st.mode[c]
       \/ explain_have_permission(st, p, "x")

explain_have_search_permission(st, p) ==
    /\ st.type = "dir"
    /\ \/ explain_capability(p, "dac_read_search")
       \/ explain_have_permission(st, p, "x")

explain_have_inode_permission(st, p) ==
    explain_capability(p, "fowner") \/ st.uid = p.uid

-----------------------------------------------------------------------------
(* Mutant: the group is not mentioned to the owner. *)
passed_over_but_group(st, p, wanted) ==
    {c \in Class \ {class_of(st, p)} :
        wanted \in st.mode[c] /\ ~(class_of(st, p) = "u" /\ c = "g")}

(* The classes whose bits explain_explain_permission says are ignored: the *)
(* group only if the owner is also in it.                                  *)
passed_over(st, p, wanted) ==
    {c \in Class \ {class_of(st, p)} :
        /\ wanted \in st.mode[c]
        /\ class_of(st, p) = "u" /\ c = "g" => explain_group_in_groups(st.gid, p)}

(* What explain_explain_*_permission write: the class used, those ignored, *)
(* and the capability that would have helped, unless the process has it.   *)
(* With the option dialect-specific off explain_explain_permission writes  *)
(* nothing and returns -1, upon which its callers add no capability.       *)
NothingSaid == [used |-> "none", ignored |-> {}, privilege |-> "none"]

explain_explain_permission(st, p, wanted, privilege, dialect_specific) ==
    IF ~dialect_specific THEN NothingSaid
    ELSE [used |-> class_of(st, p), ignored |-> passed_over(st, p, wanted),
          privilege |-> IF \/ explain_have_permission(st, p, wanted)
                           \/ explain_capability(p, privilege)
                        THEN "none" ELSE privilege]

explain_explain_read_permission(st, p, dialect_specific) ==
    IF explain_capability(p, "dac_read_search") THEN NothingSaid
    ELSE explain_explain_permission(st, p, "r", "dac_read_search", dialect_specific)

explain_explain_write_permission(st, p, dialect_specific) ==
    IF explain_capability(p, "dac_override") THEN NothingSaid
    ELSE explain_explain_permission(st, p, "w", "dac_override", dialect_specific)

explain_explain_execute_permission(st, p, dialect_specific) ==
    IF \/ st.type # "reg"
       \/ explain_capability(p, "dac_override") /\ \E c \in Class : "x" \in st.mode[c]
    THEN NothingSaid
    ELSE explain_explain_permission(st, p, "x", "dac_override", dialect_specific)

explain_explain_search_permission(st, p, dialect_specific) ==
    IF st.type # "dir" \/ explain_capability(p, "dac_read_search") THEN NothingSaid
    ELSE explain_explain_permission(st, p, "x", "dac_read_search", dialect_specific)

-----------------------------------------------------------------------------
(* The kernel, for reference: the first class that matches decides, then   *)
(* the capabilities.  (Not code of the library.)                           *)
KernelMay(st, p, wanted) ==
    \/ wanted \in st.mode[IF st.uid = p.uid THEN "u"
                          ELSE IF st.gid \in p.groups \cup {p.gid} THEN "g" ELSE "o"]
    \/ /\ "dac_override" \in p.caps
       /\ wanted # "x" \/ st.type = "dir" \/ \E c \in Class : "x" \in st.mode[c]
    \/ /\ "dac_read_search" \in p.caps
       /\ wanted = "r" \/ (wanted = "x" /\ st.type = "dir")
=============================================================================
