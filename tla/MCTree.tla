------------------------------- MODULE MCTree -------------------------------
(***************************************************************************)
(* Directory trees for the model-checking instances of PathResolution.     *)
(***************************************************************************)
EXTENDS PathResolution, TLC

rwx == {"r", "w", "x"}

(* The process is user 1 of group 1; it owns an object or is one of the    *)
(* others, and is granted perm.                                            *)
Node(type, perm, mine, flags) ==
    [type |-> type, uid |-> IF mine THEN 1 ELSE 2, gid |-> 2,
     mode |-> [c \in Class |-> perm], flags |-> flags,
     entries |-> <<>>, target |-> Empty, script |-> Empty]

Dir(perm, mine, flags, entries) ==
    [Node("dir", perm, mine, flags) EXCEPT !.entries = entries]

Reg(perm, mine, flags, script) ==
    [Node("reg", perm, mine, flags) EXCEPT !.script = script]

Lnk(target) == [Node("lnk", rwx, TRUE, {}) EXCEPT !.target = target]

User == [uid |-> 1, gid |-> 1, groups |-> {}, caps |-> {}]

(* The entries of a directory: itself, its parent, and some more. *)
Entries(self, parent, more) == ("." :> self) @@ (".." :> parent) @@ more

WithSlash(path) == [path EXCEPT !.slash = TRUE]
=============================================================================
