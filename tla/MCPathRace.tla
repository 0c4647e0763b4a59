---------------------------- MODULE MCPathRace ----------------------------
(***************************************************************************)
(* Other processes replace a directory by a link, a link by a file, and so *)
(* on, between any two system calls of the walk; memory may run out.       *)
(***************************************************************************)
EXTENDS MCTree

(* e and l of the working directory are whatever they are; so is the l of  *)
(* e, another name for the same object.                                   *)
Tree(e, l) ==
    ("R" :> Dir(rwx, TRUE, {}, Entries("R", "R", "d" :> "D")))
    @@ ("D" :> Dir(rwx, TRUE, {}, Entries("D", "R", ("e" :> "E") @@
                   ("f" :> "F") @@ ("l" :> "L"))))
    @@ ("E" :> e) @@ ("L" :> l)
    @@ ("F" :> Reg(rwx, TRUE, {}, Rel(<<"l">>)))

SubDir(self, more) == Dir(rwx, TRUE, {}, Entries(self, "D", more))

NameMC == {".", "..", "d", "e", "f", "l", "x"}
FewMC ==
    {[trees |-> {Tree(e, l) : e \in {SubDir("E", "l" :> "L"), Lnk(DotPath)},
                    l \in {Lnk(Rel(<<"e", "l">>)), Lnk(Rel(<<"x">>)), Lnk(Rel(<<"f">>)),
                           SubDir("L", <<>>)}},
      requests |-> {[op |-> "stat", path |-> Rel(<<"e", "l">>)],
                    [op |-> "stat", path |-> Rel(<<"l", "e", "x">>)],
                    [op |-> "execve", path |-> Rel(<<"f">>)],
                    [op |-> "execve", path |-> Rel(<<"e", "f">>)],
                    [op |-> "mkdir", path |-> Rel(<<"l">>)]}]}
CwdNamesMC == <<"d">>
TruncatedMC == <<>>
============================================================================
