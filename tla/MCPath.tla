------------------------------ MODULE MCPath ------------------------------
(***************************************************************************)
(* Four kinds of directory tree, each with the calls that it makes         *)
(* interesting; nobody else touches the tree.  /d is the working           *)
(* directory; it holds e, f, l and, in some, m or i.                       *)
(***************************************************************************)
EXTENDS MCTree

NameMC == {".", "..", "d", "e", "f", "i", "l", "m", "n", "x"}
LongNamesMC == {"n"}
TruncatedMC == [n |-> "f"]
CwdNamesMC == <<"d">>

Top(root, dir) == ("R" :> [root EXCEPT !.entries = Entries("R", "R", "d" :> "D")])
                  @@ ("D" :> [dir EXCEPT !.entries =
                        Entries("D", "R", ("e" :> "E") @@ ("f" :> "F") @@ ("l" :> "L")
                                          @@ ("m" :> "M") @@ ("i" :> "I"))])
Plain == Dir(rwx, TRUE, {}, <<>>)

-----------------------------------------------------------------------------
(* Two links of every interesting body, nothing else in the way. *)
Bodies == {Rel(<<"f">>), Rel(<<"m">>), Rel(<<"l">>), DotPath, Rel(<<"x">>),
           Rel(<<"..", "d", "e">>), Abs(<<"d", "e">>), Rel(<<"e", "f">>),
           WithSlash(Rel(<<"f">>)), Rel(<<".", "..", "d", "l">>)}

Links ==
    [trees |->
        {Top(Plain, Plain)
         @@ ("E" :> Dir(rwx, TRUE, {}, Entries("E", "D", "f" :> "F")))
         @@ ("F" :> Reg(rwx, TRUE, {}, Empty)) @@ ("I" :> Reg(rwx, TRUE, {}, Empty))
         @@ ("L" :> Lnk(l)) @@ ("M" :> Lnk(m)) : l, m \in Bodies},
     requests |->
        [op : {"stat", "lstat", "readlink", "open_creat", "unlink"},
         path : {[abs |-> FALSE, names |-> w, slash |-> s] :
                    w \in UNION {[1 .. n -> {"e", "f", "l", "m", "x"}] : n \in 1 .. 2}
                          \cup {<<"l", "m", "f">>, <<"l", "l", "f">>,
                                <<"m", ".", "f">>, <<"l", "..", "m">>},
                    s \in BOOLEAN}
                \cup {Abs(<<"d", "l">>), Abs(<<"d", "m", "x">>), Abs(<<>>), Empty}]]

-----------------------------------------------------------------------------
(* Names that are too long, and paths. *)
Lengths ==
    [trees |->
        {Top(Dir(root, TRUE, {}, <<>>), Dir(dir, TRUE, {}, <<>>))
         @@ ("E" :> Dir(rwx, TRUE, {}, Entries("E", "D", "f" :> "F")))
         @@ ("F" :> Reg({"r"}, TRUE, {}, Empty)) @@ ("L" :> Lnk(l))
         @@ ("I" :> Reg(rwx, TRUE, {}, Empty)) @@ ("M" :> Lnk(Rel(<<"n">>))) :
            root \in {rwx, {"r", "x"}}, dir \in {rwx, {"r", "x"}, {"r"}},
            l \in {Rel(<<"n">>), Rel(<<"e", "n">>), Rel(<<"f">>), Abs(<<"d", "e">>)}},
     requests |->
        [op : {"stat", "mkdir", "chown", "open_wronly"},
         path : {[abs |-> a, names |-> w, slash |-> FALSE] :
                    a \in BOOLEAN,
                    w \in UNION {[1 .. k -> {"d", "e", "l", "n"}] : k \in 1 .. 2}}
                \cup {Rel(<<"l", "e", "n">>), Rel(<<".", "e", ".", "f">>),
                      Rel(<<"..", "d", "e", "n">>), Rel(<<"e", "..", "l", "f">>),
                      Rel([i \in 1 .. 10 |-> "e"]), Abs(<<>>), Empty}]]

-----------------------------------------------------------------------------
(* Permissions on every directory and object on the way, ownership, the    *)
(* sticky bit.                                                             *)
Perms ==
    [trees |->
        {Top(Plain, dir)
         @@ ("E" :> Dir(sub, TRUE, {}, Entries("E", "D", "f" :> "F")))
         @@ ("F" :> file) @@ ("L" :> Lnk(body))
         @@ ("I" :> file) @@ ("M" :> Lnk(body)) :
            dir \in {Plain, Dir({"r", "x"}, TRUE, {}, <<>>), Dir({"w"}, TRUE, {}, <<>>),
                     Dir(rwx, FALSE, {"sticky"}, <<>>), Dir(rwx, TRUE, {"sticky"}, <<>>),
                     Dir({"r", "x"}, FALSE, {"sticky"}, <<>>)},
            sub \in {rwx, {"r", "x"}, {"r"}},
            file \in {Reg(rwx, TRUE, {}, Empty), Reg({"r"}, FALSE, {}, Empty),
                      Reg({"w"}, TRUE, {}, Empty), Reg({}, FALSE, {}, Empty)},
            body \in {Rel(<<"f">>), Rel(<<"x">>), Rel(<<"e", "x">>), Rel(<<"e">>)}},
     requests |->
        [op : Syscall \ {"lstat", "execve", "readlink", "chown"},
         path : {Rel(w) : w \in {<<"f">>, <<"e">>, <<"x">>, <<"l">>, <<"e", "f">>,
                                 <<"e", "x">>, <<"l", "f">>, <<"e", "..", "f">>}}]]

-----------------------------------------------------------------------------
(* execve: permissions, mount options, scripts and interpreters. *)
Scripts == {Empty, Rel(<<"i">>), Abs(<<"d", "e", "i">>), Rel(<<"e">>),
            Rel(<<"x">>), Rel(<<"i", "i">>), Rel(<<"l", "l">>)}

Execs ==
    [trees |->
        {Top(Plain, Plain)
         @@ ("E" :> Dir(sub, TRUE, {}, Entries("E", "D", "i" :> "I")))
         @@ ("F" :> Reg(fp, TRUE, ff, script)) @@ ("I" :> Reg(ip, TRUE, iflags, is))
         @@ ("L" :> Lnk(body)) @@ ("M" :> Lnk(body)) :
            sub \in {rwx, {"r"}},
            fp \in {rwx, {"r"}, {"x"}}, ff \in {{}, {"noexec"}, {"setid", "nosuid"}},
            script \in Scripts,
            ip \in {rwx, {"r"}}, iflags \in {{}, {"noexec"}}, is \in {Empty, Rel(<<"f">>)},
            body \in {Rel(<<"f">>), DotPath, Rel(<<"i">>)}},
     requests |-> [op : {"execve"},
                   path : {Rel(<<"f">>), Rel(<<"e">>), Rel(<<"l">>), Rel(<<"e", "i">>)}]]

AllMC == {Links, Lengths, Perms, Execs}

============================================================================
