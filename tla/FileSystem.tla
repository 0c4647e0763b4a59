---------------------------- MODULE FileSystem ----------------------------
(***************************************************************************)
(* The file system as libexplain sees it: through lstat(2), readlink(2),   *)
(* and the errno of the system call that failed.  None of this is code of  *)
(* the library; it is the kernel that path_resolution.c questions, and it  *)
(* is written after path_resolution(7), which path_resolution.c quotes.    *)
(*                                                                         *)
(* An object is a directory, a regular file or a symbolic link.  A node    *)
(* says what kind it is, its owner, group, permission bits, mode and mount *)
(* flags, the entries of a directory, the body of a link, and the          *)
(* interpreter named by the first line of a script.                        *)
(***************************************************************************)
EXTENDS HavePermission, Sequences, FiniteSets

CONSTANTS
    Name,           \* path components, "." and ".." among them
    LongNames,      \* those of them longer than NAME_MAX
    Root, Cwd,      \* the root directory and the working directory
    Process,        \* the process that called, and explains
    PATH_MAX,       \* longest path name, counted in components
    MAXSYMLINKS     \* the kernel fails with ELOOP past that many links

(* A path name.  A relative path with no component is the empty string. *)
Path == [abs : BOOLEAN, names : Seq(Name), slash : BOOLEAN]

Rel(names) == [abs |-> FALSE, names |-> names, slash |-> FALSE]
Abs(names) == [abs |-> TRUE,  names |-> names, slash |-> FALSE]

Empty == Rel(<<>>)
DotPath == Rel(<<".">>)
RootPath == Abs(<<>>)

(* What lstat(2) tells of a node. *)
StatOf(node) == [type |-> node.type, uid |-> node.uid, gid |-> node.gid,
                 mode |-> node.mode, flags |-> node.flags]

Granted(node, wanted) == KernelMay(node, Process, wanted)

(* What any disk holds: entries lead to objects, "." to the directory it   *)
(* is in; the root and the working directory are directories.              *)
IsTree(fs) ==
    /\ {Root, Cwd} \subseteq DOMAIN fs
    /\ fs[Root].type = "dir" /\ fs[Cwd].type = "dir"
    /\ \A object \in DOMAIN fs :
          LET node == fs[object] IN
          /\ node.type \in {"dir", "reg", "lnk"}
          /\ {node.target, node.script} \subseteq Path
          /\ \A name \in DOMAIN node.entries : node.entries[name] \in DOMAIN fs
          /\ node.type = "dir"
             => "." \in DOMAIN node.entries /\ node.entries["."] = object

(***************************************************************************)
(* The walk of the kernel: the directory reached, the components left, the *)
(* trailing slash still to honour, and the links followed, in order.       *)
(***************************************************************************)
Walker(path) == [dir   |-> IF path.abs THEN Root ELSE Cwd,
                 rest  |-> path.names,
                 slash |-> path.slash,
                 links |-> <<>>,
                 err   |-> IF path = Empty THEN "ENOENT"
                           ELSE IF Len(path.names) > PATH_MAX THEN "ENAMETOOLONG"
                           ELSE "none",
                 obj   |-> Root]

Failed(w, errno) == [w EXCEPT !.err = errno]
Reached(w, obj)  == [w EXCEPT !.err = "found", !.obj = obj]

(* A link met on the way: its body is walked before what was left. *)
Spliced(fs, w, link, tail) ==
    LET body == fs[link].target IN
    [w EXCEPT !.dir   = IF body.abs THEN Root ELSE w.dir,
              !.rest  = body.names \o tail,
              !.slash = w.slash \/ (tail = <<>> /\ body.slash),
              !.links = Append(w.links, link)]

(* One component.  "absent" is a last component that does not exist. *)
WalkStep(fs, follow, w) ==
    LET here  == fs[w.dir]
        name  == Head(w.rest)
        tail  == Tail(w.rest)
        last  == tail = <<>>
        child == here.entries[name]
    IN  IF w.rest = <<>> THEN Reached(w, w.dir)
        ELSE IF here.type # "dir" THEN Failed(w, "ENOTDIR")
        ELSE IF ~Granted(here, "x") THEN Failed(w, "EACCES")
        ELSE IF name \in LongNames THEN Failed(w, "ENAMETOOLONG")
        ELSE IF name \notin DOMAIN here.entries
             THEN Failed(w, IF last THEN "absent" ELSE "ENOENT")
        ELSE IF fs[child].type = "lnk" /\ (~last \/ follow \/ w.slash)
             THEN IF Len(w.links) >= MAXSYMLINKS THEN Failed(w, "ELOOP")
                  ELSE Spliced(fs, w, child, tail)
        ELSE IF ~last THEN [w EXCEPT !.dir = child, !.rest = tail]
        ELSE IF w.slash /\ fs[child].type # "dir"
             THEN Failed([w EXCEPT !.dir = child], "ENOTDIR")
        ELSE Reached(w, child)

Ways == {"none", "found", "absent", "ENOENT", "ENOTDIR", "EACCES",
         "ENAMETOOLONG", "ELOOP"}

Walkers(fs) == [dir : DOMAIN fs, rest : Seq(Name), slash : BOOLEAN,
                links : Seq(DOMAIN fs), err : Ways, obj : DOMAIN fs]

(* MAXSYMLINKS ends every walk. *)
WalkFrom(fs, follow, start) ==
    LET after[w \in Walkers(fs)] ==
            IF w.err # "none" THEN w ELSE after[WalkStep(fs, follow, w)]
    IN  after[start]

(***************************************************************************)
(* The two system calls path_resolution.c walks with.                      *)
(***************************************************************************)
Found(fs, w) == w.err = "found" /\ w.obj \in DOMAIN fs

Lstat(fs, path) ==
    LET w == WalkFrom(fs, FALSE, Walker(path)) IN
    IF Found(fs, w) THEN [errno |-> "OK", st |-> StatOf(fs[w.obj])]
    ELSE [errno |-> IF w.err \in {"EACCES", "ELOOP", "ENAMETOOLONG", "ENOTDIR"}
                    THEN w.err ELSE "ENOENT"]

Readlink(fs, path) ==
    LET w == WalkFrom(fs, FALSE, Walker(path)) IN
    IF Found(fs, w) /\ fs[w.obj].type = "lnk"
    THEN [errno |-> "OK", body |-> fs[w.obj].target]
    ELSE [errno |-> "EINVAL"]

(* The path on the #! line of a file that open(2) and read(2) can read. *)
ReadScript(fs, path) ==
    LET w == WalkFrom(fs, TRUE, Walker(path)) IN
    IF Found(fs, w) /\ fs[w.obj].type = "reg" /\ Granted(fs[w.obj], "r")
    THEN fs[w.obj].script
    ELSE Empty
=============================================================================
