-------------------------- MODULE FinalComponent --------------------------
(***************************************************************************)
(* What each explained system call says of the last component of its path  *)
(* (struct explain_final_t of path_resolution.h), the errnos for which its *)
(* explanation asks path_resolution.c, and, for reference, the errno that  *)
(* the Linux kernel gives the same call.                                   *)
(***************************************************************************)
EXTENDS FileSystem

(***************************************************************************)
(* explain_final_t.  must_be stands for the pair must_be_a_st_mode and     *)
(* st_mode: the only type a call insists on is a directory.                *)
(***************************************************************************)
final_init ==
    [want_to_read |-> FALSE, want_to_write |-> FALSE, want_to_search |-> FALSE,
     want_to_execute |-> FALSE, want_to_create |-> FALSE,
     want_to_modify_inode |-> FALSE, want_to_unlink |-> FALSE,
     must_exist |-> TRUE, must_not_exist |-> FALSE, must_be |-> "any",
     follow_symlink |-> TRUE, follow_interpreter |-> TRUE]

final_stat  == final_init
final_lstat == [final_init EXCEPT !.follow_symlink = FALSE]
final_chdir == [final_init EXCEPT !.want_to_search = TRUE, !.must_be = "dir"]
final_chmod == [final_init EXCEPT !.want_to_modify_inode = TRUE]
final_rmdir == [final_init EXCEPT !.want_to_unlink = TRUE, !.must_be = "dir"]
final_execve == [final_init EXCEPT !.want_to_execute = TRUE]

final_mkdir ==
    [final_init EXCEPT !.must_exist = FALSE, !.must_not_exist = TRUE,
                       !.want_to_create = TRUE, !.follow_symlink = FALSE]
final_symlink ==
    [final_init EXCEPT !.must_exist = FALSE, !.must_not_exist = TRUE,
                       !.want_to_create = TRUE]

final_open(flags) ==
    [final_init EXCEPT
        !.want_to_read   = "O_WRONLY" \notin flags,
        !.want_to_write  = {"O_WRONLY", "O_RDWR"} \cap flags # {},
        !.want_to_create = "O_CREAT" \in flags,
        !.must_exist     = "O_CREAT" \notin flags,
        !.must_not_exist = {"O_CREAT", "O_EXCL"} \subseteq flags,
        !.must_be        = IF "O_DIRECTORY" \in flags THEN "dir" ELSE "any",
        !.follow_symlink = "O_NOFOLLOW" \notin flags]

final_readlink == [final_init EXCEPT !.want_to_read = TRUE, !.follow_symlink = FALSE]
final_truncate == [final_init EXCEPT !.want_to_write = TRUE]
final_chroot == [final_init EXCEPT !.want_to_search = TRUE, !.must_be = "dir"]
final_chown  == [final_init EXCEPT !.want_to_modify_inode = TRUE]
final_lchown == [final_chown EXCEPT !.follow_symlink = FALSE]

final_mknod ==
    [final_init EXCEPT !.must_exist = FALSE, !.must_not_exist = TRUE,
                       !.want_to_create = TRUE, !.follow_symlink = FALSE]

(* Without times it is now, which a writer may say. *)
final_utime(times) ==
    [final_init EXCEPT !.want_to_modify_inode = times, !.want_to_write = ~times]

(* X_OK is permission to search if the path is that of a directory.        *)
final_access(mode, is_a_directory) ==
    [final_init EXCEPT
        !.want_to_read    = "R_OK" \in mode,
        !.want_to_write   = "W_OK" \in mode,
        !.want_to_search  = "X_OK" \in mode /\ is_a_directory,
        !.want_to_execute = "X_OK" \in mode /\ ~is_a_directory]

(* Mutants: an interpreter need only exist; unlink is told like rmdir.     *)
final_interpreter_unexecuted == [final_init EXCEPT !.follow_interpreter = FALSE]
final_unlink_directory == final_rmdir

final_unlink == [final_init EXCEPT !.want_to_unlink = TRUE]

(* The interpreter of a script, looked for on behalf of execve. *)
final_interpreter ==
    [final_execve EXCEPT !.follow_interpreter = FALSE]

(* The system calls of the model, under names of their own for the         *)
(* arguments of open, access and utime.                                    *)
final_of ==
    [stat |-> final_stat, lstat |-> final_lstat, chdir |-> final_chdir,
     chmod |-> final_chmod, unlink |-> final_unlink, rmdir |-> final_rmdir,
     execve |-> final_execve, mkdir |-> final_mkdir, symlink |-> final_symlink,
     readlink |-> final_readlink, truncate |-> final_truncate,
     chroot |-> final_chroot, chown |-> final_chown, lchown |-> final_lchown,
     mknod |-> final_mknod,
     utime_now   |-> final_utime(FALSE),
     utime_times |-> final_utime(TRUE),
     access_r    |-> final_access({"R_OK"}, FALSE),
     access_w    |-> final_access({"W_OK"}, FALSE),
     access_x    |-> final_access({"X_OK"}, FALSE),
     access_x_directory |-> final_access({"X_OK"}, TRUE),
     open_rdonly |-> final_open({"O_RDONLY"}),
     open_wronly |-> final_open({"O_WRONLY"}),
     open_creat  |-> final_open({"O_WRONLY", "O_CREAT"}),
     open_excl   |-> final_open({"O_WRONLY", "O_CREAT", "O_EXCL"})]

Syscall == DOMAIN final_of

(* The errnos whose explanation walks the path. *)
explained_errnos(op) ==
    {"EACCES", "ELOOP", "ENAMETOOLONG", "ENOENT", "ENOTDIR"}
    \cup (IF op \in {"chmod", "unlink", "rmdir", "utime_times"} THEN {"EPERM"} ELSE {})
    \cup (IF op \in {"mkdir", "open_creat", "open_excl"} THEN {"EEXIST"} ELSE {})

(* utime hands its EPERM to explain_buffer_eacces. *)
passed_errno(op, errnum) ==
    IF op = "utime_times" /\ errnum = "EPERM" THEN "EACCES" ELSE errnum

(* The identity in explain_final_t is that of the process. *)
have_read_permission(st)    == explain_have_read_permission(st, Process)
have_write_permission(st)   == explain_have_write_permission(st, Process)
have_execute_permission(st) == explain_have_execute_permission(st, Process)
have_search_permission(st)  == explain_have_search_permission(st, Process)
have_inode_permission(st)   == explain_have_inode_permission(st, Process)
capable(cap)                == explain_capability(Process, cap)

(***************************************************************************)
(* The kernel's side.  A call that names an entry to make or to remove     *)
(* does not follow a link in its place, trailing slash or not.             *)
(***************************************************************************)
Creates == {"mkdir", "mknod", "symlink", "open_creat", "open_excl"}
Removes == {"unlink", "rmdir"}

KernelFollows(op) ==
    op \notin {"lstat", "readlink", "lchown", "mkdir", "mknod", "symlink", "open_excl"}
              \cup Removes

KernelWalk(fs, path, op) ==
    WalkFrom(fs, KernelFollows(op),
             Walker(IF op \in Creates \cup Removes
                    THEN [path EXCEPT !.slash = FALSE] ELSE path))

(* The first of a list of <<condition, value>> whose condition holds. *)
FirstOf(cases, otherwise) ==
    LET held == {i \in 1 .. Len(cases) : cases[i][1]} IN
    IF held = {} THEN otherwise
    ELSE cases[CHOOSE i \in held : \A j \in held : i <= j][2]

AbsentErrno(fs, w, slash, op) ==
    FirstOf(<< <<op \notin Creates, "ENOENT">>,
               <<slash /\ op \in {"open_creat", "open_excl"}, "EISDIR">>,
               <<slash /\ op \in {"symlink", "mknod"}, "ENOENT">>,
               <<~Granted(fs[w.dir], "w"), "EACCES">> >>, "OK")

RemoveErrno(fs, w, slash, op) ==
    LET dir == fs[w.dir]
        obj == fs[w.obj]
    IN  FirstOf(<< <<w.rest = <<>>, "EBUSY">>,
                   <<op = "rmdir" /\ w.rest = <<".">>, "EINVAL">>,
                   <<op = "rmdir" /\ w.rest = <<"..">>, "ENOTEMPTY">>,
                   <<op = "unlink" /\ slash /\ obj.type # "dir", "ENOTDIR">>,
                   <<~Granted(dir, "w"), "EACCES">>,
                   <<"sticky" \in dir.flags /\ obj.uid # Process.uid
                     /\ dir.uid # Process.uid /\ "fowner" \notin Process.caps, "EPERM">>,
                   <<op = "unlink" /\ obj.type = "dir", "EISDIR">>,
                   <<op = "rmdir" /\ obj.type # "dir", "ENOTDIR">> >>, "OK")

ExecErrno(st) ==
    IF st.type # "reg" \/ ~Granted(st, "x") \/ "noexec" \in st.flags
    THEN "EACCES" ELSE "OK"

InterpreterErrno(fs, script) ==
    LET w == WalkFrom(fs, TRUE, Walker(script)) IN
    IF script = Empty THEN "OK"
    ELSE IF w.err = "absent" THEN "ENOENT"
    ELSE IF w.err # "found" THEN w.err
    ELSE ExecErrno(fs[w.obj])

Owned(st) == st.uid = Process.uid \/ "fowner" \in Process.caps

(* "OK" is also an errno that is explained without the walk: EPERM of      *)
(* chroot and chown, EINVAL of readlink.                                   *)
FoundErrno(fs, w, slash, op) ==
    LET obj == fs[w.obj] IN
    CASE op \in {"stat", "lstat", "readlink", "chown", "lchown"} -> "OK"
      [] op \in {"chdir", "chroot"} -> FirstOf(<< <<obj.type # "dir", "ENOTDIR">>,
                                    <<~Granted(obj, "x"), "EACCES">> >>, "OK")
      [] op \in {"chmod", "utime_times"} -> IF Owned(obj) THEN "OK" ELSE "EPERM"
      [] op = "utime_now" -> IF Owned(obj) \/ Granted(obj, "w") THEN "OK" ELSE "EACCES"
      [] op = "truncate" ->
            FirstOf(<< <<obj.type = "dir", "EISDIR">>,
                       <<~Granted(obj, "w"), "EACCES">> >>, "OK")
      [] op = "access_r" -> IF Granted(obj, "r") THEN "OK" ELSE "EACCES"
      [] op = "access_w" -> IF Granted(obj, "w") THEN "OK" ELSE "EACCES"
      [] op \in {"access_x", "access_x_directory"} ->
            IF ~Granted(obj, "x") \/ (obj.type = "reg" /\ "noexec" \in obj.flags)
            THEN "EACCES" ELSE "OK"
      [] op = "open_excl" -> IF slash THEN "EISDIR" ELSE "EEXIST"
      [] op \in {"mkdir", "mknod", "symlink"} -> "EEXIST"
      [] op \in Removes -> RemoveErrno(fs, w, slash, op)
      [] op = "open_rdonly" -> IF Granted(obj, "r") THEN "OK" ELSE "EACCES"
      [] op \in {"open_wronly", "open_creat"} ->
            FirstOf(<< <<obj.type = "dir" \/ w.slash \/ slash, "EISDIR">>,
                       <<~Granted(obj, "w"), "EACCES">> >>, "OK")
      [] op = "execve" -> FirstOf(<< <<ExecErrno(obj) # "OK", "EACCES">> >>,
                                  InterpreterErrno(fs, obj.script))

(* What X_OK of access is to mean is told by lstat, of the link if the     *)
(* path is that of a link.  (The real identity is the effective one here.) *)
explain_pathname_is_a_directory(fs, path) ==
    LET answer == Lstat(fs, path) IN
    answer.errno = "OK" /\ answer.st.type = "dir"

Asks(fs, path, op) ==
    /\ op = "access_x" => ~explain_pathname_is_a_directory(fs, path)
    /\ op = "access_x_directory" => explain_pathname_is_a_directory(fs, path)

KernelErrno(fs, path, op) ==
    LET w == KernelWalk(fs, path, op) IN
    IF ~Asks(fs, path, op) THEN "OK"
    ELSE IF w.err = "found"  THEN FoundErrno(fs, w, path.slash, op)
    ELSE IF w.err = "absent" THEN AbsentErrno(fs, w, path.slash, op)
    ELSE w.err
=============================================================================
