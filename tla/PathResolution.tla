-------------------------- MODULE PathResolution --------------------------
(***************************************************************************)
(* explain_buffer_errno_path_resolution: after a system call has failed,   *)
(* walk its path again, one component at a time, with lstat and readlink,  *)
(* until something is found that explains the errno.                       *)
(*                                                                         *)
(* The state is the local variables of that function, one call deep, two   *)
(* when the interpreter of a script is checked (the caller's frame is then *)
(* in "caller").  Each step is one system call and the code up to the next *)
(* one: nothing but the file system is shared, and other processes change  *)
(* the file system between any two of them.                                *)
(***************************************************************************)
EXTENDS FinalComponent, SequencesExt

CONSTANTS
    Scenarios,      \* records [trees, requests]: what the disk may hold, and
                    \* the calls explained there, records [op, path]
    SYMLOOP_MAX,    \* what explain_symloopmax() returns
    CwdNames,       \* what getcwd() returns, as components
    Confusing,      \* what current_directory_confusing() may return
    MallocResults,  \* {TRUE}, or {TRUE, FALSE} when memory may run out
    MayChange,      \* may other processes change the tree meanwhile?
    Truncated,      \* what a name of LongNames is cut to, at NAME_MAX bytes
    NULL            \* a null pointer

(* What sysconf promises of links is no more than the kernel follows. *)
ASSUME SymloopAssumption ==
    /\ {SYMLOOP_MAX, PATH_MAX} \subseteq Nat \ {0}
    /\ MAXSYMLINKS \in Nat /\ SYMLOOP_MAX <= MAXSYMLINKS

ASSUME NamesAssumption ==
    /\ "." \in Name \ LongNames
    /\ CwdNames \in Seq(Name)
    /\ \A name \in LongNames : Truncated[name] \in Name

ASSUME ScenariosAssumption ==
    \A scenario \in Scenarios :
        /\ scenario.requests \subseteq [op : Syscall, path : Path]
        /\ \A tree \in scenario.trees : IsTree(tree)

FileSystems == UNION {scenario.trees : scenario \in Scenarios}

(* What lstat may tell, and what a call leaves waiting for a nested one. *)
Statuses ==
    {NULL} \cup UNION {{StatOf(tree[object]) : object \in DOMAIN tree} :
                         tree \in FileSystems}
Finals == {final_of[op] : op \in Syscall} \cup {final_interpreter}
Frames == [final_component : Finals, st : Statuses,
           symlinks_so_far : Seq(Path) \cup {NULL}, number : Nat]

ASSUME PointerAssumption ==
    /\ NULL \notin Seq(Path) \cup Frames
    /\ MallocResults \subseteq BOOLEAN /\ Confusing \subseteq BOOLEAN

VARIABLES
    fs, changed,                        \* the world
    request, errno,                     \* the call that failed
    pc, result, why,                    \* control, return value, explanation
    expected_errno, final_component, initial_pathname,  \* arguments
    pp, lookup_directory, lookup_directory_st, component,
    intermediate_path, intermediate_path_st, rlb,
    symlinks_so_far, number_of_symlinks_followed,
    heap,                               \* blocks malloc'ed and not freed
    caller                              \* NULL, or the frame of execve's walk

world   == <<fs, changed>>
failure == <<request, errno>>
args    == <<expected_errno, final_component, initial_pathname>>
walk    == <<pp, lookup_directory, lookup_directory_st, component>>
inter   == <<intermediate_path, intermediate_path_st, rlb>>
memory  == <<symlinks_so_far, number_of_symlinks_followed, heap>>
verdict == <<pc, result, why>>
vars    == <<world, failure, args, walk, inter, memory, verdict, caller>>

-----------------------------------------------------------------------------
(* Paths as the function joins them. *)

(* explain_string_buffer_path_join: "./" before the tail is skipped, a     *)
(* tail of "." or of nothing adds nothing, and "." is replaced.            *)
SkipDots(names) ==
    LET kept == {i \in 1 .. Len(names) : names[i] # "."} IN
    IF kept = {} THEN <<>> ELSE SubSeq(names, Min(kept), Len(names))

path_join(dst, names) ==
    LET tail == SkipDots(names) IN
    IF tail = <<>> THEN dst
    ELSE IF dst = DotPath THEN Rel(tail)
    ELSE [abs |-> dst.abs, names |-> dst.names \o tail, slash |-> FALSE]

(* Mutant: the walk starts at "/", and the working directory is forgotten. *)
initial_names_without_cwd(path, confusing) == path.names

(* What the pathname buffer starts with: getcwd() before a relative path   *)
(* when the working directory may confuse the reader, "/." for "/", and    *)
(* "." after a trailing slash.                                             *)
initial_names(path, confusing) ==
    (IF confusing /\ ~path.abs THEN CwdNames ELSE <<>>)
    \o path.names
    \o (IF path.slash \/ path.names = <<>> THEN <<".">> ELSE <<>>)

-----------------------------------------------------------------------------
(* Memory.  Block 0 of a frame is the list, block i the i-th link in it.   *)
depth == IF caller = NULL THEN 0 ELSE 1

(* Mutant: the list is freed, the strings in it are not. *)
list_blocks_without_strings ==
    IF symlinks_so_far = NULL THEN {} ELSE {<<depth, 0>>}

list_blocks ==
    IF symlinks_so_far = NULL THEN {}
    ELSE {<<depth, i>> : i \in 0 .. number_of_symlinks_followed}

(* goto return_0, goto return_minus_1. *)
Return(value, explanation) ==
    /\ pc' = "return"
    /\ result' = value
    /\ why' = explanation
    /\ heap' = heap \ list_blocks
    /\ UNCHANGED <<symlinks_so_far, number_of_symlinks_followed>>

(* return, without going through either label. *)
BareReturn(value, explanation) ==
    /\ pc' = "return"
    /\ result' = value
    /\ why' = explanation
    /\ UNCHANGED memory

GoTo(label) == pc' = label /\ UNCHANGED <<result, why>>

-----------------------------------------------------------------------------
Init ==
    /\ \E scenario \in Scenarios :
          fs \in scenario.trees /\ request \in scenario.requests
    /\ changed = FALSE
    /\ errno = KernelErrno(fs, request.path, request.op)
    /\ errno \in explained_errnos(request.op)
    /\ expected_errno = passed_errno(request.op, errno)
    /\ final_component = final_of[request.op]
    /\ initial_pathname = request.path
    /\ pc = "begin"
    /\ result = 0
    /\ why = "none"
    /\ pp = <<>>
    /\ lookup_directory = DotPath
    /\ lookup_directory_st = NULL
    /\ component = <<>>
    /\ intermediate_path = DotPath
    /\ intermediate_path_st = NULL
    /\ rlb = DotPath
    /\ symlinks_so_far = NULL
    /\ number_of_symlinks_followed = 0
    /\ heap = {}
    /\ caller = NULL

(* Some other process changes the tree. *)
Change ==
    /\ pc \notin {"return", "abort"}
    /\ MayChange
    /\ changed' = TRUE
    /\ fs' \in FileSystems \ {fs}
    /\ UNCHANGED <<failure, args, walk, inter, memory, verdict, caller>>

-----------------------------------------------------------------------------
(* Before the walk. *)

EmptyPathname ==
    /\ pc = "begin"
    /\ initial_pathname = Empty
    /\ BareReturn(0, "empty_path")
    /\ UNCHANGED <<world, failure, args, walk, inter, caller>>

PathnameTooLong ==
    /\ pc = "begin"
    /\ initial_pathname # Empty
    /\ expected_errno = "ENAMETOOLONG"
    /\ Len(initial_pathname.names) > PATH_MAX
    /\ BareReturn(0, "path_too_long")
    /\ UNCHANGED <<world, failure, args, walk, inter, caller>>

Begin ==
    /\ pc = "begin"
    /\ initial_pathname # Empty
    /\ ~(expected_errno = "ENAMETOOLONG" /\ Len(initial_pathname.names) > PATH_MAX)
    /\ \E confusing \in Confusing, allocated \in MallocResults :
        /\ number_of_symlinks_followed' = 0
        /\ IF allocated
           THEN /\ symlinks_so_far' = <<>>
                /\ heap' = heap \cup {<<depth, 0>>}
           ELSE /\ symlinks_so_far' = NULL
                /\ heap' = heap
        /\ IF ~allocated /\ expected_errno = "ELOOP"
           THEN /\ pc' = "return" /\ result' = -1 /\ why' = "none"
                /\ UNCHANGED <<pp, lookup_directory>>
           ELSE /\ GoTo("lookup")
                /\ pp' = initial_names(initial_pathname, confusing)
                /\ lookup_directory' = IF initial_pathname.abs \/ confusing
                                       THEN RootPath ELSE DotPath
    /\ UNCHANGED <<world, failure, args, lookup_directory_st, component, inter,
                   caller>>

-----------------------------------------------------------------------------
(* The lookup directory. *)

LookupDirectoryFails ==
    LET answer == Lstat(fs, lookup_directory) IN
    /\ pc = "lookup"
    /\ answer.errno # "OK"
    /\ IF answer.errno = "ENOENT" THEN Return(0, "directory_does_not_exist")
       ELSE Return(-1, "none")
    /\ UNCHANGED <<world, failure, args, walk, inter, caller>>

(* assert(!S_ISLNK(lookup_directory_st.st_mode)) *)
AssertionFails ==
    LET answer == Lstat(fs, lookup_directory) IN
    /\ pc = "lookup"
    /\ answer.errno = "OK" /\ answer.st.type = "lnk"
    /\ GoTo("abort")
    /\ UNCHANGED <<world, failure, args, walk, inter, memory, caller>>

LookupDirectoryUnfit ==
    LET answer == Lstat(fs, lookup_directory) IN
    /\ pc = "lookup"
    /\ answer.errno = "OK"
    /\ \/ /\ answer.st.type = "reg"
          /\ Return(0, "not_a_directory")
       \/ /\ answer.st.type = "dir" /\ ~have_search_permission(answer.st)
          /\ Return(0, "no_search_permission")
    /\ UNCHANGED <<world, failure, args, walk, inter, caller>>

(* Mutant: the '/' does not end the component. *)
next_component_unended == pp

(* Mutant: a long name is cut whatever the errno. *)
next_component_always_cut ==
    IF pp = <<>> THEN <<>>
    ELSE IF Head(pp) \in LongNames THEN <<Truncated[Head(pp)]>>
    ELSE <<Head(pp)>>

(* The next component.  Under ENAMETOOLONG a long name is the explanation; *)
(* under any other errno it is cut, as a file system might have done.      *)
next_component ==
    IF pp = <<>> THEN <<>>
    ELSE IF Head(pp) \in LongNames /\ expected_errno # "ENAMETOOLONG"
    THEN <<Truncated[Head(pp)]>>
    ELSE <<Head(pp)>>

NextComponent ==
    LET answer == Lstat(fs, lookup_directory) IN
    /\ pc = "lookup"
    /\ answer.errno = "OK" /\ answer.st.type = "dir" /\ have_search_permission(answer.st)
    /\ lookup_directory_st' = answer.st
    /\ component' = next_component
    /\ pp' = IF pp = <<>> THEN <<>> ELSE Tail(pp)
    /\ IF expected_errno = "ENAMETOOLONG" /\ Range(component') \cap LongNames # {}
       THEN /\ Return(0, "name_too_long")
            /\ UNCHANGED intermediate_path
       ELSE /\ GoTo("intermediate")
            /\ intermediate_path' = path_join(lookup_directory, component')
            /\ UNCHANGED memory
    /\ UNCHANGED <<world, failure, args, lookup_directory, intermediate_path_st,
                   rlb, caller>>

final == pp = <<>>

(* Mutant: the wrong permission bit. *)
lookup_directory_readable == have_read_permission(lookup_directory_st)

lookup_directory_writable == have_write_permission(lookup_directory_st)

-----------------------------------------------------------------------------
(* The intermediate path does not answer lstat. *)

(* Mutant: a missing last component is never an explanation. *)
absent_explanation_not_last(lstat_errno) ==
    IF ~final /\ lstat_errno = "ENOENT" THEN "no_such_directory_entry" ELSE "none"

absent_explanation(lstat_errno) ==
    LET absent == lstat_errno = "ENOENT" IN
    IF ~final THEN IF absent THEN "no_such_directory_entry" ELSE "none"
    ELSE IF final_component.must_not_exist
    THEN IF absent /\ ~lookup_directory_writable
         THEN "no_new_entry_permission" ELSE "none"
    ELSE IF final_component.must_exist
    THEN IF absent THEN "no_such_directory_entry" ELSE "none"
    ELSE IF /\ expected_errno \in {"EACCES", "EPERM"}
            /\ absent
            /\ final_component.want_to_create
            /\ ~lookup_directory_writable
    THEN "no_new_entry_permission" ELSE "none"

IntermediateFails ==
    LET answer == Lstat(fs, intermediate_path)
        found  == absent_explanation(answer.errno)
    IN
    /\ pc = "intermediate"
    /\ answer.errno # "OK"
    /\ Return(IF found = "none" THEN -1 ELSE 0, found)
    /\ UNCHANGED <<world, failure, args, walk, inter, caller>>

-----------------------------------------------------------------------------
(* The intermediate path exists: the checks of the last component. *)

(* Sticky or not, asked only when the directory is not writable. *)
may_not_unlink(st) ==
    /\ final_component.want_to_unlink
    /\ ~lookup_directory_writable
    /\ \/ "sticky" \notin lookup_directory_st.flags
       \/ /\ Process.uid \notin {st.uid, lookup_directory_st.uid}
          /\ ~capable("fowner")

may_not_execute(st) ==
    IF ~have_execute_permission(st)
    THEN IF st.type # "reg" THEN "not_possible_to_execute"
         ELSE "no_execute_permission"
    ELSE IF capable("dac_override") THEN "none"
    ELSE IF "noexec" \in st.flags THEN "noexec"
    ELSE IF {"setid", "nosuid"} \subseteq st.flags THEN "nosuid"
    ELSE "none"

(* In order; "interpreter" is not a verdict but the check of a script. *)
existing_explanation(st) ==
    LET access == expected_errno = "EACCES"
        denied == expected_errno \in {"EACCES", "EPERM"}
    IN  FirstOf(<<
        <<final_component.must_not_exist, "eexist">>,
        <<final_component.must_be \notin {"any", st.type}, "wrong_file_type">>,
        <<denied /\ final_component.want_to_modify_inode
          /\ ~have_inode_permission(st), "no_inode_permission">>,
        <<denied /\ may_not_unlink(st), "no_unlink_permission">>,
        <<access /\ final_component.want_to_read /\ ~have_read_permission(st),
          "no_read_permission">>,
        <<access /\ final_component.want_to_write /\ ~have_write_permission(st),
          "no_write_permission">>,
        <<access /\ final_component.want_to_execute
          /\ may_not_execute(st) # "none", may_not_execute(st)>>,
        <<access /\ final_component.want_to_execute, "interpreter">>,
        <<access /\ final_component.want_to_search /\ ~have_search_permission(st),
          "no_search_permission_final">> >>, "none")

(* The code after the symbolic link block, entered with the status st. *)
Existing(st) ==
    LET found == existing_explanation(st) IN
    \/ /\ ~final /\ st.type # "dir"
       /\ BareReturn(0, "not_a_subdirectory")
       /\ UNCHANGED lookup_directory
    \/ /\ ~final /\ st.type = "dir"
       /\ GoTo("lookup")
       /\ lookup_directory' = intermediate_path
       /\ UNCHANGED memory
    \/ /\ final /\ found = "interpreter"
       /\ GoTo("interpreter")
       /\ UNCHANGED <<memory, lookup_directory>>
    \/ /\ final /\ found # "interpreter"
       /\ Return(IF found = "none" THEN -1 ELSE 0, found)
       /\ UNCHANGED lookup_directory

(* Mutant: the flag for the last component is applied to all of them. *)
is_link_to_follow_by_flag(st) ==
    st.type = "lnk" /\ final_component.follow_symlink

is_link_to_follow(st) ==
    st.type = "lnk" /\ (~final \/ final_component.follow_symlink)

(* Mutant: only the last link read is compared with. *)
seen_last ==
    /\ symlinks_so_far # NULL /\ symlinks_so_far # <<>>
    /\ Last(symlinks_so_far) = intermediate_path

(* Have we read this symlink before? *)
seen_before ==
    symlinks_so_far # NULL /\ Contains(symlinks_so_far, intermediate_path)

IntermediateExists ==
    LET answer == Lstat(fs, intermediate_path) IN
    /\ pc = "intermediate"
    /\ answer.errno = "OK"
    /\ ~is_link_to_follow(answer.st)
    /\ intermediate_path_st' = answer.st
    /\ Existing(answer.st)
    /\ UNCHANGED <<world, failure, args, pp, lookup_directory_st, component,
                   intermediate_path, rlb, caller>>

SymbolicLink ==
    LET answer == Lstat(fs, intermediate_path) IN
    /\ pc = "intermediate"
    /\ answer.errno = "OK"
    /\ is_link_to_follow(answer.st)
    /\ intermediate_path_st' = answer.st
    /\ IF seen_before THEN Return(0, "symlink_loop")
       ELSE GoTo("readlink") /\ UNCHANGED memory
    /\ UNCHANGED <<world, failure, args, walk, intermediate_path, rlb, caller>>

-----------------------------------------------------------------------------
(* Following a link. *)

(* The path was a link when lstat looked and is none now: it is treated as *)
(* the object lstat described.                                             *)
ReadlinkFails ==
    /\ pc = "readlink"
    /\ Readlink(fs, intermediate_path).errno # "OK"
    /\ Existing(intermediate_path_st)
    /\ UNCHANGED <<world, failure, args, pp, lookup_directory_st, component,
                   inter, caller>>

(* Mutant: the list is freed, and kept. *)
Remember_after_free(allocated) ==
    /\ IF allocated
       THEN /\ symlinks_so_far' = Append(symlinks_so_far, intermediate_path)
            /\ heap' = heap \cup {<<depth, number_of_symlinks_followed + 1>>}
       ELSE /\ symlinks_so_far' = symlinks_so_far
            /\ heap' = heap \ list_blocks
    /\ UNCHANGED number_of_symlinks_followed

(* Remember the link; without memory, forget all of them. *)
Remember(allocated) ==
    /\ IF allocated
       THEN /\ symlinks_so_far' = Append(symlinks_so_far, intermediate_path)
            /\ heap' = heap \cup {<<depth, number_of_symlinks_followed + 1>>}
       ELSE /\ symlinks_so_far' = NULL
            /\ heap' = heap \ list_blocks
    /\ UNCHANGED number_of_symlinks_followed

(* Mutant: what was left of the path after the link is forgotten. *)
Follow_without_rest(body) ==
    /\ GoTo("target")
    /\ rlb' = body
    /\ pp' = body.names
    /\ intermediate_path' = IF body.abs THEN body
                            ELSE path_join(lookup_directory, body.names)

(* The new path: the body of the link, then what was left. *)
Follow(body) ==
    LET text == IF body = Empty THEN DotPath ELSE body IN
    /\ GoTo("target")
    /\ rlb' = text
    /\ pp' = path_join(text, pp).names
    /\ intermediate_path' = IF text.abs THEN text
                            ELSE IF SkipDots(text.names) = <<>>
                            THEN lookup_directory
                            ELSE [path_join(lookup_directory, text.names)
                                  EXCEPT !.slash = text.slash]

ReadTheLink ==
    LET answer == Readlink(fs, intermediate_path) IN
    /\ pc = "readlink"
    /\ answer.errno = "OK"
    /\ \/ /\ symlinks_so_far = NULL
          /\ Follow(answer.body)
          /\ UNCHANGED memory
       \/ /\ symlinks_so_far # NULL
          /\ \E allocated \in MallocResults :
                /\ Remember(allocated)
                /\ IF ~allocated /\ expected_errno = "ELOOP"
                   THEN /\ pc' = "return" /\ result' = -1 /\ why' = "none"
                        /\ UNCHANGED <<rlb, pp, intermediate_path>>
                   ELSE Follow(answer.body)
    /\ UNCHANGED <<world, failure, args, lookup_directory, lookup_directory_st,
                   component, intermediate_path_st, caller>>

DanglingLink ==
    /\ pc = "target"
    /\ Lstat(fs, intermediate_path).errno = "ENOENT"
    /\ Return(0, "dangling_symbolic_link")
    /\ UNCHANGED <<world, failure, args, walk, inter, caller>>

(* Mutant: the body of an absolute link is walked from the directory of    *)
(* the link.                                                               *)
lookup_stays == lookup_directory

lookup_after_link == IF rlb.abs THEN RootPath ELSE lookup_directory

(* Mutant: one link more than the limit. *)
too_many_by_one(count) == count > SYMLOOP_MAX

too_many(count) == count >= SYMLOOP_MAX

(* Mutant: the links in the list are counted. *)
one_more_listed(n) == IF symlinks_so_far = NULL THEN n ELSE Len(symlinks_so_far)

one_more(n) == n + 1

FollowTheLink ==
    LET answer == Lstat(fs, intermediate_path)
        count  == one_more(number_of_symlinks_followed)
    IN
    /\ pc = "target"
    /\ answer.errno # "ENOENT"
    /\ intermediate_path_st' = IF answer.errno = "OK" THEN answer.st
                               ELSE intermediate_path_st
    /\ lookup_directory' = lookup_after_link
    /\ number_of_symlinks_followed' = count
    /\ UNCHANGED symlinks_so_far
    /\ IF too_many(count)
       THEN /\ pc' = "return" /\ result' = 0 /\ why' = "too_many_symlinks"
            /\ heap' = IF symlinks_so_far = NULL THEN heap
                       ELSE heap \ {<<depth, i>> : i \in 0 .. count}
       ELSE GoTo("lookup") /\ UNCHANGED heap
    /\ UNCHANGED <<world, failure, args, pp, lookup_directory_st, component,
                   intermediate_path, rlb, caller>>

-----------------------------------------------------------------------------
(* Scripts. *)

search_check(st, fc) ==
    IF fc.want_to_search /\ ~have_search_permission(st)
    THEN "no_search_permission_final" ELSE "none"

(* hash_bang, and the cases where there is no interpreter to check. *)
NoInterpreter ==
    LET script == ReadScript(fs, intermediate_path)
        found  == IF script # Empty THEN "too_many_interpreters"
                  ELSE search_check(intermediate_path_st, final_component)
    IN
    /\ pc = "interpreter"
    /\ script = Empty \/ ~final_component.follow_interpreter
    /\ Return(IF found = "none" THEN -1 ELSE 0, found)
    /\ UNCHANGED <<world, failure, args, walk, inter, caller>>

(* command_interpreter_broken calls the function again. *)
CallForInterpreter ==
    LET script == ReadScript(fs, intermediate_path) IN
    /\ pc = "interpreter"
    /\ script # Empty
    /\ final_component.follow_interpreter
    /\ caller' = [final_component |-> final_component,
                  st |-> intermediate_path_st,
                  symlinks_so_far |-> symlinks_so_far,
                  number |-> number_of_symlinks_followed]
    /\ GoTo("begin")
    /\ expected_errno' = "EACCES"
    /\ final_component' = final_interpreter
    /\ initial_pathname' = script
    /\ UNCHANGED <<world, failure, walk, inter, memory>>

(* Back in the outer call, which returns in its turn. *)
ReturnToCaller ==
    LET found == IF result = 0 THEN why
                 ELSE search_check(caller.st, caller.final_component)
    IN
    /\ pc = "return"
    /\ caller # NULL
    /\ caller' = NULL
    /\ result' = IF found = "none" THEN -1 ELSE 0
    /\ why' = found
    /\ symlinks_so_far' = caller.symlinks_so_far
    /\ number_of_symlinks_followed' = caller.number
    /\ heap' = IF caller.symlinks_so_far = NULL THEN heap
               ELSE heap \ {<<0, i>> : i \in 0 .. caller.number}
    /\ UNCHANGED <<world, failure, args, walk, inter, pc>>

Done ==
    /\ pc = "abort" \/ (pc = "return" /\ caller = NULL)
    /\ UNCHANGED vars

-----------------------------------------------------------------------------
Call ==
    \/ EmptyPathname \/ PathnameTooLong \/ Begin
    \/ LookupDirectoryFails \/ AssertionFails \/ LookupDirectoryUnfit
    \/ NextComponent
    \/ IntermediateFails \/ IntermediateExists \/ SymbolicLink
    \/ ReadlinkFails \/ ReadTheLink \/ DanglingLink \/ FollowTheLink
    \/ NoInterpreter \/ CallForInterpreter \/ ReturnToCaller

Next == Call \/ Change \/ Done

(* The call runs on; nobody promises that anybody else does anything. *)
Spec == Init /\ [][Next]_vars
FairSpec == Spec /\ WF_vars(Call)
-----------------------------------------------------------------------------
(***************************************************************************)
(* What the function promises.                                             *)
(***************************************************************************)
over  == pc = "return" /\ caller = NULL
quiet == ~changed

(* The errno each explanation accounts for. *)
explains ==
    [none |-> {},
     empty_path |-> {"ENOENT"},
     directory_does_not_exist |-> {"ENOENT"},
     no_such_directory_entry |-> {"ENOENT"},
     dangling_symbolic_link |-> {"ENOENT"},
     path_too_long |-> {"ENAMETOOLONG"},
     name_too_long |-> {"ENAMETOOLONG"},
     not_a_directory |-> {"ENOTDIR"},
     not_a_subdirectory |-> {"ENOTDIR"},
     wrong_file_type |-> {"ENOTDIR"},
     symlink_loop |-> {"ELOOP"},
     too_many_symlinks |-> {"ELOOP"},
     eexist |-> {"EEXIST"},
     no_inode_permission |-> {"EPERM"},
     no_unlink_permission |-> {"EACCES", "EPERM"},
     no_search_permission |-> {"EACCES"},
     no_search_permission_final |-> {"EACCES"},
     no_new_entry_permission |-> {"EACCES"},
     no_read_permission |-> {"EACCES"},
     no_write_permission |-> {"EACCES"},
     no_execute_permission |-> {"EACCES"},
     not_possible_to_execute |-> {"EACCES"},
     noexec |-> {"EACCES"},
     nosuid |-> {"EACCES"},
     too_many_interpreters |-> {"EACCES"}]

TypeOK ==
    /\ changed \in BOOLEAN
    /\ request.op \in Syscall /\ request.path \in Path
    /\ errno \in explained_errnos(request.op)
    /\ pc \in {"begin", "lookup", "intermediate", "readlink", "target",
              "interpreter", "return", "abort"}
    /\ result \in {0, -1} /\ why \in DOMAIN explains
    /\ expected_errno \in {errno, "EACCES"}
    /\ final_component \in Finals
    /\ {initial_pathname, lookup_directory, intermediate_path, rlb} \subseteq Path
    /\ pp \in Seq(Name) /\ component \in Seq(Name) /\ Len(component) <= 1
    /\ number_of_symlinks_followed \in 0 .. SYMLOOP_MAX
    /\ intermediate_path_st \in Statuses
    /\ symlinks_so_far \in Seq(Path) \cup {NULL}
    /\ heap \subseteq {0, 1} \X (0 .. SYMLOOP_MAX)
    /\ caller \in Frames \cup {NULL}

-----------------------------------------------------------------------------
(* Where the kernel's walk and this one are known to part.                 *)

NameWalk == WalkFrom(fs, FALSE, Walker([request.path EXCEPT !.slash = FALSE]))
LastIsLink == NameWalk.err = "found" /\ fs[NameWalk.obj].type = "lnk"

FollowsTooFar ==
    /\ final_of[request.op].follow_symlink
    /\ ~KernelFollows(request.op)
    /\ LastIsLink

CreatesThroughLink == request.op = "open_creat" /\ LastIsLink

RequestWalk == KernelWalk(fs, request.path, request.op)
ScriptWalk == WalkFrom(fs, TRUE, Walker(fs[RequestWalk.obj].script))

RevisitsALink ==
    /\ errno # "ELOOP"
    /\ \/ ~IsInjective(RequestWalk.links)
       \/ request.op = "execve" /\ ~IsInjective(ScriptWalk.links)

PassesManyLinks ==
    \/ Len(RequestWalk.links) >= SYMLOOP_MAX
    \/ request.op = "execve" /\ Len(ScriptWalk.links) >= SYMLOOP_MAX

(* The path leads to a script, and its interpreter in a circle. *)
LoopOfInterpreter ==
    request.op = "execve" /\ errno = "ELOOP" /\ RequestWalk.err = "found"

NotADirectoryToRemove ==
    /\ request.op = "rmdir" /\ errno \in {"EACCES", "EPERM"}
    /\ NameWalk.err = "found" /\ fs[NameWalk.obj].type # "dir"

(* getcwd() does not lead back, or only through links. *)
CwdOutOfReach ==
    LET there == WalkFrom(fs, TRUE, Walker(Abs(CwdNames))) IN
    TRUE \in Confusing
    /\ ~(there.err = "found" /\ there.obj = Cwd /\ there.links = <<>>)

TrailsOff(path) ==
    path.slash \/ (path.names # <<>> /\ Last(path.names) = ".")

EndsInSlash ==
    TrailsOff(request.path) \/ \E o \in DOMAIN fs : fs[o].target.slash

(* A trailing "/" or "/." anywhere: what says "." alone is harmless, as    *)
(* the body of a link.                                                     *)
SomethingTrailsOff ==
    \/ TrailsOff(request.path)
    \/ \E o \in DOMAIN fs : TrailsOff(fs[o].script)
    \/ \E o \in DOMAIN fs : fs[o].target # DotPath /\ TrailsOff(fs[o].target)

BlindCwd == ~Granted(fs[Cwd], "x")
BlindRoot == ~Granted(fs[Root], "x")

(* Write permission and the sticky bit are both needed; only one is asked. *)
StickyMuddle ==
    LET dir == fs[NameWalk.dir] IN
    /\ request.op \in Removes /\ NameWalk.err = "found"
    /\ "sticky" \in dir.flags
    /\ Granted(dir, "w") # (dir.uid = Process.uid
                            \/ have_inode_permission(fs[NameWalk.obj]))

(* The interpreter of a script is checked under EACCES alone, and only if  *)
(* the script can be read.                                                 *)
InterpreterNotAsked ==
    LET obj == fs[RequestWalk.obj] IN
    /\ request.op = "execve" /\ RequestWalk.err = "found"
    /\ ExecErrno(obj) = "OK"
    /\ errno # "EACCES" \/ ~Granted(obj, "r")

(* Access takes a link to a directory for something to be executed. *)
TakenForAFile == request.op = "access_x" /\ LastIsLink

(* An explanation is an explanation of the errno that was given; that a     *)
(* thing cannot be executed, to a call that would execute it.               *)
Truthful ==
    over /\ quiet /\ result = 0
    /\ ~(FollowsTooFar \/ CreatesThroughLink \/ RevisitsALink
         \/ PassesManyLinks \/ NotADirectoryToRemove \/ CwdOutOfReach
         \/ TakenForAFile)
    => /\ errno \in explains[why]
       /\ why = "not_possible_to_execute" => request.op = "execve"

(* Whatever path resolution can make fail is explained. *)
Complete ==
    over /\ quiet
    /\ ~(FollowsTooFar \/ EndsInSlash \/ BlindCwd \/ StickyMuddle
         \/ InterpreterNotAsked)
    => result = 0

(* The whole path, asked of the kernel. *)
WholeWalk == WalkFrom(fs, final_component.follow_symlink, Walker(initial_pathname))

(* A name is cut that the kernel finds too long: it would have said so.    *)
CutsAName == expected_errno # "ENAMETOOLONG" /\ WholeWalk.err = "ENAMETOOLONG"

(* The object a path of the walk denotes. *)
ObjectAt(path) == WalkFrom(fs, FALSE, Walker(path)).obj

(* Left alone, the function never meets its assertion.                      *)
LookupDirectoryIsNoLink == quiet => pc # "abort"

(* The rest of the path, asked of the kernel from the lookup directory,    *)
(* has the answer of the whole path; and the lookup directory is never a   *)
(* symbolic link, which the assertion would meet.                          *)
SameQuestion ==
    /\ LookupDirectoryIsNoLink
    /\ pc = "lookup" /\ quiet
       /\ ~(SomethingTrailsOff \/ BlindCwd \/ BlindRoot \/ CwdOutOfReach \/ CutsAName)
       => LET ahead == WalkFrom(fs, final_component.follow_symlink,
                          [Walker(DotPath) EXCEPT
                              !.dir = ObjectAt(lookup_directory),
                              !.rest = pp,
                              !.links = SubSeq(WholeWalk.links, 1,
                                               number_of_symlinks_followed)])
          IN  /\ ahead.err = WholeWalk.err
              /\ ahead.err = "found" => ahead.obj = WholeWalk.obj

(* The directory, or the object, named in the explanation is the one at    *)
(* which the kernel gave up (on the way to the file asked for, not to its  *)
(* interpreter).                                                           *)
BlamesTheRightObject ==
    over /\ quiet /\ result = 0 /\ errno \in explains[why]
    /\ final_component.follow_interpreter
    /\ ~(FollowsTooFar \/ CreatesThroughLink \/ CwdOutOfReach \/ LoopOfInterpreter)
    => /\ why \in {"no_such_directory_entry", "no_new_entry_permission",
                   "no_search_permission"}
          => ObjectAt(lookup_directory) = RequestWalk.dir
       /\ why = "not_a_subdirectory" /\ RequestWalk.err # "found"
          => ObjectAt(intermediate_path) = RequestWalk.dir
       /\ RequestWalk.err = "found" => ObjectAt(intermediate_path) = RequestWalk.obj

(* What is freed was allocated and not yet freed, and stays allocated      *)
(* until then; so for the list of the caller of a nested call.             *)
ListsAreLive ==
    /\ pc \notin {"begin", "return"} => list_blocks \subseteq heap
    /\ caller # NULL /\ caller.symlinks_so_far # NULL
       => {<<0, i>> : i \in 0 .. caller.number} \subseteq heap

(* Every block is freed, but for two ways out that forget some. *)
OnlyTwoLeaks ==
    over /\ heap # {}
    => why \in {"not_a_subdirectory", "dangling_symbolic_link"}

(* A nested call checks an interpreter and no interpreter of that: the     *)
(* "avoid infinite loops" of command_interpreter_broken.                   *)
NestsOnce == caller # NULL => ~final_component.follow_interpreter

(* No link is read twice, so the walk ends even if no link is counted. *)
EachLinkOnce ==
    symlinks_so_far # NULL => IsInjective(symlinks_so_far)

(* The list has room for the link about to be remembered. *)
ListHasRoom ==
    pc \in {"readlink", "target"} /\ symlinks_so_far # NULL
    => /\ number_of_symlinks_followed < SYMLOOP_MAX
       /\ Len(symlinks_so_far) = number_of_symlinks_followed
                                 + (IF pc = "target" THEN 1 ELSE 0)

(* The call returns (or aborts) while others change the tree. *)
Returns == <>(over \/ pc = "abort")

-----------------------------------------------------------------------------
(***************************************************************************)
(* What a comment says and the code does not do.                           *)
(***************************************************************************)

(* "The lookup directory is never a symbolic link.  We take care to ensure *)
(* it" -- but another process may put one where it was.                    *)
NeverAborts == pc # "abort"
=============================================================================
